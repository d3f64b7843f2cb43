----------------------------- MODULE CreateCall -----------------------------
(***************************************************************************)
(* RpcCaller.createCall for a streaming method: the request values go      *)
(* through validation into a BufferSubject, which keeps them while the     *)
(* pre-call check of the first one runs, replays them to the method when   *)
(* it is invoked, and is told by a microtask to keep no more. Failures of  *)
(* the request side end the response by way of error$.                     *)
(*                                                                         *)
(* The k-th accepted request value is k. The method subscribes to its      *)
(* requests when it is invoked and listens until its response is over.     *)
(***************************************************************************)
EXTENDS Naturals, Sequences

CONSTANTS
  bufferSize,   \* preCallBufferSize
  MaxValues     \* bound: accepted request values

ASSUME CreateCallAssumption == bufferSize \in Nat \ {0} /\ MaxValues \in Nat

VARIABLES
  hasPreCall,    \* the method has an onPreCall
  request,       \* req$: "open", "completed" or "errored"
  accepted,      \* values that requestBuffered$ has taken
  buffered,      \* requestBuffered$: "open", "completed" or why it failed
  buffer,        \* values it keeps
  isBuffering,
  flushPending,  \* the microtask that calls requestBuffered$.flush()
  phase,         \* the pipeline behind res$
  got, heard,    \* what the method has been sent, and the end it was told of
  res            \* res$: "open", "completed", "stopped" or why it failed

vars == <<hasPreCall, request, accepted, buffered, buffer, isBuffering, flushPending,
          phase, got, heard, res>>

RequestFailure == {"invalid", "overflow", "request failed"}
Phase == {"unsubscribed", "first", "preCall", "running", "over"}
Outcome == {"open", "completed", "stopped", "pre-call failed", "method failed"} \cup RequestFailure

Init ==
  /\ hasPreCall \in BOOLEAN
  /\ request = "open" /\ accepted = 0
  /\ buffered = "open" /\ buffer = <<>> /\ isBuffering = TRUE /\ flushPending = FALSE
  /\ phase = "unsubscribed" /\ got = <<>> /\ heard = "open" /\ res = "open"

(* Mutant: the buffer is replayed without its first value, which has been   *)
(* used for the pre-call check.                                             *)
InvokeWithTheRest(kept) ==
  /\ phase' = "running"
  /\ got' = Tail(kept)
  /\ heard' = buffered
  /\ flushPending' = TRUE

(* Mutant: the method subscribes to the live requests, without their end.   *)
InvokeWithoutEnd(kept) ==
  /\ phase' = "running"
  /\ got' = kept
  /\ heard' = "open"
  /\ flushPending' = TRUE

(* method.call$: the method subscribes to requestBuffered$, which replays   *)
(* the kept values and then its end; the flush is left to a microtask.      *)
Invoke(kept) ==
  /\ phase' = "running"
  /\ got' = kept
  /\ heard' = buffered
  /\ flushPending' = TRUE

(* take(1) has its value: the pre-call check, or the call at once.          *)
FirstValue(kept) ==
  \/ hasPreCall /\ phase' = "preCall" /\ UNCHANGED <<got, heard, flushPending>>
  \/ ~hasPreCall /\ Invoke(kept)

EndResponse(how) ==
  /\ phase' = "over"
  /\ res' = how

-----------------------------------------------------------------------------
(* The caller of createCall subscribes to res$: at once, or (call$) after   *)
(* the request source has been subscribed. Kept values are replayed first;  *)
(* an error that requestBuffered$ already had arrives by error$ after them. *)
Subscribe ==
  /\ phase = "unsubscribed"
  /\ \/ /\ buffered \in RequestFailure
        /\ EndResponse(buffered)
        /\ UNCHANGED <<got, heard>>
        /\ flushPending' = (buffer # <<>> /\ ~hasPreCall)
     \/ /\ buffered \notin RequestFailure /\ buffer # <<>>
        /\ FirstValue(buffer)
        /\ res' = res
     \/ /\ buffered = "open" /\ buffer = <<>>
        /\ phase' = "first"
        /\ UNCHANGED <<got, heard, flushPending, res>>
     \/ /\ buffered = "completed" /\ buffer = <<>>
        /\ phase' = "over"
        /\ UNCHANGED <<got, heard, flushPending, res>>
  /\ UNCHANGED <<hasPreCall, request, accepted, buffered, buffer, isBuffering>>

(* Mutant: a failure of the buffer does not reach error$.                   *)
BufferFailsQuietly(why) ==
  /\ buffered' = why
  /\ heard' = heard
  /\ UNCHANGED <<phase, res>>
  /\ UNCHANGED <<buffer, accepted, got, flushPending>>

(* requestBuffered$.error: the first to hear is the listener that passes    *)
(* it to error$ and so to res$, which tears the pipeline down; a running    *)
(* method hears it too.                                                     *)
BufferFails(why) ==
  /\ buffered' = why
  /\ heard' = IF phase = "running" THEN why ELSE heard
  /\ \/ phase \in {"first", "preCall", "running"} /\ EndResponse(why)
     \/ phase \in {"unsubscribed", "over"} /\ UNCHANGED <<phase, res>>
  /\ UNCHANGED <<buffer, accepted, got, flushPending>>

(* BufferSubject.next.                                                      *)
BufferTakes ==
  LET v == accepted + 1
      kept == IF isBuffering THEN Append(buffer, v) ELSE buffer
  IN  /\ accepted' = v
      /\ buffer' = kept
      /\ \/ phase = "first" /\ FirstValue(kept)
         \/ phase = "running" /\ got' = Append(got, v) /\ UNCHANGED <<phase, heard, flushPending>>
         \/ phase \notin {"first", "running"} /\ UNCHANGED <<phase, got, heard, flushPending>>
      /\ UNCHANGED <<buffered, res>>

Full == isBuffering /\ Len(buffer) >= bufferSize

(* req$.next of a value that passes validation. A failed requestBuffered$   *)
(* ignores it.                                                              *)
RequestNext ==
  /\ request = "open" /\ buffered = "open"
  /\ accepted < MaxValues
  /\ \/ Full /\ BufferFails("overflow")
     \/ ~Full /\ BufferTakes
  /\ UNCHANGED <<hasPreCall, request, isBuffering>>

RequestInvalid ==
  /\ request = "open" /\ buffered = "open"
  /\ BufferFails("invalid")
  /\ UNCHANGED <<hasPreCall, request, isBuffering>>

RequestError ==
  /\ request = "open"
  /\ request' = "errored"
  /\ \/ buffered = "open" /\ BufferFails("request failed")
     \/ buffered # "open"
          /\ UNCHANGED <<buffered, heard, phase, res, buffer, accepted, got, flushPending>>
  /\ UNCHANGED <<hasPreCall, isBuffering>>

(* With no first value yet, take(1) completes the pipeline, but error$ does *)
(* not: res$ stays open.                                                    *)
RequestComplete ==
  /\ request = "open"
  /\ request' = "completed"
  /\ buffered' = IF buffered = "open" THEN "completed" ELSE buffered
  /\ heard' = IF phase = "running" THEN buffered' ELSE heard
  /\ phase' = IF phase = "first" THEN "over" ELSE phase
  /\ UNCHANGED <<hasPreCall, res, buffer, accepted, got, isBuffering, flushPending>>

-----------------------------------------------------------------------------
PreCallPasses ==
  /\ phase = "preCall"
  /\ Invoke(buffer)
  /\ UNCHANGED <<hasPreCall, request, accepted, buffered, buffer, isBuffering, res>>

PreCallFails ==
  /\ phase = "preCall"
  /\ EndResponse("pre-call failed")
  /\ UNCHANGED <<hasPreCall, request, accepted, buffered, buffer, isBuffering, flushPending, got, heard>>

(* requestBuffered$.flush().                                                *)
Flush ==
  /\ flushPending
  /\ flushPending' = FALSE
  /\ isBuffering' = FALSE
  /\ buffer' = <<>>
  /\ UNCHANGED <<hasPreCall, request, accepted, buffered, phase, got, heard, res>>

(* The method's observable completes or fails: finalize completes error$    *)
(* and so the response.                                                     *)
MethodEnds ==
  /\ phase = "running"
  /\ \E how \in {"completed", "method failed"} : EndResponse(how)
  /\ UNCHANGED <<hasPreCall, request, accepted, buffered, buffer, isBuffering, flushPending, got, heard>>

(* stop$.next: takeUntil completes the response, also one that waits for    *)
(* error$ only.                                                             *)
Stop ==
  /\ phase # "unsubscribed" /\ res = "open"
  /\ EndResponse("stopped")
  /\ UNCHANGED <<hasPreCall, request, accepted, buffered, buffer, isBuffering, flushPending, got, heard>>

Next ==
  \/ Subscribe
  \/ RequestNext \/ RequestInvalid \/ RequestError \/ RequestComplete
  \/ PreCallPasses \/ PreCallFails \/ Flush \/ MethodEnds \/ Stop

Spec == Init /\ [][Next]_vars

-----------------------------------------------------------------------------
TypeOK ==
  /\ hasPreCall \in BOOLEAN
  /\ request \in {"open", "completed", "errored"}
  /\ accepted \in Nat
  /\ buffered \in {"open", "completed"} \cup RequestFailure
  /\ buffer \in Seq(Nat) /\ Len(buffer) <= bufferSize
  /\ isBuffering \in BOOLEAN /\ flushPending \in BOOLEAN
  /\ phase \in Phase
  /\ got \in Seq(Nat)
  /\ heard \in {"open", "completed"} \cup RequestFailure
  /\ res \in Outcome

(* A running method has been sent every accepted request value, in order    *)
(* and once: nothing falls between the replay of the buffer and the live    *)
(* values, whenever the flush comes.                                        *)
RequestsReachMethod ==
  phase = "running" => got = [k \in 1 .. accepted |-> k]

(* A running method knows how its requests ended, also when they ended      *)
(* before it was invoked.                                                   *)
EndReachesMethod == phase = "running" => heard = buffered

(* A failure on the request side has ended the response of a call that was  *)
(* not over, also when it happened before anyone subscribed.                *)
FailureEndsCall ==
  phase # "unsubscribed" /\ buffered \in RequestFailure => res # "open"
=============================================================================
