---------------------------- MODULE StreamReplay ----------------------------
(***************************************************************************)
(* What subscribeCompleteObserver promises, without counters or            *)
(* microtasks: the observer gets the values of the source one by one in    *)
(* order and then how the source ended. The last value of a completed      *)
(* source may come in the same callback as the completion.                 *)
(***************************************************************************)
EXTENDS Naturals

CONSTANTS MaxEmitted

VARIABLES source, emitted, received, outcome

replayVars == <<source, emitted, received, outcome>>

Init ==
  /\ source = "open" /\ emitted = 0
  /\ received = 0 /\ outcome = "none"

SourceEmits ==
  /\ source = "open" /\ emitted < MaxEmitted
  /\ emitted' = emitted + 1
  /\ UNCHANGED <<source, received, outcome>>

(* The source ends; an observer that is up to date learns it at once.      *)
SourceEnds(how) ==
  /\ source = "open"
  /\ source' = how
  /\ outcome' = IF received = emitted THEN how ELSE outcome
  /\ UNCHANGED <<emitted, received>>

ValueReceived ==
  /\ outcome = "none"
  /\ received < emitted
  /\ received' = received + 1
  /\ \/ outcome' = outcome
     \/ received' = emitted /\ source = "completed" /\ outcome' = source
  /\ UNCHANGED <<source, emitted>>

EndReceived ==
  /\ source # "open" /\ outcome = "none"
  /\ received = emitted
  /\ outcome' = source
  /\ UNCHANGED <<source, emitted, received>>

Next ==
  \/ SourceEmits
  \/ \E how \in {"completed", "errored"} : SourceEnds(how)
  \/ ValueReceived
  \/ EndReceived

Spec == Init /\ [][Next]_replayVars
=============================================================================
