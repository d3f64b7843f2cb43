--------------------------- MODULE RpcCallPromise ---------------------------
(***************************************************************************)
(* What a Reactive-RPC call promises its user, with no ids, messages,      *)
(* buffers or microtasks: the method produces values 1, 2, ... and ends;   *)
(* the user, from the moment it listens, gets consecutive values, each     *)
(* after it was produced, and is told of the end only when nothing it      *)
(* should have had is missing. Afterwards it hears nothing.                *)
(***************************************************************************)
EXTENDS Naturals

CONSTANTS Call

VARIABLES
  produced,   \* values the method of the call produced
  ending,     \* "open", "completed" or "errored": the response of the method
  last,       \* the last value delivered to the user, 0 for none yet
  told        \* "none" while the user may still hear something,
              \* "ended" or "left" afterwards

promiseVars == <<produced, ending, last, told>>

Init ==
  /\ produced = [c \in Call |-> 0]
  /\ ending = [c \in Call |-> "open"]
  /\ last = [c \in Call |-> 0]
  /\ told = [c \in Call |-> "none"]

(* The method produces a value and may end with it, or just ends.          *)
Produces(c) ==
  /\ ending[c] = "open"
  /\ produced' = [produced EXCEPT ![c] = @ + 1]
  /\ \E how \in {"open", "completed"} : ending' = [ending EXCEPT ![c] = how]
  /\ UNCHANGED <<last, told>>

Ends(c) ==
  /\ ending[c] = "open"
  /\ \E how \in {"completed", "errored"} : ending' = [ending EXCEPT ![c] = how]
  /\ UNCHANGED <<produced, last, told>>

(* The next value reaches the user; one that starts listening late starts  *)
(* with a later value. The last value may come with the completion, and a  *)
(* user that wanted one value leaves with it.                              *)
Delivers(c) ==
  /\ told[c] = "none"
  /\ \E v \in 1 .. produced[c] :
       /\ last[c] # 0 => v = last[c] + 1
       /\ last' = [last EXCEPT ![c] = v]
       /\ \/ told' = told
          \/ told' = [told EXCEPT ![c] = "left"]
          \/ /\ ending[c] = "completed" /\ v = produced[c]
             /\ told' = [told EXCEPT ![c] = "ended"]
  /\ UNCHANGED <<produced, ending>>

TellsEnd(c) ==
  /\ told[c] = "none"
  /\ ending[c] # "open"
  /\ last[c] \in {0, produced[c]}
  /\ told' = [told EXCEPT ![c] = "ended"]
  /\ UNCHANGED <<produced, ending, last>>

UserLeaves(c) ==
  /\ told[c] = "none"
  /\ told' = [told EXCEPT ![c] = "left"]
  /\ UNCHANGED <<produced, ending, last>>

Next == \E c \in Call : Produces(c) \/ Ends(c) \/ Delivers(c) \/ TellsEnd(c) \/ UserLeaves(c)

Spec == Init /\ [][Next]_promiseVars
=============================================================================
