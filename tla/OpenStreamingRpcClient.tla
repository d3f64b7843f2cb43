----------------------- MODULE OpenStreamingRpcClient -----------------------
(***************************************************************************)
(* The client against any server whatever: messages of every kind arrive   *)
(* for every id, in batches, with or without a call behind them. What      *)
(* holds here the client owes to nobody's good behaviour.                  *)
(***************************************************************************)
EXTENDS StreamingRpcClient

CONSTANTS
  ServerBatch,   \* the batches the server may send
  MaxResponses   \* bound: the server falls silent once a subscriber got that many

ASSUME ServerBatchAssumption ==
  /\ ServerBatch \subseteq Seq(ServerMessage)
  /\ MaxResponses \in Nat

openVars == <<clientVars, s2c>>

Init == ClientInit /\ s2c = <<>>

(* A batch is sent when the client is ready for it: sent earlier it would   *)
(* only wait longer.                                                        *)
ServerSends ==
  /\ s2c = <<>> /\ inbox = <<>> /\ microtasks = <<>> /\ EveryoneTold
  /\ \A c \in Call, k \in Subscriber : Len(user[c][k].got) < MaxResponses
  /\ \E batch \in ServerBatch : s2c' = <<batch>>
  /\ UNCHANGED clientVars

ServerTakes ==
  /\ c2s # <<>>
  /\ c2s' = Tail(c2s)
  /\ UNCHANGED <<nextId, calls, call, user, microtasks, inbox, stopped, buf, bufTimer, s2c>>

Next == ClientNext \/ ServerSends \/ ServerTakes

(* Bound: the server, to whom the client's messages mean nothing, takes     *)
(* them before it gets more.                                                *)
PromptServer == Len(c2s) <= 1

Spec == Init /\ [][Next]_openVars

TypeOK == ClientTypeOK /\ s2c \in Seq(Seq(ServerMessage))
=============================================================================
