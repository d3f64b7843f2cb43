------------------------ MODULE OpenStreamProcessor -------------------------
(***************************************************************************)
(* The stream processor against any client whatever: messages of every     *)
(* kind for every id, with and without a method name or a payload, in any  *)
(* order.                                                                  *)
(***************************************************************************)
EXTENDS RpcMessageStreamProcessor

CONSTANTS
  ClientBatch,   \* the batches the client may send
  MaxCalls,      \* bounds: the client falls silent once the server started
  MaxRequests    \* that many executions or gave one that many request values

ASSUME ClientBatchAssumption ==
  /\ ClientBatch \subseteq Seq(ClientMessage)
  /\ MaxCalls \in Nat /\ MaxRequests \in Nat

openVars == <<serverVars, c2s>>

Init == ServerInit /\ c2s = <<>>

ClientSends ==
  /\ c2s = <<>> /\ srvInbox = <<>> /\ srvMicrotasks = <<>>
  /\ Len(srvCalls) < MaxCalls
  /\ \A i \in DOMAIN srvCalls : Len(srvCalls[i].got) < MaxRequests
  /\ \E batch \in ClientBatch : c2s' = <<batch>>
  /\ UNCHANGED serverVars

ClientTakes ==
  /\ s2c # <<>>
  /\ s2c' = Tail(s2c)
  /\ UNCHANGED <<srvCalls, activeStreamCalls, srvMicrotasks, srvInbox, srvStopped,
                 srvBuf, srvTimer, c2s>>

Next == ServerNext \/ ClientSends \/ ClientTakes

(* Bound: the client, who sends without looking, takes the server's         *)
(* messages before it gets more.                                            *)
PromptClient == Len(s2c) <= 1

Spec == Init /\ [][Next]_openVars

TypeOK == ServerTypeOK /\ c2s \in Seq(Seq(ClientMessage))
=============================================================================
