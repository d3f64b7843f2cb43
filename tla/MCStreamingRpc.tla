--------------------------- MODULE MCStreamingRpc ---------------------------
(* Model-checking instances of the composed client and server.              *)
EXTENDS StreamingRpc

(* The server's view of a call, for the refinement mapping. A call has at    *)
(* most one execution (MethodRunsOnce).                                      *)
Execution(c) == CHOOSE i \in Executions(c) : TRUE

ProducedBy(c) == IF Executions(c) = {} THEN 0 ELSE srvCalls[Execution(c)].emitted

EndingOf(c) == IF Executions(c) = {} THEN "open" ELSE srvCalls[Execution(c)].res

LastGot(u) == IF u.got = <<>> THEN 0 ELSE u.got[Len(u.got)].val

(* Who is completed because another subscriber left, has left.               *)
ToldTo(c, u) ==
  CASE u.outcome = "none" -> "none"
    [] u.outcome \in {"unsubscribed", "resolved"} -> "left"
    [] OTHER -> IF call[c].res = "left" THEN "left" ELSE "ended"

(* The promise to the k-th subscriber of every call.                         *)
Promise(k) == INSTANCE RpcCallPromise
                WITH produced <- [c \in Call |-> ProducedBy(c)],
                     ending <- [c \in Call |-> EndingOf(c)],
                     last <- [c \in Call |-> LastGot(user[c][k])],
                     told <- [c \in Call |-> ToldTo(c, user[c][k])]

(* Client, network and server together keep the promise of a call to each of *)
(* its subscribers: values in order without gap or repetition, the end last, *)
(* silence afterwards. (Promise(k)!Spec for every k, as one formula.)        *)
KeepsPromise ==
  /\ \A k \in Client!Subscriber : Promise(k)!Init
  /\ [][\A k \in Client!Subscriber : [Promise(k)!Next]_(Promise(k)!promiseVars)]_vars
=============================================================================
