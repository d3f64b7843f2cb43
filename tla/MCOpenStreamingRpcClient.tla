---------------------- MODULE MCOpenStreamingRpcClient ----------------------
EXTENDS OpenStreamingRpcClient

(* Every kind of message, a completion with and without a value, alone and  *)
(* followed by another one for the same id, so that no microtask runs        *)
(* between the two.                                                          *)
SomeMessage(id) ==
  {[type |-> t, id |-> id, val |-> IF t = "ResponseData" THEN 1 ELSE NoValue, of |-> NoCall, by |-> 0] :
     t \in ResponseType \cup {"RequestUnsubscribe"}}
    \cup {[type |-> "ResponseComplete", id |-> id, val |-> 1, of |-> NoCall, by |-> 0]}

MCServerBatch ==
  {<<m>> : m \in UNION {SomeMessage(id) : id \in Id}}
    \cup UNION {{<<m1, m2>> : m1, m2 \in SomeMessage(id)} : id \in Id}
=============================================================================
