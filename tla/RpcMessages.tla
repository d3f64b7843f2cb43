---------------------------- MODULE RpcMessages -----------------------------
(***************************************************************************)
(* The Reactive-RPC messages (src/common/messages/messages.ts) as the      *)
(* streaming client and the stream processor exchange them. A payload is a *)
(* number, 0 standing for undefined. The fields "of" and "by" are history: *)
(* the client call a message belongs to, and the server's execution that   *)
(* sent it, 0 for none. No handler reads them.                             *)
(***************************************************************************)
EXTENDS Naturals, CompleteObserver

CONSTANTS
  Call,         \* the calls users make: one member per execution of call$
  NoCall,       \* absence of a call
  Method,       \* method names
  NoMethod,     \* the empty method name ''
  MaxId         \* 0xffff in the code: ids are 1 .. MaxId - 1

ASSUME MessagesAssumption ==
  /\ NoCall \notin Call
  /\ NoMethod \notin Method
  /\ MaxId \in Nat /\ MaxId >= 2

Id == 1 .. (MaxId - 1)

RequestType == {"RequestData", "RequestComplete", "RequestError"}
ResponseType == {"ResponseData", "ResponseComplete", "ResponseError"}

ClientMessage ==
  [type: RequestType \cup {"ResponseUnsubscribe"}, id: Id,
   method: Method \cup {NoMethod}, val: Nat, of: Call \cup {NoCall}]

ServerMessage ==
  [type: ResponseType \cup {"RequestUnsubscribe"}, id: Id, val: Nat,
   of: Call \cup {NoCall}, by: Nat]
=============================================================================
