----------------------- MODULE MCOpenStreamProcessor ------------------------
EXTENDS OpenStreamProcessor

(* Every kind of message, with and without a method name and a payload,      *)
(* alone and followed by another one for the same id.                        *)
SomeMessage(id) ==
  [type: RequestType, id: {id}, method: Method \cup {NoMethod}, val: {0, 1}, of: {NoCall}]
    \cup [type: {"ResponseUnsubscribe"}, id: {id}, method: {NoMethod}, val: {0}, of: {NoCall}]

MCClientBatch ==
  {<<m>> : m \in UNION {SomeMessage(id) : id \in Id}}
    \cup UNION {{<<m1, m2>> : m1, m2 \in SomeMessage(id)} : id \in Id}
=============================================================================
