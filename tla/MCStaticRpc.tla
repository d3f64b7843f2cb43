---------------------------- MODULE MCStaticRpc ----------------------------
(* Batches of two; the third call has the id of the first, in flight or not.*)
EXTENDS StaticRpc

MCClients == {[msg |-> "compact", req |-> "json", res |-> "cbor"],
              [msg |-> "jsonRpc2", req |-> "json", res |-> "json"]}
=============================================================================
