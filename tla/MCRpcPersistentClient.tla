------------------------ MODULE MCRpcPersistentClient ------------------------
(* Two users and three connections: a batch may be late twice.              *)
EXTENDS RpcPersistentClient
=============================================================================
