------------------------- MODULE MCCompleteObserver -------------------------
(* subscribeCompleteObserver with up to six values, checked against what it  *)
(* promises.                                                                 *)
EXTENDS CompleteObserverStream
=============================================================================
