--------------------------- MODULE MCDeferredJoin ---------------------------
(* Instances of DeferredJoin for TLC; the .cfg files give the bounds. *)
EXTENDS DeferredJoin, TLC

(* Which identity a delegated task has is irrelevant; that two differ is not. *)
KeySymmetry == Permutations(Keys)
=============================================================================
