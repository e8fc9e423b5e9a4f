-------------------------- MODULE MCBindingHistory --------------------------
(***************************************************************************)
(* The instances of MCInstanceReconciler, with the history of the lists.   *)
(***************************************************************************)
EXTENDS BindingHistory, MCInstanceReconciler
=============================================================================
