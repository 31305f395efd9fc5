---------------------------- MODULE MCFrontendPoll ----------------------------
(***************************************************************************)
(* A small instance of FrontendPoll: the form is submitted up to twice.    *)
(* No symmetry: liveness is checked.                                       *)
(***************************************************************************)
EXTENDS FrontendPoll

=============================================================================
