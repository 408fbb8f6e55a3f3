---------------------------- MODULE MCRepository ----------------------------
(* The model-checking instance of Repository: see repository.cfg. *)
EXTENDS Repository
=============================================================================
