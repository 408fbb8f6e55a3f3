----------------------------- MODULE MCLivePage -----------------------------
(* Model-checking instances of LivePage: see the .cfg files. *)
EXTENDS LivePage
=============================================================================
