---------------------------- MODULE MCDemoEngine ----------------------------
(* The model-checking instance of DemoEngine: see demo.cfg. *)
EXTENDS DemoEngine
=============================================================================
