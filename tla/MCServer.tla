------------------------------ MODULE MCServer ------------------------------
(* Server for model checking: every constant is a number or a Boolean set  *)
(* in the configuration file.                                              *)
EXTENDS Server
=============================================================================
