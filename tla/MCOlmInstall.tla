---------------------------- MODULE MCOlmInstall ----------------------------
(* Instances of OlmInstall for TLC. *)
EXTENDS OlmInstall, TLC
=============================================================================
