---------------------------- MODULE MCAddonImages ----------------------------
(* Instances of AddonImages for TLC. *)
EXTENDS AddonImages, TLC
==============================================================================
