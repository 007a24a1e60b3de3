---------------------------- MODULE MCAutomations ----------------------------
(* Automations by themselves, for TLC. *)
EXTENDS Automations
=============================================================================
