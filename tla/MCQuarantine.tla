---------------------------- MODULE MCQuarantine ----------------------------
(***************************************************************************)
(* Quarantine for TLC: one mailbox, enough commands for a quarantine and   *)
(* its release (and for a second incident where a run asks for it).        *)
(***************************************************************************)
EXTENDS Quarantine
=============================================================================
