-------------------------- MODULE MCTelegramAlerts --------------------------
(***************************************************************************)
(* TelegramAlerts for TLC: one sender.                                     *)
(***************************************************************************)
EXTENDS TelegramAlerts
=============================================================================
