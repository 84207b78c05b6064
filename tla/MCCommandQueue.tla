--------------------------- MODULE MCCommandQueue ---------------------------
(***************************************************************************)
(* CommandQueue for TLC: an Edge and a mailbox node, two commands, a TTL   *)
(* of one tick and no claim timeout, so that an open claim is reopened     *)
(* before it expires and a batch of one leaves the other command waiting.  *)
(***************************************************************************)
EXTENDS CommandQueue
=============================================================================
