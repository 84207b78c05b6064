-------------------------- MODULE MCMailboxPolicies --------------------------
(***************************************************************************)
(* MailboxPolicies for TLC.                                                *)
(***************************************************************************)
EXTENDS MailboxPolicies

CONSTANTS agent, alice, standard, organization

MCAnswer == UNION {[S -> [ok : BOOLEAN, policy : {standard, organization}]] : S \in SUBSET Mailbox}
=============================================================================
