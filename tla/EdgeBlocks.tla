----------------------------- MODULE EdgeBlocks -----------------------------
(***************************************************************************)
(* Blocking, unblocking and trusting one public IP address: the admin      *)
(* pages and the country policy that queue commands, the central allowlist,*)
(* and the Edge agent with its local copy of the allowlist and the block   *)
(* list of Exchange.  The command table is the one of CommandService.      *)
(*                                                                         *)
(* An admin request or the scan reads the tables first and commits later,  *)
(* while the others go on.  Of each kind one request is on its way at a    *)
(* time; requests that read nothing they rely on are one step.  The status *)
(* of the Candidate row an approval comes from, and the durations and      *)
(* reasons of the blocks, are left out.                                    *)
(***************************************************************************)
EXTENDS CommandService

CONSTANTS
  Edge,          \* the node of the Edge agent (bootstrap_node_id)
  MaxRequests,   \* bound: requests between their reads and their commit
  MaxHandouts,   \* bound: how often one command is handed out
  MaxWork        \* bound: commands, those handed out more than once counted twice

Kind == {"BlockIp", "UnblockIp", "SyncAllowlist"}

ASSUME BlocksAssumption ==
  /\ Node = {Edge}
  /\ Answer = {"done"}
  /\ MaxRequests \in Nat /\ MaxHandouts \in Nat /\ MaxWork \in Nat

VARIABLES
  kind,          \* Command.command_type
  trusted,       \* is there an AllowlistEntry for the address?
  blockPassed,   \* a block request found the address not trusted
  scanPassed,    \* the country policy decided to block the address
  trusting,      \* a trust request: the entry and the pending BlockIp commands it has read
  edgeTrusted,   \* Edge: the address is in the local allowlist
  fetched,       \* Edge: the allowlist a SyncAllowlist has fetched and not yet stored
  blocked,       \* Exchange: the address is in the IP block list
  unread         \* history: an UnblockIp that could not read that list left it there

requestVars == <<kind, trusted, blockPassed, scanPassed, trusting>>
edgeVars    == <<edgeTrusted, fetched, blocked, unread>>
vars        == <<serviceVars, requestVars, edgeVars>>

TypeOK ==
  /\ ServiceTypeOK
  /\ kind \in [Command -> Kind]
  /\ trusted \in BOOLEAN
  /\ blockPassed \in BOOLEAN /\ scanPassed \in BOOLEAN
  /\ trusting \subseteq [entry : BOOLEAN, pending : SUBSET Command]
  /\ edgeTrusted \in BOOLEAN /\ fetched \subseteq BOOLEAN
  /\ blocked \in BOOLEAN /\ unread \in BOOLEAN

Init ==
  /\ ServiceInit
  /\ kind = [c \in Command |-> "BlockIp"]
  /\ trusted = FALSE
  /\ blockPassed = FALSE /\ scanPassed = FALSE /\ trusting = {}
  /\ edgeTrusted = FALSE /\ fetched = {}
  /\ blocked = FALSE /\ unread = FALSE

Rows      == {c \in Command : status[c] # "absent"}
OfKind(K) == {c \in Rows : kind[c] \in K}
Work      == Cardinality(Rows) + Cardinality({c \in Command : handouts[c] > 1})
Newest(S) == {c \in S : \A d \in S : d <= c}     \* at most one command

-----------------------------------------------------------------------------
(***************************************************************************)
(* Requests of the admin pages.  Only so many are on their way at a time.  *)
(***************************************************************************)
UnderWay == Cardinality(cancelling) + Cardinality(trusting)
              + (IF blockPassed THEN 1 ELSE 0) + (IF scanPassed THEN 1 ELSE 0)

Begins == UnderWay < MaxRequests

(***************************************************************************)
(* New commands get the kinds given.                                       *)
(***************************************************************************)
Queue(kinds, cancelled) ==
  /\ WriteRows([c \in DOMAIN kinds |-> Edge], cancelled)
  /\ kind' = [c \in Command |-> IF c \in DOMAIN kinds THEN kinds[c] ELSE kind[c]]
  /\ Work' <= MaxWork
  /\ UNCHANGED edgeVars

\* manual_block_ip and inbound_spoofing_block (which also declines when the
\* newest open command is a BlockIp): the allowlist check, then the commit.
BlockCheck ==
  /\ Begins
  /\ ~trusted
  /\ blockPassed' = TRUE
  /\ UNCHANGED <<serviceVars, kind, trusted, scanPassed, trusting, edgeVars>>

BlockCommit(c) ==
  /\ blockPassed
  /\ Queue([d \in {c} |-> "BlockIp"], {})
  /\ blockPassed' = FALSE
  /\ UNCHANGED <<trusted, scanPassed, trusting>>

\* candidate_approve: no look at the allowlist.
ApproveCandidate(c) ==
  /\ Queue([d \in {c} |-> "BlockIp"], {})
  /\ UNCHANGED <<trusted, blockPassed, scanPassed, trusting>>

\* manual_unblock_ip and inbound_spoofing_unblock.
Unblock(c) ==
  /\ Queue([d \in {c} |-> "UnblockIp"], {})
  /\ UNCHANGED <<trusted, blockPassed, scanPassed, trusting>>

\* allowlist_add, and allowlist_delete or inbound_spoofing_untrust.
ChangeAllowlistNoSync(c) ==
  /\ Queue([d \in {} |-> "SyncAllowlist"], {})
  /\ trusted' = ~trusted
  /\ UNCHANGED <<blockPassed, scanPassed, trusting>>

ChangeAllowlist(c) ==
  /\ Queue([d \in {c} |-> "SyncAllowlist"], {})
  /\ trusted' = ~trusted
  /\ UNCHANGED <<blockPassed, scanPassed, trusting>>

\* inbound_spoofing_trust reads the entry and the pending blocks; it adds an entry if
\* it found none, cancels those blocks and queues a SyncAllowlist and an UnblockIp.
TrustCheck ==
  /\ Begins
  /\ trusting = {}
  /\ trusting' = {[entry |-> trusted, pending |-> OfKind({"BlockIp"}) \cap WithStatus({"pending"})]}
  /\ UNCHANGED <<serviceVars, kind, trusted, blockPassed, scanPassed, edgeVars>>

TrustCommit(c) ==
  /\ c + 1 \in Command
  /\ \E t \in trusting :
       /\ t.entry \/ ~trusted
       /\ Queue([d \in {c, c + 1} |-> IF d = c THEN "SyncAllowlist" ELSE "UnblockIp"], t.pending)
       /\ trusted' = (trusted \/ ~t.entry)
  /\ trusting' = {}
  /\ UNCHANGED <<blockPassed, scanPassed>>

\* Another request added the entry in between: the flush hits the unique constraint.
TrustFails ==
  /\ \E t \in trusting : ~t.entry /\ trusted
  /\ trusting' = {}
  /\ UNCHANGED <<serviceVars, kind, trusted, blockPassed, scanPassed, edgeVars>>

(***************************************************************************)
(* _queue_country_policy_blocks, of a source outside the allowed countries *)
(* with accepted messages.  An address is left alone while its newest      *)
(* command is open; how long a finished BlockIp still counts (its duration *)
(* when it succeeded, an hour when it failed) is not kept: it may be over. *)
(* Nor is the newest Snapshot, which may or may not show the block.        *)
(***************************************************************************)
ScanRead ==
  /\ Begins
  /\ ~scanPassed
  /\ ~trusted
  /\ Newest(OfKind({"BlockIp", "UnblockIp"})) \cap WithStatus(OpenStatus) = {}
  /\ scanPassed' = TRUE
  /\ UNCHANGED <<serviceVars, kind, trusted, blockPassed, trusting, edgeVars>>

ScanCommit(c) ==
  /\ scanPassed
  /\ Queue([d \in {c} |-> "BlockIp"], {})
  /\ scanPassed' = FALSE
  /\ UNCHANGED <<trusted, blockPassed, trusting>>

Cancel(c) ==
  /\ (Begins /\ CancelCheck(c)) \/ CancelCommit(c)
  /\ UNCHANGED <<requestVars, edgeVars>>

-----------------------------------------------------------------------------
(***************************************************************************)
(* The Edge agent.  Execute-Command runs the current command; an execution *)
(* has an effect and posts a result unless it is killed on the way.        *)
(***************************************************************************)
Working(k) ==
  /\ batch[Edge] # {} /\ Edge \notin waiting
  /\ kind[Current(Edge)] = k

Succeeds == RunCommand(Edge, TRUE, "done")
Fails    == RunCommand(Edge, FALSE, "done")

\* Assert-NotAllowlisted, then Add-IPBlockListEntry.
BlockIpUnchecked ==
  /\ Working("BlockIp")
  /\ \/ blocked' = TRUE /\ (Succeeds \/ AbortRun(Edge))
     \/ UNCHANGED blocked /\ Fails
  /\ UNCHANGED <<edgeTrusted, fetched, unread>>

BlockIp ==
  /\ Working("BlockIp")
  /\ \/ ~edgeTrusted /\ blocked' = TRUE /\ (Succeeds \/ AbortRun(Edge))
     \/ UNCHANGED blocked /\ Fails
  /\ UNCHANGED <<edgeTrusted, fetched, unread>>

\* Every entry of the address is removed; when the list cannot be read nothing is,
\* and the command succeeds all the same (-ErrorAction SilentlyContinue).
UnblockIp ==
  /\ Working("UnblockIp")
  /\ \/ blocked' = FALSE /\ unread' = FALSE /\ (Succeeds \/ AbortRun(Edge))
     \/ UNCHANGED blocked /\ unread' = blocked /\ Succeeds
     \/ blocked' \in {blocked, FALSE} /\ unread' = (unread /\ blocked') /\ Fails
  /\ UNCHANGED <<edgeTrusted, fetched>>

\* Sync-Allowlist: GET /api/agent/v1/allowlist, then the local file is replaced.
FetchAllowlist ==
  /\ Working("SyncAllowlist") /\ fetched = {}
  /\ fetched' = {trusted}
  /\ UNCHANGED <<serviceVars, edgeTrusted, blocked, unread>>

StoreAllowlist ==
  /\ Working("SyncAllowlist") /\ fetched # {}
  /\ \/ edgeTrusted' \in fetched /\ (Succeeds \/ AbortRun(Edge))
     \/ UNCHANGED edgeTrusted /\ Fails
  /\ fetched' = {}
  /\ UNCHANGED <<blocked, unread>>

SyncFails ==
  /\ Working("SyncAllowlist") /\ fetched = {}
  /\ Fails
  /\ UNCHANGED edgeVars

EdgeAgent ==
  /\ BlockIp \/ UnblockIp \/ FetchAllowlist \/ StoreAllowlist \/ SyncFails
  /\ UNCHANGED requestVars

RunEnds ==
  /\ AbortRun(Edge)
  /\ fetched' = {}
  /\ UNCHANGED <<requestVars, edgeTrusted, blocked, unread>>

\* Exchange drops an entry at its ExpirationTime.
BlockExpires ==
  /\ blocked
  /\ blocked' = FALSE /\ unread' = FALSE
  /\ UNCHANGED <<serviceVars, requestVars, edgeTrusted, fetched>>

AgentPolls ==
  /\ batch[Edge] = {}
  /\ ServicePoll(Edge)
  /\ Work' <= MaxWork
  /\ \A c \in Command : handouts'[c] <= MaxHandouts
  /\ \A c \in Command : status[c] = "claimed" /\ status'[c] = "pending"
                          => handouts[c] < MaxHandouts /\ Work < MaxWork
  /\ UNCHANGED <<requestVars, edgeVars>>

\* A result that is lost is one that never arrives.
ReceiveResult(r, answered) ==
  /\ DeliverResult(r, answered)
  /\ UNCHANGED <<requestVars, edgeVars>>

Request(c) ==
  BlockCommit(c) \/ ApproveCandidate(c) \/ Unblock(c) \/ ChangeAllowlist(c) \/ TrustCommit(c)
    \/ ScanCommit(c) \/ Cancel(c)

Next ==
  \/ BlockCheck \/ TrustCheck \/ TrustFails \/ ScanRead
  \/ \E c \in Command : Request(c)
  \/ EdgeAgent \/ RunEnds \/ BlockExpires
  \/ AgentPolls
  \/ \E r \in results, answered \in BOOLEAN : ReceiveResult(r, answered)

Spec == Init /\ [][Next]_vars

-----------------------------------------------------------------------------
Done(S)       == \A c \in S : status[c] = "succeeded"

(***************************************************************************)
(* When the newest SyncAllowlist has succeeded the Edge agent has the      *)
(* central allowlist: every change of it queues a sync of its own, and a   *)
(* sync that fetched before the change, ran twice or reported late does    *)
(* not leave an old list behind.                                           *)
(***************************************************************************)
EdgeFollowsAllowlist ==
  Rows # {} /\ Done(Newest(OfKind({"SyncAllowlist"}))) => edgeTrusted = trusted

(***************************************************************************)
(* When the block list could be read, an address whose newest block or     *)
(* unblock is an UnblockIp that succeeded is not blocked: blocks that were *)
(* queued, claimed or executing when it was asked for do not come after    *)
(* it.  Except for a block that had to be handed out a second time.        *)
(***************************************************************************)
UnblockHolds ==
  \A c \in Newest(OfKind({"BlockIp", "UnblockIp"})) :
    /\ kind[c] = "UnblockIp" /\ status[c] = "succeeded" /\ ~unread
    /\ \A b \in OfKind({"BlockIp"}) : handouts[b] <= 1
    => ~blocked

(***************************************************************************)
(* "Trust & unblock" is "a permanent exception" (templates/spoofing.html): *)
(* once its sync and its unblock have succeeded a trusted address stays    *)
(* unblocked, whatever blocks the policy or an administrator had already   *)
(* under way or queue later, and however often they are handed out.  The   *)
(* sync itself must not have been: its first run may come before the       *)
(* unblock and its success after a block.                                  *)
(***************************************************************************)
TrustHolds ==
  \A s \in Newest(OfKind({"SyncAllowlist"})), u \in OfKind({"UnblockIp"}) :
    /\ trusted /\ s < u
    /\ status[s] = "succeeded" /\ status[u] = "succeeded"
    /\ handouts[s] <= 1 /\ ~unread
    => ~blocked

(***************************************************************************)
(* "trusted IPs [...] are never auto-blocked" (docs/CONFIGURATION.md:93):  *)
(* the policy commits no block for an address that is trusted.  Its scan   *)
(* reads the allowlist before it commits.                                  *)
(***************************************************************************)
AutoBlockRespectsTrust ==
  [][scanPassed /\ ~scanPassed' => ~trusted]_vars

=============================================================================
