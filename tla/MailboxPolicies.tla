--------------------------- MODULE MailboxPolicies ---------------------------
(***************************************************************************)
(* The mailbox inventory and the throttling policies: the pages that ask   *)
(* for an assignment, the rows that show what is assigned, and the mailbox *)
(* agent that changes Exchange and reports what it finds there.  The       *)
(* command table is the one of CommandService.                             *)
(*                                                                         *)
(* A name, address or limit only matters as the thing it identifies.  Left *)
(* out: previous_policy, which nothing reads, the other columns copied     *)
(* from the inventory, and the scope of a policy, whose checks end in a    *)
(* refused request or a failed item.  The agent reads the mailboxes and    *)
(* the policies of one inventory in one step, and changes a mailbox and    *)
(* reads it back in one.                                                   *)
(***************************************************************************)
EXTENDS CommandService, Functions

CONSTANTS
  Agent,         \* the node of the mailbox agent (mailbox_node_id)
  Mailbox,       \* primary SMTP addresses
  Policy,        \* names of throttling policies
  Default,       \* no policy of its own: the organization default
  BatchLimit,    \* mailboxes per SetMailboxPolicies
  EveryRun,      \* SyncInventoryEveryRun of the agent's configuration
  MaxRequests,   \* bound: requests between their reads and their commit
  MaxHandouts,   \* bound: how often one command is handed out
  MaxInventories,\* bound: inventories on their way
  MaxWork        \* bound: commands, second hand-outs and changes made by hand in all

Assignment == Policy \cup {Default}
Outcome    == [ok : BOOLEAN, policy : Assignment]     \* one row of a result

ASSUME PoliciesAssumption ==
  /\ Node = {Agent}
  /\ Answer = UNION {[S -> Outcome] : S \in SUBSET Mailbox}
  /\ Default \notin Policy
  /\ BatchLimit \in Nat \ {0}
  /\ EveryRun \in BOOLEAN
  /\ MaxRequests \in Nat /\ MaxHandouts \in Nat /\ MaxInventories \in Nat /\ MaxWork \in Nat

NoRows  == [m \in {} |-> [ok |-> FALSE, policy |-> Default]]
Kind    == {"SetMailboxPolicies", "SyncMailboxInventory", "UpsertThrottlingPolicy"}
Request == [kind : Kind, boxes : SUBSET Mailbox, policy : Assignment]

\* A MailboxRecord; known: it has a row, asked: it has a last_command_id.
Row == [known : BOOLEAN, active : BOOLEAN, asked : BOOLEAN, error : BOOLEAN,
        current : Assignment, desired : Assignment]

\* What a mailbox_policy_apply has read of a row and compares when it writes it.
Read == [error : BOOLEAN, desired : Assignment]

\* What the agent posts: the mailboxes it found with their policy, and the policies.
Inventory == [boxes : SUBSET Mailbox, assigned : [Mailbox -> Assignment], policies : SUBSET Policy]

VARIABLES
  request,      \* command_type and payload of each command
  row,          \* mailbox_records
  listed,       \* throttling_policy_records that are active
  applying,     \* a mailbox_policy_apply between its reads and its commit
  inventories,  \* inventories sent and not yet handled
  sent,         \* Agent: the inventory whose post it waits for
  mailboxes,    \* Exchange: the mailboxes that exist
  assigned,     \* Exchange: the policy of each mailbox
  policies,     \* Exchange: the throttling policies that exist
  outside,      \* history: how many changes were made by hand
  unsaid,       \* history: mailboxes that changed without a result that says so
  late,         \* history: a post the agent no longer waited for was handled
  cleared       \* history: mailboxes whose failure an inventory took off the page

pageVars     == <<request, row, listed, applying, cleared>>
exchangeVars == <<mailboxes, assigned, policies, outside, unsaid>>
postVars     == <<inventories, sent, late>>
vars         == <<serviceVars, pageVars, exchangeVars, postVars>>

TypeOK ==
  /\ ServiceTypeOK
  /\ request \in [Command -> Request]
  /\ row \in [Mailbox -> Row]
  /\ listed \subseteq Policy
  /\ applying \subseteq [policy : Assignment, read : UNION {[S -> Read] : S \in SUBSET Mailbox}]
  /\ inventories \subseteq Inventory /\ sent \subseteq Inventory
  /\ mailboxes \subseteq Mailbox
  /\ assigned \in [Mailbox -> Assignment]
  /\ policies \subseteq Policy
  /\ outside \in Nat /\ unsaid \subseteq Mailbox
  /\ late \in BOOLEAN /\ cleared \subseteq Mailbox

Work == Cardinality({c \in Command : status[c] # "absent"}) + outside
          + Cardinality({c \in Command : handouts[c] > 1})

NoRow == [known |-> FALSE, active |-> FALSE, asked |-> FALSE, error |-> FALSE,
          current |-> Default, desired |-> Default]

Init ==
  /\ ServiceInit
  /\ request = [c \in Command |->
                  [kind |-> "SyncMailboxInventory", boxes |-> {}, policy |-> Default]]
  /\ row = [m \in Mailbox |-> NoRow]
  /\ listed = {} /\ applying = {}
  /\ inventories = {} /\ sent = {}
  /\ mailboxes = Mailbox /\ policies = Policy
  /\ assigned = [m \in Mailbox |-> Default]     \* bound: no policy assigned yet
  /\ outside = 0 /\ unsaid = {} /\ late = FALSE /\ cleared = {}

-----------------------------------------------------------------------------
(***************************************************************************)
(* The pages.  asks maps each new command to what it asks for.             *)
(***************************************************************************)
Queue(asks) ==
  /\ QueueRows([c \in DOMAIN asks |-> Agent])
  /\ request' = [c \in Command |-> IF c \in DOMAIN asks THEN asks[c] ELSE request[c]]
  /\ UNCHANGED <<listed, cleared, exchangeVars, postVars>>
  /\ Work' <= MaxWork

\* mailbox_sync.
AskInventory(c) ==
  /\ Queue([d \in {c} |-> [kind |-> "SyncMailboxInventory", boxes |-> {}, policy |-> Default]])
  /\ UNCHANGED <<row, applying>>

\* throttling_policy_upsert.
AskUpsert(c, p) ==
  /\ Queue([d \in {c} |-> [kind |-> "UpsertThrottlingPolicy", boxes |-> {}, policy |-> p]])
  /\ UNCHANGED <<row, applying>>

Begins == Cardinality(cancelling) + Cardinality(applying) < MaxRequests

ReadOf(m) == [error |-> row[m].error, desired |-> row[m].desired]

\* mailbox_policy_apply reads the policy and the mailboxes, selected or filtered: any
\* active ones.
ApplyRead(boxes, p) ==
  /\ Begins /\ applying = {}
  /\ p = Default \/ p \in listed
  /\ boxes # {} /\ \A m \in boxes : row[m].active
  /\ applying' = {[policy |-> p, read |-> [m \in boxes |-> ReadOf(m)]]}
  /\ UNCHANGED <<serviceVars, request, row, listed, cleared, exchangeVars, postVars>>

(***************************************************************************)
(* Then it queues one command per batch, all but the last one full, and    *)
(* marks the rows.  A column that already had the new value when the row   *)
(* was read is not written.                                                *)
(***************************************************************************)
Batches(boxes, first) ==
  LET last == first + (Cardinality(boxes) - 1) \div BatchLimit IN
  {cut \in [boxes -> first..last] :
     \A c \in first..last :
       LET size == Cardinality({m \in boxes : cut[m] = c}) IN
       size > 0 /\ size <= BatchLimit /\ (c < last => size = BatchLimit)}

Marked(m, p, read) ==
  [row[m] EXCEPT !.asked   = TRUE,
                 !.desired = IF read.desired = p THEN @ ELSE p,
                 !.error   = IF read.error THEN FALSE ELSE @]

ApplyCommit(first) ==
  \E a \in applying : LET boxes == DOMAIN a.read IN \E cut \in Batches(boxes, first) :
    /\ Range(cut) \subseteq Command
    /\ Queue([c \in Range(cut) |-> [kind |-> "SetMailboxPolicies",
                                    boxes |-> {m \in boxes : cut[m] = c}, policy |-> a.policy]])
    /\ row' = [m \in Mailbox |-> IF m \in boxes THEN Marked(m, a.policy, a.read[m]) ELSE row[m]]
    /\ applying' = {}

Cancel(c) ==
  /\ (Begins /\ CancelCheck(c)) \/ CancelCommit(c)
  /\ UNCHANGED <<pageVars, exchangeVars, postVars>>

-----------------------------------------------------------------------------
(***************************************************************************)
(* The mailbox agent.  A run polls, works through its batch and then, when *)
(* it is configured to, posts an inventory.                                *)
(***************************************************************************)
AgentPolls ==
  /\ batch[Agent] = {} /\ sent = {}
  /\ ServicePoll(Agent)
  /\ \A c \in Command : handouts'[c] <= MaxHandouts
  /\ \A c \in Command : status[c] = "claimed" /\ status'[c] = "pending"
                          => handouts[c] < MaxHandouts /\ Work < MaxWork
  /\ UNCHANGED <<pageVars, exchangeVars, postVars>>
  /\ Work' <= MaxWork

Working(k) ==
  /\ batch[Agent] # {} /\ Agent \notin waiting
  /\ request[Current(Agent)].kind = k

(***************************************************************************)
(* Set-MailboxPolicyBatch.  An item is changed and read back, or fails,    *)
(* before or after its change; the command succeeds whatever its items do. *)
(* A run that dies leaves some items changed.                              *)
(***************************************************************************)
Assignable(m, p) == m \in mailboxes /\ (p = Default \/ p \in policies)

SetPolicies ==
  LET r == request[Current(Agent)] IN
  /\ Working("SetMailboxPolicies")
  /\ \E changed \in SUBSET {m \in r.boxes : Assignable(m, r.policy)} :
       /\ assigned' = [m \in Mailbox |-> IF m \in changed THEN r.policy ELSE assigned[m]]
       /\ \/ \E good \in SUBSET changed :
               /\ RunCommand(Agent, TRUE, [m \in r.boxes |-> [ok |-> m \in good, policy |-> r.policy]])
               /\ unsaid' = unsaid \cup (changed \ good)
          \/ /\ AbortRun(Agent)
             /\ unsaid' = unsaid \cup changed
  /\ UNCHANGED <<pageVars, mailboxes, policies, outside, postVars>>

\* Upsert-ThrottlingPolicy.
UpsertPolicy ==
  LET p == request[Current(Agent)].policy IN
  /\ Working("UpsertThrottlingPolicy")
  /\ policies' \in {policies, policies \cup {p}}
  /\ \/ p \in policies' /\ RunCommand(Agent, TRUE, NoRows)
     \/ RunCommand(Agent, FALSE, NoRows)
     \/ AbortRun(Agent)
  /\ UNCHANGED <<pageVars, mailboxes, assigned, outside, unsaid, postVars>>

\* A command that throws before it changes anything: no session, no answer to its post.
CommandFails ==
  /\ \E k \in Kind : Working(k)
  /\ RunCommand(Agent, FALSE, NoRows)
  /\ sent' = {}
  /\ UNCHANGED <<pageVars, exchangeVars, inventories, late>>

\* Send-MailboxInventory, for a command or at the end of a run.
SendInventory ==
  LET i == [boxes |-> mailboxes, assigned |-> assigned, policies |-> policies] IN
  /\ sent = {}
  /\ Working("SyncMailboxInventory") \/ (EveryRun /\ batch[Agent] = {})
  /\ inventories' = inventories \cup {i}
  /\ Cardinality(inventories') <= MaxInventories
  /\ sent' = {i}
  /\ UNCHANGED <<serviceVars, pageVars, exchangeVars, late>>

\* The post was answered.
InventorySynced ==
  /\ sent # {} /\ sent \cap inventories = {}
  /\ Working("SyncMailboxInventory")
  /\ RunCommand(Agent, TRUE, NoRows)
  /\ sent' = {}
  /\ UNCHANGED <<pageVars, exchangeVars, inventories, late>>

\* A run ends, done or not; its posts may still be on their way.
RunEnds ==
  /\ IF batch[Agent] = {} THEN sent # {} /\ UNCHANGED serviceVars ELSE AbortRun(Agent)
  /\ sent' = {}
  /\ UNCHANGED <<pageVars, exchangeVars, inventories, late>>

-----------------------------------------------------------------------------
(***************************************************************************)
(* agent_mailbox_snapshot, of the post the agent waits for or of a late    *)
(* one.                                                                    *)
(***************************************************************************)
SeenWhenNew(m, i) ==
  IF row[m].known THEN [row[m] EXCEPT !.active = TRUE]
  ELSE [row[m] EXCEPT !.known = TRUE, !.active = TRUE, !.current = i.assigned[m]]

Seen(m, i) ==
  LET new == [row[m] EXCEPT !.known = TRUE, !.active = TRUE, !.current = i.assigned[m]] IN
  IF new.desired = new.current THEN [new EXCEPT !.error = FALSE] ELSE new

ReceiveInventory(i) ==
  /\ i \in inventories
  /\ inventories' = inventories \ {i}
  /\ row' = [m \in Mailbox |-> IF m \in i.boxes THEN Seen(m, i) ELSE [row[m] EXCEPT !.active = FALSE]]
  /\ listed' = i.policies
  /\ late' = (late \/ i \notin sent)
  /\ cleared' = cleared \cup {m \in Mailbox : row[m].error /\ ~row'[m].error}
  /\ UNCHANGED <<serviceVars, request, applying, exchangeVars, sent>>

\* A post that is lost.
LoseInventory(i) ==
  /\ i \in inventories
  /\ inventories' = inventories \ {i}
  /\ sent' = sent \ {i}
  /\ UNCHANGED <<serviceVars, pageVars, exchangeVars, late>>

(***************************************************************************)
(* agent_command_result of a SetMailboxPolicies: its rows, or a failure of *)
(* all its mailboxes when it failed without any.  A result that is lost is *)
(* one that never arrives.                                                 *)
(***************************************************************************)
ReportedBlindly(m, r) ==
  IF m \in DOMAIN r.answer
    THEN [row[m] EXCEPT !.asked = TRUE, !.error = FALSE,
                        !.current = r.answer[m].policy, !.desired = r.answer[m].policy]
    ELSE IF DOMAIN r.answer = {} /\ ~r.ok /\ m \in request[r.cmd].boxes
           THEN [row[m] EXCEPT !.asked = TRUE, !.error = TRUE]
           ELSE row[m]

ReportedRowsOnly(m, r) ==
  IF m \in DOMAIN r.answer
    THEN LET o == r.answer[m] IN
         IF o.ok THEN [row[m] EXCEPT !.asked = TRUE, !.error = FALSE, !.current = o.policy, !.desired = o.policy]
                 ELSE [row[m] EXCEPT !.asked = TRUE, !.error = TRUE]
    ELSE row[m]

Reported(m, r) ==
  IF m \in DOMAIN r.answer
    THEN LET o == r.answer[m] IN
         IF o.ok THEN [row[m] EXCEPT !.asked = TRUE, !.error = FALSE, !.current = o.policy, !.desired = o.policy]
                 ELSE [row[m] EXCEPT !.asked = TRUE, !.error = TRUE]
    ELSE IF DOMAIN r.answer = {} /\ ~r.ok /\ m \in request[r.cmd].boxes
           THEN [row[m] EXCEPT !.asked = TRUE, !.error = TRUE]
           ELSE row[m]

ReceiveResult(r, answered) ==
  /\ DeliverResult(r, answered)
  /\ row' = [m \in Mailbox |-> Reported(m, r)]
  /\ late' = (late \/ ~AwaitedBy(Agent, r))
  /\ UNCHANGED <<request, listed, applying, cleared, exchangeVars, inventories, sent>>

-----------------------------------------------------------------------------
(***************************************************************************)
(* What administrators do in Exchange itself.                              *)
(***************************************************************************)
ChangedByHand ==
  /\ outside' = outside + 1
  /\ \/ \E m \in mailboxes, p \in policies \cup {Default} :
          /\ assigned' = [assigned EXCEPT ![m] = p]
          /\ unsaid' = unsaid \cup {m}
          /\ UNCHANGED <<mailboxes, policies>>
     \/ \E m \in Mailbox :
          /\ mailboxes' = (mailboxes \ {m}) \cup ({m} \ mailboxes)
          /\ assigned' = [assigned EXCEPT ![m] = Default]
          /\ unsaid' = unsaid \cup {m}
          /\ UNCHANGED policies
     \/ \E p \in policies :
          /\ \A m \in mailboxes : assigned[m] # p
          /\ policies' = policies \ {p}
          /\ UNCHANGED <<mailboxes, assigned, unsaid>>
  /\ UNCHANGED <<serviceVars, pageVars, postVars>>
  /\ Work' <= MaxWork

Pages ==
  \/ \E c \in Command : AskInventory(c) \/ ApplyCommit(c) \/ Cancel(c)
  \/ \E c \in Command, p \in Policy : AskUpsert(c, p)
  \/ \E boxes \in SUBSET Mailbox, p \in Assignment : ApplyRead(boxes, p)

AgentWorks == SetPolicies \/ UpsertPolicy \/ CommandFails \/ InventorySynced

Next ==
  \/ Pages
  \/ AgentPolls \/ AgentWorks \/ SendInventory \/ RunEnds
  \/ \E i \in inventories : ReceiveInventory(i) \/ LoseInventory(i)
  \/ \E r \in results, answered \in BOOLEAN : ReceiveResult(r, answered)
  \/ ChangedByHand

Spec == Init /\ [][Next]_vars

(***************************************************************************)
(* The scheduled task runs the agent again and again, its runs end, and a  *)
(* post that is repeated is handled at last.                               *)
(***************************************************************************)
Fairness ==
  /\ WF_vars(AgentWorks \/ RunEnds)
  /\ WF_vars(SendInventory)
  /\ WF_vars(\E i \in inventories \ sent : ReceiveInventory(i) \/ LoseInventory(i))
  /\ SF_vars(\E i \in inventories \cap sent : ReceiveInventory(i))
  /\ WF_vars(\E r \in results, answered \in BOOLEAN : ReceiveResult(r, answered))

FairSpec == Spec /\ Fairness

-----------------------------------------------------------------------------
SetsOf(m)  == {c \in Command : status[c] # "absent" /\ request[c].kind = "SetMailboxPolicies"
                                 /\ m \in request[c].boxes}
Newest(S)  == {c \in S : \A d \in S : d <= c}     \* at most one command

\* The state column of templates/mailboxes.html.
Badge(m) ==
  IF row[m].error THEN "Failed"
  ELSE IF row[m].asked /\ row[m].desired # row[m].current THEN "Pending"
  ELSE "Synced"

\* Nothing happened to the mailbox that the page could not know about.
Undisturbed(m) == ~late /\ m \notin unsaid /\ \A c \in SetsOf(m) : handouts[c] <= 1

(***************************************************************************)
(* The page shows the policy a mailbox has in Exchange once every policy   *)
(* change of it that was handed out has reported back, in whatever order   *)
(* changes, inventories and failures came (agent_command_result and        *)
(* agent_mailbox_snapshot both write current_policy).                      *)
(***************************************************************************)
PageTellsTruth ==
  \A m \in Mailbox :
    /\ row[m].known /\ Undisturbed(m)
    /\ \A c \in SetsOf(m) : handouts[c] > 0 => status[c] \in ResultStatus
    => row[m].current = assigned[m]

(***************************************************************************)
(* The newest request for a mailbox wins: when its result is in, Exchange  *)
(* has what it asked for and the page says "Synced", or the page says      *)
(* "Failed"; a batch may succeed with failed items.  Except that the       *)
(* result of an older request replaces desired_policy: when the newest one *)
(* fails then, the next inventory agrees with the older one and takes the  *)
(* failure off the page.                                                   *)
(***************************************************************************)
NewestRequestWins ==
  \A m \in Mailbox \ cleared : \A c \in Newest(SetsOf(m)) :
    status[c] \in ResultStatus /\ Undisturbed(m) =>
      \/ Badge(m) = "Failed"
      \/ Badge(m) = "Synced" /\ assigned[m] = request[c].policy

(***************************************************************************)
(* Whatever late results, late inventories, crashes and changes by hand    *)
(* have done to the rows, when changes come to an end the page comes to    *)
(* show what Exchange has.                                                 *)
(***************************************************************************)
PageIsRight ==
  /\ listed = policies
  /\ \A m \in Mailbox : row[m].active <=> m \in mailboxes
  /\ \A m \in mailboxes : row[m].current = assigned[m]

InventoryConverges == EveryRun => <>[]PageIsRight

=============================================================================
