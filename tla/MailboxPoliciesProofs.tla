------------------------ MODULE MailboxPoliciesProofs ------------------------
(***************************************************************************)
(* Proofs about MailboxPolicies.  The command table is that of             *)
(* CommandServiceProofs: OrderInv says in which order commands are run.    *)
(* What is added here is which of the policy of a row, the policy in       *)
(* Exchange and the results on their way belong together.                  *)
(***************************************************************************)
EXTENDS MailboxPolicies, CommandServiceProofs

LEMMA Answers ==
  /\ Node = {Agent}
  /\ NoRows \in Answer /\ DOMAIN NoRows = {}
  /\ \A S \in SUBSET Mailbox : [S -> Outcome] \subseteq Answer
<1>1. Node = {Agent} /\ Answer = UNION {[S -> Outcome] : S \in SUBSET Mailbox}
  BY PoliciesAssumption
<1>2. \A S \in SUBSET Mailbox : [S -> Outcome] \subseteq Answer
  BY <1>1
<1>3. NoRows \in [{} -> Outcome] /\ {} \in SUBSET Mailbox /\ DOMAIN NoRows = {}
  BY DEF NoRows
<1>4. QED
  BY <1>1, <1>2, <1>3

-----------------------------------------------------------------------------
(***************************************************************************)
(* The pages that queue commands.  Only those of a batch have mailboxes,   *)
(* and a row is only marked by the request that asks for it.               *)
(***************************************************************************)
SetKind == "SetMailboxPolicies"

\* What each kind of request carries.
Proper(q) ==
  /\ q.kind # SetKind => q.boxes = {}
  /\ q.kind = "UpsertThrottlingPolicy" => q.policy \in Policy

Queues ==
  \E added \in SUBSET Command : \E asks \in [added -> Request] :
    /\ Queue(asks)
    /\ \A c \in added : Proper(asks[c])
    /\ row' \in [Mailbox -> Row]
    /\ \A m \in Mailbox : /\ row'[m].current = row[m].current /\ row'[m].known = row[m].known
                          /\ row'[m] # row[m] =>
                               \E c \in added : asks[c].kind = SetKind /\ m \in asks[c].boxes
    /\ applying' \subseteq applying

Reads == UNION {[S -> Read] : S \in SUBSET Mailbox}

RestTyped ==
  /\ request \in [Command -> Request]
  /\ row \in [Mailbox -> Row]
  /\ listed \subseteq Policy
  /\ applying \subseteq [policy : Assignment, read : Reads]
  /\ inventories \subseteq Inventory /\ sent \subseteq Inventory
  /\ mailboxes \subseteq Mailbox
  /\ assigned \in [Mailbox -> Assignment]
  /\ policies \subseteq Policy
  /\ outside \in Nat /\ unsaid \subseteq Mailbox
  /\ late \in BOOLEAN /\ cleared \subseteq Mailbox

LEMMA TypeParts == TypeOK <=> ServiceTypeOK /\ RestTyped
  BY DEF TypeOK, RestTyped, Reads

RequestsProper == \A c \in Command : Proper(request[c])

TypeInv == RestTyped /\ RequestsProper /\ OrderInv

LEMMA AskQueues ==
  ASSUME TypeInv, NEW c \in Command, NEW p \in Assignment,
         AskInventory(c) \/ (p \in Policy /\ AskUpsert(c, p))
  PROVE  Queues
<1>1. ASSUME NEW k \in Kind, k # SetKind, NEW q \in Assignment,
             k = "UpsertThrottlingPolicy" => q \in Policy,
             Queue([d \in {c} |-> [kind |-> k, boxes |-> {}, policy |-> q]]),
             UNCHANGED <<row, applying>>
      PROVE  Queues
  <2> DEFINE asks == [d \in {c} |-> [kind |-> k, boxes |-> {}, policy |-> q]]
  <2>1. asks \in [{c} -> Request] /\ Proper(asks[c])
    BY <1>1 DEF Request, Proper
  <2>2. Queue(asks)
    BY <1>1
  <2> HIDE DEF asks
  <2>3. row \in [Mailbox -> Row]
    BY DEF TypeInv, RestTyped
  <2>4. QED
    BY <1>1, <2>1, <2>2, <2>3 DEF Queues
<1>2. CASE AskInventory(c)
  <2>1. "SyncMailboxInventory" \in Kind /\ "SyncMailboxInventory" # SetKind /\ Default \in Assignment
    BY DEF Kind, SetKind, Assignment
  <2>2. QED
    BY <1>1, <1>2, <2>1 DEF AskInventory
<1>3. CASE p \in Policy /\ AskUpsert(c, p)
  <2>1. "UpsertThrottlingPolicy" \in Kind /\ "UpsertThrottlingPolicy" # SetKind
    BY DEF Kind, SetKind
  <2>2. QED
    BY <1>1, <1>3, <2>1 DEF AskUpsert
<1>4. QED
  BY <1>2, <1>3

LEMMA ApplyQueues ==
  ASSUME TypeInv, NEW first \in Command, ApplyCommit(first)
  PROVE  Queues
<1>1. PICK a \in applying : \E cut \in Batches(DOMAIN a.read, first) :
        /\ Range(cut) \subseteq Command
        /\ Queue([c \in Range(cut) |-> [kind |-> "SetMailboxPolicies",
                                        boxes |-> {m \in DOMAIN a.read : cut[m] = c},
                                        policy |-> a.policy]])
        /\ row' = [m \in Mailbox |-> IF m \in DOMAIN a.read
                                       THEN Marked(m, a.policy, a.read[m]) ELSE row[m]]
        /\ applying' = {}
  BY DEF ApplyCommit
<1> DEFINE boxes == DOMAIN a.read
<1>2. PICK cut \in Batches(boxes, first) :
        /\ Range(cut) \subseteq Command
        /\ Queue([c \in Range(cut) |-> [kind |-> "SetMailboxPolicies",
                                        boxes |-> {m \in boxes : cut[m] = c},
                                        policy |-> a.policy]])
        /\ row' = [m \in Mailbox |-> IF m \in boxes
                                       THEN Marked(m, a.policy, a.read[m]) ELSE row[m]]
        /\ applying' = {}
  BY <1>1
<1>3. a.policy \in Assignment /\ a.read \in Reads
  BY DEF TypeInv, RestTyped
<1>4. boxes \subseteq Mailbox /\ \A m \in boxes : a.read[m] \in Read
  BY <1>3 DEF Reads
<1> DEFINE added == Range(cut)
           asks == [c \in added |-> [kind |-> "SetMailboxPolicies",
                                     boxes |-> {m \in boxes : cut[m] = c}, policy |-> a.policy]]
<1>5. asks \in [added -> Request] /\ \A c \in added : asks[c].kind = SetKind
  BY <1>3, <1>4 DEF Request, Kind, SetKind
<1>p. \A c \in added : Proper(asks[c])
  BY DEF Proper, SetKind
<1>6. added \in SUBSET Command
  BY <1>2
<1>7. \A m \in boxes : cut[m] \in added /\ m \in asks[cut[m]].boxes
  <2>1. DOMAIN cut = boxes
    BY <1>2 DEF Batches
  <2>2. QED
    BY <2>1 DEF Range
<1>8. \A m \in boxes : /\ Marked(m, a.policy, a.read[m]) \in Row
                       /\ Marked(m, a.policy, a.read[m]).current = row[m].current
                       /\ Marked(m, a.policy, a.read[m]).known = row[m].known
  <2> TAKE m \in boxes
  <2>1. row[m] \in Row
    BY <1>4 DEF TypeInv, RestTyped
  <2>2. QED
    BY <1>3, <2>1 DEF Marked, Row
<1>9. row' \in [Mailbox -> Row]
  BY <1>2, <1>8 DEF TypeInv, RestTyped
<1>10. \A m \in Mailbox : /\ row'[m].current = row[m].current /\ row'[m].known = row[m].known
                          /\ row'[m] # row[m] =>
                               \E c \in added : asks[c].kind = SetKind /\ m \in asks[c].boxes
  BY <1>2, <1>5, <1>7, <1>8
<1>11. Queue(asks)
  BY <1>2
<1> HIDE DEF asks, added
<1>12. QED
  BY <1>2, <1>5, <1>p, <1>6, <1>9, <1>10, <1>11 DEF Queues

LEMMA PageKinds ==
  ASSUME TypeInv, Pages
  PROVE  \/ Queues
         \/ \E c \in Command : Cancel(c)
         \/ \E boxes \in SUBSET Mailbox, p \in Assignment : ApplyRead(boxes, p)
  BY AskQueues, ApplyQueues DEF Pages, Assignment

LEMMA QueuesAreTableSteps == TypeInv /\ Queues => QueuesRows
<1> SUFFICES ASSUME TypeInv, Queues PROVE QueuesRows
  OBVIOUS
<1>1. PICK added \in SUBSET Command : \E asks \in [added -> Request] : Queue(asks)
  BY DEF Queues
<1>2. PICK asks \in [added -> Request] : Queue(asks)
  BY <1>1
<1> DEFINE rows == [c \in DOMAIN asks |-> Agent]
<1>3. rows \in [added -> Node] /\ WriteRows(rows, {})
  BY <1>2, Answers DEF Queue, QueueRows
<1> HIDE DEF rows
<1>4. QED
  BY <1>3 DEF QueuesRows

-----------------------------------------------------------------------------
(***************************************************************************)
(* What the agent reports of a command fits the command: the rows of its   *)
(* mailboxes, each with the policy that was asked for, or none at all of a *)
(* failure.                                                                *)
(***************************************************************************)
Fits(r) ==
  /\ \A m \in DOMAIN r.answer : /\ m \in request[r.cmd].boxes
                                /\ r.answer[m].policy = request[r.cmd].policy
  /\ \A m \in request[r.cmd].boxes : m \notin DOMAIN r.answer => DOMAIN r.answer = {} /\ ~r.ok

Reports ==
  \E ok \in BOOLEAN, answer \in Answer :
    /\ RunCommand(Agent, ok, answer)
    /\ Fits([cmd |-> Current(Agent), try |-> handouts[Current(Agent)], ok |-> ok, answer |-> answer])

LEMMA WorkingFacts ==
  ASSUME TypeInv, NEW k, Working(k)
  PROVE  /\ Agent \in Node /\ Agent \notin waiting
         /\ Current(Agent) \in Command /\ Current(Agent) \in batch[Agent]
         /\ \A d \in batch[Agent] : Current(Agent) <= d
         /\ request[Current(Agent)].kind = k /\ request[Current(Agent)] \in Request
         /\ handouts[Current(Agent)] > 0 /\ status[Current(Agent)] # "absent"
<1>1. ServiceTypeOK /\ Agent \in Node /\ batch[Agent] # {}
  BY Answers DEF TypeInv, OrderInv, Working
<1>2. Current(Agent) \in Command /\ Current(Agent) \in batch[Agent]
      /\ \A d \in batch[Agent] : Current(Agent) <= d
  BY <1>1, LeastInBatch, CurrentInBatch
<1>3. handouts[Current(Agent)] > 0
  BY <1>1, <1>2 DEF TypeInv, OrderInv, HandoutsCounted
<1>4. status[Current(Agent)] # "absent"
  BY <1>2, <1>3 DEF TypeInv, OrderInv, HandoutsCounted
<1>5. QED
  BY <1>1, <1>2, <1>3, <1>4 DEF Working, TypeInv, RestTyped

LEMMA NothingReported ==
  ASSUME TypeInv, NEW k, Working(k), NEW ok \in BOOLEAN, RunCommand(Agent, ok, NoRows),
         ok => k # SetKind
  PROVE  Reports
<1>1. request[Current(Agent)].boxes = {} \/ ~ok
  BY WorkingFacts DEF TypeInv, RequestsProper, Proper
<1>2. QED
  BY <1>1, Answers DEF Reports, Fits

\* The items of a batch that the agent can change, and what its result says of them.
Sets(changed, good) ==
  LET c == Current(Agent) IN
  /\ Working(SetKind)
  /\ changed \subseteq request[c].boxes /\ good \subseteq changed
  /\ assigned' = [m \in Mailbox |-> IF m \in changed THEN request[c].policy ELSE assigned[m]]
  /\ unsaid' = unsaid \cup (changed \ good)
  /\ \/ RunCommand(Agent, TRUE, [m \in request[c].boxes |->
                                   [ok |-> m \in good, policy |-> request[c].policy]])
     \/ AbortRun(Agent) /\ good = {}

LEMMA SetPoliciesSets ==
  ASSUME TypeInv, SetPolicies
  PROVE  \E changed, good \in SUBSET Mailbox : Sets(changed, good)
<1> DEFINE c == Current(Agent)
           able == {m \in request[c].boxes : Assignable(m, request[c].policy)}
<1>0. PICK changed \in SUBSET able :
       /\ assigned' = [m \in Mailbox |-> IF m \in changed THEN request[c].policy ELSE assigned[m]]
       /\ \/ \E good \in SUBSET changed :
               /\ RunCommand(Agent, TRUE, [m \in request[c].boxes |->
                                             [ok |-> m \in good, policy |-> request[c].policy]])
               /\ unsaid' = unsaid \cup (changed \ good)
          \/ /\ AbortRun(Agent)
             /\ unsaid' = unsaid \cup changed
  BY DEF SetPolicies
<1>w. Working(SetKind)
  BY DEF SetPolicies, SetKind
<1>1. PICK good \in SUBSET changed :
       /\ unsaid' = unsaid \cup (changed \ good)
       /\ \/ RunCommand(Agent, TRUE, [m \in request[c].boxes |->
                                        [ok |-> m \in good, policy |-> request[c].policy]])
          \/ AbortRun(Agent) /\ good = {}
  <2>1. CASE AbortRun(Agent) /\ unsaid' = unsaid \cup changed
    <3>1. {} \in SUBSET changed /\ unsaid' = unsaid \cup (changed \ {})
      BY <2>1
    <3>2. QED
      BY <2>1, <3>1
  <2>2. QED
    BY <1>0, <2>1
<1>2. changed \subseteq Mailbox
  <2>1. \A m \in able : m \in mailboxes
    BY DEF Assignable
  <2>2. mailboxes \subseteq Mailbox
    BY DEF TypeInv, RestTyped
  <2>3. QED
    BY <2>1, <2>2
<1>3. QED
  BY <1>0, <1>w, <1>1, <1>2 DEF Sets

-----------------------------------------------------------------------------
(***************************************************************************)
(* Every step is a step of the command table as OrderInv knows them.       *)
(***************************************************************************)
LEMMA SetsAreTableSteps ==
  ASSUME TypeInv, NEW changed \in SUBSET Mailbox, NEW good \in SUBSET Mailbox, Sets(changed, good)
  PROVE  Reports \/ AbortRun(Agent)
<1> DEFINE c == Current(Agent)
           answer == [m \in request[c].boxes |-> [ok |-> m \in good, policy |-> request[c].policy]]
<1>1. c \in Command /\ request[c] \in Request
  BY WorkingFacts DEF Sets
<1>2. request[c].boxes \subseteq Mailbox /\ request[c].policy \in Assignment
  BY <1>1 DEF Request
<1>3. answer \in [request[c].boxes -> Outcome]
  BY <1>2 DEF Outcome
<1>4. answer \in Answer
  BY <1>2, <1>3, Answers
<1>5. Fits([cmd |-> c, try |-> handouts[c], ok |-> TRUE, answer |-> answer])
  BY DEF Fits
<1>6. RunCommand(Agent, TRUE, answer) \/ AbortRun(Agent)
  BY DEF Sets
<1> HIDE DEF answer
<1>7. QED
  BY <1>4, <1>5, <1>6 DEF Reports

LEMMA WorksAreTableSteps ==
  ASSUME TypeInv, AgentWorks \/ RunEnds
  PROVE  Reports \/ AbortRun(Agent) \/ UNCHANGED serviceVars
<1>1. CASE SetPolicies
  <2>1. PICK changed, good \in SUBSET Mailbox : Sets(changed, good)
    BY <1>1, SetPoliciesSets
  <2>2. QED
    BY <2>1, SetsAreTableSteps
<1>2. CASE UpsertPolicy
  <2>1. "UpsertThrottlingPolicy" # SetKind
    BY DEF SetKind
  <2>2. QED
    BY <1>2, <2>1, NothingReported DEF UpsertPolicy
<1>3. CASE CommandFails
  BY <1>3, NothingReported DEF CommandFails
<1>4. CASE InventorySynced
  <2>1. "SyncMailboxInventory" # SetKind
    BY DEF SetKind
  <2>2. QED
    BY <1>4, <2>1, NothingReported DEF InventorySynced
<1>5. CASE RunEnds
  BY <1>5 DEF RunEnds
<1>6. QED
  BY <1>1, <1>2, <1>3, <1>4, <1>5 DEF AgentWorks

LEMMA StepIsTableStep == TypeInv /\ [Next]_vars => TableStep
<1> SUFFICES ASSUME TypeInv, [Next]_vars PROVE TableStep
  OBVIOUS
<1>1. CASE Pages
  <2>1. Queues => TableStep
    BY QueuesAreTableSteps DEF TableStep
  <2>2. \A c \in Command : Cancel(c) => TableStep
    BY DEF Cancel, TableStep
  <2>3. \A boxes \in SUBSET Mailbox, p \in Assignment : ApplyRead(boxes, p) => TableStep
    BY DEF ApplyRead, TableStep
  <2>4. QED
    BY <1>1, <2>1, <2>2, <2>3, PageKinds
<1>2. CASE AgentPolls
  BY <1>2, Answers DEF AgentPolls, TableStep
<1>3. CASE AgentWorks \/ RunEnds
  BY <1>3, WorksAreTableSteps, Answers DEF Reports, TableStep
<1>4. CASE SendInventory
  BY <1>4 DEF SendInventory, TableStep
<1>5. ASSUME NEW i \in inventories, ReceiveInventory(i) \/ LoseInventory(i) PROVE TableStep
  BY <1>5 DEF ReceiveInventory, LoseInventory, TableStep
<1>6. ASSUME NEW r \in results, NEW answered \in BOOLEAN, ReceiveResult(r, answered) PROVE TableStep
  BY <1>6 DEF ReceiveResult, TableStep
<1>7. CASE ChangedByHand
  BY <1>7 DEF ChangedByHand, TableStep
<1>8. CASE UNCHANGED vars
  BY <1>8 DEF vars, TableStep
<1>9. QED
  BY <1>1, <1>2, <1>3, <1>4, <1>5, <1>6, <1>7, <1>8 DEF Next

(***************************************************************************)
(* Types, for which it matters that a result only names mailboxes and      *)
(* policies that exist.                                                    *)
(***************************************************************************)
LEMMA QueuesRequests ==
  ASSUME TypeInv, Queues
  PROVE  /\ request' \in [Command -> Request] /\ RequestsProper'
         /\ \A c \in Command : status[c] # "absent" =>
              request'[c] = request[c] /\ status'[c] = status[c]
         /\ UNCHANGED <<handouts, batch, waiting, results, listed, cleared, exchangeVars, postVars>>
<1>1. PICK added \in SUBSET Command : \E asks \in [added -> Request] :
         /\ Queue(asks)
         /\ \A c \in added : Proper(asks[c])
  BY DEF Queues
<1>2. PICK asks \in [added -> Request] :
         /\ Queue(asks)
         /\ \A c \in added : Proper(asks[c])
  BY <1>1
<1>3. DOMAIN asks = added
  OBVIOUS
<1>4. request' = [c \in Command |-> IF c \in added THEN asks[c] ELSE request[c]]
  BY <1>2, <1>3 DEF Queue
<1>5. request' \in [Command -> Request]
  BY <1>4 DEF TypeInv, RestTyped
<1>6. RequestsProper'
  BY <1>2, <1>4 DEF TypeInv, RequestsProper
<1> DEFINE rows == [c \in DOMAIN asks |-> Agent]
<1>7. WriteRows(rows, {}) /\ DOMAIN rows = added
  BY <1>2, <1>3 DEF Queue, QueueRows
<1> HIDE DEF rows
<1>8. \A c \in added : status[c] = "absent"
  BY <1>7 DEF WriteRows
<1>9. \A c \in Command \ added : status'[c] = status[c]
  BY <1>7, Zenon DEF WriteRows
<1>10. UNCHANGED <<handouts, batch, waiting, results, listed, cleared, exchangeVars, postVars>>
  BY <1>2, <1>7 DEF Queue, WriteRows, agentVars
<1>11. QED
  BY <1>4, <1>5, <1>6, <1>8, <1>9, <1>10

\* What agent_mailbox_snapshot and agent_command_result write.
LEMMA PostType ==
  ASSUME TypeInv, NEW m \in Mailbox
  PROVE  /\ \A i \in Inventory : Seen(m, i) \in Row
         /\ \A r \in results : Reported(m, r) \in Row
         /\ [row[m] EXCEPT !.active = FALSE] \in Row
<1>1. row[m] \in Row
  BY DEF TypeInv, RestTyped
<1>2. ASSUME NEW i \in Inventory PROVE Seen(m, i) \in Row
  <2>1. i.assigned[m] \in Assignment
    BY DEF Inventory
  <2>2. QED
    BY <1>1, <2>1 DEF Seen, Row
<1>3. ASSUME NEW r \in results PROVE Reported(m, r) \in Row
  <2>1. r.answer \in Answer
    BY DEF TypeInv, OrderInv, ServiceTypeOK, Result
  <2>2. m \in DOMAIN r.answer => r.answer[m] \in Outcome
    BY <2>1, PoliciesAssumption
  <2>3. m \in DOMAIN r.answer => r.answer[m].policy \in Assignment
    BY <2>2 DEF Outcome
  <2>4. QED
    BY <1>1, <2>3 DEF Reported, Row
<1>4. QED
  BY <1>1, <1>2, <1>3 DEF Row

\* The steps that leave requests and rows alone.
LEMMA WorkType ==
  ASSUME TypeInv, AgentPolls \/ AgentWorks \/ RunEnds \/ SendInventory \/ ChangedByHand
  PROVE  RestTyped' /\ request' = request
<1>r. RestTyped
  BY DEF TypeInv
<1>1. CASE AgentPolls
  BY <1>r, <1>1 DEF AgentPolls, RestTyped, pageVars, exchangeVars, postVars
<1>2. CASE SetPolicies
  <2>1. PICK changed, good \in SUBSET Mailbox : Sets(changed, good)
    BY <1>2, SetPoliciesSets
  <2>2. request[Current(Agent)].policy \in Assignment
    BY <2>1, WorkingFacts DEF Sets, Request
  <2>3. assigned' \in [Mailbox -> Assignment] /\ unsaid' \subseteq Mailbox
    BY <1>r, <2>1, <2>2 DEF Sets, RestTyped
  <2>4. QED
    BY <1>r, <1>2, <2>3 DEF SetPolicies, RestTyped, pageVars, postVars
<1>3. CASE UpsertPolicy
  <2> DEFINE p == request[Current(Agent)].policy
  <2>1. p \in Policy
    <3>1. Current(Agent) \in Command /\ request[Current(Agent)].kind = "UpsertThrottlingPolicy"
      BY <1>3, WorkingFacts DEF UpsertPolicy
    <3>2. QED
      BY <3>1 DEF TypeInv, RequestsProper, Proper
  <2>2. policies' \subseteq Policy
    BY <1>r, <1>3, <2>1 DEF UpsertPolicy, RestTyped
  <2>3. QED
    BY <1>r, <1>3, <2>2 DEF UpsertPolicy, RestTyped, pageVars, postVars
<1>4. CASE CommandFails \/ InventorySynced \/ RunEnds
  BY <1>r, <1>4 DEF CommandFails, InventorySynced, RunEnds, RestTyped, pageVars, exchangeVars
<1>5. CASE SendInventory
  <2>1. [boxes |-> mailboxes, assigned |-> assigned, policies |-> policies] \in Inventory
    BY <1>r DEF RestTyped, Inventory
  <2>2. QED
    BY <1>r, <1>5, <2>1 DEF SendInventory, RestTyped, pageVars, exchangeVars
<1>6. CASE ChangedByHand
  <2>1. outside' \in Nat /\ mailboxes' \subseteq Mailbox /\ policies' \subseteq Policy
        /\ unsaid' \subseteq Mailbox
    BY <1>r, <1>6 DEF ChangedByHand, RestTyped
  <2>2. assigned' \in [Mailbox -> Assignment]
    BY <1>r, <1>6 DEF ChangedByHand, RestTyped, Assignment
  <2>3. QED
    BY <1>r, <1>6, <2>1, <2>2 DEF ChangedByHand, RestTyped, pageVars, postVars
<1>7. QED
  BY <1>1, <1>2, <1>3, <1>4, <1>5, <1>6 DEF AgentWorks

LEMMA TypeStep == TypeInv /\ [Next]_vars => TypeInv'
<1> SUFFICES ASSUME TypeInv, [Next]_vars PROVE TypeInv'
  OBVIOUS
<1>o. OrderInv'
  BY StepIsTableStep, OrderInvStep DEF TypeInv
<1>b. request' = request => RequestsProper'
  BY DEF TypeInv, RequestsProper
<1>s. ASSUME RestTyped', request' = request PROVE TypeInv'
  BY <1>o, <1>b, <1>s DEF TypeInv
<1>r. RestTyped
  BY DEF TypeInv
<1>1. CASE Queues
  <2>1. row' \in [Mailbox -> Row] /\ applying' \subseteq applying
    BY <1>1 DEF Queues
  <2>2. RestTyped'
    BY <1>1, <1>r, <2>1, QueuesRequests DEF RestTyped, exchangeVars, postVars
  <2>3. QED
    BY <1>o, <1>1, <2>2, QueuesRequests DEF TypeInv
<1>2. ASSUME NEW c \in Command, Cancel(c) PROVE TypeInv'
  BY <1>2, <1>r, <1>s DEF Cancel, RestTyped, pageVars, exchangeVars, postVars
<1>3. ASSUME NEW boxes \in SUBSET Mailbox, NEW p \in Assignment, ApplyRead(boxes, p) PROVE TypeInv'
  <2>1. \A m \in boxes : row[m] \in Row
    BY <1>r DEF RestTyped
  <2>2. \A m \in boxes : ReadOf(m) \in Read
    BY <2>1 DEF ReadOf, Row, Read
  <2>3. [m \in boxes |-> ReadOf(m)] \in Reads
    BY <2>2 DEF Reads
  <2>4. applying' \subseteq [policy : Assignment, read : Reads]
    BY <1>3, <2>3 DEF ApplyRead
  <2>5. QED
    BY <1>3, <1>r, <1>s, <2>4 DEF ApplyRead, RestTyped, exchangeVars, postVars
<1>4. CASE AgentPolls \/ AgentWorks \/ RunEnds \/ SendInventory \/ ChangedByHand
  BY <1>4, <1>s, WorkType
<1>5. ASSUME NEW i \in inventories, ReceiveInventory(i) PROVE TypeInv'
  <2>1. i \in Inventory
    BY <1>r DEF RestTyped
  <2>2. row' \in [Mailbox -> Row]
    BY <1>5, <2>1, PostType DEF ReceiveInventory
  <2>3. listed' \subseteq Policy
    BY <1>5, <2>1 DEF ReceiveInventory, Inventory
  <2>4. QED
    BY <1>5, <1>r, <1>s, <2>2, <2>3 DEF ReceiveInventory, RestTyped, exchangeVars
<1>6. ASSUME NEW i \in inventories, LoseInventory(i) PROVE TypeInv'
  BY <1>6, <1>r, <1>s DEF LoseInventory, RestTyped, pageVars, exchangeVars
<1>7. ASSUME NEW r \in results, NEW answered \in BOOLEAN, ReceiveResult(r, answered) PROVE TypeInv'
  <2>1. row' \in [Mailbox -> Row]
    BY <1>7, PostType DEF ReceiveResult
  <2>2. late' \in BOOLEAN
    BY <1>7 DEF ReceiveResult
  <2>3. QED
    BY <1>7, <1>r, <1>s, <2>1, <2>2 DEF ReceiveResult, RestTyped, exchangeVars
<1>8. CASE UNCHANGED vars
  BY <1>8, <1>r, <1>s DEF vars, RestTyped, pageVars, exchangeVars, postVars
<1>9. QED
  BY <1>1, <1>2, <1>3, <1>4, <1>5, <1>6, <1>7, <1>8, PageKinds DEF Next

LEMMA TypeInit == Init => TypeInv
<1> SUFFICES ASSUME Init PROVE TypeInv
  OBVIOUS
<1>1. OrderInv
  BY OrderInvInit DEF Init
<1>2. NoRow \in Row /\ Default \in Assignment
  BY DEF NoRow, Row, Assignment
<1>3. [kind |-> "SyncMailboxInventory", boxes |-> {}, policy |-> Default] \in Request
  BY <1>2 DEF Request, Kind
<1>p. \A c \in Command : Proper(request[c])
  BY DEF Init, Proper, SetKind
<1>4. RestTyped
  BY <1>2, <1>3 DEF Init, RestTyped
<1>5. RequestsProper
  BY <1>p DEF RequestsProper
<1>6. QED
  BY <1>1, <1>4, <1>5 DEF TypeInv

(***************************************************************************)
(* The table, the rows and the inventories keep their types, for any       *)
(* number of mailboxes, policies, commands and hand-outs.                  *)
(***************************************************************************)
THEOREM TypeCorrect == Spec => []TypeOK
<1>1. TypeInv => TypeOK
  BY TypeParts DEF TypeInv, OrderInv
<1>2. QED
  BY <1>1, TypeInit, TypeStep, PTL DEF Spec

(***************************************************************************)
(* Policies and inventories use the table as the service allows, so the    *)
(* mailbox agent runs their commands one by one in the order of the pages. *)
(***************************************************************************)
THEOREM UsesService == Spec => ServiceSpec /\ ImplementsLifecycle
<1>1. Init => ServiceInit
  BY DEF Init
<1>2. TypeInv /\ [Next]_vars => [ServiceNext]_serviceVars
  BY StepIsTableStep, TableStepIsService
<1>3. Spec => ServiceSpec
  BY <1>1, <1>2, TypeInit, TypeStep, PTL DEF Spec, ServiceSpec
<1>4. QED
  BY <1>3, ServiceImplementsLifecycle

-----------------------------------------------------------------------------
\* A result is of a request, and names mailboxes and policies that exist.
LEMMA ResultTypes ==
  ASSUME TypeInv, NEW r \in results
  PROVE  /\ r.cmd \in Command /\ HasRun(r.cmd) /\ handouts[r.cmd] > 0
         /\ status[r.cmd] # "absent" /\ request[r.cmd] \in Request
         /\ r.answer \in Answer /\ DOMAIN r.answer \subseteq Mailbox
         /\ \A m \in DOMAIN r.answer : r.answer[m].policy \in Assignment
<1>1. r.cmd \in Command /\ r.answer \in Answer
  BY DEF TypeInv, OrderInv, ServiceTypeOK, Result
<1>2. HasRun(r.cmd)
  BY DEF HasRun
<1>3. handouts[r.cmd] > 0 /\ status[r.cmd] # "absent"
  BY <1>1, <1>2 DEF TypeInv, OrderInv, HandoutsCounted
<1>4. DOMAIN r.answer \subseteq Mailbox /\ \A m \in DOMAIN r.answer : r.answer[m] \in Outcome
  BY <1>1, PoliciesAssumption
<1>5. QED
  BY <1>1, <1>2, <1>3, <1>4 DEF Outcome, TypeInv, RestTyped

-----------------------------------------------------------------------------
(***************************************************************************)
(* The kinds of steps the arguments below tell apart.  Only four of them   *)
(* touch a row or the policy of a mailbox: a batch that is carried out, an *)
(* inventory and a result that are handled, and a change made by hand.     *)
(***************************************************************************)
Still == UNCHANGED <<request, row, assigned, unsaid, late, cleared>>

Idle ==
  /\ Still /\ UNCHANGED <<handouts, batch, waiting, results>> /\ sent' \subseteq sent
  /\ \A c \in Command : /\ status'[c] \in ResultStatus => status[c] \in ResultStatus
                        /\ status'[c] = "absent" <=> status[c] = "absent"

Blank ==
  /\ Still
  /\ \E ok \in BOOLEAN : /\ RunCommand(Agent, ok, NoRows)
                         /\ ok => request[Current(Agent)].kind # SetKind
  /\ sent' = {} \/ (sent' = sent /\ Working("UpsertThrottlingPolicy"))

Ends == Still /\ AbortRun(Agent) /\ sent' \subseteq sent

Carries == UNCHANGED <<request, row, late, cleared, sent>>
           /\ \E changed, good \in SUBSET Mailbox : Sets(changed, good)

Posts == \E i \in inventories : ReceiveInventory(i)

Hears == \E r \in results, answered \in BOOLEAN : ReceiveResult(r, answered)

LEMMA WorkKinds ==
  ASSUME TypeInv, AgentWorks \/ RunEnds
  PROVE  Idle \/ Blank \/ Ends \/ Carries
<1>k. "UpsertThrottlingPolicy" # SetKind /\ "SyncMailboxInventory" # SetKind
  BY DEF SetKind
<1>1. CASE SetPolicies
  <2>1. PICK changed, good \in SUBSET Mailbox : Sets(changed, good)
    BY <1>1, SetPoliciesSets
  <2>2. UNCHANGED <<request, row, late, cleared, sent>>
    BY <1>1 DEF SetPolicies, pageVars, postVars
  <2>3. QED
    BY <2>1, <2>2 DEF Carries
<1>2. CASE UpsertPolicy
  <2>1. Still /\ sent' = sent
    BY <1>2 DEF UpsertPolicy, Still, pageVars, postVars
  <2>2. Working("UpsertThrottlingPolicy") /\ request[Current(Agent)].kind = "UpsertThrottlingPolicy"
    BY <1>2 DEF UpsertPolicy, Working
  <2>3. (\E ok \in BOOLEAN : RunCommand(Agent, ok, NoRows)) \/ AbortRun(Agent)
    BY <1>2 DEF UpsertPolicy
  <2>4. QED
    BY <1>k, <2>1, <2>2, <2>3 DEF Blank, Ends
<1>3. CASE CommandFails
  <2>1. Still /\ sent' = {} /\ RunCommand(Agent, FALSE, NoRows)
    BY <1>3 DEF CommandFails, Still, pageVars, exchangeVars
  <2>2. QED
    BY <2>1 DEF Blank
<1>4. CASE InventorySynced
  <2>1. Still /\ sent' = {} /\ RunCommand(Agent, TRUE, NoRows)
    BY <1>4 DEF InventorySynced, Still, pageVars, exchangeVars
  <2>2. request[Current(Agent)].kind = "SyncMailboxInventory"
    BY <1>4 DEF InventorySynced, Working
  <2>3. QED
    BY <1>k, <2>1, <2>2 DEF Blank
<1>5. CASE RunEnds
  <2>1. Still /\ sent' \subseteq sent
    BY <1>5 DEF RunEnds, Still, pageVars, exchangeVars
  <2>2. UNCHANGED serviceVars \/ AbortRun(Agent)
    BY <1>5 DEF RunEnds
  <2>3. QED
    BY <2>1, <2>2 DEF Idle, Ends, serviceVars
<1>6. QED
  BY <1>1, <1>2, <1>3, <1>4, <1>5 DEF AgentWorks

LEMMA StepKinds ==
  ASSUME TypeInv, [Next]_vars
  PROVE  \/ Queues \/ Idle \/ AgentPolls \/ Blank \/ Ends \/ Carries
         \/ SendInventory \/ Posts \/ Hears \/ ChangedByHand
<1>1. ASSUME NEW c \in Command, Cancel(c) PROVE Idle
  <2>1. Still /\ sent' = sent
    BY <1>1 DEF Cancel, Still, pageVars, exchangeVars, postVars
  <2>2. UNCHANGED <<handouts, batch, waiting, results>>
    BY <1>1 DEF Cancel, CancelCheck, CancelCommit, agentVars
  <2>3. \A d \in Command : status'[d] = status[d] \/ (d \in cancelling /\ status'[d] = "cancelled")
    BY <1>1 DEF Cancel, CancelCheck, CancelCommit, TypeInv, OrderInv, ServiceTypeOK
  <2>4. \A d \in Command : d \in cancelling => status[d] # "absent"
    BY DEF TypeInv, OrderInv, HandoutsCounted
  <2>5. QED
    BY <2>1, <2>2, <2>3, <2>4 DEF Idle, ResultStatus
<1>2. ASSUME NEW boxes \in SUBSET Mailbox, NEW p \in Assignment, ApplyRead(boxes, p) PROVE Idle
  BY <1>2 DEF ApplyRead, Idle, Still, serviceVars, exchangeVars, postVars
<1>3. ASSUME NEW i \in inventories, LoseInventory(i) PROVE Idle
  BY <1>3 DEF LoseInventory, Idle, Still, serviceVars, pageVars, exchangeVars
<1>4. CASE UNCHANGED vars
  BY <1>4 DEF vars, Idle, Still, serviceVars, pageVars, exchangeVars, postVars
<1>5. QED
  BY <1>1, <1>2, <1>3, <1>4, PageKinds, WorkKinds DEF Next, Posts, Hears, AgentWorks

LEMMA CarriesReports ==
  ASSUME TypeInv, Carries
  PROVE  /\ UNCHANGED <<status, handouts>>
         /\ \/ \E ok \in BOOLEAN, answer \in Answer : RunCommand(Agent, ok, answer)
            \/ AbortRun(Agent)
<1>1. PICK changed, good \in SUBSET Mailbox : Sets(changed, good)
  BY DEF Carries
<1>2. Reports \/ AbortRun(Agent)
  BY <1>1, SetsAreTableSteps
<1>3. \/ \E ok \in BOOLEAN, answer \in Answer : RunCommand(Agent, ok, answer)
      \/ AbortRun(Agent)
  BY <1>2 DEF Reports
<1>4. UNCHANGED <<status, handouts>>
  BY <1>3 DEF RunCommand, AbortRun
<1>5. QED
  BY <1>3, <1>4

\* The agent asks for commands only between two runs.
LEMMA StepIsRunStep == TypeInv /\ [Next]_vars => RunStep
<1> SUFFICES ASSUME TypeInv, [Next]_vars PROVE RunStep
  OBVIOUS
<1>1. CASE AgentPolls
  BY <1>1, Answers, StepIsTableStep DEF AgentPolls, RunStep
<1>2. ASSUME batch'[Agent] \subseteq batch[Agent] PROVE RunStep
  BY <1>2, Answers, StepIsTableStep DEF RunStep
<1>3. CASE Queues
  BY <1>2, <1>3, QueuesRequests
<1>4. ASSUME AbortRun(Agent) PROVE batch'[Agent] = {}
  BY <1>4, Answers DEF AbortRun, TypeInv, OrderInv, ServiceTypeOK
<1>5. CASE Idle \/ Blank \/ Ends
  BY <1>2, <1>4, <1>5 DEF Idle, Blank, Ends, RunCommand
<1>6. CASE Carries
  BY <1>2, <1>4, <1>6, CarriesReports DEF RunCommand
<1>7. CASE SendInventory \/ Posts \/ ChangedByHand
  BY <1>2, <1>7 DEF SendInventory, Posts, ReceiveInventory, ChangedByHand, serviceVars
<1>8. CASE Hears
  BY <1>2, <1>8, Answers DEF Hears, ReceiveResult, DeliverResult
<1>9. QED
  BY <1>1, <1>3, <1>5, <1>6, <1>7, <1>8, StepKinds

LEMMA ResultStaysOne == TypeInv /\ OneResult /\ [Next]_vars => OneResult'
  BY StepIsRunStep, OneResultStep DEF TypeInv

(***************************************************************************)
(* What only grows: rows of the table, hand-outs and the three histories.  *)
(***************************************************************************)
Grows ==
  /\ \A c \in Command : /\ status[c] # "absent" => status'[c] # "absent" /\ request'[c] = request[c]
                        /\ handouts[c] <= handouts'[c]
  /\ unsaid \subseteq unsaid' /\ (late => late') /\ cleared \subseteq cleared'

LEMMA HandoutNumbers == TypeInv => \A c \in Command : handouts[c] \in Nat
  BY DEF TypeInv, OrderInv, ServiceTypeOK

LEMMA StepGrows == TypeInv /\ [Next]_vars => Grows
<1> SUFFICES ASSUME TypeInv, [Next]_vars PROVE Grows
  OBVIOUS
<1>n. \A c \in Command : handouts[c] \in Nat
  BY HandoutNumbers
<1>s. ASSUME UNCHANGED <<status, handouts, request>>, unsaid \subseteq unsaid', late => late',
             cleared \subseteq cleared'
      PROVE  Grows
  BY <1>n, <1>s DEF Grows
<1>1. CASE Queues
  BY <1>1, <1>n, QueuesRequests DEF Grows, exchangeVars, postVars
<1>2. CASE Idle
  BY <1>2, <1>n DEF Idle, Still, Grows
<1>3. CASE AgentPolls
  <2>1. UNCHANGED <<request, unsaid, late, cleared>>
    BY <1>3 DEF AgentPolls, pageVars, exchangeVars, postVars
  <2>2. PICK reopened, expired, claimed \in SUBSET Command, answered \in BOOLEAN :
          PollChange(Agent, reopened, expired, claimed, answered)
    BY <1>3, Answers, PollChanges DEF AgentPolls, TypeInv, OrderInv
  <2>3. \A c \in Command : status[c] # "absent" => status'[c] # "absent"
    BY <2>2 DEF PollChange
  <2>4. \A c \in Command : handouts'[c] = handouts[c] \/ handouts'[c] = handouts[c] + 1
    BY <1>3 DEF AgentPolls, ServicePoll, PollEffect
  <2>5. QED
    BY <1>n, <2>1, <2>3, <2>4 DEF Grows
<1>4. CASE Blank
  BY <1>4, <1>s DEF Blank, Still, RunCommand
<1>5. CASE Ends
  BY <1>5, <1>s DEF Ends, Still, AbortRun
<1>6. CASE Carries
  <2>1. unsaid \subseteq unsaid' /\ UNCHANGED <<request, late, cleared>>
    BY <1>6 DEF Carries, Sets
  <2>2. QED
    BY <1>6, <1>s, <2>1, CarriesReports
<1>7. CASE SendInventory \/ Posts \/ ChangedByHand
  <2>1. CASE SendInventory
    BY <1>s, <2>1 DEF SendInventory, serviceVars, pageVars, exchangeVars
  <2>2. CASE Posts
    BY <1>s, <2>2 DEF Posts, ReceiveInventory, serviceVars, exchangeVars
  <2>3. CASE ChangedByHand
    <3>1. unsaid \subseteq unsaid'
      BY <2>3 DEF ChangedByHand
    <3>2. UNCHANGED <<status, handouts, request, late, cleared>>
      BY <2>3 DEF ChangedByHand, serviceVars, pageVars, postVars
    <3>3. QED
      BY <1>s, <3>1, <3>2
  <2>4. QED
    BY <1>7, <2>1, <2>2, <2>3
<1>8. CASE Hears
  <2>1. PICK r \in results, answered \in BOOLEAN : ReceiveResult(r, answered)
    BY <1>8 DEF Hears
  <2>2. \A c \in Command : status[c] # "absent" => status'[c] # "absent"
    BY <2>1 DEF ReceiveResult, DeliverResult, TypeInv, OrderInv, ServiceTypeOK
  <2>3. UNCHANGED <<handouts, request, unsaid, cleared>> /\ (late => late')
    BY <2>1 DEF ReceiveResult, DeliverResult, exchangeVars
  <2>4. QED
    BY <1>n, <2>2, <2>3 DEF Grows
<1>9. QED
  BY <1>1, <1>2, <1>3, <1>4, <1>5, <1>6, <1>7, <1>8, StepKinds

-----------------------------------------------------------------------------
(***************************************************************************)
(* The posts the agent still waits for are true: nothing changed a mailbox *)
(* since, except by hand.                                                  *)
(***************************************************************************)
ResultsFit == \A r \in results : Fits(r)

Posting == sent # {} =>
             batch[Agent] = {} \/ (Agent \notin waiting
                                     /\ request[Current(Agent)].kind = "SyncMailboxInventory")

InventoryTrue == \A i \in sent : \A m \in Mailbox : m \notin unsaid => i.assigned[m] = assigned[m]

ResultTrue ==
  \A r \in results : AwaitedBy(Agent, r) /\ Once(r.cmd) =>
    \A m \in DOMAIN r.answer : m \notin unsaid /\ r.answer[m].ok => assigned[m] = r.answer[m].policy

LEMMA FitsStays ==
  ASSUME TypeInv, [Next]_vars, NEW r \in results, Fits(r)
  PROVE  Fits(r)'
<1>1. request'[r.cmd] = request[r.cmd]
  BY StepGrows, ResultTypes DEF Grows
<1>2. QED
  BY <1>1 DEF Fits

LEMMA ResultsFitStep == TypeInv /\ ResultsFit /\ [Next]_vars => ResultsFit'
<1> SUFFICES ASSUME TypeInv, ResultsFit, [Next]_vars PROVE ResultsFit'
  OBVIOUS
<1>o. ASSUME results' \subseteq results PROVE ResultsFit'
  BY <1>o, FitsStays DEF ResultsFit
<1>a. ASSUME AbortRun(Agent) PROVE ResultsFit'
  BY <1>a, <1>o DEF AbortRun
<1>r. ASSUME Reports PROVE ResultsFit'
  <2>1. PICK ok \in BOOLEAN, answer \in Answer :
          /\ RunCommand(Agent, ok, answer)
          /\ Fits([cmd |-> Current(Agent), try |-> handouts[Current(Agent)], ok |-> ok, answer |-> answer])
    BY <1>r DEF Reports
  <2>n. PICK new : new = [cmd |-> Current(Agent), try |-> handouts[Current(Agent)],
                         ok |-> ok, answer |-> answer]
    OBVIOUS
  <2>2. Current(Agent) \in Command /\ Current(Agent) \in batch[Agent]
    BY <2>1, CurrentInBatch, Answers DEF RunCommand, TypeInv, OrderInv
  <2>3. handouts[Current(Agent)] > 0
    BY <2>2, Answers DEF TypeInv, OrderInv, HandoutsCounted
  <2>4. status[Current(Agent)] # "absent"
    BY <2>2, <2>3 DEF TypeInv, OrderInv, HandoutsCounted
  <2>5. request'[new.cmd] = request[new.cmd]
    BY <2>n, <2>2, <2>4, StepGrows DEF Grows
  <2>6. results' = results \cup {new} /\ Fits(new)
    BY <2>n, <2>1 DEF RunCommand
  <2>7. Fits(new)'
    BY <2>5, <2>6 DEF Fits
  <2>8. \A s \in results' : Fits(s)'
    BY <2>6, <2>7, FitsStays DEF ResultsFit
  <2>9. QED
    BY <2>8 DEF ResultsFit
<1>1. CASE Queues
  BY <1>1, <1>o, QueuesRequests
<1>2. CASE Idle
  BY <1>2, <1>o DEF Idle
<1>3. CASE AgentPolls
  BY <1>3, <1>o DEF AgentPolls, ServicePoll, PollEffect
<1>4. CASE Blank
  <2>1. PICK ok \in BOOLEAN : /\ RunCommand(Agent, ok, NoRows)
                              /\ ok => request[Current(Agent)].kind # SetKind
    BY <1>4 DEF Blank
  <2>2. Working(request[Current(Agent)].kind)
    BY <2>1 DEF Working, RunCommand
  <2>3. QED
    BY <1>r, <2>1, <2>2, NothingReported
<1>5. CASE Ends
  BY <1>5, <1>a DEF Ends
<1>6. CASE Carries
  BY <1>6, <1>a, <1>r, SetsAreTableSteps DEF Carries
<1>7. CASE SendInventory \/ Posts \/ ChangedByHand
  BY <1>7, <1>o DEF SendInventory, Posts, ReceiveInventory, ChangedByHand, serviceVars
<1>8. CASE Hears
  BY <1>8, <1>o DEF Hears, ReceiveResult, DeliverResult
<1>9. QED
  BY <1>1, <1>2, <1>3, <1>4, <1>5, <1>6, <1>7, <1>8, StepKinds

\* Nothing is carried out, and no policy upserted, while an inventory is posted.
LEMMA PostingRests ==
  ASSUME Posting, Working(SetKind) \/ Working("UpsertThrottlingPolicy")
  PROVE  sent = {}
  BY DEF Posting, Working, SetKind

\* The command an agent works on stays the request it was.
LEMMA CurrentStays ==
  ASSUME TypeInv, [Next]_vars, batch[Agent] # {}, batch'[Agent] = batch[Agent]
  PROVE  Current(Agent)' = Current(Agent) /\ request'[Current(Agent)] = request[Current(Agent)]
<1>1. Current(Agent) \in Command /\ Current(Agent) \in batch[Agent]
  BY CurrentInBatch, Answers DEF TypeInv, OrderInv
<1>2. handouts[Current(Agent)] > 0
  BY <1>1, Answers DEF TypeInv, OrderInv, HandoutsCounted
<1>3. status[Current(Agent)] # "absent"
  BY <1>1, <1>2 DEF TypeInv, OrderInv, HandoutsCounted
<1>4. QED
  BY <1>1, <1>3, StepGrows DEF Grows, Current

LEMMA PostingStep == TypeInv /\ OneResult /\ Posting /\ [Next]_vars => Posting'
<1> SUFFICES ASSUME TypeInv, OneResult, Posting, [Next]_vars, sent' # {}
             PROVE  \/ batch'[Agent] = {}
                    \/ /\ Agent \notin waiting'
                       /\ request'[Current(Agent)'].kind = "SyncMailboxInventory"
  BY DEF Posting
<1>s. ASSUME batch'[Agent] = batch[Agent], Agent \in waiting' => Agent \in waiting, sent # {}
      PROVE  \/ batch'[Agent] = {}
             \/ Agent \notin waiting' /\ request'[Current(Agent)'].kind = "SyncMailboxInventory"
  BY <1>s, CurrentStays DEF Posting
<1>1. CASE Queues
  BY <1>1, <1>s, QueuesRequests DEF postVars
<1>2. CASE Idle
  BY <1>2, <1>s DEF Idle
<1>3. CASE AgentPolls
  BY <1>3 DEF AgentPolls, postVars
<1>4. CASE Blank
  BY <1>4, PostingRests DEF Blank
<1>5. CASE Ends
  BY <1>5, Answers DEF Ends, AbortRun, TypeInv, OrderInv, ServiceTypeOK
<1>6. CASE Carries
  BY <1>6, PostingRests DEF Carries, Sets
<1>7. CASE SendInventory
  <2>1. UNCHANGED <<batch, waiting, request>>
    BY <1>7 DEF SendInventory, serviceVars, pageVars
  <2>2. CASE batch[Agent] = {}
    BY <2>1, <2>2
  <2>3. CASE Working("SyncMailboxInventory")
    BY <2>1, <2>3, CurrentStays DEF Working
  <2>4. QED
    BY <1>7, <2>2, <2>3 DEF SendInventory
<1>8. CASE Posts \/ ChangedByHand
  BY <1>8, <1>s DEF Posts, ReceiveInventory, ChangedByHand, serviceVars, postVars
<1>9. CASE Hears
  <2>1. PICK r \in results, answered \in BOOLEAN : ReceiveResult(r, answered)
    BY <1>9 DEF Hears
  <2>2. sent' = sent /\ sent # {} /\ Agent \notin waiting
    BY <2>1 DEF ReceiveResult, Posting, OneResult
  <2>3. ~AwaitedBy(Agent, r)
    BY <2>2 DEF AwaitedBy
  <2>4. batch'[Agent] = batch[Agent] /\ Agent \notin waiting'
    BY <2>1, <2>2, <2>3, Answers DEF ReceiveResult, DeliverResult
  <2>5. QED
    BY <1>s, <2>2, <2>4
<1>10. QED
  BY <1>1, <1>2, <1>3, <1>4, <1>5, <1>6, <1>7, <1>8, <1>9, StepKinds

\* A mailbox that no change by hand touches keeps its policy but for a batch.
LEMMA OthersKeepAssigned ==
  ASSUME TypeInv, [Next]_vars, NEW m \in Mailbox, m \notin unsaid', ~Carries
  PROVE  assigned'[m] = assigned[m]
<1>1. CASE Queues
  BY <1>1, QueuesRequests DEF exchangeVars
<1>2. CASE Idle \/ Blank \/ Ends
  BY <1>2 DEF Idle, Blank, Ends, Still
<1>3. CASE AgentPolls \/ SendInventory \/ Posts \/ Hears
  BY <1>3 DEF AgentPolls, SendInventory, Posts, ReceiveInventory, Hears, ReceiveResult, exchangeVars
<1>4. CASE ChangedByHand
  <2>1. assigned \in [Mailbox -> Assignment]
    BY DEF TypeInv, RestTyped
  <2>2. QED
    BY <1>4, <2>1 DEF ChangedByHand
<1>5. QED
  BY <1>1, <1>2, <1>3, <1>4, StepKinds

LEMMA InventoryTrueStep == TypeInv /\ Posting /\ InventoryTrue /\ [Next]_vars => InventoryTrue'
<1> SUFFICES ASSUME TypeInv, Posting, InventoryTrue, [Next]_vars,
                    NEW i \in sent', NEW m \in Mailbox, m \notin unsaid'
             PROVE  i.assigned[m] = assigned'[m]
  BY DEF InventoryTrue
<1>g. m \notin unsaid
  BY StepGrows DEF Grows
<1>1. CASE Carries
  BY <1>1, PostingRests DEF Carries, Sets
<1>2. CASE SendInventory
  BY <1>2 DEF SendInventory, exchangeVars
<1>3. CASE ~Carries /\ ~SendInventory
  <2>1. sent' \subseteq sent
    <3>1. CASE Queues
      BY <3>1, QueuesRequests DEF postVars
    <3>2. CASE Idle \/ Blank \/ Ends
      BY <3>2 DEF Idle, Blank, Ends
    <3>3. CASE AgentPolls \/ Posts \/ Hears \/ ChangedByHand
      BY <3>3 DEF AgentPolls, Posts, ReceiveInventory, Hears, ReceiveResult, ChangedByHand, postVars
    <3>4. QED
      BY <1>3, <3>1, <3>2, <3>3, StepKinds
  <2>2. assigned'[m] = assigned[m]
    BY <1>3, OthersKeepAssigned
  <2>3. QED
    BY <1>g, <2>1, <2>2 DEF InventoryTrue
<1>4. QED
  BY <1>1, <1>2, <1>3

\* The result of a run, in the state it is sent in.
RunTrue(answer) ==
  \A m \in DOMAIN answer : m \notin unsaid' /\ answer[m].ok => assigned'[m] = answer[m].policy

LEMMA RunIsTrue ==
  ASSUME TypeInv, OneResult, NEW ok \in BOOLEAN, NEW answer \in Answer,
         RunCommand(Agent, ok, answer), RunTrue(answer)
  PROVE  ResultTrue'
<1>n. PICK new : new = [cmd |-> Current(Agent), try |-> handouts[Current(Agent)],
                       ok |-> ok, answer |-> answer]
  OBVIOUS
<1>1. /\ results' = results \cup {new} /\ UNCHANGED <<status, handouts, batch>>
      /\ Agent \notin waiting /\ batch[Agent] # {}
  BY <1>n DEF RunCommand
<1>2. Current(Agent)' = Current(Agent) /\ Current(Agent) \in batch[Agent]
  BY <1>1, CurrentInBatch, Answers DEF Current, TypeInv, OrderInv
<1>3. ASSUME NEW r \in results', AwaitedBy(Agent, r)', Once(r.cmd)' PROVE r = new
  <2>1. r.cmd = Current(Agent)
    BY <1>2, <1>3 DEF AwaitedBy
  <2>2. ~HasRun(Current(Agent))
    BY <1>1, <1>2, <1>3, <2>1, Answers DEF OneResult, Once
  <2>3. QED
    BY <1>1, <2>1, <2>2 DEF HasRun
<1>4. new.answer = answer
  BY <1>n
<1>5. \A m \in DOMAIN new.answer :
        m \notin unsaid' /\ new.answer[m].ok => assigned'[m] = new.answer[m].policy
  BY <1>4 DEF RunTrue
<1>6. QED
  BY <1>3, <1>5 DEF ResultTrue

LEMMA SetsReportTruth ==
  ASSUME TypeInv, NEW changed \in SUBSET Mailbox, NEW good \in SUBSET Mailbox, Sets(changed, good),
         NEW m \in Mailbox, m \notin unsaid'
  PROVE  /\ m \in changed <=> m \in good
         /\ m \in changed => assigned'[m] = request[Current(Agent)].policy
         /\ m \notin changed => assigned'[m] = assigned[m]
  BY DEF Sets

LEMMA ResultTrueStep == TypeInv /\ OneResult /\ ResultTrue /\ [Next]_vars => ResultTrue'
<1> SUFFICES ASSUME TypeInv, OneResult, ResultTrue, [Next]_vars PROVE ResultTrue'
  OBVIOUS
<1>s. ASSUME ~Carries, results' \subseteq results,
             \A r \in results : AwaitedBy(Agent, r)' => AwaitedBy(Agent, r)
      PROVE  ResultTrue'
  <2>1. SUFFICES ASSUME NEW r \in results', AwaitedBy(Agent, r)', Once(r.cmd)',
                        NEW m \in DOMAIN r.answer, m \notin unsaid', r.answer[m].ok
                 PROVE  assigned'[m] = r.answer[m].policy
    BY DEF ResultTrue
  <2>2. r \in results /\ r.cmd \in Command /\ m \in Mailbox
    BY <1>s, ResultTypes
  <2>3. Once(r.cmd) /\ m \notin unsaid
    <3>1. handouts[r.cmd] <= handouts'[r.cmd] /\ handouts[r.cmd] \in Nat
      BY <2>2, StepGrows, HandoutNumbers DEF Grows
    <3>2. handouts'[r.cmd] \in Nat
      BY <2>2, TypeStep DEF TypeInv, OrderInv, ServiceTypeOK
    <3>3. QED
      BY <2>1, <3>1, <3>2, StepGrows DEF Grows, Once
  <2>4. QED
    BY <1>s, <2>1, <2>2, <2>3, OthersKeepAssigned DEF ResultTrue
<1>a. ASSUME batch'[Agent] = {} PROVE ResultTrue'
  BY <1>a DEF ResultTrue, AwaitedBy
<1>u. ASSUME UNCHANGED <<batch, waiting, handouts>>, results' \subseteq results, ~Carries
      PROVE  ResultTrue'
  <2>1. \A r \in results : AwaitedBy(Agent, r)' => AwaitedBy(Agent, r)
    BY <1>u DEF AwaitedBy, Current
  <2>2. QED
    BY <1>s, <1>u, <2>1
<1>1. CASE Carries
  <2>1. PICK changed, good \in SUBSET Mailbox : Sets(changed, good)
    BY <1>1 DEF Carries
  <2>2. CASE AbortRun(Agent)
    BY <1>a, <2>2, Answers DEF AbortRun, TypeInv, OrderInv, ServiceTypeOK
  <2>3. CASE ~AbortRun(Agent)
    <3> DEFINE q == request[Current(Agent)]
               answer == [m \in q.boxes |-> [ok |-> m \in good, policy |-> q.policy]]
    <3>1. RunCommand(Agent, TRUE, answer)
      BY <2>1, <2>3 DEF Sets
    <3>2. q \in Request
      BY <2>1, WorkingFacts DEF Sets
    <3>3. answer \in [q.boxes -> Outcome] /\ q.boxes \subseteq Mailbox
      BY <3>2 DEF Request, Outcome
    <3>4. answer \in Answer
      BY <3>3, Answers
    <3>5. RunTrue(answer)
      BY <2>1, <3>3, SetsReportTruth DEF RunTrue
    <3> HIDE DEF answer
    <3>6. QED
      BY <3>1, <3>4, <3>5, RunIsTrue
  <2>4. QED
    BY <2>2, <2>3
<1>2. CASE ~Carries /\ Queues
  BY <1>2, <1>u, QueuesRequests
<1>3. CASE ~Carries /\ (Idle \/ SendInventory \/ Posts \/ ChangedByHand)
  BY <1>3, <1>u DEF Idle, SendInventory, Posts, ReceiveInventory, ChangedByHand, serviceVars
<1>4. CASE AgentPolls
  <2>1. Agent \notin waiting /\ waiting' = waiting
    BY <1>4 DEF AgentPolls, ServicePoll, PollEffect, OneResult
  <2>2. QED
    BY <2>1 DEF ResultTrue, AwaitedBy
<1>5. CASE Blank
  <2>1. PICK ok \in BOOLEAN : RunCommand(Agent, ok, NoRows)
    BY <1>5 DEF Blank
  <2>2. RunTrue(NoRows)
    BY Answers DEF RunTrue
  <2>3. QED
    BY <2>1, <2>2, Answers, RunIsTrue
<1>6. CASE Ends
  BY <1>a, <1>6, Answers DEF Ends, AbortRun, TypeInv, OrderInv, ServiceTypeOK
<1>7. CASE ~Carries /\ Hears
  <2>1. PICK r \in results, answered \in BOOLEAN : ReceiveResult(r, answered)
    BY <1>7 DEF Hears
  <2>2. /\ results' \subseteq results /\ handouts' = handouts
        /\ \/ Agent \notin waiting'
           \/ batch'[Agent] = batch[Agent] /\ (Agent \in waiting' <=> Agent \in waiting)
    BY <2>1, Answers DEF ReceiveResult, DeliverResult
  <2>3. \A s \in results : AwaitedBy(Agent, s)' => AwaitedBy(Agent, s)
    BY <2>2 DEF AwaitedBy, Current
  <2>4. QED
    BY <1>7, <1>s, <2>2, <2>3
<1>8. QED
  BY <1>1, <1>2, <1>3, <1>4, <1>5, <1>6, <1>7, StepKinds

-----------------------------------------------------------------------------
(***************************************************************************)
(* The policy of a row is the one in Exchange, or a result on its way says *)
(* what it is.                                                             *)
(***************************************************************************)
Reporting(m) == \E r \in results : m \in DOMAIN r.answer /\ r.answer[m].ok

RowsTrue ==
  \A m \in Mailbox : row[m].known /\ Undisturbed(m) =>
    row[m].current = assigned[m] \/ Reporting(m)

\* The part of the invariant both properties rest on.
PostsInv == TypeInv /\ OneResult /\ ResultsFit /\ Posting /\ InventoryTrue /\ ResultTrue

LEMMA PostsInit == Init => PostsInv
<1> SUFFICES ASSUME Init PROVE PostsInv
  OBVIOUS
<1>1. TypeInv
  BY TypeInit
<1>2. results = {} /\ sent = {} /\ waiting = {} /\ batch[Agent] = {}
  BY Answers DEF Init, ServiceInit
<1>3. OneResult
  BY OneResultInit DEF Init
<1>4. QED
  BY <1>1, <1>2, <1>3 DEF PostsInv, ResultsFit, Posting, InventoryTrue, ResultTrue

LEMMA PostsStep == PostsInv /\ [Next]_vars => PostsInv'
  BY TypeStep, ResultStaysOne, ResultsFitStep, PostingStep, InventoryTrueStep, ResultTrueStep
  DEF PostsInv

\* A mailbox that is undisturbed was so before, and its requests were its requests.
LEMMA UndisturbedBefore ==
  ASSUME TypeInv, [Next]_vars, NEW m \in Mailbox, Undisturbed(m)'
  PROVE  /\ Undisturbed(m) /\ ~late' /\ m \notin unsaid'
         /\ SetsOf(m) \subseteq SetsOf(m)' /\ \A c \in SetsOf(m) : Once(c)
<1>1. ~late /\ m \notin unsaid /\ ~late' /\ m \notin unsaid'
  BY StepGrows DEF Grows, Undisturbed
<1>2. SetsOf(m) \subseteq SetsOf(m)'
  BY StepGrows DEF Grows, SetsOf
<1>3. ASSUME NEW c \in SetsOf(m) PROVE Once(c)
  <2>1. c \in Command
    BY DEF SetsOf
  <2>2. handouts'[c] <= 1
    BY <1>2, <1>3 DEF Undisturbed
  <2>3. handouts[c] \in Nat /\ handouts'[c] \in Nat
    BY <2>1, TypeStep, HandoutNumbers DEF TypeInv, OrderInv, ServiceTypeOK
  <2>4. handouts[c] <= handouts'[c]
    BY <2>1, StepGrows DEF Grows
  <2>5. QED
    BY <2>2, <2>3, <2>4 DEF Once
<1>4. QED
  BY <1>1, <1>2, <1>3 DEF Undisturbed, Once

\* A result about a mailbox is that of a request for it.
LEMMA ResultOfRequest ==
  ASSUME PostsInv, NEW r \in results, NEW m \in Mailbox,
         m \in DOMAIN r.answer \/ m \in request[r.cmd].boxes
  PROVE  m \in request[r.cmd].boxes /\ r.cmd \in SetsOf(m)
<1>1. m \in request[r.cmd].boxes
  BY DEF PostsInv, ResultsFit, Fits
<1>2. r.cmd \in Command /\ status[r.cmd] # "absent"
  BY ResultTypes DEF PostsInv
<1>3. request[r.cmd].kind = SetKind
  BY <1>1, <1>2 DEF PostsInv, TypeInv, RequestsProper, Proper
<1>4. QED
  BY <1>1, <1>2, <1>3 DEF SetsOf, SetKind

LEMMA RowsTrueStep == PostsInv /\ RowsTrue /\ [Next]_vars => RowsTrue'
<1> SUFFICES ASSUME PostsInv, RowsTrue, [Next]_vars,
                    NEW m \in Mailbox, row'[m].known, Undisturbed(m)'
             PROVE  row'[m].current = assigned'[m] \/ Reporting(m)'
  BY DEF RowsTrue
<1>t. TypeInv /\ row[m] \in Row /\ row \in [Mailbox -> Row]
  BY DEF PostsInv, TypeInv, RestTyped
<1>g. Undisturbed(m) /\ ~late' /\ m \notin unsaid' /\ \A c \in SetsOf(m) : Once(c)
  BY <1>t, UndisturbedBefore
<1>a. ~Carries => assigned'[m] = assigned[m]
  BY <1>t, <1>g, OthersKeepAssigned
<1>s. ASSUME ~Carries, results \subseteq results', row'[m].known = row[m].known,
             row'[m].current = row[m].current
      PROVE  row'[m].current = assigned'[m] \/ Reporting(m)'
  BY <1>a, <1>g, <1>s DEF RowsTrue, Reporting
<1>1. CASE Carries
  <2>1. PICK changed, good \in SUBSET Mailbox : Sets(changed, good)
    BY <1>1 DEF Carries
  <2>2. row' = row
    BY <1>1 DEF Carries
  <2>3. CASE m \notin changed
    <3>1. results \subseteq results'
      BY <2>1 DEF Sets, RunCommand, AbortRun
    <3>2. assigned'[m] = assigned[m]
      BY <1>t, <1>g, <2>1, <2>3, SetsReportTruth
    <3>3. QED
      BY <1>g, <2>2, <3>1, <3>2 DEF RowsTrue, Reporting
  <2>4. CASE m \in changed
    <3>1. m \in good /\ m \in request[Current(Agent)].boxes
      BY <1>t, <1>g, <2>1, <2>4, SetsReportTruth DEF Sets
    <3> DEFINE q == request[Current(Agent)]
               answer == [b \in q.boxes |-> [ok |-> b \in good, policy |-> q.policy]]
               new == [cmd |-> Current(Agent), try |-> handouts[Current(Agent)],
                       ok |-> TRUE, answer |-> answer]
    <3>2. RunCommand(Agent, TRUE, answer)
      BY <2>1, <3>1 DEF Sets
    <3>3. new \in results'
      BY <3>2 DEF RunCommand
    <3>4. new.answer = answer /\ DOMAIN answer = q.boxes /\ answer[m].ok
      BY <3>1
    <3>5. \E r \in results' : m \in DOMAIN r.answer /\ r.answer[m].ok
      <4> HIDE DEF new, answer
      <4> QED
        BY <3>1, <3>3, <3>4
    <3>6. QED
      BY <3>5 DEF Reporting
  <2>5. QED
    BY <2>3, <2>4
<1>2. CASE ~Carries /\ Queues
  <2>1. row'[m].current = row[m].current /\ row'[m].known = row[m].known
    BY <1>2 DEF Queues
  <2>2. QED
    BY <1>2, <1>s, <1>t, <2>1, QueuesRequests
<1>3. CASE ~Carries /\ (Idle \/ Blank \/ Ends)
  <2>1. row' = row /\ results \subseteq results'
    BY <1>3 DEF Idle, Blank, Ends, Still, RunCommand, AbortRun
  <2>2. QED
    BY <1>3, <1>s, <2>1
<1>4. CASE ~Carries /\ (AgentPolls \/ SendInventory \/ ChangedByHand)
  <2>1. row' = row /\ results' = results
    BY <1>4 DEF AgentPolls, ServicePoll, PollEffect, SendInventory, ChangedByHand, serviceVars, pageVars
  <2>2. QED
    BY <1>4, <1>s, <2>1
<1>5. CASE ~Carries /\ Posts
  <2>1. PICK i \in inventories : ReceiveInventory(i)
    BY <1>5 DEF Posts
  <2>2. i \in sent /\ results' = results
    BY <1>g, <2>1 DEF ReceiveInventory, serviceVars
  <2>3. CASE m \in i.boxes
    <3>1. row'[m].current = i.assigned[m]
      BY <1>t, <2>1, <2>3 DEF ReceiveInventory, Seen, Row
    <3>2. i.assigned[m] = assigned[m]
      BY <1>g, <2>2 DEF PostsInv, InventoryTrue, Undisturbed
    <3>3. QED
      BY <1>5, <1>a, <3>1, <3>2
  <2>4. CASE m \notin i.boxes
    <3>1. row'[m] = [row[m] EXCEPT !.active = FALSE]
      BY <2>1, <2>4 DEF ReceiveInventory
    <3>2. QED
      BY <1>5, <1>s, <1>t, <2>2, <3>1 DEF Row
  <2>5. QED
    BY <2>3, <2>4
<1>6. CASE ~Carries /\ Hears
  <2>1. PICK r \in results, answered \in BOOLEAN : ReceiveResult(r, answered)
    BY <1>6 DEF Hears
  <2>2. AwaitedBy(Agent, r) /\ results' = results \ {r} /\ row'[m] = Reported(m, r)
    BY <1>g, <2>1 DEF ReceiveResult, DeliverResult
  <2>3. CASE m \in DOMAIN r.answer /\ r.answer[m].ok
    <3>1. row'[m].current = r.answer[m].policy
      BY <1>t, <2>2, <2>3 DEF Reported, Row
    <3>2. Once(r.cmd)
      BY <1>g, <2>3, ResultOfRequest
    <3>3. assigned[m] = r.answer[m].policy
      BY <1>g, <2>2, <2>3, <3>2 DEF PostsInv, ResultTrue, Undisturbed
    <3>4. QED
      BY <1>6, <1>a, <3>1, <3>3
  <2>4. CASE ~(m \in DOMAIN r.answer /\ r.answer[m].ok)
    <3>1. row'[m].current = row[m].current /\ row'[m].known = row[m].known
      BY <1>t, <2>2, <2>4 DEF Reported, Row
    <3>2. Reporting(m) => Reporting(m)'
      BY <2>2, <2>4 DEF Reporting
    <3>3. QED
      BY <1>6, <1>a, <1>g, <3>1, <3>2 DEF RowsTrue
  <2>5. QED
    BY <2>3, <2>4
<1>7. QED
  BY <1>t, <1>1, <1>2, <1>3, <1>4, <1>5, <1>6, StepKinds

\* A result on its way is one of a change that has not reported back.
LEMMA RowsTrueTells == PostsInv /\ RowsTrue => PageTellsTruth
<1> SUFFICES ASSUME PostsInv, RowsTrue, NEW m \in Mailbox, row[m].known, Undisturbed(m),
                    \A c \in SetsOf(m) : handouts[c] > 0 => status[c] \in ResultStatus
             PROVE  row[m].current = assigned[m]
  BY DEF PageTellsTruth
<1>1. ASSUME Reporting(m) PROVE FALSE
  <2>1. PICK r \in results : m \in DOMAIN r.answer
    BY <1>1 DEF Reporting
  <2>2. r.cmd \in SetsOf(m) /\ handouts[r.cmd] > 0
    BY <2>1, ResultOfRequest, ResultTypes DEF PostsInv
  <2>3. Once(r.cmd) /\ status[r.cmd] \in ResultStatus
    BY <2>2 DEF Undisturbed, Once
  <2>4. QED
    BY <2>3 DEF PostsInv, OneResult
<1>2. QED
  BY <1>1 DEF RowsTrue

(***************************************************************************)
(* Once every policy change of a mailbox that was handed out has reported  *)
(* back, the page shows the policy the mailbox has in Exchange, whatever   *)
(* inventories, failures, cancellations and losses came between.           *)
(***************************************************************************)
THEOREM PageIsTruthful == Spec => []PageTellsTruth
<1>1. Init => PostsInv /\ RowsTrue
  BY PostsInit DEF Init, NoRow, RowsTrue
<1>2. QED
  BY <1>1, PostsStep, RowsTrueStep, RowsTrueTells, PTL DEF Spec

-----------------------------------------------------------------------------
(***************************************************************************)
(* The row of a mailbox whose newest request has its result.               *)
(***************************************************************************)
Settled(m, c) ==
  \/ row[m].error
  \/ /\ row[m].current = row[m].desired
     /\ row[m].current = assigned[m]
     /\ assigned[m] = request[c].policy

NewestSettled ==
  \A m \in Mailbox : \A c \in Newest(SetsOf(m)) :
    m \notin cleared /\ Undisturbed(m) /\ status[c] \in ResultStatus => Settled(m, c)

\* An older request that is being carried out, or whose result is awaited, keeps
\* every newer one from having its result.
LEMMA OlderKeepsNewerOpen ==
  ASSUME PostsInv, NEW m \in Mailbox, NEW c \in Newest(SetsOf(m)), NEW k \in batch[Agent],
         k \in SetsOf(m), Once(k), k # c
  PROVE  ~HasRun(c)
<1>1. c \in Command /\ k \in Command /\ k <= c
  BY DEF Newest, SetsOf
<1>2. k < c
  BY <1>1 DEF Command
<1>3. node[c] = Agent /\ Agent \in Node
  BY <1>1, Answers DEF PostsInv, TypeInv, OrderInv, ServiceTypeOK
<1>4. QED
  BY <1>1, <1>2, <1>3 DEF PostsInv, TypeInv, OrderInv, RunsInOrder, Once

\* The newest request of the next state was the newest one before, unless it is new.
LEMMA NewestBefore ==
  ASSUME TypeInv, [Next]_vars, NEW m \in Mailbox, NEW c \in Newest(SetsOf(m))', status[c] # "absent",
         Undisturbed(m)'
  PROVE  c \in Newest(SetsOf(m)) /\ c \in Command /\ request'[c] = request[c]
<1>1. c \in SetsOf(m)' /\ \A d \in SetsOf(m)' : d <= c
  BY DEF Newest
<1>2. c \in Command /\ request'[c] = request[c]
  BY <1>1, StepGrows DEF Grows, SetsOf
<1>3. c \in SetsOf(m)
  BY <1>1, <1>2 DEF SetsOf
<1>4. QED
  BY <1>1, <1>2, <1>3, UndisturbedBefore DEF Newest

\* A request that a page adds is newer than those that exist.
LEMMA QueuesNewer ==
  ASSUME TypeInv, Queues, NEW m \in Mailbox, row'[m] # row[m],
         NEW c \in Newest(SetsOf(m))'
  PROVE  status'[c] \notin ResultStatus
<1>1. PICK added \in SUBSET Command : \E asks \in [added -> Request] :
        /\ Queue(asks)
        /\ \E d \in added : asks[d].kind = SetKind /\ m \in asks[d].boxes
  BY DEF Queues
<1>2. PICK asks \in [added -> Request] :
        /\ Queue(asks)
        /\ \E d \in added : asks[d].kind = SetKind /\ m \in asks[d].boxes
  BY <1>1
<1>3. PICK d \in added : asks[d].kind = SetKind /\ m \in asks[d].boxes
  BY <1>2
<1> DEFINE rows == [e \in DOMAIN asks |-> Agent]
<1>4. WriteRows(rows, {}) /\ DOMAIN rows = added
  BY <1>2 DEF Queue, QueueRows
<1> HIDE DEF rows
<1>5. status' = [e \in Command |-> CASE e \in DOMAIN rows -> "pending"
                                     [] e \in {}          -> "cancelled"
                                     [] OTHER             -> status[e]]
  BY <1>4 DEF WriteRows
<1>6. \A e \in added : e \in Command /\ status[e] = "absent" /\ status'[e] = "pending"
  <2>1. \A e \in added : e \in Command /\ e \in DOMAIN rows /\ status[e] = "absent"
    BY <1>4 DEF WriteRows
  <2>2. \A e \in Command : e \in DOMAIN rows => status'[e] = "pending"
    BY <1>5, Zenon
  <2>3. QED
    BY <2>1, <2>2
<1>7. \A e \in Command : e \notin added => status'[e] = status[e]
  BY <1>4, <1>5, Zenon
<1>8. request'[d] = asks[d]
  BY <1>2, <1>3, <1>6 DEF Queue
<1>9. d \in SetsOf(m)'
  BY <1>3, <1>6, <1>8 DEF SetsOf, SetKind
<1>10. c \in Command /\ d <= c /\ status'[c] # "absent"
  BY <1>9 DEF Newest, SetsOf
<1>11. CASE c \in added
  BY <1>6, <1>11 DEF ResultStatus
<1>12. CASE c \notin added
  <2>1. status[c] # "absent" /\ d < c
    BY <1>3, <1>6, <1>7, <1>10, <1>12 DEF Command
  <2>2. status[d] # "absent"
    BY <1>6, <1>10, <2>1 DEF TypeInv, OrderInv, RowsInOrder
  <2>3. QED
    BY <1>6, <2>2
<1>13. QED
  BY <1>11, <1>12

LEMMA NewestStep == PostsInv /\ NewestSettled /\ [Next]_vars => NewestSettled'
<1> SUFFICES ASSUME PostsInv, NewestSettled, [Next]_vars,
                    NEW m \in Mailbox, NEW c \in Newest(SetsOf(m))',
                    m \notin cleared', Undisturbed(m)', status'[c] \in ResultStatus
             PROVE  Settled(m, c)'
  BY DEF NewestSettled
<1>t. TypeInv /\ row[m] \in Row /\ row \in [Mailbox -> Row] /\ status \in [Command -> Status]
  BY DEF PostsInv, TypeInv, RestTyped, OrderInv, ServiceTypeOK
<1>g. Undisturbed(m) /\ ~late' /\ m \notin unsaid' /\ m \notin cleared
      /\ (\A d \in SetsOf(m) : Once(d)) /\ c \in Command
  BY <1>t, UndisturbedBefore, StepGrows DEF Grows, Newest, SetsOf
<1>a. ~Carries => assigned'[m] = assigned[m]
  BY <1>t, <1>g, OthersKeepAssigned
<1>b. status[c] # "absent" => c \in Newest(SetsOf(m)) /\ request'[c] = request[c]
  BY <1>t, NewestBefore
<1>c. status[c] \in ResultStatus => status[c] # "absent" /\ HasRun(c) /\ Settled(m, c)
  BY <1>b, <1>g DEF NewestSettled, ResultStatus, HasRun
<1>s. ASSUME ~Carries, status[c] \in ResultStatus, row'[m].error = row[m].error,
             row'[m].current = row[m].current, row'[m].desired = row[m].desired
      PROVE  Settled(m, c)'
  <2>1. Settled(m, c) /\ request'[c] = request[c] /\ assigned'[m] = assigned[m]
    BY <1>a, <1>b, <1>c, <1>s
  <2>2. QED
    BY <1>s, <2>1 DEF Settled
<1>1. CASE Carries
  <2>1. PICK changed, good \in SUBSET Mailbox : Sets(changed, good)
    BY <1>1 DEF Carries
  <2> DEFINE k == Current(Agent)
  <2>2. row' = row /\ status' = status
    BY <1>t, <1>1, CarriesReports DEF Carries
  <2>3. status[c] \in ResultStatus /\ Settled(m, c) /\ request'[c] = request[c] /\ HasRun(c)
    BY <1>b, <1>c, <2>2
  <2>4. m \notin changed
    <3> SUFFICES ASSUME m \in changed PROVE FALSE
      OBVIOUS
    <3>1. k \in batch[Agent] /\ k \in Command /\ status[k] # "absent" /\ request[k].kind = SetKind
          /\ Agent \notin waiting
      BY <1>t, <2>1, WorkingFacts DEF Sets
    <3>2. k \in SetsOf(m)
      BY <2>1, <3>1 DEF Sets, SetsOf, SetKind
    <3>3. Once(k)
      BY <1>g, <3>2
    <3>4. ~HasRun(k)
      BY <3>1, <3>3, Answers DEF PostsInv, OneResult
    <3>5. c \in Newest(SetsOf(m))
      BY <1>b, <1>c, <2>3
    <3> HIDE DEF k
    <3>6. QED
      BY <2>3, <3>1, <3>2, <3>3, <3>4, <3>5, OlderKeepsNewerOpen
  <2>5. assigned'[m] = assigned[m]
    BY <1>t, <1>g, <2>1, <2>4, SetsReportTruth
  <2>6. QED
    BY <2>2, <2>3, <2>5 DEF Settled
<1>2. CASE ~Carries /\ Queues
  <2>1. row'[m] = row[m]
    BY <1>t, <1>2, QueuesNewer
  <2>2. status[c] \in ResultStatus
    <3>1. PICK added \in SUBSET Command : \E asks \in [added -> Request] : Queue(asks)
      BY <1>2 DEF Queues
    <3>2. PICK asks \in [added -> Request] : Queue(asks)
      BY <3>1
    <3> DEFINE rows == [e \in DOMAIN asks |-> Agent]
    <3>3. WriteRows(rows, {})
      BY <3>2 DEF Queue, QueueRows
    <3> HIDE DEF rows
    <3>4. status' = [e \in Command |-> CASE e \in DOMAIN rows -> "pending"
                                         [] e \in {}          -> "cancelled"
                                         [] OTHER             -> status[e]]
      BY <3>3 DEF WriteRows
    <3>5. c \in DOMAIN rows => status'[c] = "pending"
      BY <1>g, <3>4, Zenon
    <3>6. c \notin DOMAIN rows => status'[c] = status[c]
      BY <1>g, <3>4, Zenon
    <3>7. QED
      BY <3>5, <3>6 DEF ResultStatus
  <2>3. QED
    BY <1>2, <1>s, <2>1, <2>2
<1>3. CASE ~Carries /\ (Idle \/ Blank \/ Ends \/ SendInventory \/ ChangedByHand)
  <2>1. row' = row
    BY <1>3 DEF Idle, Blank, Ends, Still, SendInventory, ChangedByHand, pageVars
  <2>2. status[c] \in ResultStatus
    BY <1>3, <1>g DEF Idle, Blank, Ends, RunCommand, AbortRun, SendInventory, ChangedByHand, serviceVars
  <2>3. QED
    BY <1>3, <1>s, <2>1, <2>2
<1>4. CASE ~Carries /\ AgentPolls
  <2>1. row' = row
    BY <1>4 DEF AgentPolls, pageVars
  <2>2. PICK reopened, expired, claimed \in SUBSET Command, answered \in BOOLEAN :
          PollChange(Agent, reopened, expired, claimed, answered)
    BY <1>4, Answers, PollChanges DEF AgentPolls, PostsInv, TypeInv, OrderInv
  <2>3. status[c] \in ResultStatus
    BY <1>g, <2>2 DEF PollChange, ResultStatus
  <2>4. QED
    BY <1>4, <1>s, <2>1, <2>3
<1>5. CASE ~Carries /\ Posts
  <2>1. PICK i \in inventories : ReceiveInventory(i)
    BY <1>5 DEF Posts
  <2>2. i \in sent /\ status' = status
    BY <1>g, <2>1 DEF ReceiveInventory, serviceVars
  <2>3. CASE m \in i.boxes
    <3>1. /\ row'[m].current = i.assigned[m] /\ row'[m].desired = row[m].desired
          /\ row'[m].error = row[m].error \/ ~row'[m].error
      BY <1>t, <2>1, <2>3 DEF ReceiveInventory, Seen, Row
    <3>2. row[m].error => row'[m].error
      BY <1>g, <2>1 DEF ReceiveInventory
    <3>3. i.assigned[m] = assigned[m]
      BY <1>g, <2>2 DEF PostsInv, InventoryTrue, Undisturbed
    <3>4. Settled(m, c) /\ request'[c] = request[c] /\ assigned'[m] = assigned[m]
      BY <1>5, <1>a, <1>b, <1>c, <2>2
    <3>5. QED
      BY <3>1, <3>2, <3>3, <3>4 DEF Settled
  <2>4. CASE m \notin i.boxes
    <3>1. row'[m] = [row[m] EXCEPT !.active = FALSE]
      BY <2>1, <2>4 DEF ReceiveInventory
    <3>2. QED
      BY <1>5, <1>s, <1>t, <2>2, <3>1 DEF Row
  <2>5. QED
    BY <2>3, <2>4
<1>6. CASE ~Carries /\ Hears
  <2>1. PICK r \in results, answered \in BOOLEAN : ReceiveResult(r, answered)
    BY <1>6 DEF Hears
  <2>2. AwaitedBy(Agent, r) /\ row'[m] = Reported(m, r) /\ r.cmd \in batch[Agent]
        /\ request' = request /\ r.cmd \in Command
    BY <1>g, <1>t, <2>1, ResultTypes DEF ReceiveResult, AwaitedBy
  <2>3. c # r.cmd => status'[c] = status[c]
    BY <1>t, <1>g, <2>1, <2>2 DEF ReceiveResult, DeliverResult
  <2>4. CASE c = r.cmd
    <3>1. m \in request[r.cmd].boxes /\ r.cmd \in SetsOf(m)
      <4>1. status[c] # "absent"
        BY <1>t, <2>4, ResultTypes
      <4>2. c \in SetsOf(m)
        BY <1>b, <4>1 DEF Newest
      <4>3. QED
        BY <2>4, <4>2 DEF SetsOf
    <3>2. CASE m \in DOMAIN r.answer /\ r.answer[m].ok
      <4>1. row'[m].current = r.answer[m].policy /\ row'[m].desired = r.answer[m].policy
        BY <1>t, <2>2, <3>2 DEF Reported, Row
      <4>2. r.answer[m].policy = request[r.cmd].policy
        BY <3>2 DEF PostsInv, ResultsFit, Fits
      <4>3. assigned[m] = r.answer[m].policy
        BY <1>g, <2>2, <3>1, <3>2 DEF PostsInv, ResultTrue, Undisturbed
      <4>4. QED
        BY <1>6, <1>a, <2>2, <2>4, <4>1, <4>2, <4>3 DEF Settled
    <3>3. CASE m \in DOMAIN r.answer /\ ~r.answer[m].ok
      BY <1>t, <2>2, <3>3 DEF Reported, Row, Settled
    <3>4. CASE m \notin DOMAIN r.answer
      <4>1. DOMAIN r.answer = {} /\ ~r.ok
        BY <3>1, <3>4 DEF PostsInv, ResultsFit, Fits
      <4>2. QED
        BY <1>t, <2>2, <3>1, <3>4, <4>1 DEF Reported, Row, Settled
    <3>5. QED
      BY <3>2, <3>3, <3>4
  <2>5. CASE c # r.cmd
    <3>1. status[c] \in ResultStatus /\ HasRun(c) /\ c \in Newest(SetsOf(m))
      BY <1>b, <1>c, <2>3, <2>5
    <3>2. ~(m \in DOMAIN r.answer \/ m \in request[r.cmd].boxes)
      <4> SUFFICES ASSUME m \in DOMAIN r.answer \/ m \in request[r.cmd].boxes PROVE FALSE
        OBVIOUS
      <4>1. r.cmd \in SetsOf(m)
        BY ResultOfRequest
      <4>2. Once(r.cmd)
        BY <1>g, <4>1
      <4>3. QED
        BY <2>2, <2>5, <3>1, <4>1, <4>2, OlderKeepsNewerOpen
    <3>3. row'[m] = row[m]
      BY <2>2, <3>2 DEF Reported
    <3>4. QED
      BY <1>6, <1>s, <3>1, <3>3
  <2>6. QED
    BY <2>4, <2>5
<1>7. QED
  BY <1>t, <1>1, <1>2, <1>3, <1>4, <1>5, <1>6, StepKinds

(***************************************************************************)
(* When the result of the newest request for a mailbox is in, the page     *)
(* says "Failed", or it says "Synced" and Exchange has what was asked for. *)
(***************************************************************************)
THEOREM NewestIsFinal == Spec => []NewestRequestWins
<1>1. Init => PostsInv /\ NewestSettled
  <2>1. Init => \A m \in Mailbox : Newest(SetsOf(m)) = {}
    BY DEF Init, ServiceInit, SetsOf, Newest
  <2>2. QED
    BY <2>1, PostsInit DEF NewestSettled
<1>2. PostsInv /\ NewestSettled => NewestRequestWins
  BY DEF NewestSettled, NewestRequestWins, Settled, Badge
<1>3. QED
  BY <1>1, <1>2, PostsStep, NewestStep, PTL DEF Spec

=============================================================================
