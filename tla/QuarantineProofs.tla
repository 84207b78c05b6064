-------------------------- MODULE QuarantineProofs --------------------------
(***************************************************************************)
(* Theorems about Quarantine, for every number of commands, incidents and  *)
(* hand-outs.                                                              *)
(***************************************************************************)
EXTENDS Quarantine, CommandServiceProofs

(***************************************************************************)
(* Both agents are nodes, and every EWS setting is an answer.              *)
(***************************************************************************)
LEMMA Constants ==
  /\ Mailbox \in Node /\ Edge \in Node
  /\ "unknown" \in Answer /\ "on" \in Answer /\ "off" \in Answer
  BY QuarantineAssumption

(***************************************************************************)
(* Each action of the component is one of the service on the command       *)
(* table.                                                                  *)
(***************************************************************************)
ServiceAction ==
  \/ \E n \in Node, ok \in BOOLEAN, answer \in Answer : RunCommand(n, ok, answer)
  \/ \E n \in Node : AbortRun(n)
  \/ \E r \in results, answered \in BOOLEAN : DeliverResult(r, answered)
  \/ \E r \in results : LoseResult(r)
  \/ \E c \in Command : CancelCheck(c) \/ CancelCommit(c)
  \/ \E n \in Node : ServicePoll(n)
  \/ \E c \in Command : QueueCommand(c, Mailbox)
  \/ \E c \in Command : /\ c + 1 \in Command
                        /\ QueueRows([d \in {c, c + 1} |-> IF d = c THEN Mailbox ELSE Edge])
  \/ UNCHANGED serviceVars

\* An execution of the mailbox agent posts a result or ends the run.
LEMMA MailboxAgentService == TypeOK /\ MailboxAgent => ServiceAction
  BY Constants
  DEF TypeOK, Ews, MailboxAgent, QuarantineSucceeds, QuarantineFails, QuarantineHalfFails,
      QuarantineKilled, ReleaseSucceeds, ReleaseFails, ReleaseKilled, ServiceAction

\* Every step of the component takes one of them.
LEMMA StepIsServiceAction == TypeOK /\ [Next]_vars => ServiceAction
  BY MailboxAgentService, Constants
  DEF Next, RequestQuarantine, ReleaseCheck, ReleaseCommit, Cancel, EdgeAgent, RunEnds,
      ReceiveResult, NoResult, AgentPolls, ServiceAction, vars

\* So the types of the service are kept.
LEMMA ServiceActionType == ServiceTypeOK /\ ServiceAction => ServiceTypeOK'
<1> SUFFICES ASSUME ServiceTypeOK, ServiceAction PROVE ServiceTypeOK'
  OBVIOUS
<1>1. ASSUME NEW c \in Command, QueueCommand(c, Mailbox) PROVE ServiceTypeOK'
  BY <1>1, QueueType, Constants DEF QueueCommand
<1>2. ASSUME NEW c \in Command, c + 1 \in Command,
             QueueRows([d \in {c, c + 1} |-> IF d = c THEN Mailbox ELSE Edge])
      PROVE  ServiceTypeOK'
  BY <1>2, QueueType, Constants
<1>3. CASE UNCHANGED serviceVars
  BY <1>3 DEF serviceVars, ServiceTypeOK
<1>4. QED
  BY <1>1, <1>2, <1>3, RunType, AbortType, DeliverType, LoseType, CancelType, ServicePollType
  DEF ServiceAction

-----------------------------------------------------------------------------
(***************************************************************************)
(* Every variable keeps its type.                                          *)
(***************************************************************************)
LEMMA TypeInit == Init => TypeOK
<1> SUFFICES ASSUME Init PROVE TypeOK
  OBVIOUS
<1>1. ServiceTypeOK
  BY ServiceTypeInit DEF Init
<1>2. NoIncident \in IncidentRow
  BY Constants DEF NoIncident, IncidentRow
<1>3. QED
  BY <1>1, <1>2, Constants DEF Init, TypeOK, Kind, Ews

\* The row an incident gets from a result is an incident row.
LEMMA UpdatedType ==
  ASSUME NEW row \in IncidentRow, row.status # "absent", NEW r \in Result, NEW st
  PROVE  UpdatedIncident(row, r, st) \in IncidentRow
<1>1. ASSUME NEW statuses PROVE Outcome(statuses, row.status) \in IncidentStatus
  BY DEF Outcome, IncidentRow, IncidentStatus, ActiveStatus
<1>2. r.answer \in Answer
  BY DEF Result
<1>3. QED
  BY <1>1, <1>2 DEF UpdatedIncident, IncidentRow, IncidentStatus

\* Every step keeps the types of the incidents, the payloads and Exchange.
LEMMA TypeStep == TypeOK /\ [Next]_vars => TypeOK'
<1> SUFFICES ASSUME TypeOK, [Next]_vars PROVE TypeOK'
  OBVIOUS
<1>1. ServiceTypeOK'
  BY StepIsServiceAction, ServiceActionType DEF TypeOK
<1> USE <1>1, Constants DEF TypeOK
<1>2. ASSUME NEW i \in Incident, NEW c \in Command, RequestQuarantine(i, c) PROVE TypeOK'
  BY <1>2 DEF RequestQuarantine, exchangeVars, Kind, IncidentRow, IncidentStatus, ActiveStatus
<1>3. ASSUME NEW i \in Incident, ReleaseCheck(i) PROVE TypeOK'
  BY <1>3 DEF ReleaseCheck, exchangeVars, IncidentRow
<1>4. ASSUME NEW i \in Incident, NEW c \in Command, ReleaseCommit(i, c) PROVE TypeOK'
  <2>1. kind' \in [Command -> Kind] /\ restore' \in [Command -> Answer]
    BY <1>4 DEF ReleaseCommit, Kind
  <2>2. incident' \in [Incident -> IncidentRow]
    <3>1. [incident[i] EXCEPT !.status = "pending", !.mailboxCmd = c] \in IncidentRow
      BY DEF IncidentRow, IncidentStatus, ActiveStatus
    <3>2. incident' = [incident EXCEPT ![i] =
             [incident[i] EXCEPT !.status = "pending", !.mailboxCmd = c]]
      BY <1>4 DEF ReleaseCommit
    <3>3. QED
      BY <3>1, <3>2
  <2>3. releasing' \in [Incident -> Answer \cup {"no"}]
    BY <1>4 DEF ReleaseCommit
  <2>4. QED
    BY <1>4, <2>1, <2>2, <2>3 DEF ReleaseCommit, exchangeVars
<1>5. CASE MailboxAgent
  <2>1. ews' \in Ews /\ member' \in BOOLEAN
    <3>1. ASSUME NEW c \in Command PROVE RestoredEws(c) \in Ews
      BY QuarantineAssumption DEF RestoredEws, Ews
    <3>2. Working("ReleaseMailbox") => Current(Mailbox) \in Command
      BY CurrentInBatch DEF Working
    <3>3. QED
      BY <1>5, <3>1, <3>2
      DEF MailboxAgent, QuarantineSucceeds, QuarantineFails, QuarantineHalfFails,
          QuarantineKilled, ReleaseSucceeds, ReleaseFails, ReleaseKilled, Ews
  <2>2. QED
    BY <1>5, <2>1 DEF MailboxAgent, incidentVars
<1>6. ASSUME NEW r \in results, NEW answered \in BOOLEAN, ReceiveResult(r, answered) PROVE TypeOK'
  <2>1. r \in Result
    BY DEF ServiceTypeOK
  <2>2. ASSUME NEW i \in IncidentsOf(r.cmd)
        PROVE  UpdatedIncident(incident[i], r, status') \in IncidentRow
    BY <2>1, UpdatedType DEF IncidentsOf, Opened
  <2>3. incident' \in [Incident -> IncidentRow]
    BY <1>6, <2>2 DEF ReceiveResult
  <2>4. QED
    BY <1>6, <2>3 DEF ReceiveResult, exchangeVars
<1>7. CASE UNCHANGED <<incidentVars, exchangeVars>>
  BY <1>7 DEF incidentVars, exchangeVars
<1>8. QED
  BY <1>2, <1>3, <1>4, <1>5, <1>6, <1>7
  DEF Next, Cancel, EdgeAgent, RunEnds, NoResult, AgentPolls, vars

(***************************************************************************)
(* TypeOK is an invariant.                                                 *)
(***************************************************************************)
THEOREM TypeCorrect == Spec => []TypeOK
  BY TypeInit, TypeStep, PTL DEF Spec

-----------------------------------------------------------------------------
(***************************************************************************)
(* The command table under the incidents: each step is one of the table,   *)
(* so what CommandServiceProofs knows of the order of executions and of    *)
(* their results holds for the commands of incidents.                      *)
(***************************************************************************)
LEMMA StepIsTableStep == TypeOK /\ [Next]_vars => TableStep
<1> SUFFICES ASSUME TypeOK, [Next]_vars PROVE TableStep
  OBVIOUS
<1>1. ASSUME NEW added \in SUBSET Command, NEW rows \in [added -> Node], QueueRows(rows)
      PROVE  QueuesRows
  BY <1>1 DEF QueueRows, QueuesRows
<1>2. ASSUME NEW c \in Command, QueueCommand(c, Mailbox) PROVE QueuesRows
  BY <1>1, <1>2, Constants DEF QueueCommand
<1>3. ASSUME NEW c \in Command, c + 1 \in Command,
             QueueRows([d \in {c, c + 1} |-> IF d = c THEN Mailbox ELSE Edge])
      PROVE  QueuesRows
  BY <1>1, <1>3, Constants
<1>4. QED
  BY <1>2, <1>3, StepIsServiceAction DEF ServiceAction, TableStep

\* An agent asks for commands only between two runs.
LEMMA StepIsRunStep == TypeOK /\ [Next]_vars => RunStep
<1> SUFFICES ASSUME TypeOK, [Next]_vars, NEW m \in Node, batch[m] # {}
             PROVE  batch'[m] \subseteq batch[m]
  BY StepIsTableStep DEF RunStep
<1>0. batch \in [Node -> SUBSET Command]
  BY DEF TypeOK, ServiceTypeOK
<1>1. ASSUME NEW n \in Node, AgentPolls(n) PROVE batch'[m] \subseteq batch[m]
  <2>1. m # n
    BY <1>1 DEF AgentPolls
  <2>2. batch'[m] = batch[m]
    BY <1>0, <1>1, <2>1 DEF AgentPolls, ServicePoll, PollEffect
  <2>3. QED
    BY <2>2
<1>2. ASSUME NEW r \in results, NEW answered \in BOOLEAN, DeliverResult(r, answered)
      PROVE  batch'[m] \subseteq batch[m]
  BY <1>2 DEF DeliverResult
<1>3. ASSUME NEW n \in Node, AbortRun(n) PROVE batch'[m] \subseteq batch[m]
  BY <1>0, <1>3 DEF AbortRun
<1>4. ASSUME UNCHANGED batch PROVE batch'[m] \subseteq batch[m]
  BY <1>4
<1>5. MailboxAgent => UNCHANGED batch \/ AbortRun(Mailbox)
  BY DEF MailboxAgent, QuarantineSucceeds, QuarantineFails, QuarantineHalfFails,
         QuarantineKilled, ReleaseSucceeds, ReleaseFails, ReleaseKilled, RunCommand
<1>6. QED
  BY <1>1, <1>2, <1>3, <1>4, <1>5, Constants
  DEF Next, RequestQuarantine, ReleaseCheck, ReleaseCommit, Cancel, CancelCheck, CancelCommit,
      EdgeAgent, RunEnds, ReceiveResult, NoResult, RunCommand, LoseResult, QueueCommand, QueueRows,
      WriteRows, agentVars, serviceVars, vars

(***************************************************************************)
(* On the command table the incidents do what the service allows, so their *)
(* commands live the life of TaskLifecycle: no two runs have one at once,  *)
(* none comes back once it is over, and each waits for the older ones.     *)
(***************************************************************************)
THEOREM UsesService == Spec => ServiceSpec /\ ImplementsLifecycle
<1>1. Init => ServiceInit
  BY DEF Init
<1>2. TypeOK /\ [Next]_vars => [ServiceNext]_serviceVars
  BY StepIsTableStep, TableStepIsService
<1>3. Spec => ServiceSpec
  BY <1>1, <1>2, TypeInit, TypeStep, PTL DEF Spec, ServiceSpec
<1>4. QED
  BY <1>3, ServiceImplementsLifecycle

\* Batches, results and cancellations are of commands that exist, a batch of its own node.
WorkExists ==
  /\ \A n \in Node : \A c \in batch[n] : status[c] # "absent" /\ node[c] = n
  /\ \A r \in results : status[r.cmd] # "absent"
  /\ \A c \in cancelling : status[c] # "absent"

LEMMA WorkInTable == OrderInv => WorkExists
<1> SUFFICES ASSUME OrderInv PROVE WorkExists
  OBVIOUS
<1>1. \A n \in Node : \A c \in batch[n] : c \in Command
  BY DEF OrderInv, ServiceTypeOK
<1>2. \A r \in results : status[r.cmd] # "absent"
  BY ResultHasRun
<1>3. \A c \in cancelling : c \in Command
  BY DEF OrderInv, ServiceTypeOK
<1>4. QED
  BY <1>1, <1>2, <1>3 DEF OrderInv, HandoutsCounted, WorkExists

(***************************************************************************)
(* A row that exists keeps its node and its kind.                          *)
(***************************************************************************)
LEMMA RowsStay ==
  ASSUME TypeOK, [Next]_vars, NEW c \in Command, status[c] # "absent"
  PROVE  status'[c] # "absent" /\ node'[c] = node[c] /\ kind'[c] = kind[c]
<1>1. status'[c] # "absent" /\ node'[c] = node[c]
  <2> USE DEF TypeOK, ServiceTypeOK
  <2>1. ASSUME NEW rows, QueueRows(rows) PROVE status'[c] # "absent" /\ node'[c] = node[c]
    BY <2>1 DEF QueueRows, WriteRows
  <2>2. ASSUME NEW n \in Node, ServicePoll(n) PROVE status'[c] # "absent" /\ node'[c] = node[c]
    BY <2>2 DEF ServicePoll, PollEffect
  <2>3. ASSUME NEW r \in results, NEW answered \in BOOLEAN, DeliverResult(r, answered)
        PROVE  status'[c] # "absent" /\ node'[c] = node[c]
    BY <2>3 DEF DeliverResult
  <2>4. ASSUME NEW d \in Command, CancelCheck(d) \/ CancelCommit(d)
        PROVE  status'[c] # "absent" /\ node'[c] = node[c]
    BY <2>4 DEF CancelCheck, CancelCommit
  <2>5. QED
    BY <2>1, <2>2, <2>3, <2>4, StepIsServiceAction
    DEF ServiceAction, RunCommand, AbortRun, LoseResult, QueueCommand, serviceVars
<1>2. kind'[c] = kind[c]
  <2>1. ASSUME NEW i \in Incident, NEW d \in Command, RequestQuarantine(i, d)
        PROVE  kind'[c] = kind[c]
    <3>1. c # d /\ c # d + 1
      BY <2>1 DEF RequestQuarantine, QueueRows, WriteRows
    <3>2. QED
      BY <2>1, <3>1 DEF RequestQuarantine, TypeOK
  <2>2. ASSUME NEW i \in Incident, NEW d \in Command, ReleaseCommit(i, d)
        PROVE  kind'[c] = kind[c]
    <3>1. c # d
      BY <2>2 DEF ReleaseCommit, QueueCommand, QueueRows, WriteRows
    <3>2. QED
      BY <2>2, <3>1 DEF ReleaseCommit, TypeOK
  <2>3. QED
    BY <2>1, <2>2
    DEF Next, ReleaseCheck, Cancel, MailboxAgent, EdgeAgent, RunEnds, ReceiveResult, NoResult,
        AgentPolls, incidentVars, vars
<1>3. QED
  BY <1>1, <1>2

(***************************************************************************)
(* Rows appear only through a request.                                     *)
(***************************************************************************)
LEMMA NoNewRows ==
  ASSUME TypeOK, WorkExists, [Next]_vars, NEW c \in Command, status[c] = "absent",
         \A i \in Incident, d \in Command : ~RequestQuarantine(i, d) /\ ~ReleaseCommit(i, d)
  PROVE  status'[c] = "absent"
<1> USE DEF TypeOK, ServiceTypeOK
<1>1. ASSUME NEW r \in results, NEW answered \in BOOLEAN, DeliverResult(r, answered)
      PROVE  status'[c] = "absent"
  BY <1>1 DEF DeliverResult, WorkExists
<1>2. ASSUME NEW n \in Node, ServicePoll(n) PROVE status'[c] = "absent"
  BY <1>2 DEF ServicePoll, PollEffect, WithStatus, OpenStatus
<1>3. ASSUME NEW d \in Command, CancelCommit(d) PROVE status'[c] = "absent"
  BY <1>3 DEF CancelCommit, WorkExists
<1>4. ASSUME UNCHANGED status PROVE status'[c] = "absent"
  BY <1>4
<1>5. MailboxAgent => UNCHANGED status
  BY DEF MailboxAgent, QuarantineSucceeds, QuarantineFails, QuarantineHalfFails,
         QuarantineKilled, ReleaseSucceeds, ReleaseFails, ReleaseKilled, RunCommand, AbortRun
<1>6. QED
  BY <1>1, <1>2, <1>3, <1>4, <1>5
  DEF Next, ReleaseCheck, Cancel, CancelCheck, EdgeAgent, RunEnds, ReceiveResult, NoResult,
      AgentPolls, RunCommand, AbortRun, LoseResult, serviceVars, vars

\* A result changes the status of an incident and what it recorded, not its commands.
LEMMA UpdateKeepsCommands ==
  ASSUME NEW row \in IncidentRow, row.status # "absent", NEW r \in Result, NEW st
  PROVE  LET new == UpdatedIncident(row, r, st) IN
         new.mailboxCmd = row.mailboxCmd /\ new.edgeCmd = row.edgeCmd /\ new.status # "absent"
<1>1. Outcome({st[row.mailboxCmd], st[row.edgeCmd]}, row.status) # "absent"
  BY DEF Outcome
<1>2. QED
  BY <1>1 DEF UpdatedIncident, IncidentRow

(***************************************************************************)
(* A step other than a request leaves the commands of the incidents alone. *)
(***************************************************************************)
LEMMA CommandsKept ==
  ASSUME TypeOK, [Next]_vars,
         \A i \in Incident, c \in Command : ~RequestQuarantine(i, c) /\ ~ReleaseCommit(i, c)
  PROVE  /\ Opened' = Opened /\ kind' = kind
         /\ \A i \in Opened : /\ incident'[i].mailboxCmd = incident[i].mailboxCmd
                              /\ incident'[i].edgeCmd = incident[i].edgeCmd
<1>1. CASE UNCHANGED <<kind, incident>>
  BY <1>1 DEF Opened
<1>2. ASSUME NEW r \in results, NEW answered \in BOOLEAN, ReceiveResult(r, answered)
      PROVE  /\ Opened' = Opened /\ kind' = kind
             /\ \A i \in Opened : /\ incident'[i].mailboxCmd = incident[i].mailboxCmd
                                  /\ incident'[i].edgeCmd = incident[i].edgeCmd
  <2>1. \A i \in Incident : incident'[i] = IF i \in IncidentsOf(r.cmd)
                                           THEN UpdatedIncident(incident[i], r, status')
                                           ELSE incident[i]
    BY <1>2 DEF ReceiveResult
  <2>2. \A i \in IncidentsOf(r.cmd) :
          LET new == UpdatedIncident(incident[i], r, status') IN
          /\ new.mailboxCmd = incident[i].mailboxCmd /\ new.edgeCmd = incident[i].edgeCmd
          /\ new.status # "absent"
    BY UpdateKeepsCommands DEF IncidentsOf, Opened, TypeOK, ServiceTypeOK
  <2>3. IncidentsOf(r.cmd) \subseteq Opened
    BY DEF IncidentsOf
  <2>4. QED
    BY <1>2, <2>1, <2>2, <2>3 DEF ReceiveResult, Opened
<1>3. QED
  BY <1>1, <1>2
  DEF Next, ReleaseCheck, Cancel, MailboxAgent, EdgeAgent, RunEnds, NoResult, AgentPolls,
      incidentVars, vars

\* The commands of an incident exist, and each agent has the commands of its kind.
CommandsFit ==
  /\ \A i \in Opened : /\ CommandsOf(i) \subseteq Command
                       /\ \A c \in CommandsOf(i) : status[c] # "absent"
                       /\ kind[incident[i].mailboxCmd] # "PurgeSenderQueue"
                       /\ kind[incident[i].edgeCmd] = "PurgeSenderQueue"
  /\ \A i \in Incident : releasing[i] # "no" => i \in Opened
  /\ \A c \in Command : status[c] # "absent" => (node[c] = Edge <=> kind[c] = "PurgeSenderQueue")

\* Requests give an incident new commands of the right node and kind; no other step does.
LEMMA CommandsFitStep == TypeOK /\ WorkExists /\ CommandsFit /\ [Next]_vars => CommandsFit'
<1> SUFFICES ASSUME TypeOK, WorkExists, CommandsFit, [Next]_vars PROVE CommandsFit'
  OBVIOUS
<1> DEFINE Fits(i) == /\ CommandsOf(i) \subseteq Command
                      /\ \A c \in CommandsOf(i) : status[c] # "absent"
                      /\ kind[incident[i].mailboxCmd] # "PurgeSenderQueue"
                      /\ kind[incident[i].edgeCmd] = "PurgeSenderQueue"
           NodesFit == \A c \in Command :
             status[c] # "absent" => (node[c] = Edge <=> kind[c] = "PurgeSenderQueue")
           OpenReleases == \A i \in Incident : releasing[i] # "no" => i \in Opened
<1>1. ASSUME NEW i \in Opened, incident'[i].mailboxCmd = incident[i].mailboxCmd,
             incident'[i].edgeCmd = incident[i].edgeCmd
      PROVE  Fits(i)'
  <2>1. Fits(i) /\ CommandsOf(i)' = CommandsOf(i)
    BY <1>1 DEF CommandsFit, CommandsOf
  <2>2. incident[i].mailboxCmd \in CommandsOf(i) /\ incident[i].edgeCmd \in CommandsOf(i)
    BY DEF CommandsOf
  <2>3. QED
    BY <1>1, <2>1, <2>2, RowsStay
<1>2. ASSUME NEW i \in Incident, NEW c \in Command, RequestQuarantine(i, c) PROVE CommandsFit'
  <2>1. /\ incident'[i].mailboxCmd = c /\ incident'[i].edgeCmd = c + 1
        /\ \A j \in Incident \ {i} : incident'[j] = incident[j]
    BY <1>2 DEF RequestQuarantine, TypeOK
  <2>2. /\ c + 1 \in Command /\ c # c + 1
        /\ status'[c] = "pending" /\ status'[c + 1] = "pending"
        /\ node'[c] = Mailbox /\ node'[c + 1] = Edge
        /\ kind'[c] = "QuarantineMailbox" /\ kind'[c + 1] = "PurgeSenderQueue"
        /\ \A d \in Command \ {c, c + 1} :
             status'[d] = status[d] /\ node'[d] = node[d] /\ kind'[d] = kind[d]
    BY <1>2 DEF RequestQuarantine, QueueRows, WriteRows, TypeOK, Command
  <2>3. Fits(i)'
    BY <2>1, <2>2 DEF CommandsOf
  <2>4. ASSUME NEW j \in Opened', j # i PROVE Fits(j)'
    BY <1>1, <2>1, <2>4 DEF Opened
  <2>5. NodesFit'
    <3>1. Mailbox # Edge
      BY QuarantineAssumption
    <3>2. QED
      BY <2>2, <3>1 DEF CommandsFit
  <2>6. OpenReleases'
    BY <1>2 DEF RequestQuarantine, CommandsFit, Opened, TypeOK
  <2>7. QED
    BY <2>3, <2>4, <2>5, <2>6 DEF CommandsFit
<1>3. ASSUME NEW i \in Incident, NEW c \in Command, ReleaseCommit(i, c) PROVE CommandsFit'
  <2>1. /\ incident'[i].mailboxCmd = c /\ incident'[i].edgeCmd = incident[i].edgeCmd
        /\ incident'[i].status = "pending"
        /\ \A j \in Incident \ {i} : incident'[j] = incident[j]
    BY <1>3 DEF ReleaseCommit, TypeOK, IncidentRow
  <2>2. /\ status'[c] = "pending" /\ node'[c] = Mailbox /\ kind'[c] = "ReleaseMailbox"
        /\ \A d \in Command \ {c} :
             status'[d] = status[d] /\ node'[d] = node[d] /\ kind'[d] = kind[d]
    BY <1>3 DEF ReleaseCommit, QueueCommand, QueueRows, WriteRows, TypeOK
  <2>4. Fits(i)'
    <3>1. i \in Opened
      BY <1>3 DEF ReleaseCommit, CommandsFit
    <3>2. /\ incident[i].edgeCmd \in Command /\ status[incident[i].edgeCmd] # "absent"
          /\ kind[incident[i].edgeCmd] = "PurgeSenderQueue"
      BY <3>1 DEF CommandsFit, CommandsOf
    <3>3. /\ status'[incident[i].edgeCmd] # "absent"
          /\ kind'[incident[i].edgeCmd] = "PurgeSenderQueue"
      BY <3>2, RowsStay
    <3>4. QED
      BY <2>1, <2>2, <3>2, <3>3 DEF CommandsOf
  <2>5. ASSUME NEW j \in Opened', j # i PROVE Fits(j)'
    BY <1>1, <2>1, <2>5 DEF Opened
  <2>6. NodesFit'
    <3>1. Mailbox # Edge
      BY QuarantineAssumption
    <3>2. QED
      BY <2>2, <3>1 DEF CommandsFit
  <2>7. OpenReleases'
    BY <1>3 DEF ReleaseCommit, CommandsFit, Opened, TypeOK
  <2>8. QED
    BY <2>4, <2>5, <2>6, <2>7 DEF CommandsFit
<1>4. CASE \A i \in Incident, c \in Command : ~RequestQuarantine(i, c) /\ ~ReleaseCommit(i, c)
  <2>1. \A i \in Opened' : Fits(i)'
    BY <1>1, <1>4, CommandsKept
  <2>2. NodesFit'
    BY <1>4, CommandsKept, NoNewRows, RowsStay DEF CommandsFit
  <2>3. OpenReleases'
    <3>1. \A i \in Incident : releasing'[i] = "no" \/ releasing'[i] = releasing[i] \/ i \in Opened
      BY <1>4
      DEF Next, ReleaseCheck, Cancel, MailboxAgent, EdgeAgent, RunEnds, ReceiveResult, NoResult,
          AgentPolls, incidentVars, vars, TypeOK, Opened, ReleasableStatus
    <3>2. QED
      BY <1>4, <3>1, CommandsKept DEF CommandsFit
  <2>4. QED
    BY <2>1, <2>2, <2>3 DEF CommandsFit
<1>5. QED
  BY <1>2, <1>3, <1>4

\* What the arguments below know of the command table.
TableInv == TypeOK /\ OrderInv /\ OneResult /\ CommandsFit

LEMMA TableInvInit == Init => TableInv
<1>1. Init => CommandsFit
  BY DEF Init, ServiceInit, NoIncident, Opened, CommandsFit
<1>2. QED
  BY <1>1, TypeInit, OrderInvInit, OneResultInit DEF Init, TableInv

LEMMA TableInvStep == TableInv /\ [Next]_vars => TableInv'
  BY TypeStep, WorkInTable, CommandsFitStep, OrderInvStep, OneResultStep, StepIsTableStep,
     StepIsRunStep
  DEF TableInv

\* A batch is of commands of its node that exist.
LEMMA BatchRows ==
  ASSUME TableInv, NEW n \in Node, NEW c \in batch[n]
  PROVE  c \in Command /\ status[c] # "absent" /\ node[c] = n
  BY WorkInTable DEF TableInv, WorkExists, TypeOK, ServiceTypeOK

\* Hand-outs are only ever added.
LEMMA HandoutsGrow ==
  ASSUME TypeOK, [Next]_vars, NEW c \in Command
  PROVE  handouts[c] \in Nat /\ handouts'[c] \in Nat /\ handouts[c] <= handouts'[c]
<1>0. handouts \in [Command -> Nat] /\ handouts' \in [Command -> Nat]
  BY TypeStep DEF TypeOK, ServiceTypeOK
<1>1. ASSUME NEW n \in Node, ServicePoll(n) PROVE handouts[c] <= handouts'[c]
  BY <1>0, <1>1 DEF ServicePoll, PollEffect
<1>2. CASE UNCHANGED handouts
  BY <1>0, <1>2
<1>3. QED
  BY <1>0, <1>1, <1>2, StepIsServiceAction
  DEF ServiceAction, RunCommand, AbortRun, DeliverResult, LoseResult, CancelCheck, CancelCommit,
      QueueCommand, QueueRows, WriteRows, serviceVars

-----------------------------------------------------------------------------
(***************************************************************************)
(* Why a quarantined incident is contained.  A success of                  *)
(* QuarantineMailbox contains the mailbox, and no other execution of       *)
(* QuarantineMailbox undoes that, however often it fails or is killed.     *)
(* The releases that are older than the command are behind it: the agent   *)
(* had each of them in a run that is over or has done it already, or will  *)
(* never see it.  So the containment lasts from the success to the first   *)
(* newer or repeated release.                                              *)
(***************************************************************************)
Contained == ews = "off" /\ member

\* A success of the command was sent, or stored, or seen by its incident.
SuccessSeen(q) ==
  \/ status[q] = "succeeded"
  \/ \E r \in results : r.ok /\ r.cmd = q
  \/ \E i \in Opened : incident[i].status = "quarantined" /\ incident[i].mailboxCmd = q

\* The mailbox is contained, and no release is left for the run that has had the command.
Secured(q) ==
  /\ Contained
  /\ handouts[q] > 0
  /\ \A d \in batch[Mailbox] : kind[d] # "ReleaseMailbox"

SuccessContains ==
  \A q \in MailboxRows :
    kind[q] = "QuarantineMailbox" /\ ReleasesBefore(q) /\ SuccessSeen(q) => Secured(q)

\* Releases are for the mailbox agent, and rows and hand-outs are only added.
LEMMA ReleasesBeforeStays ==
  ASSUME TableInv, [Next]_vars, NEW q \in Command, ReleasesBefore(q)'
  PROVE  ReleasesBefore(q)
<1> SUFFICES ASSUME NEW d \in Command, status[d] # "absent", kind[d] = "ReleaseMailbox"
             PROVE  d < q /\ handouts[d] <= 1
  BY DEF ReleasesBefore
<1>1. status'[d] # "absent" /\ kind'[d] = "ReleaseMailbox"
  BY RowsStay DEF TableInv
<1>2. d < q /\ handouts'[d] <= 1
  BY <1>1 DEF ReleasesBefore
<1>3. QED
  BY <1>2, HandoutsGrow DEF TableInv

\* What a poll or another step may add to the batch of the mailbox agent.
LEMMA BatchGrows ==
  ASSUME TableInv, [Next]_vars, NEW d \in batch'[Mailbox], d \notin batch[Mailbox]
  PROVE  /\ d \in Command /\ status[d] = "pending" /\ node[d] = Mailbox
         /\ handouts'[d] = handouts[d] + 1
<1>0. batch \in [Node -> SUBSET Command] /\ handouts \in [Command -> Nat] /\ Mailbox \in Node
  BY Constants DEF TableInv, TypeOK, ServiceTypeOK
<1>1. PICK m \in Node : ServicePoll(m)
  <2>1. ASSUME NEW m \in Node, AbortRun(m) PROVE batch'[Mailbox] \subseteq batch[Mailbox]
    BY <1>0, <2>1 DEF AbortRun
  <2>2. ASSUME NEW r \in results, NEW answered \in BOOLEAN, DeliverResult(r, answered)
        PROVE  batch'[Mailbox] \subseteq batch[Mailbox]
    BY <1>0, <2>2 DEF DeliverResult
  <2>3. QED
    BY <2>1, <2>2, StepIsServiceAction
    DEF TableInv, ServiceAction, RunCommand, LoseResult, CancelCheck, CancelCommit, QueueCommand,
        QueueRows, WriteRows, agentVars, serviceVars
<1>2. PICK claimed \in SUBSET (Of(m) \cap WithStatus({"pending"})) :
        /\ handouts' = [c \in Command |-> IF c \in claimed THEN handouts[c] + 1 ELSE handouts[c]]
        /\ batch' = batch \/ batch' = [batch EXCEPT ![m] = @ \cup claimed]
  BY <1>1 DEF ServicePoll, PollEffect
<1>3. m = Mailbox /\ d \in claimed
  BY <1>0, <1>2
<1>4. QED
  BY <1>2, <1>3 DEF Of, WithStatus

\* Containment outlasts every step that adds no newer release and repeats none.
LEMMA SecuredStays ==
  ASSUME TableInv, [Next]_vars, NEW q \in MailboxRows, ReleasesBefore(q)', Secured(q)
  PROVE  Secured(q)'
<1>0. q \in Command /\ node[q] = Mailbox /\ TypeOK /\ Mailbox \in Node
  BY Constants DEF MailboxRows, TableInv
<1>1. Contained'
  <2>1. ~Working("ReleaseMailbox")
    BY <1>0, CurrentInBatch DEF Working, TypeOK, Secured
  <2>2. CASE MailboxAgent
    BY <2>1, <2>2
    DEF MailboxAgent, QuarantineSucceeds, QuarantineFails, QuarantineHalfFails, QuarantineKilled,
        Contained, Secured
  <2>3. CASE UNCHANGED exchangeVars
    BY <2>3 DEF exchangeVars, Contained, Secured
  <2>4. QED
    BY <2>2, <2>3
    DEF Next, RequestQuarantine, ReleaseCheck, ReleaseCommit, Cancel, EdgeAgent, RunEnds,
        ReceiveResult, NoResult, AgentPolls, vars, exchangeVars
<1>2. handouts'[q] > 0
  BY <1>0, HandoutsGrow DEF Secured
<1>3. ASSUME NEW d \in batch'[Mailbox] PROVE kind'[d] # "ReleaseMailbox"
  <2>1. CASE d \in batch[Mailbox]
    <3>1. d \in Command /\ status[d] # "absent" /\ kind[d] # "ReleaseMailbox"
      BY <1>0, <2>1, BatchRows DEF Secured
    <3>2. QED
      BY <1>0, <3>1, RowsStay
  <2>2. CASE d \notin batch[Mailbox]
    <3>1. /\ d \in Command /\ status[d] = "pending" /\ node[d] = Mailbox
          /\ handouts'[d] = handouts[d] + 1
      BY <2>2, BatchGrows
    <3>2. status'[d] # "absent" /\ kind'[d] = kind[d]
      BY <1>0, <3>1, RowsStay
    <3>3. ASSUME kind[d] = "ReleaseMailbox" PROVE FALSE
      <4>1. d < q /\ handouts'[d] <= 1
        BY <3>1, <3>2, <3>3 DEF ReleasesBefore
      <4>2. handouts[d] = 0
        BY <1>0, <3>1, <4>1, HandoutsGrow
      <4>3. handouts[q] = 0
        BY <1>0, <3>1, <4>1, <4>2 DEF TableInv, OrderInv, OffersInOrder
      <4>4. QED
        BY <4>3 DEF Secured
    <3>4. QED
      BY <3>2, <3>3
  <2>3. QED
    BY <2>1, <2>2
<1>4. QED
  BY <1>1, <1>2, <1>3 DEF Secured

\* A success of QuarantineMailbox is sent by an execution that contains the mailbox.
LEMMA SuccessSentSecures ==
  ASSUME TableInv, [Next]_vars, NEW r \in results' \ results, r.ok,
         kind[r.cmd] = "QuarantineMailbox", ReleasesBefore(r.cmd)
  PROVE  Secured(r.cmd)'
<1> DEFINE Sent(n, ok) == r.ok = ok /\ r.cmd = Current(n) /\ batch[n] # {}
<1>t. TypeOK
  BY DEF TableInv
<1>1. /\ \A n \in Node, ok \in BOOLEAN, answer \in Answer : RunCommand(n, ok, answer) => Sent(n, ok)
      /\ \A n : ~AbortRun(n)
  <2>1. ASSUME NEW n \in Node, NEW ok \in BOOLEAN, NEW answer \in Answer,
               RunCommand(n, ok, answer)
        PROVE  Sent(n, ok)
    <3>1. /\ r = [cmd |-> Current(n), try |-> handouts[Current(n)], ok |-> ok, answer |-> answer]
          /\ batch[n] # {}
      BY <2>1 DEF RunCommand
    <3>2. QED
      BY <3>1
  <2>2. ASSUME NEW n, AbortRun(n) PROVE FALSE
    BY <2>2 DEF AbortRun
  <2>3. QED
    BY <2>1, <2>2
<1>2. CASE MailboxAgent
  <2>1. ~(Working("ReleaseMailbox") /\ (ReleaseSucceeds \/ ReleaseFails \/ ReleaseKilled))
    <3>1. ASSUME Working("ReleaseMailbox"), ReleaseSucceeds \/ ReleaseFails \/ ReleaseKilled
          PROVE  r.cmd = Current(Mailbox)
      BY <1>1, <3>1, Constants DEF ReleaseSucceeds, ReleaseFails, ReleaseKilled
    <3>2. QED
      BY <3>1 DEF Working
  <2>2. ~(QuarantineFails \/ QuarantineHalfFails \/ QuarantineKilled)
    BY <1>1, Constants DEF QuarantineFails, QuarantineHalfFails, QuarantineKilled
  <2>3. QuarantineSucceeds
    BY <1>2, <2>1, <2>2 DEF MailboxAgent
  <2>4. /\ r.cmd = Current(Mailbox) /\ batch[Mailbox] # {} /\ Contained'
        /\ batch' = batch /\ handouts' = handouts
    <3>1. ews \in Answer
      BY <1>t, QuarantineAssumption DEF TypeOK, Ews
    <3>2. QED
      BY <1>1, <2>3, <3>1, Constants DEF QuarantineSucceeds, RunCommand, Contained
  <2>5. r.cmd \in batch[Mailbox] /\ \A d \in batch[Mailbox] : d \in Command /\ r.cmd <= d
    BY <1>t, <2>4, LeastInBatch, Constants DEF TypeOK, ServiceTypeOK
  <2>6. handouts[r.cmd] > 0
    BY <2>5, Constants DEF TableInv, OrderInv, HandoutsCounted
  <2>7. ASSUME NEW d \in batch[Mailbox] PROVE kind'[d] # "ReleaseMailbox"
    <3>1. d \in Command /\ status[d] # "absent" /\ kind'[d] = kind[d]
      BY <1>t, BatchRows, RowsStay, Constants
    <3>2. r.cmd \in Command /\ ~(d < r.cmd)
      BY <2>5, <3>1 DEF Command
    <3>3. QED
      BY <3>1, <3>2 DEF ReleasesBefore
  <2>8. QED
    BY <2>4, <2>6, <2>7 DEF Secured
<1>3. CASE EdgeAgent
  <2>1. r.cmd = Current(Edge) /\ batch[Edge] # {}
    BY <1>3 DEF EdgeAgent, RunCommand
  <2>2. r.cmd \in batch[Edge]
    BY <1>t, <2>1, CurrentInBatch, Constants DEF TypeOK
  <2>3. kind[r.cmd] = "PurgeSenderQueue"
    BY <2>2, BatchRows, Constants DEF TableInv, CommandsFit
  <2>4. QED
    BY <2>3
<1>4. ASSUME results' \subseteq results PROVE FALSE
  BY <1>4
<1>5. QED
  BY <1>2, <1>3, <1>4
  DEF Next, RequestQuarantine, ReleaseCheck, ReleaseCommit, Cancel, RunEnds, ReceiveResult,
      NoResult, AgentPolls, ServicePoll, PollEffect, AbortRun, DeliverResult, LoseResult,
      CancelCheck, CancelCommit, QueueCommand, QueueRows, WriteRows, agentVars, serviceVars, vars

\* A status turns succeeded only through a result that says so.
LEMMA SucceededByResult ==
  ASSUME TypeOK, [Next]_vars, NEW c \in Command, status'[c] = "succeeded", status[c] # "succeeded"
  PROVE  \E r \in results : r.ok /\ r.cmd = c
<1> USE DEF TypeOK, ServiceTypeOK
<1>1. ASSUME NEW r \in results, NEW answered \in BOOLEAN, DeliverResult(r, answered)
      PROVE  r.ok /\ r.cmd = c
  BY <1>1 DEF DeliverResult
<1>2. ASSUME NEW n \in Node, ServicePoll(n) PROVE FALSE
  BY <1>2 DEF ServicePoll, PollEffect
<1>3. ASSUME NEW rows, QueueRows(rows) PROVE FALSE
  BY <1>3 DEF QueueRows, WriteRows
<1>4. ASSUME NEW d \in Command, CancelCheck(d) \/ CancelCommit(d) PROVE FALSE
  BY <1>4 DEF CancelCheck, CancelCommit
<1>5. QED
  BY <1>1, <1>2, <1>3, <1>4, StepIsServiceAction
  DEF ServiceAction, RunCommand, AbortRun, LoseResult, QueueCommand, serviceVars

\* An incident turns quarantined through a stored success of its mailbox command.
LEMMA QuarantinedBySuccess ==
  ASSUME TableInv, [Next]_vars, NEW i \in Opened', incident'[i].status = "quarantined",
         kind'[incident'[i].mailboxCmd] = "QuarantineMailbox"
  PROVE  \/ i \in Opened /\ incident'[i].mailboxCmd = incident[i].mailboxCmd
            /\ \/ incident[i].status = "quarantined"
               \/ status'[incident[i].mailboxCmd] = "succeeded"
<1>t. TypeOK /\ i \in Incident
  BY DEF TableInv, Opened
<1>1. ASSUME NEW j \in Incident, NEW c \in Command, RequestQuarantine(j, c) \/ ReleaseCommit(j, c)
      PROVE  incident'[i] = incident[i]
  <2>1. incident'[i] = incident[i] \/ incident'[i].status = "pending"
    BY <1>1, <1>t DEF RequestQuarantine, ReleaseCommit, TypeOK, IncidentRow
  <2>2. QED
    BY <2>1
<1>2. CASE incident'[i] = incident[i]
  BY <1>2 DEF Opened
<1>3. ASSUME NEW r \in results, NEW answered \in BOOLEAN, ReceiveResult(r, answered),
             i \in IncidentsOf(r.cmd)
      PROVE  /\ i \in Opened /\ incident'[i].mailboxCmd = incident[i].mailboxCmd
             /\ \/ incident[i].status = "quarantined"
                \/ status'[incident[i].mailboxCmd] = "succeeded"
  <2>1. /\ incident'[i] = UpdatedIncident(incident[i], r, status')
        /\ i \in Opened /\ incident[i] \in IncidentRow /\ incident[i].status # "absent"
    BY <1>3, <1>t DEF ReceiveResult, IncidentsOf, Opened, TypeOK
  <2>2. r \in Result
    BY <1>t DEF TypeOK, ServiceTypeOK
  <2>3. incident'[i].mailboxCmd = incident[i].mailboxCmd
    BY <2>1, <2>2, UpdateKeepsCommands
  <2>4. kind[r.cmd] # "ReleaseMailbox"
    BY <2>1 DEF UpdatedIncident, IncidentRow
  <2>5. incident'[i].status = Outcome({status'[incident[i].mailboxCmd],
                                       status'[incident[i].edgeCmd]}, incident[i].status)
    BY <2>1, <2>4 DEF UpdatedIncident, IncidentRow
  <2>6. QED
    BY <2>1, <2>3, <2>5 DEF Outcome
<1>4. ASSUME NEW r \in results, NEW answered \in BOOLEAN, ReceiveResult(r, answered),
             i \notin IncidentsOf(r.cmd)
      PROVE  incident'[i] = incident[i]
  BY <1>4, <1>t DEF ReceiveResult
<1>5. QED
  BY <1>1, <1>2, <1>3, <1>4
  DEF Next, ReleaseCheck, Cancel, MailboxAgent, EdgeAgent, RunEnds, NoResult, AgentPolls,
      incidentVars, vars

\* So a success that is seen was seen before, or is sent in this step.
LEMMA SeenBefore ==
  ASSUME TableInv, [Next]_vars, NEW q \in Command, kind'[q] = "QuarantineMailbox", SuccessSeen(q)',
         \A r \in results' \ results : r.ok => r.cmd # q
  PROVE  SuccessSeen(q)
<1>t. TypeOK
  BY DEF TableInv
<1>1. ASSUME status'[q] = "succeeded" PROVE SuccessSeen(q)
  BY <1>1, <1>t, SucceededByResult DEF SuccessSeen
<1>2. ASSUME NEW i \in Opened', incident'[i].status = "quarantined", incident'[i].mailboxCmd = q
      PROVE  SuccessSeen(q)
  BY <1>1, <1>2, QuarantinedBySuccess DEF SuccessSeen
<1>3. ASSUME NEW r \in results', r.ok, r.cmd = q PROVE SuccessSeen(q)
  BY <1>3 DEF SuccessSeen
<1>4. QED
  BY <1>1, <1>2, <1>3 DEF SuccessSeen

LEMMA SuccessContainsStep == TableInv /\ SuccessContains /\ [Next]_vars => SuccessContains'
<1> SUFFICES ASSUME TableInv, SuccessContains, [Next]_vars, NEW q \in MailboxRows',
                    kind'[q] = "QuarantineMailbox", ReleasesBefore(q)', SuccessSeen(q)'
             PROVE  Secured(q)'
  BY DEF SuccessContains
<1>t. TypeOK /\ q \in Command /\ ReleasesBefore(q)
  BY ReleasesBeforeStays DEF TableInv, MailboxRows
<1>1. ASSUME NEW r \in results' \ results, r.ok, r.cmd = q PROVE Secured(q)'
  <2>1. status[q] # "absent"
    <3>1. PICK n \in Node, ok \in BOOLEAN, answer \in Answer : RunCommand(n, ok, answer)
      BY <1>1, <1>t, StepIsServiceAction
      DEF ServiceAction, AbortRun, DeliverResult, LoseResult, CancelCheck, ServicePoll,
          PollEffect, CancelCommit, QueueCommand, QueueRows, WriteRows, agentVars, serviceVars
    <3>2. q = Current(n) /\ batch[n] # {}
      BY <1>1, <3>1 DEF RunCommand
    <3>3. QED
      BY <1>t, <3>2, CurrentInBatch, BatchRows DEF TypeOK
  <2>2. QED
    BY <1>1, <1>t, <2>1, RowsStay, SuccessSentSecures
<1>2. CASE \A r \in results' \ results : r.ok => r.cmd # q
  <2>1. SuccessSeen(q)
    BY <1>2, <1>t, SeenBefore
  <2>2. status[q] # "absent"
    <3>1. ASSUME NEW i \in Opened, incident[i].mailboxCmd = q PROVE status[q] # "absent"
      BY <3>1 DEF TableInv, CommandsFit, CommandsOf
    <3>2. QED
      BY <2>1, <3>1, ResultHasRun DEF SuccessSeen, TableInv
  <2>3. q \in MailboxRows /\ kind[q] = "QuarantineMailbox"
    BY <1>t, <2>2, RowsStay DEF MailboxRows
  <2>4. QED
    BY <1>t, <2>1, <2>3, SecuredStays DEF SuccessContains
<1>3. QED
  BY <1>1, <1>2

(***************************************************************************)
(* A quarantined incident is contained until a release that is newer than  *)
(* its QuarantineMailbox is queued, or an older one is handed out again:   *)
(* for any number of incidents, commands, repeats, failures and kills.     *)
(***************************************************************************)
THEOREM QuarantineContains == Spec => []ContainmentHolds
<1>1. Init => SuccessContains
  BY DEF Init, ServiceInit, MailboxRows, SuccessContains
<1>2. TableInv /\ SuccessContains => ContainmentHolds
  <2> SUFFICES ASSUME TableInv, SuccessContains, NEW i \in Opened,
                      incident[i].status = "quarantined",
                      kind[incident[i].mailboxCmd] = "QuarantineMailbox",
                      ReleasesBefore(incident[i].mailboxCmd)
               PROVE  ews = "off" /\ member
    BY DEF ContainmentHolds
  <2>1. incident[i].mailboxCmd \in MailboxRows
    <3>1. incident[i].mailboxCmd \in Command /\ status[incident[i].mailboxCmd] # "absent"
      BY DEF TableInv, CommandsFit, CommandsOf
    <3>2. node[incident[i].mailboxCmd] \in Node /\ node[incident[i].mailboxCmd] # Edge
      BY <3>1 DEF TableInv, CommandsFit, TypeOK, ServiceTypeOK
    <3>3. QED
      BY <3>1, <3>2, QuarantineAssumption DEF MailboxRows
  <2>2. SuccessSeen(incident[i].mailboxCmd)
    BY DEF SuccessSeen
  <2>3. QED
    BY <2>1, <2>2 DEF SuccessContains, Secured, Contained
<1>3. QED
  BY <1>1, <1>2, SuccessContainsStep, TableInvInit, TableInvStep, PTL DEF Spec

-----------------------------------------------------------------------------
\* A cancelled command whose only execution is over: no result of it will come.
Silent(c) ==
  /\ status[c] = "cancelled"
  /\ \A r \in results : r.cmd # c
  /\ \A n \in Node : c \in batch[n] => n \in waiting /\ c = Current(n)

LEMMA SilentStays ==
  ASSUME TypeOK, RunStep, NEW c \in Command, Silent(c)
  PROVE  Silent(c)'
<1> USE DEF Silent
<1>0. batch \in [Node -> SUBSET Command] /\ waiting \subseteq Node /\ status \in [Command -> Status]
  BY DEF TypeOK, ServiceTypeOK
<1>1. ASSUME NEW n \in Node, NEW ok \in BOOLEAN, NEW answer \in Answer, RunCommand(n, ok, answer)
      PROVE  Silent(c)'
  <2>1. Current(n) \in batch[n]
    BY <1>1, CurrentInBatch DEF RunCommand, TypeOK
  <2>2. Current(n) # c
    BY <1>1, <2>1 DEF RunCommand
  <2>3. /\ UNCHANGED <<status, batch>> /\ waiting \subseteq waiting'
        /\ \A r \in results' : r \in results \/ r.cmd = Current(n)
    BY <1>1 DEF RunCommand
  <2>4. \A m : Current(m)' = Current(m)
    BY <2>3 DEF Current
  <2>5. QED
    BY <2>2, <2>3, <2>4
<1>2. ASSUME NEW r \in results, NEW answered \in BOOLEAN, DeliverResult(r, answered) PROVE Silent(c)'
  <2>1. r.cmd # c
    OBVIOUS
  <2>2. status'[c] = status[c] /\ results' \subseteq results
    BY <1>0, <1>2, <2>1 DEF DeliverResult
  <2>3. ASSUME NEW n \in Node, c \in batch'[n] PROVE n \in waiting' /\ c = Current(n)'
    <3>1. c \in batch[n] /\ n \in waiting /\ c = Current(n)
      BY <1>2, <2>3 DEF DeliverResult
    <3>2. ~AwaitedBy(n, r)
      BY <2>1, <3>1 DEF AwaitedBy
    <3>3. batch'[n] = batch[n] /\ n \in waiting'
      BY <1>2, <3>1, <3>2 DEF DeliverResult
    <3>4. QED
      BY <3>1, <3>3 DEF Current
  <2>4. QED
    BY <2>2, <2>3
<1>3. ASSUME NEW r \in results, LoseResult(r) PROVE Silent(c)'
  BY <1>3 DEF LoseResult, Current
<1>4. ASSUME NEW n \in Node, AbortRun(n) PROVE Silent(c)'
  <2>1. /\ UNCHANGED <<status, results>> /\ waiting' = waiting \ {n}
        /\ batch'[n] = {} /\ \A m \in Node : m # n => batch'[m] = batch[m]
    BY <1>0, <1>4 DEF AbortRun
  <2>2. QED
    BY <2>1 DEF Current
<1>5. ASSUME NEW d \in Command, CancelCheck(d) \/ CancelCommit(d) PROVE Silent(c)'
  <2>1. status'[c] = "cancelled" /\ UNCHANGED <<batch, waiting, results>>
    BY <1>0, <1>5 DEF CancelCheck, CancelCommit, agentVars
  <2>2. QED
    BY <2>1 DEF Current
<1>6. ASSUME NEW n \in Node, ServicePoll(n) PROVE Silent(c)'
  <2>1. PICK reopened \in SUBSET ((Of(n) \cap WithStatus({"claimed"})) \ Held),
             expired \in SUBSET ((Of(n) \cap WithStatus(OpenStatus)) \ Held),
             claimed \in SUBSET (Of(n) \cap WithStatus({"pending"})),
             answered \in BOOLEAN :
               PollEffect(n, reopened, expired, claimed, answered)
    BY <1>6 DEF ServicePoll
  <2>2. c \notin reopened /\ c \notin expired /\ c \notin claimed
    BY DEF WithStatus, OpenStatus
  <2>3. status'[c] = status[c] /\ UNCHANGED <<waiting, results>>
    BY <2>1, <2>2 DEF PollEffect
  <2>4. ASSUME NEW m \in Node, c \in batch'[m] PROVE m \in waiting /\ c = Current(m)'
    <3>1. c \in batch[m] /\ batch[m] \subseteq batch'[m]
      BY <1>0, <2>1, <2>2, <2>4 DEF PollEffect
    <3>2. batch'[m] = batch[m]
      BY <3>1 DEF RunStep
    <3>3. QED
      BY <3>1, <3>2 DEF Current
  <2>5. QED
    BY <2>3, <2>4
<1>7. CASE QueuesRows
  <2>1. PICK added \in SUBSET Command, cancelled \in SUBSET Command :
          \E rows \in [added -> Node] : WriteRows(rows, cancelled)
    BY <1>7 DEF QueuesRows
  <2>2. PICK rows \in [added -> Node] : WriteRows(rows, cancelled)
    BY <2>1
  <2>3. c \notin DOMAIN rows /\ UNCHANGED <<batch, waiting, results>>
    BY <2>2 DEF WriteRows, agentVars
  <2>4. status'[c] = "cancelled"
    BY <2>2, <2>3 DEF WriteRows
  <2>5. QED
    BY <2>3, <2>4 DEF Current
<1>8. CASE UNCHANGED serviceVars
  BY <1>8 DEF serviceVars, Current
<1>9. QED
  BY <1>1, <1>2, <1>3, <1>4, <1>5, <1>6, <1>7, <1>8 DEF RunStep, TableStep

\* A command that has its only result and is cancelled after all.
LEMMA CancelledResultIsSilent ==
  ASSUME TableInv, NEW c \in Command, status[c] \in ResultStatus, Once(c), CancelCommit(c),
         status'[c] = "cancelled"
  PROVE  Silent(c)'
<1>1. status[c] \in ResultStatus /\ HasRun(c)
  BY DEF HasRun
<1>2. \A r \in results : r.cmd # c
  BY <1>1 DEF TableInv, OneResult
<1>3. \A n \in Node : c \in batch[n] => n \in waiting /\ c = Current(n)
  BY <1>1 DEF TableInv, OneResult
<1>4. UNCHANGED <<batch, waiting, results>>
  BY DEF CancelCommit, agentVars
<1>5. QED
  BY <1>2, <1>3, <1>4 DEF Silent, Current

-----------------------------------------------------------------------------
(***************************************************************************)
(* Why an incident claims what its agents reported.  Every result that is  *)
(* handled computes the status of its incident again, so the status can    *)
(* only be out of date where a command changes without a result: a         *)
(* cancellation that does not look again, which the property leaves out,   *)
(* or a result that leaves the status as it was.  The latter happens when  *)
(* a success meets a command that is still open, and must not hide an      *)
(* earlier failure: a command that was handed out once has one result, so  *)
(* the failure is still in its row, or was cancelled and is silent.        *)
(***************************************************************************)
Reports(i) == {status[c] : c \in CommandsOf(i)}

OutcomeFits(i) ==
  /\ incident[i].status = "quarantined" => Reports(i) \subseteq {"succeeded", "cancelled"}
  /\ incident[i].status = "partial" =>
       /\ Reports(i) \subseteq {"succeeded", "failed", "cancelled"}
       /\ "cancelled" \in Reports(i) \/ Reports(i) = ResultStatus
  /\ incident[i].status = "failed" /\ HandedOutOnce(CommandsOf(i)) =>
       \E c \in CommandsOf(i) : \/ status[c] = "failed" /\ "succeeded" \notin Reports(i)
                                \/ Silent(c)
  /\ incident[i].status = "pending" => "failed" \notin Reports(i)

OutcomeInv ==
  \A i \in Opened : kind[incident[i].mailboxCmd] = "QuarantineMailbox" => OutcomeFits(i)

\* Without a result a finished command can only be cancelled, and none finishes.
LEMMA FinishedRows ==
  ASSUME TypeOK, [Next]_vars, NEW c \in Command,
         \A r \in results, answered \in BOOLEAN : ~ReceiveResult(r, answered)
  PROVE  \/ status'[c] = status[c]
         \/ CancelCommit(c) /\ status'[c] = "cancelled"
         \/ /\ status[c] \notin ResultStatus \cup {"cancelled"}
            /\ status'[c] \notin ResultStatus
<1> DEFINE Goal == \/ status'[c] = status[c]
                   \/ CancelCommit(c) /\ status'[c] = "cancelled"
                   \/ /\ status[c] \notin ResultStatus \cup {"cancelled"}
                      /\ status'[c] \notin ResultStatus
<1>0. status \in [Command -> Status]
  BY DEF TypeOK, ServiceTypeOK
<1>1. ASSUME NEW rows, QueueRows(rows) PROVE Goal
  <2>1. CASE c \in DOMAIN rows
    BY <1>1, <2>1 DEF QueueRows, WriteRows, ResultStatus
  <2>2. CASE c \notin DOMAIN rows
    BY <1>1, <2>2 DEF QueueRows, WriteRows
  <2>3. QED
    BY <2>1, <2>2
<1>2. ASSUME NEW n \in Node, ServicePoll(n) PROVE Goal
  <2>1. PICK reopened \in SUBSET ((Of(n) \cap WithStatus({"claimed"})) \ Held),
             expired \in SUBSET ((Of(n) \cap WithStatus(OpenStatus)) \ Held),
             claimed \in SUBSET (Of(n) \cap WithStatus({"pending"})),
             answered \in BOOLEAN :
               PollEffect(n, reopened, expired, claimed, answered)
    BY <1>2 DEF ServicePoll
  <2>2. CASE c \in reopened \cup expired \cup claimed
    <3>1. status[c] \in OpenStatus
      BY <2>2 DEF WithStatus, OpenStatus
    <3>2. status'[c] \in OpenStatus \cup {"expired"}
      BY <2>1, <2>2 DEF PollEffect, OpenStatus
    <3>3. QED
      BY <3>1, <3>2 DEF OpenStatus, ResultStatus
  <2>3. CASE c \notin reopened \cup expired \cup claimed
    BY <2>1, <2>3 DEF PollEffect
  <2>4. QED
    BY <2>2, <2>3
<1>3. ASSUME NEW d \in Command, CancelCommit(d) PROVE Goal
  BY <1>0, <1>3 DEF CancelCommit
<1>4. ASSUME UNCHANGED status PROVE Goal
  BY <1>4
<1>5. MailboxAgent => UNCHANGED status
  BY DEF MailboxAgent, QuarantineSucceeds, QuarantineFails, QuarantineHalfFails,
         QuarantineKilled, ReleaseSucceeds, ReleaseFails, ReleaseKilled, RunCommand, AbortRun
<1>6. QED
  BY <1>1, <1>2, <1>3, <1>4, <1>5
  DEF Next, RequestQuarantine, ReleaseCheck, ReleaseCommit, Cancel, CancelCheck, EdgeAgent,
      RunEnds, NoResult, AgentPolls, RunCommand, AbortRun, LoseResult, QueueCommand, serviceVars,
      vars

(***************************************************************************)
(* A step without a result leaves an incident that is not touched true to  *)
(* its commands.                                                           *)
(***************************************************************************)
LEMMA QuietKeepsOutcome ==
  ASSUME TableInv, [Next]_vars, NEW i \in Opened, incident'[i] = incident[i], OutcomeFits(i),
         \A r \in results, answered \in BOOLEAN : ~ReceiveResult(r, answered)
  PROVE  OutcomeFits(i)'
<1>t. TypeOK
  BY DEF TableInv
<1>1. CommandsOf(i)' = CommandsOf(i) /\ CommandsOf(i) \subseteq Command
  BY DEF CommandsOf, TableInv, CommandsFit
<1>2. ASSUME NEW c \in CommandsOf(i)
      PROVE  \/ status'[c] = status[c]
             \/ CancelCommit(c) /\ status'[c] = "cancelled"
             \/ /\ status[c] \notin ResultStatus \cup {"cancelled"}
                /\ status'[c] \notin ResultStatus
  BY <1>1, <1>t, FinishedRows
<1>3. incident[i].status = "quarantined" => Reports(i)' \subseteq {"succeeded", "cancelled"}
  BY <1>1, <1>2 DEF OutcomeFits, Reports, ResultStatus
<1>4. ASSUME incident[i].status = "partial"
      PROVE  /\ Reports(i)' \subseteq {"succeeded", "failed", "cancelled"}
             /\ "cancelled" \in Reports(i)' \/ Reports(i)' = ResultStatus
  <2>1. \A c \in CommandsOf(i) : /\ status[c] \in {"succeeded", "failed", "cancelled"}
                                 /\ status'[c] = status[c] \/ status'[c] = "cancelled"
    BY <1>2, <1>4 DEF OutcomeFits, Reports, ResultStatus
  <2>2. CASE \E c \in CommandsOf(i) : status'[c] = "cancelled"
    BY <1>1, <2>1, <2>2 DEF Reports
  <2>3. CASE \A c \in CommandsOf(i) : status'[c] # "cancelled"
    <3>1. \A c \in CommandsOf(i) : status'[c] = status[c]
      BY <2>1, <2>3
    <3>2. Reports(i)' = Reports(i)
      BY <1>1, <3>1 DEF Reports
    <3>3. QED
      BY <1>4, <3>2 DEF OutcomeFits
  <2>4. QED
    BY <2>2, <2>3
<1>5. ASSUME incident[i].status = "failed", HandedOutOnce(CommandsOf(i))'
      PROVE  \E c \in CommandsOf(i) : \/ status'[c] = "failed" /\ "succeeded" \notin Reports(i)'
                                      \/ Silent(c)'
  <2>1. HandedOutOnce(CommandsOf(i))
    BY <1>t, <1>1, <1>5, HandoutsGrow DEF HandedOutOnce
  <2>2. PICK c \in CommandsOf(i) : \/ status[c] = "failed" /\ "succeeded" \notin Reports(i)
                                   \/ Silent(c)
    BY <1>5, <2>1 DEF OutcomeFits
  <2>3. c \in Command
    BY <1>1
  <2>4. CASE Silent(c)
    BY <1>t, <2>3, <2>4, SilentStays, StepIsRunStep
  <2>5. CASE status[c] = "failed" /\ "succeeded" \notin Reports(i)
    <3>1. CASE status'[c] = status[c]
      <4>1. "succeeded" \notin Reports(i)'
        BY <1>1, <1>2, <2>5 DEF Reports, ResultStatus
      <4>2. QED
        BY <2>5, <3>1, <4>1
    <3>2. CASE CancelCommit(c) /\ status'[c] = "cancelled"
      BY <2>1, <2>3, <2>5, <3>2, CancelledResultIsSilent DEF HandedOutOnce, Once, ResultStatus
    <3>3. QED
      BY <1>2, <2>5, <3>1, <3>2 DEF ResultStatus
  <2>6. QED
    BY <2>2, <2>4, <2>5
<1>6. incident[i].status = "pending" => "failed" \notin Reports(i)'
  BY <1>1, <1>2 DEF OutcomeFits, Reports, ResultStatus
<1>7. QED
  BY <1>1, <1>3, <1>4, <1>5, <1>6 DEF OutcomeFits

(***************************************************************************)
(* A result makes the incident look at both of its commands again.         *)
(***************************************************************************)
LEMMA ResultKeepsOutcome ==
  ASSUME TableInv, [Next]_vars,
         NEW r \in results, NEW answered \in BOOLEAN, ReceiveResult(r, answered),
         NEW i \in Opened, OutcomeFits(i),
         kind[incident[i].mailboxCmd] = "QuarantineMailbox"
  PROVE  OutcomeFits(i)'
<1>t. TypeOK /\ r.cmd \in Command /\ i \in Incident
  BY ResultHasRun DEF TableInv, Opened
<1>1. /\ status'[r.cmd] \in ResultStatus
      /\ \A c \in Command : c # r.cmd => status'[c] = status[c]
      /\ handouts' = handouts
  BY <1>t DEF ReceiveResult, DeliverResult, TypeOK, ServiceTypeOK, ResultStatus
<1>2. CommandsOf(i) \subseteq Command
  BY DEF TableInv, CommandsFit
<1>3. \A c \in CommandsOf(i) : Silent(c) => Silent(c)' /\ c # r.cmd
  BY <1>t, <1>2, SilentStays, StepIsRunStep DEF Silent
<1>4. CommandsOf(i)' = CommandsOf(i) =>
        HandedOutOnce(CommandsOf(i))' = HandedOutOnce(CommandsOf(i))
  BY <1>1 DEF HandedOutOnce
<1>5. CASE i \notin IncidentsOf(r.cmd)
  <2>1. incident'[i] = incident[i] /\ r.cmd \notin CommandsOf(i)
    BY <1>t, <1>5 DEF ReceiveResult, IncidentsOf, CommandsOf
  <2>2. CommandsOf(i)' = CommandsOf(i) /\ \A c \in CommandsOf(i) : status'[c] = status[c]
    BY <1>1, <1>2, <2>1 DEF CommandsOf
  <2>3. Reports(i)' = Reports(i)
    BY <2>2 DEF Reports
  <2>4. QED
    BY <1>3, <1>4, <2>1, <2>2, <2>3 DEF OutcomeFits
<1>6. CASE i \in IncidentsOf(r.cmd)
  <2>1. /\ incident'[i] = UpdatedIncident(incident[i], r, status')
        /\ incident[i] \in IncidentRow /\ r.cmd \in CommandsOf(i)
    BY <1>t, <1>6 DEF ReceiveResult, IncidentsOf, CommandsOf, TypeOK
  <2>2. kind[r.cmd] # "ReleaseMailbox"
    BY <2>1 DEF TableInv, CommandsFit, CommandsOf
  <2>3. /\ incident'[i].mailboxCmd = incident[i].mailboxCmd
        /\ incident'[i].edgeCmd = incident[i].edgeCmd
        /\ incident'[i].status = Outcome({status'[incident[i].mailboxCmd],
                                          status'[incident[i].edgeCmd]}, incident[i].status)
    BY <2>1, <2>2 DEF UpdatedIncident, IncidentRow
  <2>4. CommandsOf(i)' = CommandsOf(i)
    BY <2>3 DEF CommandsOf
  <2>5. Reports(i)' = {status'[incident[i].mailboxCmd], status'[incident[i].edgeCmd]}
    BY <2>4 DEF Reports, CommandsOf
  <2>6. incident'[i].status = Outcome(Reports(i)', incident[i].status)
    BY <2>3, <2>5
  <2>7. status'[r.cmd] \in Reports(i)'
    BY <2>1, <2>4 DEF Reports
  <2>8. CASE Reports(i)' = {"succeeded"}
    BY <2>6, <2>8 DEF Outcome, OutcomeFits
  <2>9. CASE "failed" \in Reports(i)' /\ "succeeded" \in Reports(i)'
    <3>1. incident'[i].status = "partial"
      BY <2>6, <2>9 DEF Outcome
    <3>2. Reports(i)' = ResultStatus
      BY <2>5, <2>9 DEF ResultStatus
    <3>3. QED
      BY <3>1, <3>2 DEF OutcomeFits, ResultStatus
  <2>10. CASE "failed" \in Reports(i)' /\ "succeeded" \notin Reports(i)'
    <3>1. incident'[i].status = "failed"
      BY <2>6, <2>10 DEF Outcome
    <3>2. \E c \in CommandsOf(i) : status'[c] = "failed"
      BY <2>4, <2>10 DEF Reports
    <3>3. QED
      BY <2>4, <2>10, <3>1, <3>2 DEF OutcomeFits
  <2>11. CASE "failed" \notin Reports(i)' /\ Reports(i)' # {"succeeded"}
    <3>1. incident'[i].status = incident[i].status
      BY <2>6, <2>11 DEF Outcome
    <3>2. status'[r.cmd] = "succeeded" /\ "succeeded" \in Reports(i)'
      BY <1>1, <2>7, <2>11 DEF ResultStatus
    <3>3. PICK d \in CommandsOf(i) : status'[d] # "succeeded"
      BY <2>4, <2>7, <2>11, <3>2 DEF Reports
    <3>4. d # r.cmd /\ status'[d] = status[d] /\ status[d] # "failed"
          /\ status[d] \in Reports(i) /\ Reports(i)' = {"succeeded", status[d]}
      <4>1. d # r.cmd /\ status'[d] = status[d] /\ status'[d] \in Reports(i)'
        BY <1>1, <1>2, <2>4, <3>2, <3>3 DEF Reports
      <4>2. status[d] # "failed" /\ status[d] \in Reports(i)
        BY <2>11, <4>1 DEF Reports
      <4>3. Reports(i)' = {"succeeded", status[d]}
        BY <2>5, <3>2, <3>3, <4>1
      <4>4. QED
        BY <4>1, <4>2, <4>3
    <3>5. CASE incident[i].status = "quarantined"
      BY <3>1, <3>3, <3>4, <3>5 DEF OutcomeFits
    <3>6. CASE incident[i].status = "partial"
      BY <3>1, <3>3, <3>4, <3>6 DEF OutcomeFits
    <3>7. CASE incident[i].status = "failed"
      <4>1. ASSUME HandedOutOnce(CommandsOf(i)) PROVE \E c \in CommandsOf(i) : Silent(c)'
        <5>1. PICK c \in CommandsOf(i) : \/ status[c] = "failed" /\ "succeeded" \notin Reports(i)
                                         \/ Silent(c)
          BY <3>7, <4>1 DEF OutcomeFits
        <5>2. CASE status[c] = "failed"
          <6>1. c # r.cmd
            <7>1. ASSUME c = r.cmd PROVE FALSE
              <8>1. Once(r.cmd)
                BY <5>1, <7>1, <4>1 DEF HandedOutOnce, Once
              <8>2. QED
                BY <5>2, <7>1, <8>1 DEF TableInv, OneResult, ResultStatus
            <7>2. QED
              BY <7>1
          <6>2. "failed" \in Reports(i)'
            BY <1>1, <1>2, <2>4, <5>2, <6>1 DEF Reports
          <6>3. QED
            BY <2>11, <6>2
        <5>3. QED
          BY <1>3, <5>1, <5>2
      <4>2. QED
        BY <1>4, <2>4, <3>1, <3>7, <4>1 DEF OutcomeFits
    <3>8. CASE incident[i].status = "pending"
      BY <2>11, <3>1, <3>8 DEF OutcomeFits
    <3>9. CASE incident[i].status \notin {"quarantined", "partial", "failed", "pending"}
      BY <3>1, <3>9 DEF OutcomeFits
    <3>10. QED
      BY <3>5, <3>6, <3>7, <3>8, <3>9
  <2>12. QED
    BY <2>8, <2>9, <2>10, <2>11
<1>7. QED
  BY <1>5, <1>6

\* Requests open an incident whose commands are pending.
LEMMA OutcomeStep == TableInv /\ OutcomeInv /\ [Next]_vars => OutcomeInv'
<1> SUFFICES ASSUME TableInv, OutcomeInv, [Next]_vars, NEW i \in Opened',
                    kind'[incident'[i].mailboxCmd] = "QuarantineMailbox"
             PROVE  OutcomeFits(i)'
  BY DEF OutcomeInv
<1>t. TypeOK /\ i \in Incident
  BY DEF TableInv, Opened
<1>1. ASSUME i \in Opened, incident'[i].mailboxCmd = incident[i].mailboxCmd
      PROVE  kind[incident[i].mailboxCmd] = "QuarantineMailbox" /\ OutcomeFits(i)
  <2>1. incident[i].mailboxCmd \in Command /\ status[incident[i].mailboxCmd] # "absent"
    BY <1>1 DEF TableInv, CommandsFit, CommandsOf
  <2>2. QED
    BY <1>1, <1>t, <2>1, RowsStay DEF OutcomeInv
<1>2. ASSUME NEW j \in Incident, NEW c \in Command, RequestQuarantine(j, c) PROVE OutcomeFits(i)'
  <2>1. CASE i = j
    <3>1. /\ incident'[i].mailboxCmd = c /\ incident'[i].edgeCmd = c + 1
          /\ incident'[i].status = "pending" /\ c + 1 \in Command
      BY <1>2, <1>t, <2>1 DEF RequestQuarantine, TypeOK
    <3>2. status'[c] = "pending" /\ status'[c + 1] = "pending"
      BY <1>2, <3>1 DEF RequestQuarantine, QueueRows, WriteRows
    <3>3. "failed" \notin Reports(i)'
      BY <3>1, <3>2 DEF Reports, CommandsOf
    <3>4. QED
      BY <3>1, <3>3 DEF OutcomeFits
  <2>2. CASE i # j
    <3>1. incident'[i] = incident[i]
      BY <1>2, <1>t, <2>2 DEF RequestQuarantine, TypeOK
    <3>2. i \in Opened
      BY <1>t, <3>1 DEF Opened
    <3>3. results' = results
      BY <1>2 DEF RequestQuarantine, QueueRows, WriteRows, agentVars
    <3>4. \A r \in results, answered \in BOOLEAN : ~ReceiveResult(r, answered)
      BY <3>3 DEF ReceiveResult, DeliverResult
    <3>5. QED
      BY <1>1, <3>1, <3>2, <3>4, QuietKeepsOutcome
  <2>3. QED
    BY <2>1, <2>2
<1>3. ASSUME NEW j \in Incident, NEW c \in Command, ReleaseCommit(j, c) PROVE OutcomeFits(i)'
  <2>1. kind'[c] = "ReleaseMailbox" /\ results' = results
    BY <1>3, <1>t DEF ReleaseCommit, QueueCommand, QueueRows, WriteRows, TypeOK, agentVars
  <2>2. i # j
    BY <1>3, <1>t, <2>1 DEF ReleaseCommit, TypeOK, IncidentRow
  <2>3. incident'[i] = incident[i]
    BY <1>3, <1>t, <2>2 DEF ReleaseCommit, TypeOK
  <2>4. i \in Opened
    BY <1>t, <2>3 DEF Opened
  <2>5. \A r \in results, answered \in BOOLEAN : ~ReceiveResult(r, answered)
    BY <2>1 DEF ReceiveResult, DeliverResult
  <2>6. QED
    BY <1>1, <2>3, <2>4, <2>5, QuietKeepsOutcome
<1>4. ASSUME NEW r \in results, NEW answered \in BOOLEAN, ReceiveResult(r, answered)
      PROVE  OutcomeFits(i)'
  <2>1. results' # results
    BY <1>4 DEF ReceiveResult, DeliverResult
  <2>2. \A j \in Incident, c \in Command : ~RequestQuarantine(j, c) /\ ~ReleaseCommit(j, c)
    BY <2>1 DEF RequestQuarantine, ReleaseCommit, QueueCommand, QueueRows, WriteRows, agentVars
  <2>3. i \in Opened /\ incident'[i].mailboxCmd = incident[i].mailboxCmd
    BY <1>t, <2>2, CommandsKept
  <2>4. QED
    BY <1>1, <1>4, <2>3, ResultKeepsOutcome
<1>5. CASE /\ \A r \in results, answered \in BOOLEAN : ~ReceiveResult(r, answered)
           /\ \A j \in Incident, c \in Command : ~RequestQuarantine(j, c) /\ ~ReleaseCommit(j, c)
  <2>1. incident' = incident
    BY <1>5
    DEF Next, ReleaseCheck, Cancel, MailboxAgent, EdgeAgent, RunEnds, NoResult, AgentPolls,
        incidentVars, vars
  <2>2. i \in Opened
    BY <2>1 DEF Opened
  <2>3. QED
    BY <1>1, <1>5, <2>1, <2>2, QuietKeepsOutcome
<1>6. QED
  BY <1>2, <1>3, <1>4, <1>5

(***************************************************************************)
(* Until its release the status of an incident fits the statuses of its    *)
(* commands: results in any order, lost, late or repeated, never leave it  *)
(* with a claim its agents did not report, or hide a failure.              *)
(***************************************************************************)
THEOREM OutcomeIsReported == Spec => []OutcomeMatchesReports
<1>1. Init => OutcomeInv
  BY DEF Init, NoIncident, Opened, OutcomeInv
<1>2. OutcomeInv => OutcomeMatchesReports
  <2> SUFFICES ASSUME OutcomeInv, NEW i \in Opened, "cancelled" \notin Reports(i),
                      kind[incident[i].mailboxCmd] = "QuarantineMailbox"
               PROVE  /\ incident[i].status = "quarantined" => Reports(i) = {"succeeded"}
                      /\ incident[i].status = "partial" => Reports(i) = ResultStatus
                      /\ incident[i].status = "failed" /\ HandedOutOnce(CommandsOf(i)) =>
                           Reports(i) \cap ResultStatus = {"failed"}
                      /\ incident[i].status = "pending" => "failed" \notin Reports(i)
    BY DEF OutcomeMatchesReports, Reports
  <2>1. OutcomeFits(i)
    BY DEF OutcomeInv
  <2>2. Reports(i) # {} /\ \A c \in CommandsOf(i) : status[c] \in Reports(i)
    BY DEF Reports, CommandsOf
  <2>3. QED
    BY <2>1, <2>2 DEF OutcomeFits, Silent, ResultStatus
<1>3. QED
  BY <1>1, <1>2, TableInvInit, TableInvStep, OutcomeStep, PTL DEF Spec

-----------------------------------------------------------------------------
(***************************************************************************)
(* Why a released incident stays released.  Its release has reported, so   *)
(* unless it is handed out again it has nothing more to report, whether    *)
(* its row still says so or was cancelled after all; and the same holds    *)
(* for its PurgeSenderQueue once that has a result.  A result is all that  *)
(* writes the status of an incident, but for a release request.            *)
(***************************************************************************)
ReleasedInv ==
  \A i \in Opened :
    LET c == incident[i].mailboxCmd IN
    incident[i].status = "released" /\ Once(c) => status[c] = "succeeded" \/ Silent(c)

\* What a command that has its only result may do.
LEMMA ReportedStays ==
  ASSUME TableInv, [Next]_vars, NEW c \in Command, Once(c), status[c] = "succeeded" \/ Silent(c)
  PROVE  /\ status'[c] = "succeeded" \/ Silent(c)'
         /\ \A r \in results : r.cmd # c
<1>1. CASE Silent(c)
  BY <1>1, SilentStays, StepIsRunStep DEF TableInv, Silent
<1>2. CASE status[c] = "succeeded"
  <2>1. \A r \in results : r.cmd # c
    BY <1>2 DEF TableInv, OneResult, ResultStatus
  <2>2. CASE \A r \in results, answered \in BOOLEAN : ~ReceiveResult(r, answered)
    <3>1. \/ status'[c] = status[c]
          \/ CancelCommit(c) /\ status'[c] = "cancelled"
      BY <1>2, <2>2, FinishedRows DEF TableInv, ResultStatus
    <3>2. QED
      BY <1>2, <2>1, <3>1, CancelledResultIsSilent DEF ResultStatus
  <2>3. ASSUME NEW r \in results, NEW answered \in BOOLEAN, ReceiveResult(r, answered)
        PROVE  status'[c] = status[c]
    BY <2>1, <2>3 DEF ReceiveResult, DeliverResult, TableInv, TypeOK, ServiceTypeOK
  <2>4. QED
    BY <1>2, <2>1, <2>2, <2>3
<1>3. QED
  BY <1>1, <1>2

\* Only the release of an incident makes it released, and only if it succeeded.
LEMMA ReleasedBySuccess ==
  ASSUME TableInv, [Next]_vars, NEW i \in Opened', incident'[i].status = "released",
         ~(i \in Opened /\ incident[i].status = "released")
  PROVE  /\ i \in Opened /\ incident'[i].mailboxCmd = incident[i].mailboxCmd
         /\ \E r \in results : /\ r.ok /\ r.cmd = incident[i].mailboxCmd
                               /\ kind[r.cmd] = "ReleaseMailbox"
                               /\ status'[r.cmd] = "succeeded"
<1>t. TypeOK /\ i \in Incident /\ incident'[i] # incident[i]
  BY DEF TableInv, Opened
<1>1. ASSUME NEW j \in Incident, NEW c \in Command, RequestQuarantine(j, c) \/ ReleaseCommit(j, c)
      PROVE  FALSE
  <2>1. incident'[i] = incident[i] \/ incident'[i].status = "pending"
    BY <1>1, <1>t DEF RequestQuarantine, ReleaseCommit, TypeOK, IncidentRow
  <2>2. QED
    BY <2>1, <1>t
<1>2. PICK r \in results, answered \in BOOLEAN : ReceiveResult(r, answered)
  BY <1>1, <1>t
  DEF Next, ReleaseCheck, Cancel, MailboxAgent, EdgeAgent, RunEnds, NoResult, AgentPolls,
      incidentVars, vars
<1>3. /\ i \in IncidentsOf(r.cmd) /\ i \in Opened /\ r.cmd \in CommandsOf(i)
      /\ incident'[i] = UpdatedIncident(incident[i], r, status')
      /\ incident[i] \in IncidentRow /\ incident[i].status # "absent"
  BY <1>2, <1>t DEF ReceiveResult, IncidentsOf, CommandsOf, Opened, TypeOK
<1>4. r \in Result /\ r.cmd \in Command
  BY <1>t DEF TypeOK, ServiceTypeOK, Result
<1>5. incident'[i].mailboxCmd = incident[i].mailboxCmd
  BY <1>3, <1>4, UpdateKeepsCommands
<1>6. CASE kind[r.cmd] = "ReleaseMailbox"
  <2>1. r.ok
    BY <1>3, <1>6 DEF UpdatedIncident, IncidentRow
  <2>2. r.cmd = incident[i].mailboxCmd
    BY <1>3, <1>6 DEF TableInv, CommandsFit, CommandsOf
  <2>3. status'[r.cmd] = "succeeded"
    BY <1>2, <1>4, <1>t, <2>1 DEF ReceiveResult, DeliverResult, TypeOK, ServiceTypeOK
  <2>4. QED
    BY <1>3, <1>5, <1>6, <2>1, <2>2, <2>3
<1>7. CASE kind[r.cmd] # "ReleaseMailbox"
  <2>1. incident'[i].status = Outcome({status'[incident[i].mailboxCmd],
                                       status'[incident[i].edgeCmd]}, incident[i].status)
    BY <1>3, <1>7 DEF UpdatedIncident, IncidentRow
  <2>2. QED
    BY <1>3, <2>1 DEF Outcome
<1>8. QED
  BY <1>6, <1>7

\* An incident that is released keeps its release until the next one is committed.
LEMMA ReleasedKeepsCommand ==
  ASSUME TypeOK, [Next]_vars, NEW i \in Opened, incident[i].status = "released",
         incident'[i].status = "released"
  PROVE  incident'[i].mailboxCmd = incident[i].mailboxCmd
<1>1. ASSUME NEW j \in Incident, NEW c \in Command, RequestQuarantine(j, c) \/ ReleaseCommit(j, c)
      PROVE  incident'[i] = incident[i]
  <2>1. incident'[i] = incident[i] \/ incident'[i].status = "pending"
    BY <1>1 DEF RequestQuarantine, ReleaseCommit, TypeOK, IncidentRow, Opened
  <2>2. QED
    BY <2>1
<1>2. QED
  BY <1>1, CommandsKept

LEMMA ReleasedStep == TableInv /\ ReleasedInv /\ [Next]_vars => ReleasedInv'
<1> SUFFICES ASSUME TableInv, ReleasedInv, [Next]_vars, NEW i \in Opened',
                    incident'[i].status = "released", Once(incident[i].mailboxCmd)',
                    incident'[i].mailboxCmd = incident[i].mailboxCmd, i \in Opened
             PROVE  LET c == incident[i].mailboxCmd IN status'[c] = "succeeded" \/ Silent(c)'
  <2> SUFFICES ASSUME TableInv, ReleasedInv, [Next]_vars, NEW i \in Opened',
                      incident'[i].status = "released"
               PROVE  incident'[i].mailboxCmd = incident[i].mailboxCmd /\ i \in Opened
    BY DEF ReleasedInv, Once, Silent
  <2>1. QED
    BY ReleasedBySuccess, ReleasedKeepsCommand DEF TableInv
<1>1. incident[i].mailboxCmd \in Command
  BY DEF TableInv, CommandsFit, CommandsOf
<1>2. Once(incident[i].mailboxCmd)
  BY <1>1, HandoutsGrow DEF TableInv, Once
<1>3. CASE incident[i].status = "released"
  BY <1>1, <1>2, <1>3, ReportedStays DEF ReleasedInv
<1>4. CASE incident[i].status # "released"
  BY <1>4, ReleasedBySuccess
<1>5. QED
  BY <1>3, <1>4

(***************************************************************************)
(* Once PurgeSenderQueue has reported, a released incident stays released: *)
(* its own two commands have nothing left to report, results of others do  *)
(* not touch it, and it takes a further release request to open it again.  *)
(***************************************************************************)
THEOREM ReleasesAreFinal == Spec => ReleaseIsFinal
<1>1. Init => ReleasedInv
  BY DEF Init, NoIncident, Opened, ReleasedInv
<1>2. TableInv /\ ReleasedInv /\ [Next]_vars =>
        [\A i \in Opened :
           /\ incident[i].status = "released" /\ releasing[i] = "no"
           /\ status[incident[i].edgeCmd] \in ResultStatus
           /\ HandedOutOnce(CommandsOf(i))
           => incident'[i].status = "released"]_vars
  <2> SUFFICES ASSUME TableInv, ReleasedInv, [Next]_vars, NEW i \in Opened,
                      incident[i].status = "released", releasing[i] = "no",
                      status[incident[i].edgeCmd] \in ResultStatus, HandedOutOnce(CommandsOf(i))
               PROVE  incident'[i] = incident[i]
    OBVIOUS
  <2>0. /\ incident[i].mailboxCmd \in Command /\ Once(incident[i].mailboxCmd)
        /\ incident[i].edgeCmd \in Command /\ Once(incident[i].edgeCmd)
        /\ i \in Incident /\ incident \in [Incident -> IncidentRow]
    BY DEF TableInv, TypeOK, CommandsFit, CommandsOf, HandedOutOnce, Once, Opened
  <2>1. \A r \in results : r.cmd \notin CommandsOf(i)
    BY <2>0, ReportedStays DEF ReleasedInv, TableInv, OneResult, CommandsOf
  <2>2. ASSUME NEW j \in Incident, NEW c \in Command, RequestQuarantine(j, c) \/ ReleaseCommit(j, c)
        PROVE  incident'[i] = incident[i]
    BY <2>0, <2>2 DEF RequestQuarantine, ReleaseCommit
  <2>3. ASSUME NEW r \in results, NEW answered \in BOOLEAN, ReceiveResult(r, answered)
        PROVE  incident'[i] = incident[i]
    BY <2>0, <2>1, <2>3 DEF ReceiveResult, IncidentsOf, CommandsOf
  <2>4. QED
    BY <2>2, <2>3
    DEF Next, ReleaseCheck, Cancel, MailboxAgent, EdgeAgent, RunEnds, NoResult, AgentPolls,
        incidentVars, vars
<1>3. QED
  BY <1>1, <1>2, ReleasedStep, TableInvInit, TableInvStep, PTL DEF Spec, ReleaseIsFinal

-----------------------------------------------------------------------------
(***************************************************************************)
(* Why a release restores the mailbox.  A command that is handed out once  *)
(* is executed once at most, and after every older one of its node: when   *)
(* the newest command of the mailbox agent succeeds, a release, nothing is *)
(* left to execute.  And the first quarantine reads EWS before anything    *)
(* changed it.                                                             *)
(***************************************************************************)

\* The mailbox agent may still execute the command for the first time.
Unrun(c) ==
  \/ status[c] = "pending" /\ handouts[c] = 0
  \/ c \in batch[Mailbox] /\ (Mailbox \in waiting => c # Current(Mailbox))

\* A command whose turn is over does not get another.
LEMMA UnrunBefore ==
  ASSUME TableInv, [Next]_vars, NEW c \in Command, status[c] # "absent", Once(c)', Unrun(c)'
  PROVE  Unrun(c)
<1> USE DEF Unrun
<1>0. /\ batch \in [Node -> SUBSET Command] /\ waiting \subseteq Node /\ Mailbox \in Node
      /\ status \in [Command -> Status] /\ handouts \in [Command -> Nat]
  BY Constants DEF TableInv, TypeOK, ServiceTypeOK
<1>1. ASSUME NEW n \in Node, NEW ok \in BOOLEAN, NEW answer \in Answer, RunCommand(n, ok, answer)
      PROVE  Unrun(c)
  BY <1>1 DEF RunCommand, Current
<1>2. ASSUME NEW r \in results, NEW answered \in BOOLEAN, DeliverResult(r, answered) PROVE Unrun(c)
  <2>1. CASE status'[c] = "pending" /\ handouts'[c] = 0
    BY <1>0, <1>2, <2>1 DEF DeliverResult
  <2>2. CASE c \in batch'[Mailbox] /\ (Mailbox \in waiting' => c # Current(Mailbox)')
    <3>1. CASE AwaitedBy(Mailbox, r) /\ answered
      <4>1. batch'[Mailbox] = batch[Mailbox] \ {r.cmd} /\ r.cmd = Current(Mailbox)
        BY <1>0, <1>2, <3>1 DEF DeliverResult, AwaitedBy
      <4>2. QED
        BY <2>2, <4>1
    <3>2. CASE ~(AwaitedBy(Mailbox, r) /\ answered)
      <4>1. batch'[Mailbox] = batch[Mailbox] /\ (Mailbox \in waiting' <=> Mailbox \in waiting)
        BY <1>0, <1>2, <3>2 DEF DeliverResult
      <4>2. QED
        BY <2>2, <4>1 DEF Current
    <3>3. QED
      BY <3>1, <3>2
  <2>3. QED
    BY <2>1, <2>2
<1>3. ASSUME NEW r \in results, LoseResult(r) PROVE Unrun(c)
  BY <1>3 DEF LoseResult, Current
<1>4. ASSUME NEW n \in Node, AbortRun(n) PROVE Unrun(c)
  <2>1. /\ UNCHANGED <<status, handouts>> /\ waiting' = waiting \ {n}
        /\ batch'[n] = {} /\ \A m \in Node : m # n => batch'[m] = batch[m]
    BY <1>0, <1>4 DEF AbortRun
  <2>2. QED
    BY <1>0, <2>1 DEF Current
<1>5. ASSUME NEW d \in Command, CancelCheck(d) \/ CancelCommit(d) PROVE Unrun(c)
  <2>1. UNCHANGED <<handouts, batch, waiting>> /\ (status'[c] = "pending" => status[c] = "pending")
    BY <1>0, <1>5 DEF CancelCheck, CancelCommit, agentVars
  <2>2. QED
    BY <2>1 DEF Current
<1>6. ASSUME NEW n \in Node, ServicePoll(n) PROVE Unrun(c)
  <2>1. PICK reopened \in SUBSET ((Of(n) \cap WithStatus({"claimed"})) \ Held),
             expired \in SUBSET ((Of(n) \cap WithStatus(OpenStatus)) \ Held),
             claimed \in SUBSET (Of(n) \cap WithStatus({"pending"})),
             answered \in BOOLEAN :
               PollEffect(n, reopened, expired, claimed, answered)
    BY <1>6 DEF ServicePoll
  <2>2. /\ handouts'[c] = IF c \in claimed THEN handouts[c] + 1 ELSE handouts[c]
        /\ batch' = batch \/ batch' = [batch EXCEPT ![n] = @ \cup claimed]
        /\ waiting' = waiting
    BY <2>1 DEF PollEffect
  <2>3. c \in claimed => Unrun(c)
    <3>1. ASSUME c \in claimed PROVE handouts[c] = 0 /\ status[c] = "pending"
      BY <1>0, <2>2, <3>1 DEF Once, WithStatus
    <3>2. QED
      BY <3>1
  <2>4. ASSUME c \notin claimed, status'[c] = "pending", handouts'[c] = 0 PROVE Unrun(c)
    <3>1. handouts[c] = 0
      BY <2>2, <2>4
    <3>2. status[c] # "claimed"
      BY <3>1 DEF TableInv, OrderInv, HandoutsCounted
    <3>3. c \notin reopened
      BY <3>2 DEF WithStatus
    <3>4. status'[c] = status[c]
      <4>1. status'[c] = CASE c \in claimed  -> "claimed"
                           [] c \in expired  -> "expired"
                           [] c \in reopened -> "pending"
                           [] OTHER          -> status[c]
        BY <2>1, Zenon DEF PollEffect
      <4>2. status'[c] = "expired" \/ status'[c] = status[c]
        BY <2>4, <3>3, <4>1, Zenon
      <4>3. QED
        BY <2>4, <4>2
    <3>5. QED
      BY <2>4, <3>1, <3>4
  <2>5. ASSUME c \notin claimed, c \in batch'[Mailbox], Mailbox \in waiting' => c # Current(Mailbox)'
        PROVE  Unrun(c)
    <3>1. c \in batch[Mailbox] /\ batch[Mailbox] \subseteq batch'[Mailbox]
      BY <1>0, <2>2, <2>5
    <3>2. batch'[Mailbox] = batch[Mailbox]
      BY <1>0, <3>1, StepIsRunStep DEF TableInv, RunStep
    <3>3. QED
      BY <2>2, <2>5, <3>1, <3>2 DEF Current
  <2>6. QED
    BY <2>3, <2>4, <2>5
<1>7. ASSUME NEW rows, QueueRows(rows) PROVE Unrun(c)
  <2>1. c \notin DOMAIN rows /\ UNCHANGED <<handouts, batch, waiting>>
    BY <1>7 DEF QueueRows, WriteRows, agentVars
  <2>2. status'[c] = status[c]
    BY <1>7, <2>1 DEF QueueRows, WriteRows
  <2>3. QED
    BY <2>1, <2>2 DEF Current
<1>8. CASE UNCHANGED serviceVars
  BY <1>8 DEF serviceVars, Current
<1>9. QED
  BY <1>1, <1>2, <1>3, <1>4, <1>5, <1>6, <1>7, <1>8, StepIsServiceAction
  DEF ServiceAction, QueueCommand, TableInv

\* What the mailbox agent works on.
LEMMA WorkInTurn ==
  ASSUME TableInv, batch[Mailbox] # {}, Mailbox \notin waiting
  PROVE  LET k == Current(Mailbox) IN
         /\ k \in Command /\ node[k] = Mailbox /\ status[k] # "absent" /\ Unrun(k)
         /\ \A c \in Command : node[c] = Mailbox /\ c < k => ~Unrun(c)
<1> DEFINE k == Current(Mailbox)
<1>1. /\ k \in batch[Mailbox] /\ k \in Command /\ \A d \in batch[Mailbox] : k <= d
      /\ batch[Mailbox] \subseteq Command
  BY LeastInBatch, Constants DEF TableInv, TypeOK, ServiceTypeOK
<1>2. node[k] = Mailbox /\ status[k] # "absent" /\ handouts[k] > 0
  BY <1>1, Constants DEF TableInv, WorkExists, OrderInv, HandoutsCounted
<1>3. Unrun(k)
  BY <1>1 DEF Unrun
<1>4. ASSUME NEW c \in Command, node[c] = Mailbox, c < k PROVE ~Unrun(c)
  <2>1. ~(status[c] = "pending" /\ handouts[c] = 0)
    BY <1>1, <1>2, <1>4 DEF TableInv, OrderInv, OffersInOrder
  <2>2. c \notin batch[Mailbox]
    <3>1. ASSUME k <= c PROVE FALSE
      BY <1>1, <1>4, <3>1 DEF Command
    <3>2. QED
      BY <1>1, <3>1
  <2>3. QED
    BY <2>1, <2>2 DEF Unrun
<1>5. QED
  BY <1>1, <1>2, <1>3, <1>4

\* An execution uses up the turn of its command.
LEMMA ExecutedOnce ==
  ASSUME TableInv, batch[Mailbox] # {},
         \/ \E ok \in BOOLEAN, answer \in Answer : RunCommand(Mailbox, ok, answer)
         \/ AbortRun(Mailbox)
  PROVE  \A c \in Command : c = Current(Mailbox) => ~Unrun(c)'
<1> DEFINE k == Current(Mailbox)
<1>1. k \in batch[Mailbox] /\ k \in Command
  BY CurrentInBatch, Constants DEF TableInv, TypeOK
<1>2. handouts[k] > 0 /\ UNCHANGED <<handouts, status>>
  BY <1>1, Constants DEF TableInv, OrderInv, HandoutsCounted, RunCommand, AbortRun
<1>3. CASE \E ok \in BOOLEAN, answer \in Answer : RunCommand(Mailbox, ok, answer)
  <2>1. batch' = batch /\ Mailbox \in waiting'
    BY <1>3 DEF RunCommand
  <2>2. Current(Mailbox)' = k
    BY <2>1 DEF Current
  <2>3. QED
    BY <1>2, <2>1, <2>2 DEF Unrun
<1>4. CASE AbortRun(Mailbox)
  <2>1. batch'[Mailbox] = {}
    BY <1>4, Constants DEF AbortRun, TableInv, TypeOK, ServiceTypeOK
  <2>2. QED
    BY <1>2, <2>1 DEF Unrun
<1>5. QED
  BY <1>3, <1>4

AllOnce == HandedOutOnce(MailboxRows)

\* Hand-outs are only added, so they were single before, and so are those of a new row.
LEMMA OnceBefore ==
  ASSUME TableInv, [Next]_vars, AllOnce'
  PROVE  AllOnce /\ \A c \in MailboxRows : Once(c)'
<1>1. ASSUME NEW c \in MailboxRows PROVE handouts[c] <= 1 /\ handouts'[c] <= 1
  <2>1. c \in Command /\ c \in MailboxRows'
    BY <1>1, RowsStay DEF MailboxRows, TableInv
  <2>2. handouts'[c] <= 1
    BY <2>1 DEF AllOnce, HandedOutOnce
  <2>3. QED
    BY <2>1, <2>2, HandoutsGrow DEF TableInv
<1>2. QED
  BY <1>1 DEF AllOnce, HandedOutOnce, Once

Newest(c) == \A d \in MailboxRows : d <= c

Restored(c) == ~member /\ ews = RestoredEws(c)

ReleaseDone(i) ==
  \/ incident[i].status = "released"
  \/ \E r \in results : /\ r.ok /\ r.cmd = incident[i].mailboxCmd
                        /\ kind[r.cmd] = "ReleaseMailbox"

\* After the newest command, a release, has succeeded nothing is left to execute.
Finished ==
  AllOnce => \A i \in Opened : ReleaseDone(i) /\ Newest(incident[i].mailboxCmd) =>
    Restored(incident[i].mailboxCmd) /\ \A c \in MailboxRows : ~Unrun(c)

\* A request makes its command the newest, and it has not succeeded.
LEMMA RequestKeepsFinished ==
  ASSUME TableInv, [Next]_vars, NEW i \in Incident, NEW c \in Command,
         RequestQuarantine(i, c) \/ ReleaseCommit(i, c)
  PROVE  Finished'
<1> SUFFICES ASSUME NEW j \in Opened', ReleaseDone(j)', Newest(incident[j].mailboxCmd)'
             PROVE  FALSE
  BY DEF Finished
<1>t. TypeOK /\ j \in Incident
  BY DEF TableInv, Opened
<1>1. /\ status[c] = "absent" /\ status'[c] # "absent" /\ node'[c] = Mailbox
      /\ incident'[i].status = "pending" /\ incident'[i].mailboxCmd = c
      /\ \A k \in Incident : k # i => incident'[k] = incident[k]
      /\ results' = results
  <2>1. CASE RequestQuarantine(i, c)
    BY <2>1, <1>t DEF RequestQuarantine, QueueRows, WriteRows, agentVars, TypeOK
  <2>2. CASE ReleaseCommit(i, c)
    BY <2>2, <1>t
    DEF ReleaseCommit, QueueCommand, QueueRows, WriteRows, agentVars, TypeOK, IncidentRow
  <2>3. QED
    BY <2>1, <2>2
<1>2. CASE j = i
  BY <1>1, <1>2, ResultHasRun DEF ReleaseDone, TableInv
<1>3. CASE j # i
  <2>1. incident[j].mailboxCmd \in Command /\ status[incident[j].mailboxCmd] # "absent"
    BY <1>t, <1>1, <1>3 DEF Opened, TableInv, CommandsFit, CommandsOf
  <2>2. c <= incident[j].mailboxCmd /\ c # incident[j].mailboxCmd
    BY <1>1, <1>3, <1>t, <2>1 DEF Newest, MailboxRows
  <2>3. c < incident[j].mailboxCmd
    BY <2>1, <2>2 DEF Command
  <2>4. QED
    BY <1>1, <2>1, <2>3 DEF TableInv, OrderInv, RowsInOrder
<1>4. QED
  BY <1>2, <1>3

\* What one execution of the mailbox agent does, and what it leaves to be executed.
LEMMA Execution ==
  ASSUME TableInv, [Next]_vars, AllOnce', MailboxAgent
  PROVE  \E k \in MailboxRows :
         /\ UNCHANGED <<kind, restore, incident, releasing, ownEws, status, node, handouts>>
         /\ Unrun(k)
         /\ \A c \in MailboxRows : Unrun(c)' => Unrun(c) /\ k < c
         /\ \A r \in results' \ results : r.ok =>
              /\ r.cmd = k
              /\ kind[k] = "QuarantineMailbox" => r.answer = ews
              /\ kind[k] = "ReleaseMailbox" => Restored(k)'
<1>k. PICK k : k = Current(Mailbox)
  OBVIOUS
<1>t. TypeOK /\ (\A d \in MailboxRows : Once(d)')
  BY OnceBefore DEF TableInv
<1>1. /\ batch[Mailbox] # {} /\ Mailbox \notin waiting
      /\ UNCHANGED <<kind, restore, incident, releasing, ownEws, status, node, handouts>>
  BY DEF MailboxAgent, Working, incidentVars, QuarantineSucceeds, QuarantineFails,
         QuarantineHalfFails, QuarantineKilled, ReleaseSucceeds, ReleaseFails, ReleaseKilled,
         RunCommand, AbortRun
<1>2. /\ k \in Command /\ node[k] = Mailbox /\ status[k] # "absent" /\ Unrun(k)
      /\ \A c \in Command : node[c] = Mailbox /\ c < k => ~Unrun(c)
  BY <1>1, <1>k, WorkInTurn
<1>3. k \in MailboxRows /\ MailboxRows' = MailboxRows /\ Opened' = Opened
  BY <1>1, <1>2 DEF MailboxRows, Opened
<1>4. ~Unrun(k)'
  <2>1. \/ \E ok \in BOOLEAN, answer \in Answer : RunCommand(Mailbox, ok, answer)
        \/ AbortRun(Mailbox)
    BY <1>t, Constants
    DEF TypeOK, MailboxAgent, Ews, QuarantineSucceeds, QuarantineFails, QuarantineHalfFails,
        QuarantineKilled, ReleaseSucceeds, ReleaseFails, ReleaseKilled
  <2>2. QED
    BY <1>1, <1>2, <1>k, <2>1, ExecutedOnce
<1>5. \A c \in MailboxRows : Unrun(c)' => Unrun(c) /\ k < c
  <2> SUFFICES ASSUME NEW c \in MailboxRows, Unrun(c)' PROVE Unrun(c) /\ k < c
    OBVIOUS
  <2>1. c \in Command /\ Unrun(c)
    BY <1>t, UnrunBefore DEF MailboxRows
  <2>2. ~(c < k) /\ c # k
    BY <1>2, <1>4, <2>1 DEF MailboxRows
  <2>3. QED
    BY <1>2, <2>1, <2>2 DEF Command
<1>6. ASSUME NEW r \in results', r \notin results, r.ok
      PROVE  /\ r.cmd = k
             /\ kind[k] = "QuarantineMailbox" => r.answer = ews
             /\ kind[k] = "ReleaseMailbox" => Restored(k)'
  <2>1. ASSUME NEW ok, NEW answer, RunCommand(Mailbox, ok, answer)
        PROVE  r.cmd = k /\ r.ok = ok /\ r.answer = answer
    <3>1. r = [cmd |-> k, try |-> handouts[k], ok |-> ok, answer |-> answer]
      BY <1>6, <1>k, <2>1 DEF RunCommand
    <3>2. QED
      BY <3>1
  <2>2. ~AbortRun(Mailbox)
    BY <1>6 DEF AbortRun
  <2>3. CASE Working("QuarantineMailbox")
    <3>1. kind[k] = "QuarantineMailbox"
      BY <1>k, <2>3 DEF Working
    <3>2. QuarantineSucceeds
      BY <1>6, <1>k, <2>1, <2>2, <3>1
      DEF MailboxAgent, Working, QuarantineFails, QuarantineHalfFails, QuarantineKilled
    <3>3. QED
      BY <2>1, <3>1, <3>2 DEF QuarantineSucceeds
  <2>4. CASE Working("ReleaseMailbox")
    <3>1. kind[k] = "ReleaseMailbox"
      BY <1>k, <2>4 DEF Working
    <3>2. ReleaseSucceeds
      BY <1>6, <1>k, <2>1, <2>2, <3>1
      DEF MailboxAgent, Working, ReleaseFails, ReleaseKilled
    <3>3. QED
      BY <1>1, <1>k, <2>1, <3>1, <3>2 DEF ReleaseSucceeds, Restored, RestoredEws
  <2>5. QED
    BY <2>3, <2>4 DEF MailboxAgent
<1>7. \A r \in results' \ results : r.ok =>
        /\ r.cmd = k
        /\ kind[k] = "QuarantineMailbox" => r.answer = ews
        /\ kind[k] = "ReleaseMailbox" => Restored(k)'
  BY <1>6
<1>8. QED
  BY <1>1, <1>2, <1>3, <1>5, <1>7

LEMMA ExecutionKeepsFinished ==
  ASSUME TableInv, Finished, [Next]_vars, MailboxAgent
  PROVE  Finished'
<1> SUFFICES ASSUME AllOnce', NEW i \in Opened', ReleaseDone(i)',
                    Newest(incident[i].mailboxCmd)'
             PROVE  /\ Restored(incident[i].mailboxCmd)'
                    /\ \A c \in MailboxRows' : ~Unrun(c)'
  BY DEF Finished
<1>1. PICK k \in MailboxRows :
        /\ UNCHANGED <<kind, restore, incident, status, node>>
        /\ Unrun(k)
        /\ \A c \in MailboxRows : Unrun(c)' => Unrun(c) /\ k < c
        /\ \A r \in results' \ results : r.ok =>
             r.cmd = k /\ (kind[k] = "ReleaseMailbox" => Restored(k)')
  BY Execution
<1>2. MailboxRows' = MailboxRows /\ Opened' = Opened
  BY <1>1 DEF MailboxRows, Opened
<1>3. Newest(incident[i].mailboxCmd) /\ i \in Opened
  BY <1>1, <1>2 DEF Newest
<1>4. ~ReleaseDone(i)
  BY <1>1, <1>3, OnceBefore DEF Finished
<1>5. PICK r \in results' : r.ok /\ r.cmd = incident[i].mailboxCmd /\ kind[r.cmd] = "ReleaseMailbox"
  BY <1>1, <1>4 DEF ReleaseDone
<1>6. r \notin results
  BY <1>4, <1>5 DEF ReleaseDone
<1>7. incident[i].mailboxCmd = k /\ Restored(k)'
  BY <1>1, <1>5, <1>6
<1>8. \A c \in MailboxRows : ~(k < c)
  BY <1>1, <1>3, <1>7 DEF Newest, MailboxRows, Command
<1>9. QED
  BY <1>1, <1>2, <1>7, <1>8

\* All other steps leave Exchange and the rows of the table alone.
LEMMA Others ==
  ASSUME TableInv, [Next]_vars, AllOnce', ~MailboxAgent,
         \A i \in Incident, c \in Command : ~RequestQuarantine(i, c) /\ ~ReleaseCommit(i, c)
  PROVE  /\ Opened' = Opened /\ MailboxRows' = MailboxRows
         /\ UNCHANGED <<kind, restore, ews, member, ownEws>>
         /\ \A i \in Opened : incident'[i].mailboxCmd = incident[i].mailboxCmd
         /\ \A c \in Command : status[c] = "absent" => status'[c] = "absent"
         /\ \A c \in MailboxRows : Unrun(c)' => Unrun(c)
         /\ \A r \in results' \ results : kind[r.cmd] = "PurgeSenderQueue"
<1>t. TypeOK /\ (\A d \in MailboxRows : Once(d)') /\ WorkExists
  BY OnceBefore, WorkInTable DEF TableInv
<1>1. /\ Opened' = Opened /\ kind' = kind
      /\ \A i \in Opened : /\ incident'[i].mailboxCmd = incident[i].mailboxCmd
                           /\ incident'[i].edgeCmd = incident[i].edgeCmd
  BY <1>t, CommandsKept
<1>2. UNCHANGED <<restore, ews, member, ownEws>>
  BY DEF Next, ReleaseCheck, Cancel, EdgeAgent, RunEnds, ReceiveResult, NoResult, AgentPolls,
         incidentVars, exchangeVars, vars
<1>3. MailboxRows' = MailboxRows /\ \A c \in Command : status[c] = "absent" => status'[c] = "absent"
  BY <1>t, NoNewRows, RowsStay DEF MailboxRows, TableInv
<1>4. \A c \in MailboxRows : Unrun(c)' => Unrun(c)
  BY <1>t, UnrunBefore DEF MailboxRows
<1>5. ASSUME NEW r \in results', r \notin results PROVE kind[r.cmd] = "PurgeSenderQueue"
  <2>1. EdgeAgent
    BY <1>5
    DEF Next, ReleaseCheck, Cancel, RunEnds, ReceiveResult, NoResult, AgentPolls, ServicePoll,
        PollEffect, AbortRun, DeliverResult, LoseResult, CancelCheck, CancelCommit, agentVars,
        serviceVars, vars
  <2>2. r.cmd = Current(Edge) /\ batch[Edge] # {}
    BY <1>5, <2>1 DEF EdgeAgent, RunCommand
  <2>3. r.cmd \in batch[Edge] /\ r.cmd \in Command
    BY <1>t, <2>2, CurrentInBatch, Constants DEF TypeOK
  <2>4. QED
    BY <1>t, <2>3, Constants DEF TableInv, WorkExists, CommandsFit
<1>6. QED
  BY <1>1, <1>2, <1>3, <1>4, <1>5

LEMMA OthersKeepFinished ==
  ASSUME TableInv, Finished, [Next]_vars, ~MailboxAgent,
         \A i \in Incident, c \in Command : ~RequestQuarantine(i, c) /\ ~ReleaseCommit(i, c)
  PROVE  Finished'
<1> SUFFICES ASSUME AllOnce', NEW i \in Opened', ReleaseDone(i)',
                    Newest(incident[i].mailboxCmd)'
             PROVE  /\ Restored(incident[i].mailboxCmd)'
                    /\ \A c \in MailboxRows' : ~Unrun(c)'
  BY DEF Finished
<1>1. /\ i \in Opened /\ MailboxRows' = MailboxRows
      /\ UNCHANGED <<kind, restore, ews, member>>
      /\ incident'[i].mailboxCmd = incident[i].mailboxCmd
      /\ \A c \in MailboxRows : Unrun(c)' => Unrun(c)
      /\ \A r \in results' \ results : kind[r.cmd] = "PurgeSenderQueue"
  BY Others
<1>2. ReleaseDone(i)
  <2>1. CASE incident'[i].status = "released" /\ incident[i].status # "released"
    BY <1>1, <2>1, ReleasedBySuccess DEF ReleaseDone
  <2>2. CASE ~(incident'[i].status = "released" /\ incident[i].status # "released")
    BY <1>1, <2>2 DEF ReleaseDone
  <2>3. QED
    BY <2>1, <2>2
<1>3. Newest(incident[i].mailboxCmd)
  BY <1>1 DEF Newest
<1>4. QED
  BY <1>1, <1>2, <1>3, OnceBefore DEF Finished, Restored, RestoredEws

LEMMA FinishedStep == TableInv /\ Finished /\ [Next]_vars => Finished'
  BY RequestKeepsFinished, ExecutionKeepsFinished, OthersKeepFinished

\* The first incident of the mailbox, whose commands are handed out once.
OnlyIncident == AllOnce /\ \A i, j \in Opened : i = j

Untouched == Opened = {} => ews = ownEws /\ \A c \in Command : status[c] = "absent"

\* What is recorded as the earlier EWS setting is that, or nothing is.
Recorded ==
  /\ \A c \in Command : restore[c] \in {"unknown", ownEws}
  /\ \A i \in Incident : /\ incident[i].previous \in {"unknown", ownEws}
                         /\ releasing[i] \in {"no", "unknown", ownEws}
  /\ \A r \in results : r.ok /\ kind[r.cmd] = "QuarantineMailbox" => r.answer = ownEws

\* The quarantine is the first command of the mailbox agent.
ReadsFirst ==
  \A c \in MailboxRows : kind[c] = "QuarantineMailbox" =>
    /\ Unrun(c) => ews = ownEws
    /\ \A d \in MailboxRows : c <= d

ReadsOwn == Untouched /\ Recorded /\ ReadsFirst

ReadsOwnInv == OnlyIncident => ReadsOwn

LEMMA RestoreInit == Init => Finished /\ ReadsOwnInv
<1> SUFFICES ASSUME Init PROVE Finished /\ ReadsOwn
  BY DEF ReadsOwnInv
<1>1. Opened = {} /\ results = {} /\ MailboxRows = {}
  BY DEF Init, ServiceInit, Opened, NoIncident, MailboxRows
<1>2. Untouched /\ Recorded
  BY <1>1 DEF Init, ServiceInit, Untouched, Recorded, NoIncident
<1>3. QED
  BY <1>1, <1>2 DEF ReadsOwn, ReadsFirst, Finished

\* An incident that was opened stays.
LEMMA OpenedStays ==
  ASSUME TypeOK, [Next]_vars
  PROVE  Opened \subseteq Opened'
<1>1. ASSUME NEW i \in Incident, NEW c \in Command, RequestQuarantine(i, c)
      PROVE  Opened \subseteq Opened'
  BY <1>1 DEF RequestQuarantine, Opened, TypeOK
<1>2. ASSUME NEW i \in Incident, NEW c \in Command, ReleaseCommit(i, c)
      PROVE  Opened \subseteq Opened'
  <2>1. \A j \in Incident : incident'[j] = incident[j] \/ incident'[j].status = "pending"
    BY <1>2 DEF ReleaseCommit, TypeOK, IncidentRow
  <2>2. QED
    BY <2>1 DEF Opened
<1>3. QED
  BY <1>1, <1>2, CommandsKept

LEMMA OnlyBefore ==
  ASSUME TableInv, [Next]_vars, OnlyIncident'
  PROVE  OnlyIncident /\ AllOnce' /\ \A c \in MailboxRows : Once(c)'
  BY OnceBefore, OpenedStays DEF OnlyIncident, TableInv

\* The first incident: nothing has happened yet.
LEMMA QuarantineKeepsReadsOwn ==
  ASSUME TableInv, [Next]_vars, ReadsOwn, OnlyIncident',
         NEW i \in Incident, NEW c \in Command, RequestQuarantine(i, c)
  PROVE  ReadsOwn'
<1>t. TypeOK
  BY DEF TableInv
<1>1. /\ i \notin Opened /\ c + 1 \in Command /\ c # c + 1
      /\ incident'[i] = [status |-> "pending", mailboxCmd |-> c, edgeCmd |-> c + 1,
                         previous |-> "unknown"]
      /\ \A j \in Incident : j # i => incident'[j] = incident[j]
      /\ kind'[c + 1] = "PurgeSenderQueue"
      /\ UNCHANGED <<restore, releasing, ews, member, ownEws>>
  BY <1>t DEF RequestQuarantine, TypeOK, exchangeVars, Command
<1>2. Opened = {}
  BY <1>1, <1>t, OpenedStays DEF OnlyIncident, Opened, TableInv
<1>3. ews = ownEws /\ \A d \in Command : status[d] = "absent"
  BY <1>2 DEF ReadsOwn, Untouched
<1>4. results' = {}
  <2>1. results = {}
    BY <1>3, ResultHasRun DEF TableInv
  <2>2. QED
    BY <2>1 DEF RequestQuarantine, QueueRows, WriteRows, agentVars
<1>5. /\ node'[c] = Mailbox /\ node'[c + 1] = Edge
      /\ \A d \in Command : d # c /\ d # c + 1 => status'[d] = status[d]
  BY <1>1 DEF RequestQuarantine, QueueRows, WriteRows
<1>6. MailboxRows' \subseteq {c}
  BY <1>3, <1>5, QuarantineAssumption DEF MailboxRows
<1>7. Opened' = {i}
  BY <1>1, <1>2 DEF Opened
<1>8. Untouched'
  BY <1>7 DEF Untouched
<1>9. Recorded'
  BY <1>1, <1>4 DEF ReadsOwn, Recorded
<1>10. ReadsFirst'
  <2>1. c <= c
    BY DEF Command
  <2>2. QED
    BY <1>1, <1>3, <1>6, <2>1 DEF ReadsFirst
<1>11. QED
  BY <1>8, <1>9, <1>10 DEF ReadsOwn

\* A release is never the first command.
LEMMA ReleaseKeepsReadsOwn ==
  ASSUME TableInv, [Next]_vars, ReadsOwn, OnlyIncident',
         NEW i \in Incident, NEW c \in Command, ReleaseCommit(i, c)
  PROVE  ReadsOwn'
<1>t. TypeOK /\ (\A d \in MailboxRows : Once(d)') /\ OnlyIncident
  BY OnlyBefore DEF TableInv
<1>1. /\ status[c] = "absent" /\ kind'[c] = "ReleaseMailbox"
      /\ restore'[c] = releasing[i] /\ releasing[i] # "no"
      /\ \A d \in Command : d # c => /\ restore'[d] = restore[d] /\ kind'[d] = kind[d]
                                     /\ status'[d] = status[d] /\ node'[d] = node[d]
      /\ UNCHANGED <<results, ews, member, ownEws>>
  BY <1>t DEF ReleaseCommit, QueueCommand, QueueRows, WriteRows, TypeOK, exchangeVars, agentVars
<1>2. /\ incident'[i].mailboxCmd = c /\ incident'[i].edgeCmd = incident[i].edgeCmd
      /\ incident'[i].status = "pending" /\ incident'[i].previous = incident[i].previous
      /\ \A j \in Incident : j # i => incident'[j] = incident[j]
      /\ \A j \in Incident : releasing'[j] \in {"no", releasing[j]}
  BY <1>t DEF ReleaseCommit, TypeOK, IncidentRow
<1>3. i \in Opened
  BY <1>1 DEF TableInv, CommandsFit
<1>4. Opened' = {i}
  BY <1>3, <1>t, OpenedStays DEF OnlyIncident, Opened
<1>5. \A d \in Command : status[d] # "absent" => d < c
  <2> SUFFICES ASSUME NEW d \in Command, status[d] # "absent" PROVE d < c
    OBVIOUS
  <2>1. ~(c < d) /\ c # d
    BY <1>1 DEF TableInv, OrderInv, RowsInOrder
  <2>2. QED
    BY <2>1 DEF Command
<1>6. \A d \in MailboxRows' : d = c \/ (d < c /\ d \in MailboxRows)
  BY <1>1, <1>5 DEF MailboxRows
<1>7. \A d \in MailboxRows' : d <= c
  BY <1>6 DEF MailboxRows, Command
<1>8. Untouched'
  BY <1>4 DEF Untouched
<1>9. Recorded'
  <2>1. \A d \in Command : restore'[d] \in {"unknown", ownEws}
    BY <1>1 DEF ReadsOwn, Recorded
  <2>2. \A r \in results : kind'[r.cmd] = kind[r.cmd]
    BY <1>1, ResultHasRun DEF TableInv
  <2>3. \A j \in Incident : /\ incident'[j].previous \in {"unknown", ownEws}
                            /\ releasing'[j] \in {"no", "unknown", ownEws}
    BY <1>2 DEF ReadsOwn, Recorded
  <2>4. QED
    BY <1>1, <2>1, <2>2, <2>3 DEF ReadsOwn, Recorded
<1>10. ReadsFirst'
  <2> SUFFICES ASSUME NEW d \in MailboxRows', kind'[d] = "QuarantineMailbox"
               PROVE  (Unrun(d)' => ews' = ownEws') /\ \A e \in MailboxRows' : d <= e
    BY DEF ReadsFirst
  <2>1. d \in MailboxRows /\ d \in Command /\ kind[d] = "QuarantineMailbox" /\ status[d] # "absent"
    BY <1>1, <1>6 DEF MailboxRows
  <2>2. Unrun(d)' => ews' = ownEws'
    BY <1>1, <1>t, <2>1, UnrunBefore DEF ReadsOwn, ReadsFirst
  <2>3. \A e \in MailboxRows' : d <= e
    BY <1>6, <1>7, <2>1 DEF ReadsOwn, ReadsFirst
  <2>4. QED
    BY <2>2, <2>3
<1>11. QED
  BY <1>8, <1>9, <1>10 DEF ReadsOwn

\* The quarantine reads what the mailbox had.
LEMMA ExecutionKeepsReadsOwn ==
  ASSUME TableInv, [Next]_vars, ReadsOwn, OnlyIncident', MailboxAgent
  PROVE  ReadsOwn'
<1>1. PICK k \in MailboxRows :
        /\ UNCHANGED <<kind, restore, incident, releasing, ownEws, status, node, handouts>>
        /\ Unrun(k)
        /\ \A c \in MailboxRows : Unrun(c)' => Unrun(c) /\ k < c
        /\ \A r \in results' \ results : r.ok =>
             r.cmd = k /\ (kind[k] = "QuarantineMailbox" => r.answer = ews)
  BY OnlyBefore, Execution
<1>2. MailboxRows' = MailboxRows /\ Opened' = Opened
  BY <1>1 DEF MailboxRows, Opened
<1>3. Untouched'
  BY <1>1, <1>2 DEF ReadsOwn, Untouched, MailboxRows
<1>4. Recorded'
  <2>1. ASSUME NEW r \in results', r.ok, kind[r.cmd] = "QuarantineMailbox" PROVE r.answer = ownEws
    <3>1. CASE r \in results
      BY <2>1, <3>1 DEF ReadsOwn, Recorded
    <3>2. CASE r \notin results
      BY <1>1, <2>1, <3>2 DEF ReadsOwn, ReadsFirst
    <3>3. QED
      BY <3>1, <3>2
  <2>2. QED
    BY <1>1, <2>1 DEF ReadsOwn, Recorded
<1>5. ReadsFirst'
  <2>1. ASSUME NEW c \in MailboxRows, kind[c] = "QuarantineMailbox" PROVE ~Unrun(c)'
    <3>1. c <= k /\ c \in Command /\ k \in Command
      BY <2>1 DEF ReadsOwn, ReadsFirst, MailboxRows
    <3>2. ~(k < c)
      BY <3>1 DEF Command
    <3>3. QED
      BY <1>1, <3>2
  <2>2. QED
    BY <1>1, <1>2, <2>1 DEF ReadsOwn, ReadsFirst
<1>6. QED
  BY <1>3, <1>4, <1>5 DEF ReadsOwn

LEMMA OthersKeepReadsOwn ==
  ASSUME TableInv, [Next]_vars, ReadsOwn, OnlyIncident', ~MailboxAgent,
         \A i \in Incident, c \in Command : ~RequestQuarantine(i, c) /\ ~ReleaseCommit(i, c)
  PROVE  ReadsOwn'
<1>t. TypeOK
  BY DEF TableInv
<1>1. /\ Opened' = Opened /\ MailboxRows' = MailboxRows
      /\ UNCHANGED <<kind, restore, ews, member, ownEws>>
      /\ \A c \in Command : status[c] = "absent" => status'[c] = "absent"
      /\ \A c \in MailboxRows : Unrun(c)' => Unrun(c)
      /\ \A r \in results' \ results : kind[r.cmd] = "PurgeSenderQueue"
  BY OnlyBefore, Others
<1>2. ASSUME NEW i \in Incident
      PROVE  \/ incident'[i] = incident[i]
             \/ \E r \in results : i \in IncidentsOf(r.cmd)
                                   /\ incident'[i] = UpdatedIncident(incident[i], r, status')
  BY <1>t
  DEF Next, ReleaseCheck, Cancel, EdgeAgent, RunEnds, ReceiveResult, NoResult, AgentPolls,
      incidentVars, vars
<1>3. Untouched'
  BY <1>1 DEF ReadsOwn, Untouched
<1>4. Recorded'
  <2>1. \A r \in results' : r.ok /\ kind[r.cmd] = "QuarantineMailbox" => r.answer = ownEws
    BY <1>1 DEF ReadsOwn, Recorded
  <2>2. ASSUME NEW i \in Incident PROVE incident'[i].previous \in {"unknown", ownEws}
    <3>1. incident[i].previous \in {"unknown", ownEws} /\ incident[i] \in IncidentRow
      BY <1>t DEF ReadsOwn, Recorded, TypeOK
    <3>2. ASSUME NEW r \in results
          PROVE  UpdatedIncident(incident[i], r, status').previous \in {"unknown", ownEws}
      <4>1. r.ok /\ kind[r.cmd] = "QuarantineMailbox" => r.answer = ownEws
        BY DEF ReadsOwn, Recorded
      <4>2. QED
        BY <3>1, <4>1 DEF UpdatedIncident, IncidentRow
    <3>3. QED
      BY <1>2, <3>1, <3>2
  <2>3. ASSUME NEW i \in Incident PROVE releasing'[i] \in {"no", "unknown", ownEws}
    <3>1. releasing'[i] = releasing[i] \/ releasing'[i] = incident[i].previous
      BY <1>t
      DEF Next, ReleaseCheck, Cancel, EdgeAgent, RunEnds, ReceiveResult, NoResult, AgentPolls,
          incidentVars, vars, TypeOK
    <3>2. QED
      BY <3>1 DEF ReadsOwn, Recorded
  <2>4. QED
    BY <1>1, <2>1, <2>2, <2>3 DEF ReadsOwn, Recorded
<1>5. ReadsFirst'
  BY <1>1 DEF ReadsOwn, ReadsFirst
<1>6. QED
  BY <1>3, <1>4, <1>5 DEF ReadsOwn

LEMMA ReadsOwnStep == TableInv /\ ReadsOwnInv /\ [Next]_vars => ReadsOwnInv'
<1> SUFFICES ASSUME TableInv, ReadsOwnInv, [Next]_vars, OnlyIncident' PROVE ReadsOwn'
  BY DEF ReadsOwnInv
<1>1. ReadsOwn
  BY OnlyBefore DEF ReadsOwnInv
<1>2. QED
  BY <1>1, QuarantineKeepsReadsOwn, ReleaseKeepsReadsOwn, ExecutionKeepsReadsOwn,
     OthersKeepReadsOwn

(***************************************************************************)
(* The success of the newest command of the mailbox agent, a release, is   *)
(* the last word, when no command had to be handed out twice: the mailbox  *)
(* is out of the group and EWS is as the payload says, which is the        *)
(* setting it had before when it had no other incident.                    *)
(***************************************************************************)
THEOREM ReleaseUndoes == Spec => []ReleaseRestores
<1>1. TableInv /\ Finished /\ ReadsOwnInv => ReleaseRestores
  <2> SUFFICES ASSUME TableInv, Finished, ReadsOwnInv, NEW i \in Opened, AllOnce,
                      incident[i].status = "released", Newest(incident[i].mailboxCmd)
               PROVE  /\ Restored(incident[i].mailboxCmd)
                      /\ Opened = {i} /\ restore[incident[i].mailboxCmd] # "unknown"
                           => ews = ownEws
    BY DEF ReleaseRestores, AllOnce, Newest, Restored
  <2>1. Restored(incident[i].mailboxCmd)
    BY DEF Finished, ReleaseDone
  <2>2. ASSUME Opened = {i}, restore[incident[i].mailboxCmd] # "unknown" PROVE ews = ownEws
    <3>1. ReadsOwn
      BY <2>2 DEF ReadsOwnInv, OnlyIncident
    <3>2. incident[i].mailboxCmd \in Command
      BY DEF TableInv, CommandsFit, CommandsOf
    <3>3. QED
      BY <2>1, <2>2, <3>1, <3>2 DEF ReadsOwn, Recorded, Restored, RestoredEws
  <2>3. QED
    BY <2>1, <2>2
<1>2. QED
  BY <1>1, RestoreInit, FinishedStep, ReadsOwnStep, TableInvInit, TableInvStep, PTL DEF Spec

=============================================================================
