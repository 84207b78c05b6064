----------------------------- MODULE Quarantine -----------------------------
(***************************************************************************)
(* The containment of one mailbox: incidents of the web application, the   *)
(* commands they queue, the two agents, and what the mailbox agent does to *)
(* Exchange.  The command table is the one of CommandService (implemented  *)
(* by CommandQueue): commands may expire or be cancelled, results may be   *)
(* late or lost, a claim whose run died is handed out again.  Incidents of *)
(* different mailboxes share nothing but the batches of the agents.        *)
(***************************************************************************)
EXTENDS CommandService

CONSTANTS
  Mailbox,        \* the node of the mailbox agent (mailbox_node_id)
  Edge,           \* the node of the Edge agent (bootstrap_node_id)
  MaxIncidents,   \* bound: incidents ever opened for the mailbox
  MaxHandouts,    \* bound: how often one command is handed out
  MaxWork         \* bound: commands, and what went wrong with them

ASSUME QuarantineAssumption ==
  /\ Node = {Mailbox, Edge} /\ Mailbox # Edge
  /\ Answer = {"on", "off", "unknown"}
  /\ MaxIncidents \in Nat /\ MaxHandouts \in Nat /\ MaxWork \in Nat

Incident == 1..MaxIncidents
ActiveStatus     == {"pending", "quarantined", "partial"}
ReleasableStatus == {"quarantined", "partial", "failed"}
IncidentStatus   == ActiveStatus \cup {"failed", "released"}
Ews    == {"on", "off"}
Kind   == {"QuarantineMailbox", "ReleaseMailbox", "PurgeSenderQueue"}

VARIABLES
  kind,       \* Command.command_type
  restore,    \* payload.restore_ews_enabled of a ReleaseMailbox command
  incident,   \* MailboxIncident rows
  releasing,  \* release requests past their checks: the previous_ews_enabled they read
  ews,        \* Exchange: EwsEnabled of the mailbox
  member,     \* Exchange: is the mailbox in the blocked outbound group?
  ownEws      \* history: EwsEnabled before any incident

exchangeVars == <<ews, member, ownEws>>
incidentVars == <<kind, restore, incident, releasing>>
vars == <<serviceVars, incidentVars, exchangeVars>>

NoIncident == [status |-> "absent", mailboxCmd |-> 0, edgeCmd |-> 0, previous |-> "unknown"]
IncidentRow == [status     : IncidentStatus \cup {"absent"},
                mailboxCmd : Command \cup {0},
                edgeCmd    : Command \cup {0},
                previous   : Answer]

TypeOK ==
  /\ ServiceTypeOK
  /\ kind \in [Command -> Kind]
  /\ restore \in [Command -> Answer]
  /\ incident \in [Incident -> IncidentRow]
  /\ releasing \in [Incident -> Answer \cup {"no"}]
  /\ ews \in Ews /\ member \in BOOLEAN /\ ownEws \in Ews

Init ==
  /\ ServiceInit
  /\ kind      = [c \in Command |-> "QuarantineMailbox"]
  /\ restore   = [c \in Command |-> "unknown"]
  /\ incident  = [i \in Incident |-> NoIncident]
  /\ releasing = [i \in Incident |-> "no"]
  /\ ews \in Ews
  /\ member = FALSE
  /\ ownEws = ews

Opened == {i \in Incident : incident[i].status # "absent"}
Active == {i \in Incident : incident[i].status \in ActiveStatus}

\* What the bound counts: rows, hand-outs that are repeated, commands without a result.
Repeated == {c \in Command : handouts[c] > 1}
Unanswered == {c \in Command : \/ status[c] \in {"expired", "cancelled"}
                               \/ status[c] = "claimed" /\ c \notin Held}
Work == Cardinality({c \in Command : status[c] # "absent"})
          + Cardinality(Repeated) + Cardinality(Unanswered \cup cancelling)
InBounds == Work <= MaxWork /\ \A c \in Command : handouts[c] <= MaxHandouts

-----------------------------------------------------------------------------
(***************************************************************************)
(* queue_mailbox_quarantine: the row lock on the mailbox makes the check   *)
(* and the insertion of the incident and its two commands one step.  The   *)
(* same request comes from the web page and from the Telegram button.      *)
(***************************************************************************)
RequestQuarantine(i, c) ==
  /\ i \notin Opened
  /\ \A j \in Incident : j < i => j \in Opened
  /\ Active = {}
  /\ c + 1 \in Command
  /\ QueueRows([d \in {c, c + 1} |-> IF d = c THEN Mailbox ELSE Edge])
  /\ kind'     = [kind EXCEPT ![c] = "QuarantineMailbox", ![c + 1] = "PurgeSenderQueue"]
  /\ incident' = [incident EXCEPT ![i] =
       [status |-> "pending", mailboxCmd |-> c, edgeCmd |-> c + 1, previous |-> "unknown"]]
  /\ InBounds'
  /\ UNCHANGED <<restore, releasing, exchangeVars>>

(***************************************************************************)
(* incident_release: the status check and the read of previous_ews_enabled *)
(* first, the command and the new incident status at the commit.           *)
(***************************************************************************)
ReleaseCheck(i) ==
  /\ incident[i].status \in ReleasableStatus
  /\ releasing[i] = "no"
  /\ releasing' = [releasing EXCEPT ![i] = incident[i].previous]
  /\ UNCHANGED <<serviceVars, kind, restore, incident, exchangeVars>>

ReleaseCommit(i, c) ==
  /\ releasing[i] # "no"
  /\ QueueCommand(c, Mailbox)
  /\ kind'      = [kind EXCEPT ![c] = "ReleaseMailbox"]
  /\ restore'   = [restore EXCEPT ![c] = releasing[i]]
  /\ incident'  = [incident EXCEPT ![i].status = "pending", ![i].mailboxCmd = c]
  /\ releasing' = [releasing EXCEPT ![i] = "no"]
  /\ InBounds'
  /\ UNCHANGED exchangeVars

Cancel(c) ==
  /\ CancelCheck(c) \/ CancelCommit(c)
  /\ InBounds'
  /\ UNCHANGED <<incidentVars, exchangeVars>>

-----------------------------------------------------------------------------
(***************************************************************************)
(* The mailbox agent.  An execution has an effect on Exchange, and posts a *)
(* result unless it is killed on the way.                                  *)
(***************************************************************************)

\* Quarantine-Mailbox: EWS off, then the group; an error rolls EWS back.
QuarantineReadsTooLate ==
  /\ ews' = "off" /\ member' = TRUE
  /\ RunCommand(Mailbox, TRUE, "off")

QuarantineSucceeds ==
  /\ ews' = "off" /\ member' = TRUE
  /\ RunCommand(Mailbox, TRUE, ews)

\* Nothing was changed, or it was rolled back to what this execution had read.
QuarantineFails ==
  /\ UNCHANGED <<ews, member>>
  /\ RunCommand(Mailbox, FALSE, "unknown")

\* The rollback itself fails.
QuarantineHalfFails ==
  /\ ews' = "off" /\ UNCHANGED member
  /\ RunCommand(Mailbox, FALSE, "unknown")

\* Killed before the group was changed, or before the result was posted.
QuarantineKilled ==
  /\ ews' = "off"
  /\ member' \in {member, TRUE}
  /\ AbortRun(Mailbox)

\* Release-Mailbox: leave the group, then set EWS; a null payload means on.
RestoredEws(c) == IF restore[c] = "unknown" THEN "on" ELSE restore[c]

ReleaseSucceeds ==
  /\ ews' = RestoredEws(Current(Mailbox)) /\ member' = FALSE
  /\ RunCommand(Mailbox, TRUE, "unknown")

\* The group was left or not, EWS was not set.
ReleaseFails ==
  /\ member' \in {member, FALSE} /\ UNCHANGED ews
  /\ RunCommand(Mailbox, FALSE, "unknown")

ReleaseKilled ==
  /\ member' = FALSE /\ ews' \in {ews, RestoredEws(Current(Mailbox))}
  /\ AbortRun(Mailbox)

Working(k) ==
  /\ batch[Mailbox] # {} /\ Mailbox \notin waiting
  /\ kind[Current(Mailbox)] = k

MailboxAgent ==
  /\ \/ /\ Working("QuarantineMailbox")
        /\ QuarantineSucceeds \/ QuarantineFails \/ QuarantineHalfFails \/ QuarantineKilled
     \/ /\ Working("ReleaseMailbox")
        /\ ReleaseSucceeds \/ ReleaseFails \/ ReleaseKilled
  /\ InBounds'
  /\ UNCHANGED <<incidentVars, ownEws>>

(***************************************************************************)
(* PurgeSenderQueue on the Edge agent: what it removes from the mail queue *)
(* is not part of the state.                                               *)
(***************************************************************************)
EdgeAgent ==
  /\ \E ok \in BOOLEAN : RunCommand(Edge, ok, "unknown")
  /\ UNCHANGED <<incidentVars, exchangeVars>>

\* A run that waits for the answer to its post, or that has not begun to work.
RunEnds(n) ==
  /\ AbortRun(n)
  /\ InBounds'
  /\ UNCHANGED <<incidentVars, exchangeVars>>

-----------------------------------------------------------------------------
(***************************************************************************)
(* agent_command_result.  The incident is looked up by the commands it has *)
(* now; its new status follows from the statuses of those two commands.    *)
(***************************************************************************)
IncidentsOf(c) == {i \in Opened : c \in {incident[i].mailboxCmd, incident[i].edgeCmd}}

OutcomeOfAnyFirst(statuses, old) ==
  CASE "succeeded" \in statuses -> "quarantined"
    [] "failed" \in statuses    -> "failed"
    [] OTHER                    -> old

Outcome(statuses, old) ==
  CASE statuses = {"succeeded"} -> "quarantined"
    [] "failed" \in statuses    -> IF "succeeded" \in statuses THEN "partial" ELSE "failed"
    [] OTHER                    -> old

\* the row after result r, given the command statuses st that r has just changed
UpdatedIncident(row, r, st) ==
  CASE kind[r.cmd] = "ReleaseMailbox" ->
         [row EXCEPT !.status = IF r.ok THEN "released" ELSE "failed"]
    [] OTHER ->
         [row EXCEPT !.status = Outcome({st[row.mailboxCmd], st[row.edgeCmd]}, @),
                     !.previous = IF kind[r.cmd] = "QuarantineMailbox" /\ r.ok
                                  THEN r.answer ELSE @]

ReceiveResult(r, answered) ==
  /\ DeliverResult(r, answered)
  /\ incident' = [i \in Incident |->
       IF i \in IncidentsOf(r.cmd) THEN UpdatedIncident(incident[i], r, status') ELSE incident[i]]
  /\ UNCHANGED <<kind, restore, releasing, exchangeVars>>

NoResult(r) ==
  /\ LoseResult(r)
  /\ UNCHANGED <<incidentVars, exchangeVars>>

\* A poll leaves the incidents alone, also when it expires their commands.
AgentPolls(n) ==
  /\ batch[n] = {}
  /\ ServicePoll(n)
  /\ InBounds'
  /\ UNCHANGED <<incidentVars, exchangeVars>>

Next ==
  \/ \E i \in Incident, c \in Command : RequestQuarantine(i, c)
  \/ \E i \in Incident : ReleaseCheck(i)
  \/ \E i \in Incident, c \in Command : ReleaseCommit(i, c)
  \/ \E c \in Command : Cancel(c)
  \/ MailboxAgent
  \/ EdgeAgent
  \/ \E n \in Node : RunEnds(n)
  \/ \E r \in results, answered \in BOOLEAN : ReceiveResult(r, answered)
  \/ \E r \in results : NoResult(r)
  \/ \E n \in Node : AgentPolls(n)

Spec == Init /\ [][Next]_vars

-----------------------------------------------------------------------------
MailboxRows == {c \in Command : status[c] # "absent" /\ node[c] = Mailbox}
HandedOutOnce(C) == \A c \in C : handouts[c] <= 1
CommandsOf(i) == {incident[i].mailboxCmd, incident[i].edgeCmd}

(***************************************************************************)
(* An incident that says "quarantined" is contained: EWS is off and the    *)
(* mailbox is in the blocked group, whatever was repeated, rolled back,    *)
(* killed or cancelled.  Releases of earlier incidents may have succeeded, *)
(* failed or gone unanswered: the agent takes them before the quarantine.  *)
(* Only a release that is newer than the quarantine, of the incident or of *)
(* one that had failed before it, or one that is handed out again, undoes  *)
(* the containment.                                                        *)
(***************************************************************************)
ReleasesBefore(q) ==
  \A d \in Command : status[d] # "absent" /\ kind[d] = "ReleaseMailbox" =>
    d < q /\ handouts[d] <= 1

ContainmentHolds ==
  \A i \in Opened :
    LET q == incident[i].mailboxCmd IN
    incident[i].status = "quarantined" /\ kind[q] = "QuarantineMailbox" /\ ReleasesBefore(q)
      => ews = "off" /\ member

(***************************************************************************)
(* Until its release an incident never claims more than its agents have    *)
(* reported: "quarantined" has no failed half, "partial" has one half that *)
(* failed and "failed" none that succeeded, and no failure goes unseen.    *)
(* The results of the two agents come in any order, late or repeated (a    *)
(* success that arrives after the failure of a later attempt leaves        *)
(* "failed" in place), and between those of other incidents.  A cancelled  *)
(* command is left out: it may have reported before, since a cancellation  *)
(* does not look again at the commit.                                      *)
(***************************************************************************)
OutcomeMatchesReports ==
  \A i \in Opened :
    LET reports == {status[c] : c \in CommandsOf(i)} IN
    kind[incident[i].mailboxCmd] = "QuarantineMailbox" /\ "cancelled" \notin reports =>
      /\ incident[i].status = "quarantined" => reports = {"succeeded"}
      /\ incident[i].status = "partial" => reports = ResultStatus
      /\ incident[i].status = "failed" /\ HandedOutOnce(CommandsOf(i)) =>
           reports \cap ResultStatus = {"failed"}
      /\ incident[i].status = "pending" => "failed" \notin reports

(***************************************************************************)
(* When no command had to be handed out twice, the success of the newest   *)
(* command of the mailbox agent, a release, is the last word: the mailbox  *)
(* is out of the group and has the EWS setting of the payload, and that is *)
(* the one it had before the incident when the mailbox had no other (the   *)
(* request reads previous_ews_enabled before it commits, and the result    *)
(* that records it may come in between).  A later incident may find EWS    *)
(* as an earlier one that was never released left it.                      *)
(***************************************************************************)
ReleaseRestores ==
  \A i \in Opened :
    LET release == incident[i].mailboxCmd IN
    /\ incident[i].status = "released"
    /\ \A c \in MailboxRows : c <= release
    /\ HandedOutOnce(MailboxRows)
    => /\ ~member
       /\ ews = RestoredEws(release)
       /\ Opened = {i} /\ restore[release] # "unknown" => ews = ownEws

(***************************************************************************)
(* A released incident stays released: once PurgeSenderQueue has reported, *)
(* no result of an agent can bring it back, and only a further release     *)
(* request may.  (A purge that reports after the release makes it          *)
(* quarantined again, and so may a command that had to be handed out       *)
(* twice.)                                                                 *)
(***************************************************************************)
ReleaseIsFinal ==
  [][\A i \in Opened :
       /\ incident[i].status = "released" /\ releasing[i] = "no"
       /\ status[incident[i].edgeCmd] \in ResultStatus
       /\ HandedOutOnce(CommandsOf(i))
       => incident'[i].status = "released"]_vars

(***************************************************************************)
(* "Release removes group membership and restores the recorded EWS state"  *)
(* (docs/EXCHANGE-RBAC.md:186), of every release.  A QuarantineMailbox     *)
(* whose result was lost runs again: it records its own effect as the EWS  *)
(* state, and when its claim is reopened after the release it blocks the   *)
(* released mailbox.                                                       *)
(***************************************************************************)
ReleaseAlwaysRestores ==
  \A i \in Opened :
    incident[i].status = "released" =>
      /\ ~member
      /\ restore[incident[i].mailboxCmd] # "unknown" => ews = ownEws

(***************************************************************************)
(* "This mailbox already has an active incident" (app/incidents.py:64): an *)
(* incident that is still pending waits for a command that can report.     *)
(* Expiry and cancellation close the commands and leave the incident       *)
(* pending, so it can neither be released nor replaced by a new one.       *)
(***************************************************************************)
PendingHasWork ==
  \A i \in Opened :
    incident[i].status = "pending" => \E c \in CommandsOf(i) : status[c] \in OpenStatus

=============================================================================
