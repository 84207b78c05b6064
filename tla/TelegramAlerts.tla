--------------------------- MODULE TelegramAlerts ---------------------------
(***************************************************************************)
(* Critical alerts and their quarantine button.  The scan raises an alert  *)
(* for a critical sender and lets it recover; the one worker thread of the *)
(* bot sends pending alerts, reports how incidents end, and handles button *)
(* presses; agents and administrators move the incidents meanwhile.        *)
(*                                                                         *)
(* Sessions keep the rows they have read over their commits                *)
(* (expire_on_commit=False) and write only the columns they changed, so    *)
(* the worker and the scan may overwrite one another's status.             *)
(***************************************************************************)
EXTENDS OutboundScan, Sequences

CONSTANTS
  MaxAlerts,     \* bound: alerts ever raised
  MaxIncidents,  \* bound: incidents ever opened
  MaxPresses,    \* bound: button presses
  MaxAttempts,   \* delivery_attempts at which an alert is given up (5)
  DispatchLimit, \* alerts one dispatch takes (20)
  Outcome        \* the outcomes incidents come to

TerminalStatus == {"quarantined", "partial", "failed", "released"}

ASSUME AlertsAssumption ==
  /\ Outcome \subseteq TerminalStatus
  /\ MaxAlerts \in Nat /\ MaxIncidents \in Nat /\ MaxPresses \in Nat
  /\ MaxAttempts \in Nat \ {0} /\ DispatchLimit \in Nat \ {0}

Alert    == 1..MaxAlerts        \* in the order of created_at
Incident == 1..MaxIncidents     \* likewise

ActiveStatus    == {"pending", "quarantined", "partial"}
IncidentStatus  == {"pending"} \cup TerminalStatus
FollowedStatus  == {"quarantine_requested", "quarantined", "partial", "failed"}
AlertStatus     == {"pending", "sent", "recovered", "expired", "send_failed",
                    "action_failed", "quarantine_requested"} \cup TerminalStatus

VARIABLES
  alert,      \* TelegramAlert rows
  incident,   \* MailboxIncident rows; opener is the alert whose button opened it
  sync,       \* what sync_critical_alerts has decided and not yet committed
  worker,     \* the bot thread: its phase, the rows it has read, the updates it has fetched
  known,      \* incidents the session of a reconciliation has already read
  chat,       \* Telegram: alerts whose button is in the chat
  presses,    \* Telegram: the presses, in the order of their update_id
  offset,     \* the update offset in the worker's memory
  saved       \* the update offset in AppSetting

botVars == <<worker, known, chat, presses, offset, saved>>
vars    == <<scanVars, alert, incident, sync, botVars>>

NoAlert    == [status |-> "absent", sender |-> CHOOSE s \in Sender : TRUE, active |-> FALSE,
               late |-> FALSE, attempts |-> 0, incident |-> 0, notified |-> FALSE]
NoIncident == [status |-> "absent", sender |-> CHOOSE s \in Sender : TRUE, opener |-> 0]
NoDecision == [recover |-> {}, relabel |-> {}, raise |-> {}]
Unread     == [i \in Incident |-> "absent"]
Loop(p)    == [phase |-> p, todo |-> {}, at |-> 0, upto |-> 0]

AlertRow == [status   : AlertStatus \cup {"absent"},
             sender   : Sender,
             active   : BOOLEAN,                 \* risk_active
             late     : BOOLEAN,                 \* action_expires_at has passed
             attempts : 0..MaxAttempts,          \* delivery_attempts
             incident : Incident \cup {0},       \* incident_id
             notified : BOOLEAN]                 \* outcome_notified

TypeOK ==
  /\ ScanTypeOK
  /\ alert \in [Alert -> AlertRow]
  /\ incident \in [Incident -> [status : IncidentStatus \cup {"absent"},
                                sender : Sender, opener : Alert \cup {0}]]
  /\ sync \in [recover : SUBSET Alert, relabel : SUBSET Alert, raise : SUBSET Sender]
  /\ worker \in [phase : {"dispatch", "sending", "following", "updates", "ended"},
                 todo : SUBSET (Alert \X (AlertStatus \cup {"send"})),
                 at : 0..MaxPresses, upto : 0..MaxPresses]
  /\ known \in [Incident -> IncidentStatus \cup {"absent"}]
  /\ chat \subseteq Alert
  /\ presses \in Seq(Alert) /\ Len(presses) <= MaxPresses
  /\ offset \in 0..MaxPresses /\ saved \in 0..MaxPresses

Init ==
  /\ ScanInit
  /\ alert    = [a \in Alert |-> NoAlert]
  /\ incident = [i \in Incident |-> NoIncident]
  /\ sync     = NoDecision
  /\ worker   = Loop("dispatch")
  /\ known    = Unread
  /\ chat = {} /\ presses = <<>> /\ offset = 0 /\ saved = 0

Raised    == {a \in Alert : alert[a].status # "absent"}
Opened    == {i \in Incident : incident[i].status # "absent"}
Newest(S) == {x \in S : \A y \in S : y <= x}     \* at most one element
Oldest(S) == {x \in S : \A y \in S : x <= y}
Active(s) == {i \in Opened : incident[i].sender = s /\ incident[i].status \in ActiveStatus}

-----------------------------------------------------------------------------
(***************************************************************************)
(* sync_critical_alerts, at the end of a scan: the reads and the decision, *)
(* then the commit.  It reads the bulk profiles anew, the expected ones    *)
(* only through the risk level.                                            *)
(***************************************************************************)
CriticalSenders == {s \in Sender : usage[s] = "critical" /\ profile[s] # "bulk"}

ActiveAlertUnactedOnly(s) ==
  Newest({a \in Raised : alert[a].sender = s /\ alert[a].active
                           /\ alert[a].status \in {"pending", "sent"}})

ActiveAlert(s) == Newest({a \in Raised : alert[a].sender = s /\ alert[a].active})

SyncRead ==
  /\ scan.phase = "sync"
  /\ LET recovering == UNION {ActiveAlert(s) : s \in Sender \ CriticalSenders} IN
     sync' = [recover |-> recovering,
              relabel |-> {a \in recovering : alert[a].status \in {"pending", "sent"}},
              raise   |-> {s \in CriticalSenders : ActiveAlert(s) = {}}]
  /\ scan' = [scan EXCEPT !.phase = "decided"]
  /\ UNCHANGED <<profile, usage, monitor, faults, alert, incident, botVars>>

NewAlert(s) == [NoAlert EXCEPT !.status = "pending", !.sender = s, !.active = TRUE]

SyncCommit ==
  /\ scan.phase = "decided"
  /\ \E new \in [sync.raise -> Alert \ Raised] :
       /\ \A s, t \in sync.raise : s # t => new[s] # new[t]
       /\ \A s \in sync.raise, a \in Alert \ Raised :
            a < new[s] => \E t \in sync.raise : new[t] = a
       /\ alert' = [a \in Alert |->
            IF \E s \in sync.raise : new[s] = a
            THEN NewAlert(CHOOSE s \in sync.raise : new[s] = a)
            ELSE IF a \in sync.recover
            THEN [alert[a] EXCEPT !.active = FALSE,
                                  !.status = IF a \in sync.relabel THEN "recovered" ELSE @]
            ELSE alert[a]]
  /\ sync' = NoDecision
  /\ scan' = Idle
  /\ UNCHANGED <<profile, usage, monitor, faults, incident, botVars>>

\* An error in the synchronisation is audited, if that can be done.
SyncFails ==
  /\ scan.phase \in {"sync", "decided"}
  /\ Abandon
  /\ sync' = NoDecision
  /\ UNCHANGED <<profile, usage, alert, incident, botVars>>

ScanStep ==
  \/ /\ \/ \E s \in Sender, p \in Profile : SetProfile(s, p)
        \/ ScanStart
        \/ ScanWrite
        \/ ScanFails
     /\ UNCHANGED <<alert, incident, sync, botVars>>
  \/ SyncRead
  \/ SyncCommit
  \/ SyncFails

-----------------------------------------------------------------------------
(***************************************************************************)
(* _dispatch_pending_alerts reads the oldest pending alerts once.  An      *)
(* alert it reads as late or recovered is not sent, and its new status     *)
(* reaches the database only with the commit of a later alert.             *)
(***************************************************************************)
Pending == {a \in Raised : alert[a].status = "pending" /\ alert[a].attempts < MaxAttempts}

Batch == {a \in Pending : Cardinality({b \in Pending : b < a}) < DispatchLimit}

VerdictOnRiskOnly(a) == IF alert[a].active THEN "send" ELSE "recovered"

Verdict(a) == CASE ~alert[a].active -> "recovered"
                [] alert[a].late    -> "expired"
                [] OTHER            -> "send"

DispatchRead ==
  /\ worker.phase = "dispatch"
  /\ worker' = [Loop("sending") EXCEPT !.todo = {<<a, Verdict(a)>> : a \in Batch}]
  /\ UNCHANGED <<scanVars, alert, incident, sync, known, chat, presses, offset, saved>>

ToSend == {t[1] : t \in {u \in worker.todo : u[2] = "send"}}

\* the deferred statuses that are committed with alert a
Settled(a) == {t \in worker.todo : t[2] # "send" /\ t[1] < a}

Sent(row) == [row EXCEPT !.status = "sent"]

NotSent(row) ==
  [row EXCEPT !.attempts = @ + 1,
              !.status = IF row.attempts + 1 >= MaxAttempts THEN "send_failed" ELSE @]

(***************************************************************************)
(* sendMessage and the commit.  A call that fails may have put the message *)
(* into the chat all the same.                                             *)
(***************************************************************************)
DispatchOne(ok) ==
  /\ worker.phase = "sending"
  /\ \E a \in Oldest(ToSend) :
       /\ alert' = [b \in Alert |->
            IF b = a THEN IF ok THEN Sent(alert[a]) ELSE NotSent(alert[a])
            ELSE IF \E t \in Settled(a) : t[1] = b
                 THEN [alert[b] EXCEPT !.status = (CHOOSE t \in Settled(a) : t[1] = b)[2]]
                 ELSE alert[b]]
       /\ IF ok THEN chat' = chat \cup {a} ELSE chat' \in {chat, chat \cup {a}}
       /\ worker' = [worker EXCEPT !.todo = @ \ (Settled(a) \cup {<<a, "send">>})]
  /\ (IF ok THEN UNCHANGED faults ELSE Fault)
  /\ UNCHANGED <<profile, usage, monitor, scan, incident, sync, known, presses, offset, saved>>

\* The message is sent and the commit fails: the pass is over.
DispatchUncommitted ==
  /\ worker.phase = "sending"
  /\ \E a \in Oldest(ToSend) : chat' = chat \cup {a}
  /\ worker' = Loop("dispatch")
  /\ Fault
  /\ UNCHANGED <<profile, usage, monitor, scan, alert, incident, sync, known, presses, offset, saved>>

-----------------------------------------------------------------------------
(***************************************************************************)
(* _reconcile_incidents: alerts follow the status of their incident, and   *)
(* the chat is told how it ended.  One session reads the alerts once and   *)
(* each incident once, and commits alert by alert.                         *)
(***************************************************************************)
FollowedByStatusOnly ==
  {a \in Raised : alert[a].incident # 0 /\ alert[a].status \in FollowedStatus}

Followed ==
  {a \in Raised : /\ alert[a].incident # 0
                  /\ alert[a].status \in FollowedStatus \/ ~alert[a].notified}

ReconcileRead ==
  /\ worker.phase = "sending" /\ ToSend = {}
  /\ worker' = [Loop("following") EXCEPT !.todo = {<<a, alert[a].status>> : a \in Followed}]
  /\ UNCHANGED <<scanVars, alert, incident, sync, known, chat, presses, offset, saved>>

ShownMisspelt(status) == IF status = "pending" THEN "quarantine_request" ELSE status

Shown(status) == IF status = "pending" THEN "quarantine_requested" ELSE status

\* t: the alert and the status read; ok: the message is sent
ReconcileOne(t, ok) ==
  LET a        == t[1]
      i        == alert[a].incident
      now      == IF known[i] = "absent" THEN incident[i].status ELSE known[i]
      notified == alert[a].notified /\ t[2] = Shown(now)
      tell     == now \in TerminalStatus /\ ~notified
  IN
  /\ worker.phase = "following" /\ t \in worker.todo
  /\ tell \/ ok                          \* no message, no error
  /\ alert' = [alert EXCEPT
       ![a].status   = IF t[2] # Shown(now) THEN Shown(now) ELSE @,
       ![a].notified = notified \/ (tell /\ ok)]
  /\ known' = [known EXCEPT ![i] = now]
  /\ worker' = [worker EXCEPT !.todo = @ \ {t}]
  /\ (IF ok THEN UNCHANGED faults ELSE Fault)
  /\ UNCHANGED <<profile, usage, monitor, scan, incident, sync, chat, presses, offset, saved>>

-----------------------------------------------------------------------------
(***************************************************************************)
(* _poll_updates asks for the updates from the offset in memory.           *)
(***************************************************************************)
PollUpdates ==
  /\ worker.phase = "following" /\ worker.todo = {}
  /\ worker' = [Loop("updates") EXCEPT !.at = offset, !.upto = Len(presses)]
  /\ known' = Unread
  /\ UNCHANGED <<scanVars, alert, incident, sync, chat, presses, offset, saved>>

\* queue_mailbox_quarantine, for the button of alert a
Quarantine(a) ==
  \/ /\ Active(alert[a].sender) = {}
     /\ \E i \in Oldest(Incident \ Opened) :
          /\ incident' = [incident EXCEPT
               ![i] = [status |-> "pending", sender |-> alert[a].sender, opener |-> a]]
          /\ alert' = [alert EXCEPT ![a].status = "quarantine_requested", ![a].incident = i]
  \/ \* an active incident exists (any that the query returns): follow it
     /\ \E i \in Active(alert[a].sender) :
          alert' = [alert EXCEPT ![a].status = Shown(incident[i].status), ![a].incident = i]
     /\ UNCHANGED incident
  \/ \* the mailbox or a management node is missing
     /\ alert' = [alert EXCEPT ![a].status = "action_failed"]
     /\ UNCHANGED incident

(***************************************************************************)
(* _process_callback under the row lock of the alert.  An alert that is    *)
(* not "sent" gets an answer only, unless its action failed before: then   *)
(* it follows the newest active incident, or tries again.                  *)
(***************************************************************************)
Retry(a) == alert[a].status = "action_failed" /\ alert[a].incident = 0

AnswerOnlyWhileActive(a) ==
  /\ alert[a].status # "sent" /\ ~Retry(a)
  /\ alert[a].incident # 0 => incident[alert[a].incident].status \in ActiveStatus

AnswerOnly(a) ==
  /\ alert[a].status # "sent"
  /\ Retry(a) => /\ Active(alert[a].sender) = {}
                 /\ ~alert[a].active \/ alert[a].late

Callback(a) ==
  \/ /\ AnswerOnly(a)
     /\ UNCHANGED <<alert, incident>>
  \/ /\ ~AnswerOnly(a) /\ Retry(a)
     /\ \E i \in Newest(Active(alert[a].sender)) :
          alert' = [alert EXCEPT ![a].status = Shown(incident[i].status), ![a].incident = i]
     /\ UNCHANGED incident
  \/ /\ ~AnswerOnly(a) /\ ~Retry(a)
     /\ alert[a].late
     /\ alert' = [alert EXCEPT ![a].status = "expired"]
     /\ UNCHANGED incident
  \/ /\ ~AnswerOnly(a)
     /\ IF Retry(a) THEN Active(alert[a].sender) = {} ELSE ~alert[a].late
     /\ Quarantine(a)

Fetched == worker.phase = "updates" /\ worker.at < worker.upto

HandleUpdate ==
  /\ Fetched
  /\ Callback(presses[worker.at + 1])
  /\ worker' = [worker EXCEPT !.at = @ + 1]
  /\ saved' = worker.at + 1
  /\ UNCHANGED <<scanVars, sync, known, chat, presses, offset>>

\* The callback is committed, the offset is not: an error, or a restart (Restart follows).
HandleUnsaved ==
  /\ Fetched
  /\ Callback(presses[worker.at + 1])
  /\ worker' = Loop("dispatch")
  /\ Fault
  /\ UNCHANGED <<profile, usage, monitor, scan, sync, known, chat, presses, offset, saved>>

\* The callback raises: its offset is saved, but _worker keeps the one it had before the batch.
CallbackRaises ==
  /\ Fetched
  /\ saved' = worker.at + 1
  /\ worker' = Loop("dispatch")
  /\ Fault
  /\ UNCHANGED <<profile, usage, monitor, scan, alert, incident, sync, known, chat, presses, offset>>

PollEnds ==
  /\ worker.phase = "updates" /\ worker.at >= worker.upto
  /\ offset' = worker.at
  /\ worker' = Loop("dispatch")
  /\ UNCHANGED <<scanVars, alert, incident, sync, known, chat, presses, saved>>

\* An exception ends a pass of the loop; nothing uncommitted survives.
WorkerRaises ==
  /\ worker.phase \notin {"dispatch", "ended"}
  /\ worker' = Loop("dispatch")
  /\ known' = Unread
  /\ Fault
  /\ UNCHANGED <<profile, usage, monitor, scan, alert, incident, sync, chat, presses, offset, saved>>

WorkerStep ==
  \/ DispatchRead
  \/ \E ok \in BOOLEAN : DispatchOne(ok)
  \/ ReconcileRead
  \/ \E t \in worker.todo, ok \in BOOLEAN : ReconcileOne(t, ok)
  \/ PollUpdates
  \/ HandleUpdate
  \/ PollEnds

WorkerFails == DispatchUncommitted \/ HandleUnsaved \/ CallbackRaises \/ WorkerRaises

-----------------------------------------------------------------------------
\* An allowed operator presses a button in the configured chat.
Press(a) ==
  /\ a \in chat
  /\ Len(presses) < MaxPresses
  /\ presses' = Append(presses, a)
  /\ UNCHANGED <<scanVars, alert, incident, sync, worker, known, chat, offset, saved>>

\* action_expires_at passes.
Expire(a) ==
  /\ a \in Raised /\ ~alert[a].late
  /\ alert' = [alert EXCEPT ![a].late = TRUE]
  /\ UNCHANGED <<scanVars, incident, sync, botVars>>

\* An administrator quarantines the mailbox on the web page.
WebQuarantine(s) ==
  /\ Active(s) = {}
  /\ \E i \in Oldest(Incident \ Opened) :
       incident' = [incident EXCEPT ![i] = [status |-> "pending", sender |-> s, opener |-> 0]]
  /\ UNCHANGED <<scanVars, alert, sync, botVars>>

(***************************************************************************)
(* Agent results and releases move an incident (Quarantine has the ways in *)
(* which they do; here any result may come at any time, and a release that *)
(* was checked earlier may be committed to an incident released since).    *)
(***************************************************************************)
IncidentMoves(i) ==
  /\ i \in Opened
  /\ \E s \in (Outcome \cup {"pending"}) \ {incident[i].status} :
       incident' = [incident EXCEPT ![i].status = s]
  /\ UNCHANGED <<scanVars, alert, sync, botVars>>

(***************************************************************************)
(* The web process restarts: scan and worker lose what they had not        *)
(* committed, and both threads start again.  The bot's does not reach its  *)
(* loop when it cannot read the offset, or cannot audit that the menu of   *)
(* commands was refused.                                                   *)
(***************************************************************************)
Restart ==
  /\ \/ Fault     /\ worker' = Loop("dispatch")
     \/ Faults(2) /\ worker' = Loop("ended")
  /\ monitor' = TRUE
  /\ scan' = Idle /\ sync' = NoDecision /\ known' = Unread
  /\ offset' = saved
  /\ UNCHANGED <<profile, usage, alert, incident, chat, presses, saved>>

Next ==
  \/ ScanStep
  \/ WorkerStep
  \/ WorkerFails
  \/ \E a \in Alert : Press(a)
  \/ \E a \in Alert : Expire(a)
  \/ \E s \in Sender : WebQuarantine(s)
  \/ \E i \in Incident : IncidentMoves(i)
  \/ Restart

Spec == Init /\ [][Next]_vars

(***************************************************************************)
(* A thread goes on while it lives: the bot's loop survives its errors,    *)
(* the monitor's starts scan after scan until one raises.  A scan that a   *)
(* page started goes on too, but no page need start one.  There is an end  *)
(* to the errors and restarts; nothing is assumed of administrators,       *)
(* agents and operators.                                                   *)
(***************************************************************************)
ScanRuns == (monitor /\ ScanStart) \/ ScanWrite

Fairness ==
  /\ WF_vars((ScanRuns /\ UNCHANGED <<alert, incident, sync, botVars>>) \/ SyncRead \/ SyncCommit)
  /\ WF_vars(WorkerStep)

FairSpec == Spec /\ Fairness

-----------------------------------------------------------------------------
(***************************************************************************)
(* "random, single-use" (docs/TELEGRAM.md:79): an alert whose button       *)
(* opened an incident is that incident's for ever, so the button opens no  *)
(* other and no other outcome is reported for it, however often it is      *)
(* pressed, an update is fetched again after an error or a restart, the    *)
(* incident fails or is released, or the scan overwrites the status of the *)
(* alert.                                                                  *)
(***************************************************************************)
SingleUse ==
  \A i \in Opened : incident[i].opener # 0 => alert[incident[i].opener].incident = i

(***************************************************************************)
(* A sender has one active alert at a time: a scan looks for it before it  *)
(* raises another, and no other scan raises one until it has committed,    *)
(* whatever becomes of the alert and its incident in the meantime.         *)
(***************************************************************************)
OneActiveAlert ==
  \A a, b \in Raised :
    alert[a].active /\ alert[b].active /\ alert[a].sender = alert[b].sender => a = b

(***************************************************************************)
(* An alert that recovers or expires before the worker takes it up never   *)
(* reaches the chat: not by a retry, a restart or a later scan, although   *)
(* its row may say "pending" until the worker commits a later alert.       *)
(***************************************************************************)
Lapsed(a) ==
  /\ a \in Raised
  /\ ~alert[a].active \/ alert[a].late
  /\ a \notin chat /\ a \notin ToSend

LapsedStaysUnsent == [][\A a \in Alert : Lapsed(a) => Lapsed(a)']_vars

(***************************************************************************)
(* An alert that leads to an incident is followed: when the incident ends  *)
(* (and is not opened again by a release) the chat is told an outcome,     *)
(* through failed calls, errors and restarts, and although the scan may    *)
(* have marked the alert recovered in the meantime; unless the bot's       *)
(* thread has not come as far as its loop.                                 *)
(***************************************************************************)
OutcomeTold ==
  \A a \in Alert, i \in Incident :
    (alert[a].incident = i /\ incident[i].status \in TerminalStatus)
      ~> (alert[a].notified \/ incident[i].status = "pending" \/ worker.phase = "ended")

Alerted(s) == \E a \in Raised : alert[a].sender = s /\ alert[a].active

(***************************************************************************)
(* As long as the thread of the monitor lives, a sender whose record stays *)
(* critical has an active alert in the end, and one that stays exempt has  *)
(* none: scans that were turned away, that failed with their error         *)
(* recorded, or that ran with old profiles only delay it.  (An instance    *)
(* may run out of alerts.)  Nothing starts a dead thread again but a       *)
(* restart of the process; until then only the pages scan.                 *)
(***************************************************************************)
AlertsFollowRisk ==
  \A s \in Sender :
    /\ (monitor /\ usage[s] = "critical" /\ profile[s] = "none")
         ~> (\/ ~monitor \/ Alerted(s)
             \/ usage[s] # "critical" \/ profile[s] # "none" \/ Raised = Alert)
    /\ (monitor /\ profile[s] \in Exempt) ~> (~monitor \/ ~Alerted(s) \/ profile[s] = "none")

(***************************************************************************)
(* "Bulk/expected sender profiles are excluded from critical alert noise"  *)
(* (docs/TELEGRAM.md:83), of every alert when it is raised.  A scan that   *)
(* read the profiles before raises one, and the scan that the new profile  *)
(* asks for is turned away because that scan holds the lock.               *)
(***************************************************************************)
NoAlertForExempt ==
  [][\A a \in Alert : a \in Raised' \ Raised => profile[alert'[a].sender] \notin Exempt]_vars

=============================================================================
