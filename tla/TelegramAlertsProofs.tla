------------------------ MODULE TelegramAlertsProofs ------------------------
(***************************************************************************)
(* Theorems about TelegramAlerts, for any senders, alerts, incidents and   *)
(* presses, and any number of errors and restarts.                         *)
(***************************************************************************)
EXTENDS TelegramAlerts, WellFoundedInduction, TLAPS

(***************************************************************************)
(* The inductive invariant of SingleUse.  A button acts only for an alert  *)
(* with no incident, and an alert that has an incident keeps it.  What the *)
(* worker has read about its alerts still holds when it writes them back,  *)
(* since only the worker links an alert to an incident.                    *)
(***************************************************************************)
Buttoned == {"absent", "pending", "sent", "action_failed"}

Unlinked == \A a \in Alert : alert[a].status \in Buttoned => alert[a].incident = 0

Linked ==
  \A a \in Alert :
    alert[a].incident # 0 => incident[alert[a].incident].status # "absent"

WorkerKnows ==
  /\ worker.phase = "sending" => \A t \in worker.todo :
       /\ alert[t[1]].incident = 0
       /\ t[2] = "send" => alert[t[1]].attempts < MaxAttempts
  /\ worker.phase = "following" => \A t \in worker.todo : alert[t[1]].incident # 0
  /\ worker.phase = "updates" => worker.upto <= Len(presses)

IInv == TypeOK /\ Unlinked /\ Linked /\ WorkerKnows /\ SingleUse

-----------------------------------------------------------------------------
\* The rows that stand for no row, and the alert a scan raises, have their types.
LEMMA RowTypes ==
  /\ NoAlert \in AlertRow
  /\ \A s \in Sender : NewAlert(s) \in AlertRow
  /\ NoIncident.sender \in Sender
<1> DEFINE someone == CHOOSE s \in Sender : TRUE
<1>1. someone \in Sender
  BY ScanAssumption
<1>2. NoAlert = [status |-> "absent", sender |-> someone, active |-> FALSE, late |-> FALSE,
                 attempts |-> 0, incident |-> 0, notified |-> FALSE]
  BY DEF NoAlert
<1>3. NoIncident.sender = someone
  BY DEF NoIncident
<1> HIDE DEF someone
<1>4. NoAlert \in AlertRow
  BY <1>1, <1>2, AlertsAssumption DEF AlertRow
<1>5. ASSUME NEW s \in Sender PROVE NewAlert(s) \in AlertRow
  BY <1>4, <1>5 DEF NewAlert, AlertRow, AlertStatus
<1>6. QED
  BY <1>1, <1>3, <1>4, <1>5

\* A pass of the worker that begins with nothing read has the type of worker.
WorkerType ==
  [phase : {"dispatch", "sending", "following", "updates", "ended"},
   todo : SUBSET (Alert \X (AlertStatus \cup {"send"})),
   at : 0..MaxPresses, upto : 0..MaxPresses]

LEMMA LoopType ==
  ASSUME NEW p \in {"dispatch", "sending", "following", "updates", "ended"}
  PROVE  Loop(p) \in WorkerType
  BY AlertsAssumption DEF Loop, WorkerType

\* The invariant holds at the start.
LEMMA InvInit == Init => IInv
<1> SUFFICES ASSUME Init PROVE IInv
  OBVIOUS
<1>1. ScanTypeOK
  BY ScanAssumption DEF Init, ScanInit, ScanTypeOK, NoProfiles, Idle, RiskLevel, Phase
<1>2. worker \in WorkerType
  BY LoopType DEF Init
<1>3. TypeOK
  BY <1>1, <1>2, RowTypes, AlertsAssumption
  DEF Init, TypeOK, NoIncident, NoDecision, Unread, WorkerType
<1>4. Unlinked /\ Linked /\ SingleUse
  BY DEF Init, NoAlert, NoIncident, Unlinked, Linked, SingleUse, Opened
<1>5. WorkerKnows
  BY DEF Init, WorkerKnows, Loop
<1>6. QED
  BY <1>3, <1>4, <1>5 DEF IInv

-----------------------------------------------------------------------------
(***************************************************************************)
(* The scan, until it commits its decision about the alerts.               *)
(***************************************************************************)
LEMMA AbandonType ==
  ASSUME ScanTypeOK, Abandon, UNCHANGED <<profile, usage>>
  PROVE  ScanTypeOK'
<1>1. monitor' \in BOOLEAN
  BY DEF Abandon, ScanTypeOK
<1>2. scan' \in [phase : Phase, profiles : [Sender -> Profile]]
  BY ScanAssumption DEF Abandon, Idle, NoProfiles, Phase
<1>3. faults' \in 0..MaxFaults
  BY ScanAssumption DEF Abandon, Fault, Faults, ScanTypeOK
<1>4. QED
  BY <1>1, <1>2, <1>3 DEF ScanTypeOK

LEMMA ScanStepsType ==
  ASSUME ScanTypeOK,
         \/ \E s \in Sender, p \in Profile : SetProfile(s, p)
         \/ ScanStart \/ ScanWrite \/ ScanFails
  PROVE  ScanTypeOK'
<1>1. NoProfiles \in [Sender -> Profile]
  BY ScanAssumption DEF NoProfiles
<1>2. ASSUME NEW s \in Sender, NEW p \in Profile, SetProfile(s, p) PROVE ScanTypeOK'
  BY <1>2 DEF SetProfile, ScanTypeOK
<1>3. CASE ScanStart
  BY <1>3 DEF ScanStart, ScanTypeOK, Phase
<1>4. CASE ScanWrite
  <2>2. \A s \in Sender : scan.profiles[s] \in Profile
    BY DEF ScanTypeOK
  <2>3. usage' \in [Sender -> RiskLevel]
    <3>1. PICK heavy \in SUBSET Sender :
            usage' = [s \in Sender |-> Risk(scan.profiles[s], s \in heavy)]
      BY <1>4 DEF ScanWrite
    <3>2. ASSUME NEW s \in Sender PROVE Risk(scan.profiles[s], s \in heavy) \in RiskLevel
      BY <2>2, ScanAssumption DEF Risk, RiskLevel, Exempt
    <3>3. QED
      BY <3>1, <3>2
  <2>4. QED
    BY <1>1, <1>4, <2>3 DEF ScanWrite, ScanTypeOK, Phase
<1>5. CASE ScanFails
  BY <1>5, AbandonType DEF ScanFails
<1>6. QED
  BY <1>2, <1>3, <1>4, <1>5

\* Steps that leave alerts, incidents and the worker alone keep the invariant if they keep the types.
LEMMA Elsewhere ==
  ASSUME IInv, TypeOK', UNCHANGED <<alert, incident, worker>>, Len(presses) <= Len(presses')
  PROVE  IInv'
<1>1. WorkerKnows'
  BY DEF IInv, WorkerKnows, TypeOK
<1>2. (Unlinked /\ Linked /\ SingleUse)'
  BY DEF IInv, Unlinked, Linked, SingleUse, Opened
<1>3. QED
  BY <1>1, <1>2 DEF IInv

\* A pass of the worker begins or ends: alerts and incidents stay.
LEMMA WorkerMoves ==
  ASSUME IInv, TypeOK', WorkerKnows', UNCHANGED <<alert, incident>>
  PROVE  IInv'
  BY DEF IInv, Unlinked, Linked, SingleUse, Opened

LEMMA ScanStepInv ==
  ASSUME IInv, ScanStep, ~SyncCommit
  PROVE  IInv'
<1> USE DEF IInv
<1>1. CASE /\ \/ \E s \in Sender, p \in Profile : SetProfile(s, p)
              \/ ScanStart \/ ScanWrite \/ ScanFails
           /\ UNCHANGED <<alert, incident, sync, botVars>>
  <2>1. ScanTypeOK'
    BY <1>1, ScanStepsType DEF TypeOK
  <2>2. TypeOK'
    BY <1>1, <2>1 DEF TypeOK, botVars
  <2>3. QED
    BY <1>1, <2>2, Elsewhere DEF botVars, TypeOK
<1>2. CASE SyncRead
  <2>1. \A s \in Sender : ActiveAlert(s) \subseteq Alert
    BY DEF ActiveAlert, Newest, Raised
  <2>2. sync' \in [recover : SUBSET Alert, relabel : SUBSET Alert, raise : SUBSET Sender]
    BY <1>2, <2>1 DEF SyncRead, CriticalSenders
  <2>3. ScanTypeOK'
    BY <1>2 DEF SyncRead, TypeOK, ScanTypeOK, Phase
  <2>4. TypeOK'
    BY <1>2, <2>2, <2>3 DEF SyncRead, TypeOK, botVars
  <2>5. QED
    BY <1>2, <2>4, Elsewhere DEF SyncRead, botVars, TypeOK
<1>3. CASE SyncFails
  <2>1. ScanTypeOK'
    BY <1>3, AbandonType DEF SyncFails, TypeOK
  <2>2. TypeOK'
    BY <1>3, <2>1 DEF SyncFails, TypeOK, botVars, NoDecision
  <2>3. QED
    BY <1>3, <2>2, Elsewhere DEF SyncFails, botVars, TypeOK
<1>4. QED
  BY <1>1, <1>2, <1>3 DEF ScanStep

-----------------------------------------------------------------------------
(***************************************************************************)
(* The commit of the scan.  It and the worker may disagree about a status, *)
(* but it never touches an incident number.                                *)
(***************************************************************************)
RowsOK ==
  /\ alert \in [Alert -> AlertRow]
  /\ incident \in [Incident -> [status : IncidentStatus \cup {"absent"},
                                sender : Sender, opener : Alert \cup {0}]]

Buttons == Unlinked /\ Linked /\ SingleUse

\* A change to alerts that links only alerts without an incident keeps the buttons in order.
LEMMA AlertsChange ==
  ASSUME RowsOK, RowsOK', Buttons, incident' = incident, Unlinked',
         \A a \in Alert : alert'[a].incident # alert[a].incident
                            => incident[alert'[a].incident].status # "absent",
         \A a \in Alert : alert[a].incident # 0 => alert'[a].incident = alert[a].incident
  PROVE  Buttons'
<1> USE DEF Buttons
<1>1. Linked'
  BY DEF Linked
<1>2. SingleUse'
  BY DEF SingleUse, Opened, Incident, RowsOK
<1>3. QED
  BY <1>1, <1>2

LEMMA SyncCommitInv ==
  ASSUME IInv, SyncCommit
  PROVE  IInv'
<1> USE DEF IInv
<1>1. PICK new \in [sync.raise -> Alert \ Raised] :
        alert' = [a \in Alert |->
          IF \E s \in sync.raise : new[s] = a
          THEN NewAlert(CHOOSE s \in sync.raise : new[s] = a)
          ELSE IF a \in sync.recover
          THEN [alert[a] EXCEPT !.active = FALSE,
                                !.status = IF a \in sync.relabel THEN "recovered" ELSE @]
          ELSE alert[a]]
  BY DEF SyncCommit
<1>2. ASSUME NEW a \in Alert
      PROVE  \/ /\ alert[a].status = "absent"
                /\ \E s \in Sender : alert'[a] = NewAlert(s)
             \/ \E x \in {alert[a].status, "recovered"} :
                  alert'[a] = [alert[a] EXCEPT !.active = FALSE, !.status = x]
             \/ alert'[a] = alert[a]
  <2>1. CASE \E s \in sync.raise : new[s] = a
    <3>1. alert'[a] = NewAlert(CHOOSE s \in sync.raise : new[s] = a)
      BY <1>1, <2>1
    <3>2. (CHOOSE s \in sync.raise : new[s] = a) \in Sender
      BY <2>1 DEF TypeOK
    <3>3. a \notin Raised
      BY <2>1
    <3>4. QED
      BY <3>1, <3>2, <3>3 DEF Raised
  <2>2. CASE a \in sync.recover /\ ~\E s \in sync.raise : new[s] = a
    BY <1>1, <2>2
  <2>3. CASE a \notin sync.recover /\ ~\E s \in sync.raise : new[s] = a
    BY <1>1, <2>3
  <2>4. QED
    BY <2>1, <2>2, <2>3
<1>3. ASSUME NEW a \in Alert
      PROVE  /\ alert'[a] \in AlertRow
             /\ alert'[a].incident = alert[a].incident
             /\ alert'[a].status \in Buttoned => alert[a].incident = 0
             /\ alert'[a].attempts \in {0, alert[a].attempts}
  <2>1. alert[a] \in AlertRow
    BY DEF TypeOK
  <2>2. CASE alert[a].status = "absent" /\ \E s \in Sender : alert'[a] = NewAlert(s)
    BY <2>1, <2>2, RowTypes DEF NewAlert, NoAlert, Unlinked, Buttoned
  <2>3. ASSUME NEW x \in {alert[a].status, "recovered"},
               alert'[a] = [alert[a] EXCEPT !.active = FALSE, !.status = x]
        PROVE  /\ alert'[a] \in AlertRow
               /\ alert'[a].incident = alert[a].incident
               /\ alert'[a].status \in Buttoned => alert[a].incident = 0
               /\ alert'[a].attempts \in {0, alert[a].attempts}
    BY <2>1, <2>3 DEF AlertRow, AlertStatus, Unlinked, Buttoned
  <2>4. CASE alert'[a] = alert[a]
    BY <2>1, <2>4 DEF Unlinked
  <2>5. QED
    BY <1>2, <2>2, <2>3, <2>4
<1>4. alert' \in [Alert -> AlertRow]
  BY <1>1, <1>3
<1>5. ScanTypeOK'
  BY ScanAssumption DEF SyncCommit, TypeOK, ScanTypeOK, Idle, NoProfiles, Phase
<1>6. TypeOK'
  BY <1>4, <1>5 DEF SyncCommit, TypeOK, NoDecision, botVars
<1>7. Unlinked'
  BY <1>3 DEF Unlinked
<1>8. Buttons'
  <2>1. incident' = incident
    BY DEF SyncCommit
  <2>2. RowsOK /\ RowsOK' /\ Buttons
    BY <1>6 DEF TypeOK, RowsOK, Buttons
  <2>3. QED
    BY <1>3, <1>7, <2>1, <2>2, AlertsChange
<1>9. WorkerKnows'
  <2>1. worker' = worker /\ presses' = presses
    BY DEF SyncCommit, botVars
  <2>2. \A t \in worker.todo : t[1] \in Alert
    BY DEF TypeOK
  <2>3. ASSUME NEW a \in Alert, alert[a].attempts < MaxAttempts
        PROVE  alert'[a].attempts < MaxAttempts
    BY <1>3, <2>3, AlertsAssumption
  <2>4. QED
    BY <1>3, <2>1, <2>2, <2>3 DEF WorkerKnows
<1>10. QED
  BY <1>6, <1>8, <1>9 DEF Buttons

-----------------------------------------------------------------------------
(***************************************************************************)
(* Passes of the worker that begin or end: the rows stay.                  *)
(***************************************************************************)
LEMMA BatchesInv ==
  ASSUME IInv, DispatchRead \/ ReconcileRead \/ PollUpdates
  PROVE  IInv'
<1> USE DEF IInv
<1>1. CASE DispatchRead
  <2>1. ASSUME NEW a \in Batch
        PROVE  /\ a \in Alert /\ Verdict(a) \in AlertStatus \cup {"send"}
               /\ alert[a].incident = 0 /\ alert[a].attempts < MaxAttempts
    BY <2>1 DEF Batch, Pending, Raised, Verdict, AlertStatus, Unlinked, Buttoned
  <2>2. worker' \in WorkerType
    BY <1>1, <2>1, LoopType DEF DispatchRead, WorkerType
  <2>3. TypeOK'
    BY <1>1, <2>2 DEF DispatchRead, TypeOK, WorkerType, ScanTypeOK, scanVars
  <2>4. worker'.phase = "sending" /\ worker'.todo = {<<a, Verdict(a)>> : a \in Batch}
    BY <1>1 DEF DispatchRead, Loop
  <2>5. alert' = alert /\ incident' = incident
    BY <1>1 DEF DispatchRead
  <2>6. WorkerKnows'
    BY <2>1, <2>4, <2>5 DEF WorkerKnows
  <2>7. QED
    BY <2>3, <2>5, <2>6, WorkerMoves
<1>2. CASE ReconcileRead
  <2>1. ASSUME NEW a \in Followed
        PROVE  a \in Alert /\ alert[a].status \in AlertStatus /\ alert[a].incident # 0
    BY <2>1 DEF Followed, Raised, TypeOK, AlertRow
  <2>2. worker' \in WorkerType
    BY <1>2, <2>1, LoopType DEF ReconcileRead, WorkerType
  <2>3. TypeOK'
    BY <1>2, <2>2 DEF ReconcileRead, TypeOK, WorkerType, ScanTypeOK, scanVars
  <2>4. worker'.phase = "following" /\ worker'.todo = {<<a, alert[a].status>> : a \in Followed}
    BY <1>2 DEF ReconcileRead, Loop
  <2>5. alert' = alert /\ incident' = incident
    BY <1>2 DEF ReconcileRead
  <2>6. WorkerKnows'
    BY <2>1, <2>4, <2>5 DEF WorkerKnows
  <2>7. QED
    BY <2>3, <2>5, <2>6, WorkerMoves
<1>3. CASE PollUpdates
  <2>1. Len(presses) \in 0..MaxPresses
    BY AlertsAssumption DEF TypeOK
  <2>2. worker' \in WorkerType
    BY <1>3, <2>1, LoopType DEF PollUpdates, WorkerType, TypeOK
  <2>3. known' \in [Incident -> IncidentStatus \cup {"absent"}]
    BY <1>3 DEF PollUpdates, Unread
  <2>4. TypeOK'
    BY <1>3, <2>2, <2>3 DEF PollUpdates, TypeOK, WorkerType, ScanTypeOK, scanVars
  <2>5. worker'.phase = "updates" /\ worker'.upto = Len(presses)
    BY <1>3 DEF PollUpdates, Loop
  <2>6. WorkerKnows'
    BY <1>3, <2>1, <2>5 DEF WorkerKnows, PollUpdates
  <2>7. QED
    BY <1>3, <2>4, <2>6, WorkerMoves DEF PollUpdates
<1>4. QED
  BY <1>1, <1>2, <1>3

LEMMA PassEndsInv ==
  ASSUME IInv,
         DispatchUncommitted \/ CallbackRaises \/ WorkerRaises \/ PollEnds \/ Restart
  PROVE  IInv'
<1> USE DEF IInv
<1>1. /\ \E p \in {"dispatch", "ended"} : worker' = Loop(p)
      /\ alert' = alert /\ incident' = incident
  BY DEF DispatchUncommitted, CallbackRaises, WorkerRaises, PollEnds, Restart
<1>2. worker' \in WorkerType
  BY <1>1, LoopType
<1>3. WorkerKnows'
  BY <1>1 DEF WorkerKnows, Loop
<1>4. faults' \in 0..MaxFaults
  BY ScanAssumption
  DEF DispatchUncommitted, CallbackRaises, WorkerRaises, PollEnds, Restart, Fault, Faults,
      TypeOK, ScanTypeOK, scanVars
<1>5. scan' \in [phase : Phase, profiles : [Sender -> Profile]]
  BY ScanAssumption
  DEF DispatchUncommitted, CallbackRaises, WorkerRaises, PollEnds, Restart,
      TypeOK, ScanTypeOK, scanVars, Idle, NoProfiles, Phase
<1>6. ScanTypeOK'
  BY <1>4, <1>5
  DEF DispatchUncommitted, CallbackRaises, WorkerRaises, PollEnds, Restart,
      TypeOK, ScanTypeOK, scanVars
<1>7. /\ sync' \in [recover : SUBSET Alert, relabel : SUBSET Alert, raise : SUBSET Sender]
      /\ known' \in [Incident -> IncidentStatus \cup {"absent"}]
  BY DEF DispatchUncommitted, CallbackRaises, WorkerRaises, PollEnds, Restart,
         TypeOK, NoDecision, Unread
<1>8. chat' \subseteq Alert /\ presses' = presses
  BY DEF DispatchUncommitted, CallbackRaises, WorkerRaises, PollEnds, Restart,
         TypeOK, ToSend, Oldest
<1>9. offset' \in 0..MaxPresses /\ saved' \in 0..MaxPresses
  BY AlertsAssumption
  DEF DispatchUncommitted, CallbackRaises, WorkerRaises, PollEnds, Restart,
      TypeOK, WorkerKnows, Fetched
<1>10. TypeOK'
  BY <1>1, <1>2, <1>6, <1>7, <1>8, <1>9 DEF TypeOK, WorkerType
<1>11. QED
  BY <1>1, <1>3, <1>10, WorkerMoves

-----------------------------------------------------------------------------
(***************************************************************************)
(* Sending: the alerts that change have no incident and get none.          *)
(***************************************************************************)
LEMMA DispatchOneInv ==
  ASSUME IInv, NEW ok \in BOOLEAN, DispatchOne(ok)
  PROVE  IInv'
<1> USE DEF IInv
<1>1. PICK a \in Oldest(ToSend) :
        /\ alert' = [b \in Alert |->
             IF b = a THEN IF ok THEN Sent(alert[a]) ELSE NotSent(alert[a])
             ELSE IF \E t \in Settled(a) : t[1] = b
                  THEN [alert[b] EXCEPT !.status = (CHOOSE t \in Settled(a) : t[1] = b)[2]]
                  ELSE alert[b]]
        /\ IF ok THEN chat' = chat \cup {a} ELSE chat' \in {chat, chat \cup {a}}
        /\ worker' = [worker EXCEPT !.todo = @ \ (Settled(a) \cup {<<a, "send">>})]
  BY DEF DispatchOne
<1>2. <<a, "send">> \in worker.todo
  <2>1. PICK t \in worker.todo : t[2] = "send" /\ a = t[1]
    BY DEF Oldest, ToSend
  <2>2. t = <<t[1], t[2]>>
    BY DEF TypeOK
  <2>3. QED
    BY <2>1, <2>2
<1>3. a \in Alert /\ alert[a].incident = 0 /\ alert[a].attempts < MaxAttempts
  BY <1>2 DEF TypeOK, WorkerKnows, DispatchOne
<1>4. ASSUME NEW t \in worker.todo
      PROVE  /\ t[1] \in Alert /\ t[2] \in AlertStatus \cup {"send"}
             /\ alert[t[1]].incident = 0
             /\ t[2] = "send" => alert[t[1]].attempts < MaxAttempts
             /\ t = <<t[1], t[2]>>
  BY DEF TypeOK, WorkerKnows, DispatchOne
<1>5. ASSUME NEW b \in Alert
      PROVE  /\ alert'[b] \in AlertRow
             /\ alert'[b].incident = alert[b].incident
             /\ alert'[b].status \in Buttoned => alert[b].incident = 0
             /\ b # a => alert'[b].attempts = alert[b].attempts
  <2>1. alert[b] \in AlertRow
    BY DEF TypeOK
  <2>2. CASE b = a /\ ok
    BY <1>1, <1>3, <2>1, <2>2 DEF Sent, AlertRow, AlertStatus
  <2>3. CASE b = a /\ ~ok
    <3>1. alert'[b] = NotSent(alert[b])
      BY <1>1, <2>3
    <3>2. alert[b].attempts + 1 \in 0..MaxAttempts
      BY <1>3, <2>1, <2>3, AlertsAssumption DEF AlertRow
    <3>3. QED
      BY <1>3, <2>1, <2>3, <3>1, <3>2 DEF NotSent, AlertRow, AlertStatus
  <2>4. CASE b # a /\ \E t \in Settled(a) : t[1] = b
    <3> DEFINE chosen == CHOOSE t \in Settled(a) : t[1] = b
    <3>1. chosen \in Settled(a) /\ chosen[1] = b
      BY <2>4
    <3>2. alert'[b] = [alert[b] EXCEPT !.status = chosen[2]]
      BY <1>1, <2>4
    <3> HIDE DEF chosen
    <3>3. chosen[2] \in AlertStatus /\ alert[b].incident = 0
      BY <1>4, <3>1 DEF Settled
    <3>4. QED
      BY <2>1, <2>4, <3>2, <3>3 DEF AlertRow
  <2>5. CASE b # a /\ ~\E t \in Settled(a) : t[1] = b
    <3>1. alert'[b] = alert[b]
      BY <1>1, <2>5
    <3>2. QED
      BY <2>1, <3>1 DEF Unlinked
  <2>6. QED
    BY <2>2, <2>3, <2>4, <2>5
<1>6. alert' \in [Alert -> AlertRow]
  BY <1>1, <1>5
<1>7. worker' \in WorkerType /\ worker'.todo \subseteq worker.todo /\ worker'.phase = "sending"
  BY <1>1 DEF TypeOK, WorkerType, DispatchOne
<1>8. ScanTypeOK'
  BY ScanAssumption DEF DispatchOne, Fault, Faults, TypeOK, ScanTypeOK
<1>9. TypeOK'
  <2>1. chat' \subseteq Alert
    BY <1>1, <1>3 DEF TypeOK
  <2>2. UNCHANGED <<incident, sync, known, presses, offset, saved>>
    BY DEF DispatchOne
  <2>3. QED
    BY <1>6, <1>7, <1>8, <2>1, <2>2 DEF TypeOK, WorkerType
<1>10. Unlinked'
  BY <1>5 DEF Unlinked
<1>11. Buttons'
  <2>1. incident' = incident
    BY DEF DispatchOne
  <2>2. RowsOK /\ RowsOK' /\ Buttons
    BY <1>9 DEF TypeOK, RowsOK, Buttons
  <2>3. \A b \in Alert : alert'[b].incident = alert[b].incident
    BY <1>5
  <2>4. QED
    BY <1>10, <2>1, <2>2, <2>3, AlertsChange
<1>12. WorkerKnows'
  <2>1. ASSUME NEW t \in worker'.todo
        PROVE  /\ alert'[t[1]].incident = 0
               /\ t[2] = "send" => alert'[t[1]].attempts < MaxAttempts
    <3>1. t \in worker.todo /\ t # <<a, "send">>
      BY <1>1 DEF TypeOK
    <3>2. t[2] = "send" => t[1] # a
      BY <1>4, <3>1
    <3>3. QED
      BY <1>4, <1>5, <3>1, <3>2
  <2>2. QED
    BY <1>7, <2>1 DEF WorkerKnows
<1>13. QED
  BY <1>9, <1>11, <1>12 DEF Buttons

(***************************************************************************)
(* Following: an alert takes the status its incident had when it was read, *)
(* which is none of those with a live button.                              *)
(***************************************************************************)
LEMMA ShownStatus ==
  ASSUME NEW st \in IncidentStatus
  PROVE  Shown(st) \in AlertStatus \ Buttoned
  BY DEF IncidentStatus, TerminalStatus, AlertStatus, Buttoned, Shown

LEMMA ReconcileOneInv ==
  ASSUME IInv, NEW t \in worker.todo, NEW ok \in BOOLEAN, ReconcileOne(t, ok)
  PROVE  IInv'
<1> USE DEF IInv
<1> DEFINE a        == t[1]
           i        == alert[a].incident
           now      == IF known[i] = "absent" THEN incident[i].status ELSE known[i]
           notified == alert[a].notified /\ t[2] = Shown(now)
           tell     == now \in TerminalStatus /\ ~notified
           status   == IF t[2] # Shown(now) THEN Shown(now) ELSE alert[a].status
           told     == notified \/ (tell /\ ok)
<1>1. a \in Alert /\ i # 0
  BY DEF TypeOK, WorkerKnows, ReconcileOne
<1>2. alert[a] \in AlertRow /\ i \in Incident
  BY <1>1 DEF TypeOK, AlertRow
<1>3. now \in IncidentStatus
  BY <1>1, <1>2 DEF TypeOK, Linked
<1>4. alert' = [alert EXCEPT ![a].status = status, ![a].notified = told]
  BY DEF ReconcileOne
<1>5. known' = [known EXCEPT ![i] = now]
  BY DEF ReconcileOne
<1>6. status \in AlertStatus \cup {"absent"} /\ told \in BOOLEAN
  BY <1>2, <1>3, ShownStatus DEF AlertRow
<1>7. status \notin Buttoned
  BY <1>1, <1>2, <1>3, ShownStatus DEF Unlinked
<1> HIDE DEF now, status, told
<1>8. alert' \in [Alert -> AlertRow]
  BY <1>1, <1>2, <1>4, <1>6 DEF TypeOK, AlertRow
<1>9. worker' \in WorkerType /\ worker'.todo \subseteq worker.todo /\ worker'.phase = "following"
  BY DEF ReconcileOne, TypeOK, WorkerType
<1>10. ScanTypeOK'
  BY ScanAssumption DEF ReconcileOne, Fault, Faults, TypeOK, ScanTypeOK
<1>11. known' \in [Incident -> IncidentStatus \cup {"absent"}]
  BY <1>3, <1>5 DEF TypeOK
<1>12. TypeOK'
  BY <1>8, <1>9, <1>10, <1>11 DEF ReconcileOne, TypeOK, WorkerType
<1>13. \A b \in Alert : alert'[b].incident = alert[b].incident
  BY <1>4 DEF TypeOK, AlertRow
<1>14. Unlinked'
  BY <1>1, <1>2, <1>4, <1>7, <1>13 DEF Unlinked, TypeOK, AlertRow
<1>15. Buttons'
  <2>1. incident' = incident
    BY DEF ReconcileOne
  <2>2. RowsOK /\ RowsOK' /\ Buttons
    BY <1>12 DEF TypeOK, RowsOK, Buttons
  <2>3. QED
    BY <1>13, <1>14, <2>1, <2>2, AlertsChange
<1>16. WorkerKnows'
  <2>1. \A u \in worker.todo : u[1] \in Alert /\ alert[u[1]].incident # 0
    BY DEF TypeOK, WorkerKnows, ReconcileOne
  <2>2. QED
    BY <1>9, <1>13, <2>1 DEF WorkerKnows
<1>17. QED
  BY <1>12, <1>15, <1>16 DEF Buttons

-----------------------------------------------------------------------------
(***************************************************************************)
(* The button.  It acts only for an alert without an incident, so none of  *)
(* the incidents opened so far is its own, and the one it opens or follows *)
(* stays with the alert.                                                   *)
(***************************************************************************)

\* The alert of the button changes its status, and has an incident now or is not live any more.
LEMMA ButtonChange ==
  ASSUME RowsOK, Buttons, NEW a \in Alert, alert[a].incident = 0,
         NEW st \in AlertStatus, NEW i \in Incident \cup {0},
         alert' = [alert EXCEPT ![a].status = st, ![a].incident = i],
         i # 0 => st \notin Buttoned,
         i # 0 => incident'[i].status # "absent",
         \/ incident' = incident
         \/ /\ i # 0 /\ incident[i].status = "absent"
            /\ \E s \in Sender : incident' = [incident EXCEPT
                 ![i] = [status |-> "pending", sender |-> s, opener |-> a]]
  PROVE  RowsOK' /\ Buttons'
<1> USE DEF Buttons
<1>1. alert' \in [Alert -> AlertRow]
  <2>1. alert[a] \in AlertRow
    BY DEF RowsOK
  <2>2. [alert[a] EXCEPT !.status = st, !.incident = i] \in AlertRow
    BY <2>1 DEF AlertRow
  <2>3. alert' = [alert EXCEPT ![a] = [alert[a] EXCEPT !.status = st, !.incident = i]]
    BY <2>1 DEF RowsOK, AlertRow
  <2>4. QED
    BY <2>2, <2>3 DEF RowsOK
<1>2. incident' \in [Incident -> [status : IncidentStatus \cup {"absent"},
                                  sender : Sender, opener : Alert \cup {0}]]
  BY DEF RowsOK, IncidentStatus
<1>3. /\ \A b \in Alert : b # a => alert'[b] = alert[b]
      /\ alert'[a].incident = i /\ alert'[a].status = st
  BY DEF RowsOK, AlertRow
<1>4. \A j \in Incident : j # i => incident'[j] = incident[j]
  BY DEF RowsOK
<1>5. Unlinked'
  BY <1>3 DEF Unlinked
<1>6. Linked'
  <2>1. ASSUME NEW b \in Alert, alert'[b].incident # 0
        PROVE  incident'[alert'[b].incident].status # "absent"
    <3>1. CASE b = a
      BY <1>3, <2>1, <3>1
    <3>2. CASE b # a
      BY <1>3, <1>4, <2>1, <3>2 DEF Linked, RowsOK, AlertRow
    <3>3. QED
      BY <3>1, <3>2
  <2>2. QED
    BY <2>1 DEF Linked
<1>7. \A j \in Incident :
        incident[j].status # "absent" => incident[j].opener # a
  BY DEF SingleUse, Opened, RowsOK, Alert, Incident
<1>8. CASE incident' = incident
  <2>1. SingleUse'
    BY <1>3, <1>7, <1>8 DEF SingleUse, Opened, RowsOK
  <2>2. QED
    BY <1>1, <1>2, <1>5, <1>6, <2>1 DEF RowsOK
<1>9. CASE /\ i # 0 /\ incident[i].status = "absent"
           /\ \E s \in Sender : incident' = [incident EXCEPT
                ![i] = [status |-> "pending", sender |-> s, opener |-> a]]
  <2>1. incident'[i].opener = a /\ a # 0
    BY <1>9 DEF RowsOK, Alert
  <2>2. SingleUse'
    BY <1>3, <1>4, <1>7, <1>9, <2>1 DEF SingleUse, Opened, RowsOK
  <2>3. QED
    BY <1>1, <1>2, <1>5, <1>6, <2>2 DEF RowsOK
<1>10. QED
  BY <1>8, <1>9

\* queue_mailbox_quarantine for a button that may act.
LEMMA QuarantineInv ==
  ASSUME RowsOK, Buttons, NEW a \in Alert, alert[a].incident = 0, Quarantine(a)
  PROVE  RowsOK' /\ Buttons'
<1>1. alert[a].sender \in Sender
  BY DEF RowsOK, AlertRow
<1>2. ASSUME NEW i \in Oldest(Incident \ Opened),
             incident' = [incident EXCEPT
               ![i] = [status |-> "pending", sender |-> alert[a].sender, opener |-> a]],
             alert' = [alert EXCEPT ![a].status = "quarantine_requested", ![a].incident = i]
      PROVE  RowsOK' /\ Buttons'
  <2>1. i \in Incident /\ i # 0 /\ incident[i].status = "absent"
    BY DEF Oldest, Opened, Incident
  <2>2. incident'[i].status # "absent"
    BY <1>2, <2>1 DEF RowsOK
  <2>3. "quarantine_requested" \in AlertStatus \ Buttoned
    BY DEF AlertStatus, Buttoned
  <2>4. QED
    BY <1>1, <1>2, <2>1, <2>2, <2>3, ButtonChange
<1>3. ASSUME NEW i \in Active(alert[a].sender), incident' = incident,
             alert' = [alert EXCEPT ![a].status = Shown(incident[i].status), ![a].incident = i]
      PROVE  RowsOK' /\ Buttons'
  <2>1. i \in Incident /\ i # 0 /\ incident[i].status \in IncidentStatus
    BY DEF Active, Opened, Incident, ActiveStatus, IncidentStatus, TerminalStatus
  <2>2. incident[i].status # "absent"
    BY DEF Active, Opened
  <2>3. QED
    BY <1>3, <2>1, <2>2, ShownStatus, ButtonChange
<1>4. ASSUME alert' = [alert EXCEPT ![a].status = "action_failed"], incident' = incident
      PROVE  RowsOK' /\ Buttons'
  <2>1. alert' = [alert EXCEPT ![a].status = "action_failed", ![a].incident = 0]
    BY <1>4 DEF RowsOK, AlertRow
  <2>2. "action_failed" \in AlertStatus
    BY DEF AlertStatus
  <2>3. QED
    BY <1>4, <2>1, <2>2, ButtonChange
<1>5. QED
  BY <1>2, <1>3, <1>4 DEF Quarantine

LEMMA CallbackInv ==
  ASSUME RowsOK, Buttons, NEW a \in Alert, Callback(a)
  PROVE  RowsOK' /\ Buttons'
<1>1. CASE UNCHANGED <<alert, incident>>
  BY <1>1 DEF RowsOK, Buttons, Unlinked, Linked, SingleUse, Opened
<1>2. CASE ~AnswerOnly(a)
  <2>1. alert[a].incident = 0
    BY <1>2 DEF AnswerOnly, Retry, Buttons, Unlinked, Buttoned
  <2>2. ASSUME NEW i \in Newest(Active(alert[a].sender)), incident' = incident,
               alert' = [alert EXCEPT ![a].status = Shown(incident[i].status),
                                      ![a].incident = i]
        PROVE  RowsOK' /\ Buttons'
    <3>1. i \in Active(alert[a].sender)
      BY DEF Newest
    <3>2. Quarantine(a)
      BY <2>2, <3>1 DEF Quarantine
    <3>3. QED
      BY <2>1, <3>2, QuarantineInv
  <2>3. ASSUME incident' = incident, alert' = [alert EXCEPT ![a].status = "expired"]
        PROVE  RowsOK' /\ Buttons'
    <3>1. alert' = [alert EXCEPT ![a].status = "expired", ![a].incident = 0]
      BY <2>1, <2>3 DEF RowsOK, AlertRow
    <3>2. "expired" \in AlertStatus
      BY DEF AlertStatus
    <3>3. QED
      BY <2>1, <2>3, <3>1, <3>2, ButtonChange
  <2>4. CASE Quarantine(a)
    BY <2>1, <2>4, QuarantineInv
  <2>5. QED
    BY <1>2, <2>2, <2>3, <2>4 DEF Callback
<1>3. QED
  BY <1>1, <1>2 DEF Callback

\* A press that the worker has fetched is that of some alert.
LEMMA UpdateInv ==
  ASSUME IInv, HandleUpdate \/ HandleUnsaved
  PROVE  IInv'
<1> USE DEF IInv
<1>1. /\ worker.at + 1 \in 1..Len(presses)
      /\ worker.at + 1 \in 0..MaxPresses /\ worker.upto \in 0..MaxPresses
      /\ worker.upto <= Len(presses)
  BY AlertsAssumption DEF HandleUpdate, HandleUnsaved, Fetched, WorkerKnows, TypeOK
<1>2. presses[worker.at + 1] \in Alert
  BY <1>1 DEF TypeOK
<1>3. RowsOK' /\ Buttons'
  <2>1. RowsOK /\ Buttons /\ Callback(presses[worker.at + 1])
    BY DEF RowsOK, Buttons, TypeOK, HandleUpdate, HandleUnsaved
  <2>2. QED
    BY <1>2, <2>1, CallbackInv
<1>4. worker' \in WorkerType /\ worker'.upto \in {0, worker.upto}
  <2>1. CASE HandleUpdate
    BY <1>1, <2>1 DEF HandleUpdate, TypeOK, WorkerType
  <2>2. CASE HandleUnsaved
    <3>1. worker' = Loop("dispatch")
      BY <2>2 DEF HandleUnsaved
    <3>2. QED
      BY <3>1, LoopType DEF Loop
  <2>3. QED
    BY <2>1, <2>2
<1>5. ScanTypeOK'
  BY ScanAssumption DEF HandleUpdate, HandleUnsaved, Fault, Faults, scanVars, TypeOK, ScanTypeOK
<1>6. TypeOK'
  BY <1>1, <1>3, <1>4, <1>5 DEF RowsOK, TypeOK, WorkerType, HandleUpdate, HandleUnsaved
<1>7. WorkerKnows'
  <2>1. worker'.phase \in {"updates", "dispatch"} /\ presses' = presses
    BY DEF HandleUpdate, HandleUnsaved, Fetched, Loop, TypeOK
  <2>2. Len(presses) \in Nat
    BY DEF TypeOK
  <2>3. QED
    BY <1>1, <1>4, <2>1, <2>2 DEF WorkerKnows
<1>8. QED
  BY <1>3, <1>6, <1>7 DEF Buttons

-----------------------------------------------------------------------------
(***************************************************************************)
(* Telegram, the clock, the administrator and the agents.                  *)
(***************************************************************************)
LEMMA PressInv ==
  ASSUME IInv, NEW a \in Alert, Press(a)
  PROVE  IInv'
<1> USE DEF IInv
<1>1. /\ presses' \in Seq(Alert) /\ Len(presses') = Len(presses) + 1
      /\ Len(presses) \in Nat
  BY DEF Press, TypeOK
<1>2. ScanTypeOK'
  BY DEF Press, scanVars, TypeOK, ScanTypeOK
<1>3. TypeOK'
  <2>1. Len(presses') <= MaxPresses
    BY <1>1, AlertsAssumption DEF Press
  <2>2. UNCHANGED <<alert, incident, sync, worker, known, chat, offset, saved>>
    BY DEF Press
  <2>3. QED
    BY <1>1, <1>2, <2>1, <2>2 DEF TypeOK
<1>4. QED
  BY <1>1, <1>3, Elsewhere DEF Press

LEMMA ExpireInv ==
  ASSUME IInv, NEW a \in Alert, Expire(a)
  PROVE  IInv'
<1> USE DEF IInv
<1>1. ASSUME NEW b \in Alert
      PROVE  /\ alert'[b] \in AlertRow
             /\ alert'[b].incident = alert[b].incident
             /\ alert'[b].status = alert[b].status
             /\ alert'[b].attempts = alert[b].attempts
  <2>1. alert[b] \in AlertRow
    BY DEF TypeOK
  <2>2. alert'[b] = alert[b] \/ alert'[b] = [alert[b] EXCEPT !.late = TRUE]
    BY DEF Expire, TypeOK
  <2>3. QED
    BY <2>1, <2>2 DEF AlertRow
<1>2. alert' \in [Alert -> AlertRow]
  BY <1>1 DEF Expire, TypeOK
<1>3. TypeOK'
  <2>1. UNCHANGED <<scanVars, incident, sync, botVars>>
    BY DEF Expire
  <2>2. ScanTypeOK'
    BY <2>1 DEF scanVars, TypeOK, ScanTypeOK
  <2>3. QED
    BY <1>2, <2>1, <2>2 DEF botVars, TypeOK
<1>4. Unlinked'
  BY <1>1 DEF Unlinked
<1>5. Buttons'
  <2>1. incident' = incident
    BY DEF Expire
  <2>2. RowsOK /\ RowsOK' /\ Buttons
    BY <1>3 DEF TypeOK, RowsOK, Buttons
  <2>3. \A b \in Alert : alert'[b].incident = alert[b].incident
    BY <1>1
  <2>4. QED
    BY <1>4, <2>1, <2>2, <2>3, AlertsChange
<1>6. WorkerKnows'
  <2>1. worker' = worker /\ presses' = presses
    BY DEF Expire, botVars
  <2>2. \A t \in worker.todo : t[1] \in Alert
    BY DEF TypeOK
  <2>3. QED
    BY <1>1, <2>1, <2>2 DEF WorkerKnows
<1>7. QED
  BY <1>3, <1>5, <1>6 DEF Buttons

LEMMA IncidentsInv ==
  ASSUME IInv,
         \/ \E s \in Sender : WebQuarantine(s)
         \/ \E i \in Incident : IncidentMoves(i)
  PROVE  IInv'
<1> USE DEF IInv
<1>1. /\ alert' = alert /\ worker' = worker /\ presses' = presses
      /\ UNCHANGED <<profile, usage, monitor, scan, faults, sync, known, chat, offset, saved>>
  BY DEF WebQuarantine, IncidentMoves, scanVars, botVars
<1>2. /\ RowsOK'
      /\ \A i \in Incident :
           /\ incident[i].status # "absent" => incident'[i].status # "absent"
           /\ incident'[i].status # "absent" =>
                \/ incident'[i].opener = 0
                \/ incident[i].status # "absent" /\ incident'[i].opener = incident[i].opener
  <2>1. ASSUME NEW s \in Sender, WebQuarantine(s)
        PROVE  <1>2!:
    <3>1. PICK i \in Incident : incident' = [incident EXCEPT
                 ![i] = [status |-> "pending", sender |-> s, opener |-> 0]]
      BY <2>1 DEF WebQuarantine, Oldest
    <3>2. QED
      BY <1>1, <3>1 DEF TypeOK, RowsOK, IncidentStatus
  <2>2. ASSUME NEW i \in Incident, IncidentMoves(i)
        PROVE  <1>2!:
    <3>1. PICK st \in Outcome \cup {"pending"} : incident' = [incident EXCEPT ![i].status = st]
      BY <2>2 DEF IncidentMoves
    <3>2. st \in IncidentStatus /\ st # "absent" /\ incident[i].status # "absent"
      BY <2>2, AlertsAssumption DEF IncidentStatus, TerminalStatus, IncidentMoves, Opened
    <3>3. QED
      BY <1>1, <3>1, <3>2 DEF TypeOK, RowsOK
  <2>3. QED
    BY <2>1, <2>2
<1>3. TypeOK'
  BY <1>1, <1>2 DEF TypeOK, ScanTypeOK, RowsOK
<1>4. Unlinked' /\ Linked'
  BY <1>1, <1>2 DEF Unlinked, Linked, TypeOK, AlertRow
<1>5. SingleUse'
  BY <1>1, <1>2 DEF SingleUse, Opened
<1>6. WorkerKnows'
  BY <1>1 DEF WorkerKnows
<1>7. QED
  BY <1>3, <1>4, <1>5, <1>6

-----------------------------------------------------------------------------
\* Every step keeps the invariant.
LEMMA InvNext == IInv /\ [Next]_vars => IInv'
<1> SUFFICES ASSUME IInv, [Next]_vars PROVE IInv'
  OBVIOUS
<1>1. CASE ScanStep
  BY <1>1, ScanStepInv, SyncCommitInv
<1>2. CASE WorkerStep
  <2>1. ASSUME NEW ok \in BOOLEAN, DispatchOne(ok) PROVE IInv'
    BY <2>1, DispatchOneInv
  <2>2. ASSUME NEW t \in worker.todo, NEW ok \in BOOLEAN, ReconcileOne(t, ok) PROVE IInv'
    BY <2>2, ReconcileOneInv
  <2>3. QED
    BY <1>2, <2>1, <2>2, BatchesInv, UpdateInv, PassEndsInv DEF WorkerStep
<1>3. CASE WorkerFails
  BY <1>3, PassEndsInv, UpdateInv DEF WorkerFails
<1>4. CASE Restart
  BY <1>4, PassEndsInv
<1>5. ASSUME NEW a \in Alert, Press(a) \/ Expire(a) PROVE IInv'
  BY <1>5, PressInv, ExpireInv
<1>6. CASE \/ \E s \in Sender : WebQuarantine(s)
           \/ \E i \in Incident : IncidentMoves(i)
  BY <1>6, IncidentsInv
<1>7. CASE UNCHANGED vars
  <2>1. UNCHANGED <<alert, incident, worker, presses>>
    BY <1>7 DEF vars, botVars
  <2>2. TypeOK'
    BY <1>7 DEF IInv, vars, scanVars, botVars, TypeOK, ScanTypeOK
  <2>3. QED
    BY <2>1, <2>2, Elsewhere DEF IInv, TypeOK
<1>8. QED
  BY <1>1, <1>2, <1>3, <1>4, <1>5, <1>6, <1>7 DEF Next

(***************************************************************************)
(* The alerts, the incidents, the scan and the worker keep their types, so *)
(* no number of failures takes delivery_attempts past its limit.           *)
(***************************************************************************)
THEOREM TypeCorrect == Spec => []TypeOK
<1>1. IInv => TypeOK
  BY DEF IInv
<1>2. QED
  BY InvInit, InvNext, <1>1, PTL DEF Spec

(***************************************************************************)
(* The button of an alert opens at most one incident and the alert follows *)
(* no other, for any number of senders, alerts, presses, incidents, errors *)
(* and restarts, and any interleaving of scans, worker and administrators. *)
(***************************************************************************)
THEOREM ButtonSingleUse == Spec => []SingleUse
<1>1. IInv => SingleUse
  BY DEF IInv
<1>2. QED
  BY InvInit, InvNext, <1>1, PTL DEF Spec

-----------------------------------------------------------------------------
(***************************************************************************)
(* Only the commit of a scan makes a row or an active alert.  No other     *)
(* step changes the sender of a row, makes it active again or takes back   *)
(* that it is late.                                                        *)
(***************************************************************************)
RowKept(a) ==
  /\ alert'[a].status = "absent" => alert[a].status = "absent"
  /\ alert'[a].sender = alert[a].sender
  /\ alert'[a].active => alert[a].active
  /\ alert[a].late => alert'[a].late

\* The scan writes the alerts it found active, and adds rows that were free.
LEMMA ScanKeepsRow ==
  ASSUME TypeOK, SyncCommit, NEW a \in Raised
  PROVE  RowKept(a)
<1>1. PICK new \in [sync.raise -> Alert \ Raised] :
        alert' = [b \in Alert |->
          IF \E s \in sync.raise : new[s] = b
          THEN NewAlert(CHOOSE s \in sync.raise : new[s] = b)
          ELSE IF b \in sync.recover
          THEN [alert[b] EXCEPT !.active = FALSE,
                                !.status = IF b \in sync.relabel THEN "recovered" ELSE @]
          ELSE alert[b]]
  BY DEF SyncCommit
<1>2. a \in Alert /\ alert[a] \in AlertRow /\ alert[a].status # "absent"
  BY DEF Raised, TypeOK
<1>3. ~\E s \in sync.raise : new[s] = a
  OBVIOUS
<1>4. \/ alert'[a] = alert[a]
      \/ alert'[a] = [alert[a] EXCEPT !.active = FALSE,
                                      !.status = IF a \in sync.relabel THEN "recovered" ELSE @]
  BY <1>1, <1>2, <1>3
<1>5. CASE alert'[a] = alert[a]
  BY <1>5 DEF RowKept
<1>6. ASSUME NEW st, st # "absent",
             alert'[a] = [alert[a] EXCEPT !.active = FALSE, !.status = st]
      PROVE  RowKept(a)
  <2>1. /\ alert'[a].sender = alert[a].sender
        /\ alert'[a].late = alert[a].late
        /\ alert'[a].status = st
        /\ ~alert'[a].active
    BY <1>2, <1>6 DEF AlertRow
  <2>2. QED
    BY <1>6, <2>1 DEF RowKept
<1>7. QED
  BY <1>2, <1>4, <1>5, <1>6

\* The worker writes a status, a count or an incident number.
LEMMA WorkerKeepsRow ==
  ASSUME IInv, NEW a \in Alert,
         \/ \E ok \in BOOLEAN : DispatchOne(ok)
         \/ \E t \in worker.todo, ok \in BOOLEAN : ReconcileOne(t, ok)
  PROVE  RowKept(a)
<1> USE DEF IInv
<1>1. alert[a] \in AlertRow
  BY DEF TypeOK
<1>2. ASSUME NEW ok \in BOOLEAN, DispatchOne(ok) PROVE RowKept(a)
  <2>1. PICK c \in Oldest(ToSend) :
          alert' = [b \in Alert |->
             IF b = c THEN IF ok THEN Sent(alert[c]) ELSE NotSent(alert[c])
             ELSE IF \E t \in Settled(c) : t[1] = b
                  THEN [alert[b] EXCEPT !.status = (CHOOSE t \in Settled(c) : t[1] = b)[2]]
                  ELSE alert[b]]
    BY <1>2 DEF DispatchOne
  <2>2. CASE a = c
    <3>1. alert'[a] = Sent(alert[a]) \/ alert'[a] = NotSent(alert[a])
      BY <1>1, <2>1, <2>2
    <3>2. QED
      BY <1>1, <3>1 DEF Sent, NotSent, RowKept, AlertRow
  <2>3. CASE a # c /\ \E t \in Settled(c) : t[1] = a
    <3> DEFINE chosen == CHOOSE t \in Settled(c) : t[1] = a
    <3>1. chosen \in Settled(c)
      BY <2>3
    <3>2. alert'[a] = [alert[a] EXCEPT !.status = chosen[2]]
      BY <1>1, <2>1, <2>3
    <3> HIDE DEF chosen
    <3>3. chosen[2] \in AlertStatus
      BY <3>1 DEF Settled, TypeOK
    <3>4. chosen[2] # "absent"
      BY <3>3 DEF AlertStatus, TerminalStatus
    <3>5. QED
      BY <1>1, <3>2, <3>4 DEF RowKept, AlertRow
  <2>4. CASE a # c /\ ~\E t \in Settled(c) : t[1] = a
    BY <1>1, <2>1, <2>4 DEF RowKept
  <2>5. QED
    BY <2>2, <2>3, <2>4
<1>3. ASSUME NEW t \in worker.todo, NEW ok \in BOOLEAN, ReconcileOne(t, ok) PROVE RowKept(a)
  <2> DEFINE now == IF known[alert[t[1]].incident] = "absent"
                    THEN incident[alert[t[1]].incident].status
                    ELSE known[alert[t[1]].incident]
             told == (alert[t[1]].notified /\ t[2] = Shown(now))
                       \/ (now \in TerminalStatus
                             /\ ~(alert[t[1]].notified /\ t[2] = Shown(now)) /\ ok)
  <2>1. alert' = [alert EXCEPT ![t[1]].status = IF t[2] # Shown(now) THEN Shown(now) ELSE @,
                               ![t[1]].notified = told]
    BY <1>3 DEF ReconcileOne
  <2>2. Shown(now) # "absent"
    <3>1. t[1] \in Alert /\ alert[t[1]].incident # 0
      BY <1>3 DEF ReconcileOne, WorkerKnows, TypeOK
    <3>2. now # "absent"
      BY <3>1 DEF Linked
    <3>3. QED
      BY <3>2 DEF Shown
  <2> HIDE DEF now, told
  <2>3. QED
    BY <1>1, <2>1, <2>2 DEF RowKept, TypeOK, AlertRow
<1>4. QED
  BY <1>2, <1>3

\* A press links an alert, or closes it.
LEMMA PressKeepsRow ==
  ASSUME RowsOK, NEW a \in Alert, NEW b \in Alert, Callback(b)
  PROVE  RowKept(a)
<1>1. alert[a] \in AlertRow
  BY DEF RowsOK
<1>2. CASE alert' = alert
  BY <1>1, <1>2 DEF RowKept
<1>3. ASSUME NEW st, st # "absent", NEW i,
             alert' = [alert EXCEPT ![b].status = st, ![b].incident = i]
      PROVE  RowKept(a)
  BY <1>1, <1>3 DEF RowKept, RowsOK, AlertRow
<1>4. ASSUME NEW st, st # "absent", alert' = [alert EXCEPT ![b].status = st]
      PROVE  RowKept(a)
  BY <1>1, <1>4 DEF RowKept, RowsOK, AlertRow
<1>5. \A s \in Sender : \A i \in Active(s) : Shown(incident[i].status) # "absent"
  BY DEF Active, Opened, Shown
<1>6. alert[b].sender \in Sender
  BY DEF RowsOK, AlertRow
<1>7. QED
  <2>1. ASSUME Quarantine(b) PROVE RowKept(a)
    BY <1>3, <1>4, <1>5, <1>6, <2>1 DEF Quarantine
  <2>2. \A i \in Newest(Active(alert[b].sender)) : i \in Active(alert[b].sender)
    BY DEF Newest
  <2>3. ASSUME NEW i \in Newest(Active(alert[b].sender)),
               alert' = [alert EXCEPT ![b].status = Shown(incident[i].status), ![b].incident = i]
        PROVE  RowKept(a)
    BY <1>3, <1>5, <1>6, <2>2, <2>3
  <2>4. ASSUME alert' = [alert EXCEPT ![b].status = "expired"] PROVE RowKept(a)
    BY <1>4, <2>4
  <2>5. QED
    BY <1>2, <2>1, <2>3, <2>4 DEF Callback

LEMMA StepKeepsRow ==
  ASSUME IInv, [Next]_vars, NEW a \in Alert, SyncCommit => a \in Raised
  PROVE  RowKept(a)
<1>1. TypeOK /\ RowsOK /\ alert[a] \in AlertRow
  BY DEF IInv, TypeOK, RowsOK
<1>2. CASE alert' = alert
  BY <1>1, <1>2 DEF RowKept
<1>3. ASSUME NEW b \in Alert, Expire(b) PROVE RowKept(a)
  BY <1>1, <1>3 DEF Expire, RowKept, RowsOK, AlertRow
<1>4. CASE HandleUpdate \/ HandleUnsaved
  <2>1. worker.at + 1 \in 1..Len(presses)
    BY <1>1, <1>4 DEF HandleUpdate, HandleUnsaved, Fetched, WorkerKnows, IInv, TypeOK
  <2>2. presses[worker.at + 1] \in Alert
    BY <1>1, <2>1 DEF TypeOK
  <2>3. QED
    BY <1>1, <1>4, <2>2, PressKeepsRow DEF HandleUpdate, HandleUnsaved
<1>5. CASE SyncCommit
  BY <1>1, <1>5, ScanKeepsRow
<1>6. CASE \/ \E ok \in BOOLEAN : DispatchOne(ok)
           \/ \E t \in worker.todo, ok \in BOOLEAN : ReconcileOne(t, ok)
  BY <1>6, WorkerKeepsRow
<1>7. QED
  BY <1>2, <1>3, <1>4, <1>5, <1>6
  DEF Next, ScanStep, SyncRead, SyncFails, WorkerStep, DispatchRead, ReconcileRead, PollUpdates,
      PollEnds, WorkerFails, DispatchUncommitted, CallbackRaises, WorkerRaises, Press,
      WebQuarantine, IncidentMoves, Restart, botVars, vars

-----------------------------------------------------------------------------
(***************************************************************************)
(* Why a sender has one active alert.  A scan raises an alert for a sender *)
(* without an active one, and until its commit no step makes one.          *)
(***************************************************************************)
OneActive ==
  \A a, b \in Alert :
    alert[a].active /\ alert[b].active /\ alert[a].sender = alert[b].sender => a = b

ActiveRaised == \A a \in Alert : alert[a].active => a \in Raised

RaisesNeeded ==
  scan.phase = "decided" =>
    \A s \in sync.raise, a \in Alert : alert[a].sender = s => ~alert[a].active

OneAlertInv == OneActive /\ ActiveRaised /\ RaisesNeeded

\* A set of alerts that is not empty has a newest one: the alert with the fewest after it.
LEMMA NewestExists ==
  ASSUME NEW S \in SUBSET Alert, S # {}
  PROVE  Newest(S) # {}
<1> DEFINE Less == {ss \in Nat \X Nat : ss[1] < ss[2]}
           T    == {t \in Nat : \E x \in S : t = MaxAlerts - x}
<1>1. IsWellFoundedOn(Less, Nat)
  BY NatLessThanWellFounded DEF OpToRel
<1>2. T \subseteq Nat /\ T # {}
  <2>1. PICK x \in S : TRUE
    OBVIOUS
  <2>2. MaxAlerts - x \in Nat
    BY <2>1, AlertsAssumption DEF Alert
  <2>3. MaxAlerts - x \in T
    BY <2>1, <2>2
  <2>4. QED
    BY <2>3
<1>3. PICK t \in T : \A y \in T : ~(<<y, t>> \in Less)
  <2> HIDE DEF Less, T
  <2> QED
    BY <1>1, <1>2, WFMin
<1>4. \A y \in T : ~(y < t)
  BY <1>3
<1>5. PICK x \in S : t = MaxAlerts - x
  OBVIOUS
<1>6. ASSUME NEW z \in S PROVE z <= x
  <2>1. MaxAlerts - z \in T
    BY AlertsAssumption DEF Alert
  <2>2. QED
    BY <1>4, <1>5, <2>1, AlertsAssumption DEF Alert
<1>7. QED
  BY <1>6 DEF Newest

LEMMA OneAlertInit == Init => OneAlertInv
  BY DEF Init, ScanInit, Idle, NoAlert, OneAlertInv, OneActive, ActiveRaised, RaisesNeeded

\* The scan finds no active alert of the senders it decides to alert about.
LEMMA DecisionNeeded ==
  ASSUME IInv, OneAlertInv, SyncRead
  PROVE  OneAlertInv'
<1>1. alert' = alert
  BY DEF SyncRead
<1>2. ASSUME NEW s \in sync'.raise, NEW a \in Alert, alert[a].sender = s PROVE ~alert[a].active
  <2>1. s \in Sender /\ ActiveAlert(s) = {}
    BY DEF SyncRead, CriticalSenders
  <2>2. {b \in Raised : alert[b].sender = s /\ alert[b].active} \in SUBSET Alert
    BY DEF Raised
  <2>3. {b \in Raised : alert[b].sender = s /\ alert[b].active} = {}
    BY <2>1, <2>2, NewestExists DEF ActiveAlert
  <2>4. QED
    BY <1>2, <2>3 DEF OneAlertInv, ActiveRaised
<1>3. QED
  BY <1>1, <1>2 DEF OneAlertInv, OneActive, ActiveRaised, RaisesNeeded, Raised

\* It commits one alert for each.
LEMMA CommitRaisesOne ==
  ASSUME IInv, OneAlertInv, SyncCommit
  PROVE  OneAlertInv'
<1>1. PICK new \in [sync.raise -> Alert \ Raised] :
        /\ \A s, t \in sync.raise : s # t => new[s] # new[t]
        /\ alert' = [b \in Alert |->
             IF \E s \in sync.raise : new[s] = b
             THEN NewAlert(CHOOSE s \in sync.raise : new[s] = b)
             ELSE IF b \in sync.recover
             THEN [alert[b] EXCEPT !.active = FALSE,
                                   !.status = IF b \in sync.relabel THEN "recovered" ELSE @]
             ELSE alert[b]]
  BY DEF SyncCommit
<1>2. ASSUME NEW s \in sync.raise
      PROVE  alert'[new[s]].status = "pending" /\ alert'[new[s]].sender = s
  <2>1. (CHOOSE t \in sync.raise : new[t] = new[s]) = s
    BY <1>1
  <2>2. alert'[new[s]] = NewAlert(s)
    BY <1>1, <2>1
  <2>3. QED
    BY <2>2 DEF NewAlert, NoAlert
<1>3. ASSUME NEW a \in Alert, alert'[a].active
      PROVE  \/ \E s \in sync.raise : a = new[s]
             \/ a \in Raised /\ alert[a].active /\ alert'[a].sender = alert[a].sender
  <2>1. CASE a \in Raised
    <3>1. RowKept(a)
      BY <2>1, ScanKeepsRow DEF IInv
    <3>2. QED
      BY <1>3, <2>1, <3>1 DEF RowKept
  <2>2. CASE a \notin Raised /\ ~\E s \in sync.raise : a = new[s]
    <3>1. alert[a] \in AlertRow /\ ~alert[a].active
      BY <2>2 DEF IInv, TypeOK, OneAlertInv, ActiveRaised
    <3>2. \/ alert'[a] = alert[a]
          \/ alert'[a] = [alert[a] EXCEPT !.active = FALSE,
                            !.status = IF a \in sync.relabel THEN "recovered" ELSE @]
      BY <1>1, <2>2
    <3>3. ~alert'[a].active
      BY <3>1, <3>2 DEF AlertRow
    <3>4. QED
      BY <1>3, <3>3
  <2>3. QED
    BY <2>1, <2>2
<1>4. \A s \in sync.raise, a \in Alert : alert[a].sender = s => ~alert[a].active
  BY DEF SyncCommit, OneAlertInv, RaisesNeeded
<1>5. OneActive'
  <2> SUFFICES ASSUME NEW a \in Alert, NEW b \in Alert, alert'[a].active, alert'[b].active,
                      alert'[a].sender = alert'[b].sender
               PROVE  a = b
    BY DEF OneActive
  <2>1. ASSUME NEW s \in sync.raise, a = new[s] PROVE a = b
    <3>1. alert'[b].sender = s
      BY <1>2, <2>1
    <3>2. PICK t \in sync.raise : b = new[t]
      BY <1>3, <1>4, <3>1
    <3>3. t = s
      BY <1>2, <3>1, <3>2
    <3>4. QED
      BY <2>1, <3>2, <3>3
  <2>2. ASSUME NEW s \in sync.raise, b = new[s] PROVE a = b
    <3>1. alert'[a].sender = s
      BY <1>2, <2>2
    <3>2. PICK t \in sync.raise : a = new[t]
      BY <1>3, <1>4, <3>1
    <3>3. t = s
      BY <1>2, <3>1, <3>2
    <3>4. QED
      BY <2>2, <3>2, <3>3
  <2>3. QED
    BY <1>3, <2>1, <2>2 DEF OneAlertInv, OneActive
<1>6. ActiveRaised'
  <2> SUFFICES ASSUME NEW a \in Alert, alert'[a].active PROVE alert'[a].status # "absent"
    BY DEF ActiveRaised, Raised
  <2>1. CASE a \in Raised
    BY <2>1, ScanKeepsRow DEF RowKept, Raised, IInv
  <2>2. QED
    BY <1>2, <1>3, <2>1
<1>7. RaisesNeeded'
  BY DEF SyncCommit, Idle, RaisesNeeded
<1>8. QED
  BY <1>5, <1>6, <1>7 DEF OneAlertInv

LEMMA OneAlertStep == IInv /\ OneAlertInv /\ [Next]_vars => OneAlertInv'
<1> SUFFICES ASSUME IInv, OneAlertInv, [Next]_vars, ~SyncRead, ~SyncCommit PROVE OneAlertInv'
  BY DecisionNeeded, CommitRaisesOne
<1>1. ASSUME NEW a \in Alert PROVE RowKept(a)
  BY StepKeepsRow
<1>2. scan'.phase = "decided" => scan.phase = "decided" /\ sync' = sync
  <2>1. CASE ScanStep \/ Restart
    <3>1. CASE ScanFails \/ SyncFails \/ Restart
      <4>1. scan' = Idle
        BY <3>1 DEF ScanFails, SyncFails, Abandon, Restart
      <4>2. QED
        BY <4>1 DEF Idle
    <3>2. CASE ScanStart \/ ScanWrite
      <4>1. CASE ScanStart
        BY <4>1 DEF ScanStart
      <4>2. CASE ScanWrite
        <5>1. scan' = [phase |-> "sync", profiles |-> NoProfiles]
          BY <4>2 DEF ScanWrite
        <5>2. QED
          BY <5>1
      <4>3. QED
        BY <3>2, <4>1, <4>2
    <3>3. ASSUME NEW s \in Sender, NEW p \in Profile, SetProfile(s, p) PROVE scan' = scan
      BY <3>3 DEF SetProfile
    <3>4. QED
      BY <2>1, <3>1, <3>2, <3>3 DEF ScanStep
  <2>2. CASE WorkerStep \/ WorkerFails
    BY <2>2
    DEF WorkerStep, DispatchRead, DispatchOne, ReconcileRead, ReconcileOne, PollUpdates,
        HandleUpdate, PollEnds, WorkerFails, DispatchUncommitted, HandleUnsaved, CallbackRaises,
        WorkerRaises, scanVars
  <2>3. QED
    BY <2>1, <2>2
    DEF Next, Press, Expire, WebQuarantine, IncidentMoves, scanVars, botVars, vars
<1>3. OneActive' /\ ActiveRaised'
  BY <1>1 DEF RowKept, OneAlertInv, OneActive, ActiveRaised, Raised
<1>4. RaisesNeeded'
  BY <1>1, <1>2 DEF RowKept, OneAlertInv, RaisesNeeded
<1>5. QED
  BY <1>3, <1>4 DEF OneAlertInv

(***************************************************************************)
(* A sender never has two active alerts, however scans fail or end early,  *)
(* profiles change, alerts are lost or closed and the process restarts.    *)
(***************************************************************************)
THEOREM OneAlertAtATime == Spec => []OneActiveAlert
<1>1. OneAlertInv => OneActiveAlert
  BY DEF OneAlertInv, OneActive, OneActiveAlert, Raised
<1>2. QED
  BY <1>1, OneAlertInit, OneAlertStep, InvInit, InvNext, PTL DEF Spec

-----------------------------------------------------------------------------
(***************************************************************************)
(* Why an alert that has lapsed is never sent: the worker takes up what it *)
(* has found fit to send at the start of a pass only, and only what it     *)
(* took up enters the chat.                                                *)
(***************************************************************************)

\* What the worker is about to send it has found fit in this pass.
LEMMA TakenUpFit ==
  ASSUME IInv, [Next]_vars, NEW a \in ToSend', a \notin ToSend
  PROVE  a \in Raised /\ alert[a].active /\ ~alert[a].late
<1>1. PICK t \in worker'.todo : t[1] = a /\ t[2] = "send"
  BY DEF ToSend
<1>2. t \notin worker.todo
  BY <1>1 DEF ToSend
<1>3. CASE DispatchRead
  <2>1. PICK b \in Batch : t = <<b, Verdict(b)>>
    BY <1>1, <1>3 DEF DispatchRead, Loop
  <2>2. a = b /\ Verdict(a) = "send"
    BY <1>1, <2>1
  <2>3. QED
    BY <2>1, <2>2 DEF Verdict, Batch, Pending
<1>4. CASE ReconcileRead
  <2>1. PICK b \in Followed : t = <<b, alert[b].status>>
    BY <1>1, <1>4 DEF ReconcileRead, Loop
  <2>2. alert[b].status \in AlertStatus \cup {"absent"}
    BY <2>1 DEF Followed, Raised, IInv, TypeOK, AlertRow
  <2>3. QED
    BY <1>1, <2>1, <2>2 DEF AlertStatus, TerminalStatus
<1>5. CASE worker'.todo \subseteq worker.todo
  BY <1>1, <1>2, <1>5
<1>6. CASE ~DispatchRead /\ ~ReconcileRead
  <2>1. worker'.todo \subseteq worker.todo
    <3>1. worker \in WorkerType
      BY DEF IInv, TypeOK, WorkerType
    <3>2. CASE worker' = worker
      BY <3>2
    <3>3. ASSUME NEW p, worker' = Loop(p) PROVE worker'.todo = {}
      BY <3>3 DEF Loop
    <3>4. CASE PollUpdates
      BY <3>4 DEF PollUpdates, Loop
    <3>5. CASE HandleUpdate
      BY <3>1, <3>5 DEF HandleUpdate, WorkerType
    <3>6. CASE \E ok \in BOOLEAN : DispatchOne(ok)
      BY <3>1, <3>6 DEF DispatchOne, WorkerType
    <3>7. CASE \E u \in worker.todo, ok \in BOOLEAN : ReconcileOne(u, ok)
      BY <3>1, <3>7 DEF ReconcileOne, WorkerType
    <3>8. CASE PollEnds \/ WorkerFails \/ Restart
      BY <3>3, <3>8
      DEF PollEnds, WorkerFails, DispatchUncommitted, HandleUnsaved, CallbackRaises, WorkerRaises,
          Restart
    <3>9. QED
      BY <1>6, <3>2, <3>4, <3>5, <3>6, <3>7, <3>8
      DEF Next, ScanStep, SyncRead, SyncCommit, SyncFails, WorkerStep, Press, Expire,
          WebQuarantine, IncidentMoves, botVars, vars
  <2>2. QED
    BY <1>5, <2>1
<1>7. QED
  BY <1>3, <1>4, <1>6

\* Only an alert that the worker is sending enters the chat.
LEMMA ChatGrows ==
  ASSUME [Next]_vars
  PROVE  chat' \subseteq chat \cup ToSend
<1>1. CASE DispatchUncommitted \/ \E ok \in BOOLEAN : DispatchOne(ok)
  BY <1>1 DEF DispatchUncommitted, DispatchOne, Oldest
<1>2. CASE chat' = chat
  BY <1>2
<1>3. QED
  BY <1>1, <1>2
  DEF Next, ScanStep, SyncRead, SyncCommit, SyncFails, WorkerStep, DispatchRead, ReconcileRead,
      ReconcileOne, PollUpdates, HandleUpdate, PollEnds, WorkerFails, HandleUnsaved,
      CallbackRaises, WorkerRaises, Press, Expire, WebQuarantine, IncidentMoves, Restart,
      botVars, vars

(***************************************************************************)
(* An alert that recovers or expires before the worker takes it up never   *)
(* reaches the chat, in any interleaving of scans and worker and after any *)
(* number of errors and restarts.                                          *)
(***************************************************************************)
THEOREM LapsedAlertsUnsent == Spec => LapsedStaysUnsent
<1>1. IInv /\ [Next]_vars => [\A a \in Alert : Lapsed(a) => Lapsed(a)']_vars
  <2> SUFFICES ASSUME IInv, [Next]_vars, NEW a \in Alert, Lapsed(a) PROVE Lapsed(a)'
    OBVIOUS
  <2>1. a \in Raised' /\ (~alert'[a].active \/ alert'[a].late)
    <3>1. RowKept(a)
      BY StepKeepsRow DEF Lapsed
    <3>2. alert[a].active \in BOOLEAN /\ alert'[a].active \in BOOLEAN
      BY InvNext DEF IInv, TypeOK, AlertRow
    <3>3. QED
      BY <3>1, <3>2 DEF Lapsed, RowKept, Raised
  <2>2. a \notin chat' /\ a \notin ToSend'
    BY ChatGrows, TakenUpFit DEF Lapsed
  <2>3. QED
    BY <2>1, <2>2 DEF Lapsed
<1>2. QED
  BY <1>1, InvInit, InvNext, PTL DEF Spec, LapsedStaysUnsent

=============================================================================
