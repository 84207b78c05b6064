---------------------------- MODULE OutboundScan ----------------------------
(***************************************************************************)
(* The outbound monitor: sender profiles, the usage records and the scan   *)
(* that rewrites them.  A scan reads the profiles, then queries the        *)
(* tracking database, then writes the risk levels in one transaction, and  *)
(* ends with the alert synchronisation (TelegramAlerts).  The worker       *)
(* thread, the profile pages and the "Scan now" button all call it;        *)
(* _SCAN_LOCK lets one through and turns the others away, so the scan a    *)
(* profile change asks for may never run.  The handlers of its errors      *)
(* write to the database themselves; when that fails too the exception     *)
(* reaches the caller, and a worker thread that called ends for good.      *)
(*                                                                         *)
(* What a scan counts of a sender is one bit, chosen by the tracking log:  *)
(* do the counts reach a critical threshold?  The levels below critical    *)
(* are not told apart; a deleted record is one whose level is "low".       *)
(***************************************************************************)
EXTENDS Naturals, FiniteSets

CONSTANTS
  Sender,       \* internal senders
  Profile,      \* the profiles in use; "none" is a sender without an enabled profile
  MaxFaults     \* bound: errors and restarts

Exempt == {"bulk", "expected"}

ASSUME ScanAssumption ==
  /\ Sender # {}
  /\ "none" \in Profile /\ Profile \subseteq Exempt \cup {"none"}
  /\ MaxFaults \in Nat

RiskLevel == Exempt \cup {"critical", "low"}
Phase     == {"idle", "query", "sync", "decided"}

VARIABLES
  profile,    \* OutboundSenderProfile.profile_type
  usage,      \* OutboundUsageRecord.risk_level
  monitor,    \* is the outbound-monitor thread alive?  (_WORKER_STARTED stays True)
  scan,       \* the scan under way: its phase and the profiles it has read
  faults      \* how many errors and restarts there have been

scanVars == <<profile, usage, monitor, scan, faults>>

NoProfiles == [s \in Sender |-> "none"]
Idle       == [phase |-> "idle", profiles |-> NoProfiles]

ScanTypeOK ==
  /\ profile \in [Sender -> Profile]
  /\ usage \in [Sender -> RiskLevel]
  /\ monitor \in BOOLEAN
  /\ scan \in [phase : Phase, profiles : [Sender -> Profile]]
  /\ faults \in 0..MaxFaults

ScanInit ==
  /\ profile = NoProfiles
  /\ usage = [s \in Sender |-> "low"]
  /\ monitor = TRUE
  /\ scan = Idle
  /\ faults = 0

\* A step at which something goes wrong, or two things do.
Faults(n) == faults + n <= MaxFaults /\ faults' = faults + n
Fault     == Faults(1)

\* _risk: the profile decides first, then the thresholds.
Risk(p, critical) ==
  IF p \in Exempt THEN p ELSE IF critical THEN "critical" ELSE "low"

(***************************************************************************)
(* The four profile handlers: add a bulk or an expected profile, or remove *)
(* one.  The scan each of them calls afterwards is ScanStart, if the lock  *)
(* is free.                                                                *)
(***************************************************************************)
SetProfile(s, p) ==
  /\ profile[s] # p
  /\ profile' = [profile EXCEPT ![s] = p]
  /\ UNCHANGED <<usage, monitor, scan, faults>>

\* run_outbound_scan up to the query, by the worker thread or a page: the lock and the profiles.
ScanStart ==
  /\ scan.phase = "idle"
  /\ scan' = [phase |-> "query", profiles |-> profile]
  /\ UNCHANGED <<profile, usage, monitor, faults>>

\* The rows of the query are counted, for any heavy senders, and the records are
\* rewritten and committed.
ScanWrite ==
  /\ scan.phase = "query"
  /\ \E heavy \in SUBSET Sender :
       usage' = [s \in Sender |-> Risk(scan.profiles[s], s \in heavy)]
  /\ scan' = [phase |-> "sync", profiles |-> NoProfiles]
  /\ UNCHANGED <<profile, monitor, faults>>

(***************************************************************************)
(* The scan is over and the lock free.  If the error cannot be recorded    *)
(* either, it is raised again: to a page, which fails and is all that      *)
(* does, or to _worker, which has no handler.                              *)
(***************************************************************************)
Abandon ==
  /\ scan' = Idle
  /\ \/ Fault /\ UNCHANGED monitor
     \/ Faults(2) /\ monitor' = FALSE

\* The tracking database or the transaction fails: the records stay as they were.
ScanFails ==
  /\ scan.phase = "query"
  /\ Abandon
  /\ UNCHANGED <<profile, usage>>

=============================================================================
