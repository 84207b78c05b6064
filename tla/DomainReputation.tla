-------------------------- MODULE DomainReputation --------------------------
(***************************************************************************)
(* What the program thinks of one external sender domain, and what it does *)
(* about it: the reputation scan and the check an administrator asks for,  *)
(* the decisions of the reputation and candidate pages, the events of the  *)
(* Edge host that make a candidate of an address sending for the domain,   *)
(* and the commands that put the domain into the sender filter of Exchange.*)
(* The command table is the one of CommandService.                         *)
(*                                                                         *)
(* One domain and one candidate stand for all: the other domains of a scan *)
(* only matter because they may use up the checks it has left.  A page     *)
(* that reads rows and writes them back with nothing slow in between is    *)
(* one step where the order of two of them cannot be told.  Left out: the  *)
(* times, addresses and texts kept with the rows, the levels (fixed by the *)
(* scores), the rows of reputation_scan_runs, and the IP block list        *)
(* (EdgeBlocks).                                                           *)
(***************************************************************************)
EXTENDS CommandService, Sequences

CONSTANTS
  Edge,          \* the node of the Edge agent
  Scope,         \* scopes of domain blocks: "exact" and "subdomains"
  Evidence,      \* what the providers may know about the domain and its addresses
  Signals,       \* what _score takes from it
  Nothing,       \* evidence of a domain that was never checked
  Failed,        \* evidence of a check that failed
  TrackingRow,   \* rows GetMessageTrackingLog may hold about the domain
  Inside,        \* addresses of the organization
  ManyMessages,  \* inbound messages that make a high volume (20)
  ManyRecipients,\* recipients that make a broad targeting (12)
  Hits,          \* values of consecutive_hits
  MaxEventLines, \* events a run of the Edge agent posts: the last ones (500)
  MaxEvents,     \* bound: events the analyzer writes
  MaxRequests,   \* bound: requests between their reads and their commit
  MaxHandouts,   \* bound: how often one command is handed out
  MaxWork        \* bound: commands, second hand-outs, scans, checks, decisions and events in all

Block  == [exact |-> "BlockDomainExact", subdomains |-> "BlockDomainAndSubdomains"]
Unblock == [exact |-> "UnblockDomainExact", subdomains |-> "UnblockDomainAndSubdomains"]
BlockKind == {Block[s] : s \in Scope}
Kind   == BlockKind \cup {Unblock[s] : s \in Scope} \cup {"BlockIp", "SyncAllowlist"}

Signal == [dbl : {"none", "threat", "lowrep", "abused"}, zrd : BOOLEAN,
           malicious : Nat, suspicious : Nat, young : {"no", "month", "week"},
           mx : BOOLEAN, spf : BOOLEAN, dmarc : BOOLEAN,
           ip : {"clean", "zen", "abuse90", "abuse70", "abuse40"}]

ASSUME ReputationAssumption ==
  /\ Node = {Edge}
  /\ Scope \subseteq {"exact", "subdomains"}
  /\ Answer = {"done"}
  /\ Signals \in [Evidence -> Signal]
  /\ IsFiniteSet(TrackingRow) /\ IsFiniteSet(Inside) /\ \A r \in TrackingRow : IsFiniteSet(r.to)
  /\ Nothing \notin Evidence /\ Failed \notin Evidence
  /\ Hits \subseteq Nat \ {0} /\ MaxEventLines \in Nat \ {0}
  /\ ManyMessages \in Nat /\ ManyRecipients \in Nat
  /\ MaxEvents \in Nat /\ MaxRequests \in Nat /\ MaxHandouts \in Nat /\ MaxWork \in Nat

(***************************************************************************)
(* A ReputationRecord and a Candidate; known: the row exists.              *)
(***************************************************************************)
Incoming == {r \in TrackingRow : r.way = "Incoming"}
Outgoing == TrackingRow \ Incoming

Traffic == [inbound : 0..Cardinality({<<r.msg, r.to>> : r \in Incoming}),
            recipients : 0..Cardinality(Inside), outbound : Nat]

Advice == {"monitor", "review", "block_suggested", "investigate_outbound"}

Record == [known : BOOLEAN, status : {"open", "dismissed", "blocked", "allowlisted"},
           traffic : Traffic, score : 0..100, advice : Advice,
           evidence : Evidence \cup {Nothing, Failed}]

CandidateRow == [known : BOOLEAN, status : {"open", "approved", "dismissed", "blocked"},
                 hits : Hits \cup {0}]

Event == [action : {"Candidate", "Blocked"}, hits : Hits]

VARIABLES
  request,     \* command_type of each command, and whether it names the record or candidate
  record,      \* the ReputationRecord of the domain
  candidate,   \* the Candidate of the address
  trusted,     \* is there an AllowlistEntry for the domain?
  seen,        \* events that are in the events table
  scan,        \* the reputation scan that holds _SCAN_LOCK
  checks,      \* checks of administrators: the record they have read
  blocking,    \* block requests that found the domain not on the allowlist
  events,      \* Edge: the lines the analyzer has written
  posts,       \* event posts sent and not yet handled
  sent,        \* Edge: the event post of the current run
  edgeTrusted, \* Edge: the domain is in the local allowlist
  filter,      \* Exchange: the lists of the sender filter the domain is in
  started,     \* history: scans and checks begun, dismissals and allowlistings
  mixed,       \* history: the last check had read a record that was no longer the current one
  before       \* history: commands that existed when the allowlist last changed

rowVars  == <<request, record, candidate, trusted, before>>
scanVars == <<scan, checks, blocking, started, mixed>>
edgeVars == <<events, posts, sent, edgeTrusted, filter>>
vars     == <<serviceVars, rowVars, seen, scanVars, edgeVars>>

NoTraffic == [inbound |-> 0, recipients |-> 0, outbound |-> 0]
NoRecord  == [known |-> FALSE, status |-> "open", traffic |-> NoTraffic, score |-> 0,
              advice |-> "monitor", evidence |-> Nothing]

TypeOK ==
  /\ ServiceTypeOK
  /\ request \in [Command -> [kind : Kind, sourced : BOOLEAN]]
  /\ record \in Record /\ candidate \in CandidateRow
  /\ trusted \in BOOLEAN /\ seen \subseteq 1..Len(events)
  /\ scan \subseteq [stage : {"row", "check"}, found : Traffic, was : Record]
  /\ Cardinality(scan) <= 1
  /\ checks \subseteq Record
  /\ blocking \subseteq [scope : Scope, sourced : BOOLEAN]
  /\ events \in Seq(Event)
  /\ posts \subseteq SUBSET (1..Len(events)) /\ sent \subseteq SUBSET (1..Len(events))
  /\ edgeTrusted \in BOOLEAN /\ filter \subseteq Scope
  /\ started \in Nat /\ mixed \in BOOLEAN /\ before \subseteq Command

Init ==
  /\ ServiceInit
  /\ request = [c \in Command |-> [kind |-> "BlockIp", sourced |-> FALSE]]
  /\ record = NoRecord
  /\ candidate = [known |-> FALSE, status |-> "open", hits |-> 0]
  /\ trusted = FALSE /\ edgeTrusted = FALSE
  /\ seen = {} /\ events = <<>> /\ posts = {} /\ sent = {}
  /\ scan = {} /\ checks = {} /\ blocking = {}
  /\ filter = {}
  /\ started = 0 /\ mixed = FALSE /\ before = {}

Rows == {c \in Command : status[c] # "absent"}
Work == Cardinality(Rows) + Cardinality({c \in Command : handouts[c] > 1}) + started + Len(events)

Begins == Cardinality(cancelling) + Cardinality(checks) + Cardinality(blocking) < MaxRequests

-----------------------------------------------------------------------------
(***************************************************************************)
(* _score.                                                                 *)
(***************************************************************************)
DblPoints   == [none |-> 0, threat |-> 80, lowrep |-> 60, abused |-> 35]
YoungPoints == [no |-> 0, month |-> 12, week |-> 25]
IpPoints    == [clean |-> 0, zen |-> 45, abuse90 |-> 45, abuse70 |-> 30, abuse40 |-> 15]
VirusTotalPoints(s) ==
  IF s.malicious >= 5 THEN 60
  ELSE IF s.malicious >= 2 THEN 35
  ELSE IF s.malicious = 1 \/ s.suspicious >= 2 THEN 15 ELSE 0

When(b, points)  == IF b THEN points ELSE 0
AtMost(limit, n) == IF n > limit THEN limit ELSE n

CandidatePoints == When(candidate.known /\ candidate.status # "dismissed",
                        AtMost(40, 10 + 10 * candidate.hits))

ScoreYoungTwice(e, t) ==
  LET s == Signals[e] IN
  AtMost(100, DblPoints[s.dbl] + When(s.zrd, 30) + VirusTotalPoints(s) + 2 * YoungPoints[s.young]
    + When(~s.mx, 8) + When(~s.spf, 3) + When(~s.dmarc, 3) + IpPoints[s.ip] + CandidatePoints
    + When(t.inbound >= ManyMessages, 8) + When(t.recipients >= ManyRecipients, 8))

Score(e, t) ==
  LET s == Signals[e] IN
  AtMost(100, DblPoints[s.dbl] + When(s.zrd, 30) + VirusTotalPoints(s) + YoungPoints[s.young]
    + When(~s.mx, 8) + When(~s.spf, 3) + When(~s.dmarc, 3) + IpPoints[s.ip] + CandidatePoints
    + When(t.inbound >= ManyMessages, 8) + When(t.recipients >= ManyRecipients, 8))

Advised(score, t) ==
  IF score >= 60 /\ t.outbound > 0 THEN "investigate_outbound"
  ELSE IF score >= 60 /\ t.inbound > 0 THEN "block_suggested"
  ELSE IF 35 <= score /\ score < 60 THEN "review"
  ELSE "monitor"

(***************************************************************************)
(* check_record, and the commit of the record it was given.  The session   *)
(* writes the columns that differ from the row as it was read, and only    *)
(* those; a row that was not there is inserted, which fails when another   *)
(* request has inserted it.                                                *)
(***************************************************************************)
Column(was, new, now) == IF new = was THEN now ELSE new

Saved(was, new) ==
  [record EXCEPT !.known    = TRUE,
                 !.traffic  = Column(was.traffic, new.traffic, @),
                 !.score    = Column(was.score, new.score, @),
                 !.advice   = Column(was.advice, new.advice, @),
                 !.evidence = Column(was.evidence, new.evidence, @)]

Checked(was, t, e) ==
  [was EXCEPT !.traffic = t, !.score = Score(e, t), !.advice = Advised(Score(e, t), t),
              !.evidence = e]

Stale(was) ==
  \/ was.score # record.score \/ was.advice # record.advice \/ was.evidence # record.evidence

CanSave(was) == was.known = record.known

Commits(was, new) ==
  /\ CanSave(was)
  /\ record' = Saved(was, new)
  /\ mixed' = Stale(was)

-----------------------------------------------------------------------------
(***************************************************************************)
(* discover_domains: the messages the tracking log shows at the moment.  A *)
(* message is logged at several hops; it counts once for each way its      *)
(* recipients are written, an outbound one for each address at the domain. *)
(* The domains with the most outbound mail are kept, so that of this one   *)
(* may be left out.                                                        *)
(***************************************************************************)
DiscoveredRows(log) ==
  LET received == {r \in log : r.way = "Incoming" /\ r.to \cap Inside # {}}
      sentOut  == {<<r.msg, r.to>> : r \in log \ Incoming}
  IN [inbound    |-> Cardinality(received),
      recipients |-> Cardinality({p \in Inside : \E r \in received : p \in r.to}),
      outbound   |-> Cardinality(UNION {{key} \X (key[2] \ Inside) : key \in sentOut})]

Discovered(log) ==
  LET received == {r \in log : r.way = "Incoming" /\ r.to \cap Inside # {}}
      sentOut  == {<<r.msg, r.to>> : r \in log \ Incoming}
  IN [inbound    |-> Cardinality({<<r.msg, r.to>> : r \in received}),
      recipients |-> Cardinality({p \in Inside : \E r \in received : p \in r.to}),
      outbound   |-> Cardinality(UNION {{key} \X (key[2] \ Inside) : key \in sentOut})]

Discoveries == {Discovered(log) : log \in SUBSET TrackingRow}

\* run_reputation_scan, by the worker or by reputation_scan.  A scan that does not
\* find the domain changes nothing here.
ScanStarts ==
  /\ scan = {} /\ Work < MaxWork
  /\ \E t \in Discoveries : \E out \in {0, t.outbound} :
       /\ t.inbound > 0 \/ out > 0
       /\ scan' = {[stage |-> "row", found |-> [t EXCEPT !.outbound = out], was |-> NoRecord]}
  /\ started' = started + 1
  /\ UNCHANGED <<serviceVars, rowVars, seen, checks, blocking, mixed, edgeVars>>

(***************************************************************************)
(* The turn of the domain.  Its check is due, or only its counts are       *)
(* written: which, is left open.  It depends on force, on the age of the   *)
(* last check and on the checks other domains have used up.                *)
(***************************************************************************)
ScanTakesRow ==
  /\ \E s \in scan :
       /\ s.stage = "row"
       /\ scan' = {[s EXCEPT !.stage = "check", !.was = record]}
  /\ UNCHANGED <<serviceVars, rowVars, seen, checks, blocking, started, mixed, edgeVars>>

ScanCounts ==
  /\ \E s \in scan :
       /\ s.stage = "row"
       /\ record' = [record EXCEPT !.known = TRUE, !.traffic = s.found]
  /\ scan' = {}
  /\ UNCHANGED <<serviceVars, request, candidate, trusted, before, seen, checks, blocking,
                 started, mixed, edgeVars>>

\* The check, with the providers' answers, or its failure, which keeps the old score.
ScanChecks ==
  /\ \E s \in scan :
       /\ s.stage = "check"
       /\ \/ \E e \in Evidence : Commits(s.was, Checked(s.was, s.found, e))
          \/ Commits(s.was, [s.was EXCEPT !.traffic = s.found, !.evidence = Failed])
  /\ scan' = {}
  /\ UNCHANGED <<serviceVars, request, candidate, trusted, before, seen, checks, blocking,
                 started, edgeVars>>

\* The scan fails or the process stops: what is not committed is lost.
ScanStops ==
  /\ scan # {}
  /\ scan' = {}
  /\ UNCHANGED <<serviceVars, rowVars, seen, checks, blocking, started, mixed, edgeVars>>

(***************************************************************************)
(* reputation_check.                                                       *)
(***************************************************************************)
CheckStarts ==
  /\ Begins
  /\ checks' = checks \cup {record}
  /\ started' = started + 1
  /\ UNCHANGED <<serviceVars, rowVars, seen, scan, blocking, mixed, edgeVars>>
  /\ Work < MaxWork

CheckEnds ==
  /\ \E was \in checks :
       /\ checks' = checks \ {was}
       /\ \/ \E e \in Evidence : Commits(was, Checked(was, was.traffic, e))
          \/ UNCHANGED <<record, mixed>>
  /\ UNCHANGED <<serviceVars, request, candidate, trusted, before, seen, scan, blocking,
                 started, edgeVars>>

-----------------------------------------------------------------------------
(***************************************************************************)
(* The decisions of administrators.                                        *)
(***************************************************************************)
Queue(c, k, sourced) ==
  /\ QueueCommand(c, Edge)
  /\ request' = [request EXCEPT ![c] = [kind |-> k, sourced |-> sourced]]
  /\ UNCHANGED edgeVars
  /\ Work < MaxWork

\* reputation_block, of a record, and manual_block_domain: the allowlist check, then the commit.
BlockCheck(b) ==
  /\ Begins
  /\ blocking = {}
  /\ b.sourced => record.known
  /\ ~trusted
  /\ blocking' = {b}
  /\ UNCHANGED <<serviceVars, rowVars, seen, scan, checks, started, mixed, edgeVars>>

BlockCommit(c) ==
  /\ \E b \in blocking : Queue(c, Block[b.scope], b.sourced)
  /\ blocking' = {}
  /\ UNCHANGED <<record, candidate, trusted, before, seen, scan, checks, started, mixed>>

\* manual_unblock_domain.
UnblockDomain(c, s) ==
  /\ Queue(c, Unblock[s], FALSE)
  /\ UNCHANGED <<record, candidate, trusted, before, seen, scanVars>>

\* reputation_dismiss.
DismissRecord ==
  /\ record.known /\ record.status # "dismissed"
  /\ record' = [record EXCEPT !.status = "dismissed"]
  /\ started' = started + 1
  /\ UNCHANGED <<serviceVars, request, candidate, trusted, before, seen, scan, checks, blocking, mixed, edgeVars>>
  /\ Work < MaxWork

\* reputation_allowlist: the entry and the decision, and no command.
AllowlistRecord ==
  /\ record.known /\ (record.status # "allowlisted" \/ ~trusted)
  /\ record' = [record EXCEPT !.status = "allowlisted"]
  /\ trusted' = TRUE
  /\ before' = IF trusted THEN before ELSE Rows
  /\ started' = started + 1
  /\ UNCHANGED <<serviceVars, request, candidate, seen, scan, checks, blocking, mixed, edgeVars>>
  /\ Work < MaxWork

\* allowlist_add and allowlist_delete.
ChangeAllowlist(c) ==
  /\ Queue(c, "SyncAllowlist", FALSE)
  /\ trusted' = ~trusted
  /\ before' = Rows
  /\ UNCHANGED <<record, candidate, seen, scanVars>>

\* candidate_approve: a block of the address, and candidate_dismiss.
ApproveCandidate(c) ==
  /\ candidate.known
  /\ Queue(c, "BlockIp", TRUE)
  /\ candidate' = [candidate EXCEPT !.status = "approved"]
  /\ UNCHANGED <<record, trusted, before, seen, scanVars>>

DismissCandidate ==
  /\ candidate.known /\ candidate.status # "dismissed"
  /\ candidate' = [candidate EXCEPT !.status = "dismissed"]
  /\ started' = started + 1
  /\ UNCHANGED <<serviceVars, request, record, trusted, before, seen, scan, checks, blocking, mixed, edgeVars>>
  /\ Work < MaxWork

Cancel(c) ==
  /\ (Begins /\ CancelCheck(c)) \/ CancelCommit(c)
  /\ UNCHANGED <<rowVars, seen, scanVars, edgeVars>>

-----------------------------------------------------------------------------
(***************************************************************************)
(* The Edge host.  The analyzer appends what it decides to a file; a run   *)
(* of the agent posts the end of the file, polls, and works through its    *)
(* batch.                                                                  *)
(***************************************************************************)
AnalyzerWrites(e) ==
  /\ Len(events) < MaxEvents
  /\ events' = Append(events, e)
  /\ UNCHANGED <<serviceVars, rowVars, seen, scanVars, posts, sent, edgeTrusted, filter>>
  /\ Work < MaxWork

SendEvents ==
  /\ batch[Edge] = {} /\ sent = {} /\ events # <<>>
  /\ sent' = {{e \in DOMAIN events : e + MaxEventLines > Len(events)}}
  /\ posts' = posts \cup sent'
  /\ UNCHANGED <<serviceVars, rowVars, seen, scanVars, events, edgeTrusted, filter>>

AgentPolls ==
  /\ batch[Edge] = {}
  /\ sent \cap posts = {} /\ (events # <<>> => sent # {})
  /\ ServicePoll(Edge)
  /\ \A c \in Command : handouts'[c] <= MaxHandouts
  /\ \A c \in Command : status[c] = "claimed" /\ status'[c] = "pending"
                          => handouts[c] < MaxHandouts /\ Work < MaxWork
  /\ sent' = {}
  /\ UNCHANGED <<rowVars, seen, scanVars, events, posts, edgeTrusted, filter>>
  /\ Work' <= MaxWork

RunEnds ==
  /\ IF batch[Edge] = {} THEN sent # {} /\ UNCHANGED serviceVars ELSE AbortRun(Edge)
  /\ sent' = {}
  /\ UNCHANGED <<rowVars, seen, scanVars, events, posts, edgeTrusted, filter>>

Working(K) ==
  /\ batch[Edge] # {} /\ Edge \notin waiting
  /\ request[Current(Edge)].kind \in K

Succeeds == RunCommand(Edge, TRUE, "done")
Fails    == RunCommand(Edge, FALSE, "done")

(***************************************************************************)
(* Execute-Command: what it does and whether it says so.  An execution may *)
(* fail before its change, or its run may end after it.                    *)
(***************************************************************************)
BlockDomainUnchecked ==
  /\ \E s \in Scope :
       /\ Working({Block[s]})
       /\ \/ filter' = filter \cup {s} /\ (Succeeds \/ AbortRun(Edge))
          \/ UNCHANGED filter /\ Fails
  /\ UNCHANGED edgeTrusted

BlockDomain ==
  /\ \E s \in Scope :
       /\ Working({Block[s]})
       /\ \/ ~edgeTrusted /\ filter' = filter \cup {s} /\ (Succeeds \/ AbortRun(Edge))
          \/ UNCHANGED filter /\ Fails
  /\ UNCHANGED edgeTrusted

UnblockDomainOnEdge ==
  /\ \E s \in Scope :
       /\ Working({Unblock[s]})
       /\ \/ filter' = filter \ {s} /\ (Succeeds \/ AbortRun(Edge))
          \/ UNCHANGED filter /\ Fails
  /\ UNCHANGED edgeTrusted

\* The allowlist it fetches is stored in the same step; EdgeBlocks has both steps.
SyncAllowlist ==
  /\ Working({"SyncAllowlist"})
  /\ \/ edgeTrusted' = trusted /\ (Succeeds \/ AbortRun(Edge))
     \/ UNCHANGED edgeTrusted /\ Fails
  /\ UNCHANGED filter

BlockIp ==
  /\ Working({"BlockIp"})
  /\ Succeeds \/ Fails
  /\ UNCHANGED <<edgeTrusted, filter>>

EdgeAgent ==
  /\ BlockDomain \/ UnblockDomainOnEdge \/ SyncAllowlist \/ BlockIp
  /\ UNCHANGED <<rowVars, seen, scanVars, events, posts, sent>>

-----------------------------------------------------------------------------
(***************************************************************************)
(* agent_events: the events that are not in the table yet, in the order of *)
(* the file.                                                               *)
(***************************************************************************)
Fed(new) ==
  LET last == CHOOSE e \in new : \A d \in new : d <= e IN
  [known  |-> TRUE,
   status |-> IF \E e \in new : events[e].action = "Blocked" THEN "blocked" ELSE candidate.status,
   hits   |-> events[last].hits]

FeedAll(post) ==
  IF post = {} THEN candidate ELSE Fed(post)

Feed(post) ==
  IF post \subseteq seen THEN candidate ELSE Fed(post \ seen)

ReceiveEvents(post) ==
  /\ post \in posts
  /\ posts' = posts \ {post}
  /\ candidate' = Feed(post)
  /\ seen' = seen \cup post
  /\ UNCHANGED <<serviceVars, request, record, trusted, before, scanVars, events, sent,
                 edgeTrusted, filter>>

\* A post that is lost.
LoseEvents(post) ==
  /\ post \in posts
  /\ posts' = posts \ {post} /\ sent' = sent \ {post}
  /\ UNCHANGED <<serviceVars, rowVars, seen, scanVars, events, edgeTrusted, filter>>

(***************************************************************************)
(* agent_command_result: a block that succeeded is written to the row it   *)
(* names, whatever has been decided since.  A result that is lost is one   *)
(* that never arrives.                                                     *)
(***************************************************************************)
Blocks(r, K) == r.ok /\ request[r.cmd].sourced /\ request[r.cmd].kind \in K

ReceiveResult(r, answered) ==
  /\ DeliverResult(r, answered)
  /\ record' = IF Blocks(r, BlockKind) THEN [record EXCEPT !.status = "blocked"] ELSE record
  /\ candidate' = IF Blocks(r, {"BlockIp"}) THEN [candidate EXCEPT !.status = "blocked"]
                                            ELSE candidate
  /\ UNCHANGED <<request, trusted, before, seen, scanVars, edgeVars>>

Decisions ==
  \/ \E b \in [scope : Scope, sourced : BOOLEAN] : BlockCheck(b)
  \/ \E c \in Command : BlockCommit(c) \/ ChangeAllowlist(c) \/ ApproveCandidate(c) \/ Cancel(c)
  \/ \E c \in Command, s \in Scope : UnblockDomain(c, s)
  \/ DismissRecord \/ AllowlistRecord \/ DismissCandidate

Reputation ==
  \/ ScanStarts \/ ScanTakesRow \/ ScanCounts \/ ScanChecks \/ ScanStops
  \/ CheckStarts \/ CheckEnds

Next ==
  \/ Decisions \/ Reputation
  \/ \E e \in Event : AnalyzerWrites(e)
  \/ SendEvents \/ AgentPolls \/ RunEnds \/ EdgeAgent
  \/ \E post \in posts : ReceiveEvents(post) \/ LoseEvents(post)
  \/ \E r \in results, answered \in BOOLEAN : ReceiveResult(r, answered)

Spec == Init /\ [][Next]_vars

-----------------------------------------------------------------------------
CommandsOf(K) == {c \in Rows : request[c].kind \in K}
Newest(S)     == {c \in S : \A d \in S : d <= c}     \* at most one command

(***************************************************************************)
(* The newest block or unblock of a scope decides once it has succeeded:   *)
(* the domain is in that list of the sender filter exactly if it is a      *)
(* block, whatever older commands are cancelled, expire, fail or report    *)
(* late.  Except for an older one that had to be handed out again.         *)
(***************************************************************************)
FilterFollowsNewest ==
  \A s \in Scope : \A c \in Newest(CommandsOf({Block[s], Unblock[s]})) :
    /\ status[c] = "succeeded"
    /\ \A d \in CommandsOf({Block[s], Unblock[s]}) : d < c => handouts[d] <= 1
    => (s \in filter <=> request[c].kind = Block[s])

(***************************************************************************)
(* "Allowlist is checked centrally and on Edge" (SECURITY.md:20): a block  *)
(* that was queued after a sync does not succeed when the sync did and the *)
(* domain has been trusted since before it, whatever the page that queued  *)
(* it had checked and however often it is handed out.  Only a sync tells   *)
(* the Edge host; reputation_allowlist queues none, so an entry it makes   *)
(* counts once a later change does.                                        *)
(***************************************************************************)
TrustedNotBlocked ==
  \A s \in CommandsOf({"SyncAllowlist"}) \ before, c \in CommandsOf(BlockKind) :
    trusted /\ s < c /\ status[s] = "succeeded" /\ handouts[s] <= 1
      => status[c] # "succeeded"

Listed(s) == s.dbl # "none" \/ s.zrd \/ s.malicious > 0 \/ s.suspicious >= 2 \/ s.ip # "clean"

(***************************************************************************)
(* What the page advises rests on the evidence it shows: no block and no   *)
(* investigation of a domain that no provider lists and no candidate sends *)
(* for, however young, badly configured or busy it is.  Except after two   *)
(* checks at once: each writes the columns it changed, so that a score and *)
(* an advice of one may stay beside the evidence of the other.             *)
(***************************************************************************)
AdviceNeedsEvidence ==
  record.advice \in {"block_suggested", "investigate_outbound"} /\ record.evidence \in Evidence
    => Listed(Signals[record.evidence]) \/ candidate.known \/ mixed

(***************************************************************************)
(* A dismissal or a trust stands: a check that was under way, a scan, an   *)
(* event that is posted again or the result of another command does not    *)
(* undo it.  A record turns to "blocked" with the result of a block that   *)
(* was asked for on its page, a candidate with such a result or with a     *)
(* block the analyzer had not reported before.                             *)
(***************************************************************************)
Reported(K) == \E r \in results \ results' : Blocks(r, K)

DecisionStands ==
  [][ /\ record.status \in {"dismissed", "allowlisted"} /\ record'.status # record.status =>
           record'.status \in {"dismissed", "allowlisted"} \/ Reported(BlockKind)
      /\ candidate.status = "dismissed" /\ candidate'.status # "dismissed" =>
           \/ candidate'.status = "approved" \/ Reported({"BlockIp"})
           \/ \E e \in seen' \ seen : events[e].action = "Blocked" ]_vars

=============================================================================
