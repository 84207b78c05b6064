----------------------- MODULE DomainReputationProofs -----------------------
(***************************************************************************)
(* Theorems about DomainReputation, for every number of commands, scopes,  *)
(* events and requests: they do not use the bounds.                        *)
(***************************************************************************)
EXTENDS DomainReputation, CommandServiceProofs, FiniteSetTheorems

\* There is one agent, and one answer it gives.
LEMMA Constants == Node = {Edge} /\ "done" \in Answer
  BY ReputationAssumption

\* Each scope has a block and an unblock of its own.
LEMMA ScopeKinds ==
  /\ \A s \in Scope : Block[s] \in BlockKind /\ Block[s] \in Kind /\ Unblock[s] \in Kind
  /\ \A s, t \in Scope : /\ Block[s] # Unblock[t]
                         /\ Block[s] = Block[t] \/ Unblock[s] = Unblock[t] => s = t
  /\ \A s \in Scope : Unblock[s] \notin BlockKind
  /\ {"BlockIp", "SyncAllowlist"} \subseteq Kind
  /\ {"BlockIp", "SyncAllowlist"} \cap BlockKind = {}
  /\ \A s \in Scope : {"BlockIp", "SyncAllowlist"} \cap {Block[s], Unblock[s]} = {}
<1>1. \A s \in Scope : s = "exact" \/ s = "subdomains"
  BY ReputationAssumption
<1>2. /\ Block["exact"] = "BlockDomainExact" /\ Block["subdomains"] = "BlockDomainAndSubdomains"
      /\ Unblock["exact"] = "UnblockDomainExact"
      /\ Unblock["subdomains"] = "UnblockDomainAndSubdomains"
  BY DEF Block, Unblock
<1>3. \A s, t \in Scope : /\ Block[s] # Unblock[t]
                          /\ Block[s] = Block[t] \/ Unblock[s] = Unblock[t] => s = t
  BY <1>1, <1>2
<1>4. \A s \in Scope : {"BlockIp", "SyncAllowlist"} \cap {Block[s], Unblock[s]} = {}
  BY <1>1, <1>2
<1>5. QED
  BY <1>3, <1>4 DEF BlockKind, Kind

-----------------------------------------------------------------------------
(***************************************************************************)
(* Every step of the component is one on the command table.                *)
(***************************************************************************)
Queues ==
  \E c \in Command, k \in Kind, sourced \in BOOLEAN :
    /\ Queue(c, k, sourced)
    /\ \/ UNCHANGED <<trusted, before>>
       \/ k = "SyncAllowlist" /\ trusted' \in BOOLEAN /\ before' = Rows

\* What the proofs need to know of the types; TypeOK says more.
RequestsTyped ==
  /\ request \in [Command -> [kind : Kind, sourced : BOOLEAN]]
  /\ trusted \in BOOLEAN /\ edgeTrusted \in BOOLEAN
  /\ filter \subseteq Scope
  /\ blocking \subseteq [scope : Scope, sourced : BOOLEAN]
  /\ before \subseteq Rows

TableInv == RequestsTyped /\ OrderInv

\* The steps that queue no command, leave what is asked for and allowed alone.
Quiet == UNCHANGED <<request, trusted, before>>

\* The decisions of administrators queue a command, cancel one or only write rows of their own.
LEMMA DecisionKinds ==
  ASSUME RequestsTyped, Decisions
  PROVE  \/ Queues \/ AllowlistRecord \/ \E c \in Command : Cancel(c)
         \/ Quiet /\ UNCHANGED <<serviceVars, edgeTrusted, filter>>
<1>1. ASSUME NEW c \in Command, BlockCommit(c) PROVE Queues
  <2>1. PICK b \in blocking : Queue(c, Block[b.scope], b.sourced)
    BY <1>1 DEF BlockCommit
  <2>2. b.scope \in Scope /\ b.sourced \in BOOLEAN /\ UNCHANGED <<trusted, before>>
    BY <1>1 DEF RequestsTyped, BlockCommit
  <2>3. Block[b.scope] \in Kind
    BY <2>2, ScopeKinds
  <2>4. QED
    BY <2>1, <2>2, <2>3 DEF Queues
<1>2. ASSUME NEW c \in Command, ChangeAllowlist(c) PROVE Queues
  BY <1>2, ScopeKinds DEF ChangeAllowlist, Queues, RequestsTyped
<1>3. ASSUME NEW c \in Command, ApproveCandidate(c) PROVE Queues
  BY <1>3, ScopeKinds DEF ApproveCandidate, Queues
<1>4. ASSUME NEW c \in Command, NEW s \in Scope, UnblockDomain(c, s) PROVE Queues
  BY <1>4, ScopeKinds DEF UnblockDomain, Queues
<1>5. CASE DismissRecord \/ DismissCandidate
  BY <1>5 DEF DismissRecord, DismissCandidate, Quiet, edgeVars
<1>6. ASSUME NEW b, BlockCheck(b) PROVE Quiet /\ UNCHANGED <<serviceVars, edgeTrusted, filter>>
  BY <1>6 DEF BlockCheck, Quiet, rowVars, edgeVars
<1>7. QED
  BY <1>1, <1>2, <1>3, <1>4, <1>5, <1>6 DEF Decisions

LEMMA StepKinds ==
  ASSUME RequestsTyped, [Next]_vars
  PROVE  Queues \/ AllowlistRecord \/ EdgeAgent \/ (Quiet /\ UNCHANGED <<edgeTrusted, filter>>)
<1>1. CASE Decisions
  BY <1>1, DecisionKinds DEF Cancel, Quiet, rowVars, edgeVars
<1>2. CASE Reputation
  BY <1>2 DEF Reputation, ScanStarts, ScanTakesRow, ScanCounts, ScanChecks,
              ScanStops, CheckStarts, CheckEnds, Quiet, rowVars, edgeVars
<1>3. CASE SendEvents \/ AgentPolls \/ RunEnds \/ \E e \in Event : AnalyzerWrites(e)
  BY <1>3 DEF SendEvents, AgentPolls, RunEnds, AnalyzerWrites, Quiet, rowVars
<1>4. CASE \E post \in posts : ReceiveEvents(post) \/ LoseEvents(post)
  BY <1>4 DEF ReceiveEvents, LoseEvents, Quiet, rowVars
<1>5. CASE \E r \in results, answered \in BOOLEAN : ReceiveResult(r, answered)
  BY <1>5 DEF ReceiveResult, Quiet, edgeVars
<1>6. CASE UNCHANGED vars
  BY <1>6 DEF vars, Quiet, rowVars, edgeVars
<1>7. QED
  BY <1>1, <1>2, <1>3, <1>4, <1>5, <1>6 DEF Next

LEMMA QueuesAreTableSteps == Queues => QueuesRows
<1> SUFFICES ASSUME NEW c \in Command, QueueCommand(c, Edge) PROVE QueuesRows
  BY DEF Queues, Queue
<1> DEFINE rows == [d \in {c} |-> Edge]
<1>1. rows \in [{c} -> Node] /\ WriteRows(rows, {})
  BY Constants DEF QueueCommand, QueueRows
<1> HIDE DEF rows
<1>2. QED
  BY <1>1 DEF QueuesRows

LEMMA StepIsTableStep ==
  ASSUME RequestsTyped, [Next]_vars
  PROVE  TableStep
<1>1. CASE Queues
  BY <1>1, QueuesAreTableSteps DEF TableStep
<1>2. CASE EdgeAgent
  BY <1>2, Constants
  DEF EdgeAgent, BlockDomain, UnblockDomainOnEdge, SyncAllowlist, BlockIp, Succeeds, Fails, TableStep
<1>3. CASE RunEnds \/ AgentPolls
  BY <1>3, Constants DEF RunEnds, AgentPolls, TableStep
<1>4. ASSUME NEW r \in results, NEW answered \in BOOLEAN, ReceiveResult(r, answered)
      PROVE  TableStep
  BY <1>4 DEF ReceiveResult, TableStep
<1>5. CASE Decisions
  BY <1>1, <1>5, DecisionKinds DEF Cancel, AllowlistRecord, TableStep
<1>6. CASE Reputation \/ SendEvents \/ (\E e \in Event : AnalyzerWrites(e)) \/ UNCHANGED vars
  BY <1>6 DEF Reputation, ScanStarts, ScanTakesRow, ScanCounts, ScanChecks,
              ScanStops, CheckStarts, CheckEnds, SendEvents, AnalyzerWrites, vars,
              TableStep
<1>7. CASE \E post \in posts : ReceiveEvents(post) \/ LoseEvents(post)
  BY <1>7 DEF ReceiveEvents, LoseEvents, TableStep
<1>8. QED
  BY <1>2, <1>3, <1>4, <1>5, <1>6, <1>7 DEF Next

-----------------------------------------------------------------------------
LEMMA TableInit == Init => TableInv
<1> SUFFICES ASSUME Init PROVE TableInv
  OBVIOUS
<1>1. OrderInv
  BY OrderInvInit DEF Init
<1>2. "BlockIp" \in Kind
  BY ScopeKinds
<1>3. QED
  BY <1>1, <1>2 DEF Init, TableInv, RequestsTyped

\* A row that exists stays.
LEMMA RowsStay ==
  ASSUME OrderInv, TableStep, NEW c \in Command, status[c] # "absent"
  PROVE  status'[c] # "absent"
<1>t. ServiceTypeOK
  BY DEF OrderInv
<1>1. CASE QueuesRows
  BY <1>1 DEF QueuesRows, WriteRows
<1>2. ASSUME NEW n \in Node, ServicePoll(n) PROVE status'[c] # "absent"
  BY <1>2 DEF ServicePoll, PollEffect
<1>3. ASSUME NEW r \in results, NEW answered \in BOOLEAN, DeliverResult(r, answered)
      PROVE  status'[c] # "absent"
  BY <1>3, <1>t DEF DeliverResult, ServiceTypeOK
<1>4. ASSUME NEW d \in Command, CancelCheck(d) \/ CancelCommit(d) PROVE status'[c] # "absent"
  BY <1>4, <1>t DEF CancelCheck, CancelCommit, ServiceTypeOK
<1>5. QED
  BY <1>1, <1>2, <1>3, <1>4 DEF TableStep, RunCommand, LoseResult, AbortRun, serviceVars

LEMMA TableInvStep == TableInv /\ [Next]_vars => TableInv'
<1> SUFFICES ASSUME TableInv, [Next]_vars PROVE TableInv'
  OBVIOUS
<1>1. TableStep /\ OrderInv'
  BY StepIsTableStep, OrderInvStep DEF TableInv
<1>2. Rows \subseteq Rows'
  BY <1>1, RowsStay DEF TableInv, Rows
<1>3. blocking' \subseteq [scope : Scope, sourced : BOOLEAN]
  BY DEF TableInv, RequestsTyped, Next, Decisions, BlockCheck, BlockCommit, ChangeAllowlist,
         ApproveCandidate, Cancel, UnblockDomain, DismissRecord, AllowlistRecord, DismissCandidate,
         Reputation, ScanStarts, ScanTakesRow, ScanCounts, ScanChecks, ScanStops,
         CheckStarts, CheckEnds, AnalyzerWrites, SendEvents, AgentPolls, RunEnds,
         EdgeAgent, ReceiveEvents, LoseEvents, ReceiveResult, scanVars, vars
<1>4. /\ request' \in [Command -> [kind : Kind, sourced : BOOLEAN]]
      /\ trusted' \in BOOLEAN /\ edgeTrusted' \in BOOLEAN /\ filter' \subseteq Scope
      /\ before' \subseteq Rows
  <2>1. CASE Queues
    BY <2>1 DEF Queues, Queue, TableInv, RequestsTyped, edgeVars
  <2>2. CASE AllowlistRecord
    BY <2>2 DEF AllowlistRecord, TableInv, RequestsTyped, edgeVars
  <2>3. CASE EdgeAgent
    BY <2>3 DEF EdgeAgent, BlockDomain, UnblockDomainOnEdge, SyncAllowlist, BlockIp, rowVars,
                TableInv, RequestsTyped
  <2>4. CASE Quiet /\ UNCHANGED <<edgeTrusted, filter>>
    BY <2>4 DEF Quiet, TableInv, RequestsTyped
  <2>5. QED
    BY <2>1, <2>2, <2>3, <2>4, StepKinds DEF TableInv
<1>5. QED
  BY <1>1, <1>2, <1>3, <1>4 DEF TableInv, RequestsTyped

-----------------------------------------------------------------------------
(***************************************************************************)
(* What has to hold all the time for the properties to hold when a result  *)
(* is in.  A success counts from the moment the agent posts it.            *)
(***************************************************************************)
RanOk(c) == status[c] = "succeeded" \/ \E r \in results : r.cmd = c /\ r.ok

Changes(s) == CommandsOf({Block[s], Unblock[s]})
NewSyncs   == CommandsOf({"SyncAllowlist"}) \ before

FilterInv ==
  \A s \in Scope : \A c \in Newest(Changes(s)) :
    RanOk(c) /\ (\A d \in Changes(s) : d < c => handouts[d] <= 1)
      => (s \in filter <=> request[c].kind = Block[s])

\* A sync that was queued after the last change of the allowlist brings it to the Edge host.
SyncInv == \A s \in NewSyncs : RanOk(s) => edgeTrusted = trusted

TrustInv ==
  \A s \in NewSyncs, c \in CommandsOf(BlockKind) :
    trusted /\ s < c /\ RanOk(s) /\ handouts[s] <= 1 => ~RanOk(c)

EffectInv == FilterInv /\ SyncInv /\ TrustInv

LEMMA EffectInit == Init => EffectInv
  BY DEF Init, ServiceInit, EffectInv, FilterInv, SyncInv, TrustInv, NewSyncs, Changes, Newest,
         CommandsOf, Rows

\* What is run was handed out, and its row exists.
LEMMA RanFacts ==
  ASSUME TableInv, NEW c \in Command
  PROVE  /\ RanOk(c) => HasRun(c)
         /\ HasRun(c) => handouts[c] > 0
         /\ handouts[c] > 0 => status[c] # "absent"
         /\ handouts[c] \in Nat /\ node[c] = Edge
  BY Constants
  DEF TableInv, OrderInv, HandoutsCounted, HasRun, RanOk, ResultStatus, ServiceTypeOK

LEMMA WorkingFacts ==
  ASSUME TableInv, NEW K, Working(K)
  PROVE  /\ Current(Edge) \in Command /\ Current(Edge) \in batch[Edge]
         /\ request[Current(Edge)].kind \in K
         /\ handouts[Current(Edge)] > 0 /\ Current(Edge) \in CommandsOf(K)
<1>1. ServiceTypeOK /\ Edge \in Node
  BY Constants DEF TableInv, OrderInv
<1>2. Current(Edge) \in Command /\ Current(Edge) \in batch[Edge]
  BY <1>1, CurrentInBatch DEF Working
<1>3. handouts[Current(Edge)] > 0
  BY <1>1, <1>2 DEF TableInv, OrderInv, HandoutsCounted
<1>4. QED
  BY <1>2, <1>3, RanFacts DEF Working, CommandsOf, Rows

\* A command that was handed out once and is run now has no newer one run before it.
LEMMA OldestFirst ==
  ASSUME TableInv, NEW K, Working(K), NEW d \in Command, Current(Edge) < d,
         handouts[Current(Edge)] <= 1
  PROVE  ~RanOk(d)
<1>1. Current(Edge) \in batch[Edge] /\ Edge \in Node /\ node[d] = Edge
  BY WorkingFacts, RanFacts, Constants
<1>2. ~HasRun(d)
  BY <1>1 DEF TableInv, OrderInv, RunsInOrder
<1>3. QED
  BY <1>2, RanFacts

-----------------------------------------------------------------------------
(***************************************************************************)
(* A new command is the newest, and has not run.                           *)
(***************************************************************************)
LEMMA QueuesEffect == TableInv /\ EffectInv /\ Queues => EffectInv'
<1> SUFFICES ASSUME TableInv, EffectInv, Queues PROVE EffectInv'
  OBVIOUS
<1>1. PICK c \in Command, k \in Kind, sourced \in BOOLEAN :
        /\ Queue(c, k, sourced)
        /\ \/ UNCHANGED <<trusted, before>>
           \/ k = "SyncAllowlist" /\ trusted' \in BOOLEAN /\ before' = Rows
  BY DEF Queues
<1>2. /\ status[c] = "absent" /\ \A d \in Command : d < c => status[d] # "absent"
      /\ status'[c] = "pending" /\ \A d \in Command \ {c} : status'[d] = status[d]
      /\ UNCHANGED <<handouts, results, edgeTrusted, filter>>
      /\ request'[c] = [kind |-> k, sourced |-> sourced]
      /\ \A d \in Command \ {c} : request'[d] = request[d]
  <2>1. QueueCommand(c, Edge) /\ UNCHANGED edgeVars
        /\ request' = [request EXCEPT ![c] = [kind |-> k, sourced |-> sourced]]
    BY <1>1 DEF Queue
  <2> DEFINE rows == [d \in {c} |-> Edge]
  <2>2. WriteRows(rows, {}) /\ DOMAIN rows = {c}
    BY <2>1 DEF QueueCommand, QueueRows
  <2> HIDE DEF rows
  <2>3. \A d \in Command : status'[d] = CASE d \in {c} -> "pending"
                                           [] d \in {} -> "cancelled"
                                           [] OTHER    -> status[d]
    BY <2>2 DEF WriteRows
  <2>4. status'[c] = "pending" /\ \A d \in Command \ {c} : status'[d] = status[d]
    BY <2>3
  <2>5. /\ status[c] = "absent" /\ \A d \in Command \ {c} : d < c => status[d] # "absent"
        /\ UNCHANGED <<handouts, results>>
    BY <2>2 DEF WriteRows, agentVars
  <2>6. ~(c < c)
    BY DEF Command
  <2>7. QED
    BY <2>1, <2>4, <2>5, <2>6 DEF edgeVars, TableInv, RequestsTyped
<1>3. \A d \in Command : d \in Nat
  BY DEF Command
<1>4. \A d \in Rows : d \in Command /\ d < c
  <2> SUFFICES ASSUME NEW d \in Rows PROVE d < c
    BY DEF Rows
  <2>1. d \in Command /\ d # c /\ ~(c < d)
    BY <1>2 DEF Rows, TableInv, OrderInv, RowsInOrder
  <2>2. QED
    BY <1>3, <2>1
<1>5. ~RanOk(c) /\ ~RanOk(c)' /\ \A d \in Command : RanOk(d)' = RanOk(d) \/ d = c
  <2>1. handouts[c] = 0
    BY <1>2 DEF TableInv, OrderInv, HandoutsCounted
  <2>2. ~RanOk(c)
    BY <2>1, RanFacts
  <2>3. QED
    BY <1>2, <2>2 DEF RanOk
<1>6. Rows' = Rows \cup {c}
  BY <1>2 DEF Rows
<1>7. \A K : CommandsOf(K)' = CommandsOf(K) \cup {d \in {c} : k \in K}
  BY <1>2, <1>4, <1>6 DEF CommandsOf
<1>8. \A K : CommandsOf(K) \subseteq Rows
  BY DEF CommandsOf
<1>9. FilterInv'
  <2> SUFFICES ASSUME NEW s \in Scope, NEW d \in Newest(Changes(s))', RanOk(d)',
                      \A e \in Changes(s)' : e < d => handouts'[e] <= 1
               PROVE  s \in filter' <=> request'[d].kind = Block[s]
    BY DEF FilterInv
  <2>1. d \in Changes(s) /\ d # c /\ Changes(s) \subseteq Changes(s)' /\ d \in Command
    BY <1>4, <1>5, <1>7, <1>8 DEF Newest, Changes
  <2>2. d \in Newest(Changes(s))
    BY <2>1 DEF Newest
  <2>3. QED
    BY <1>2, <1>5, <2>1, <2>2 DEF EffectInv, FilterInv
<1>10. NewSyncs' \subseteq NewSyncs \cup {c} /\ (NewSyncs' \subseteq {c} \/ trusted' = trusted)
  BY <1>1, <1>7, <1>8 DEF NewSyncs
<1>11. SyncInv'
  BY <1>2, <1>4, <1>5, <1>8, <1>10 DEF EffectInv, SyncInv, NewSyncs
<1>12. TrustInv'
  <2> SUFFICES ASSUME NEW s \in NewSyncs', NEW d \in CommandsOf(BlockKind)',
                      trusted', s < d, RanOk(s)', handouts'[s] <= 1, RanOk(d)'
               PROVE  FALSE
    BY DEF TrustInv
  <2>1. s # c /\ d # c
    BY <1>5
  <2>2. s \in NewSyncs /\ trusted /\ d \in CommandsOf(BlockKind)
    BY <1>7, <1>10, <2>1
  <2>3. s \in Command /\ d \in Command
    BY <1>4, <1>8, <2>2 DEF NewSyncs
  <2>4. RanOk(s) /\ RanOk(d) /\ handouts[s] <= 1
    BY <1>2, <1>5, <2>1, <2>3
  <2>5. QED
    BY <2>2, <2>4 DEF EffectInv, TrustInv
<1>13. QED
  BY <1>9, <1>11, <1>12 DEF EffectInv

(***************************************************************************)
(* A step that neither makes a command succeed nor touches the Edge host.  *)
(***************************************************************************)
SameRows == request' = request /\ \A c \in Command : status'[c] = "absent" <=> status[c] = "absent"

LEMMA SameRowsFacts ==
  ASSUME SameRows
  PROVE  /\ \A K : CommandsOf(K)' = CommandsOf(K) /\ CommandsOf(K) \subseteq Command
         /\ \A s : Changes(s)' = Changes(s) /\ Changes(s) \subseteq Command
         /\ \A s : Newest(Changes(s))' = Newest(Changes(s))
         /\ before' = before => NewSyncs' = NewSyncs
         /\ NewSyncs \subseteq Command
<1>1. Rows' = Rows /\ Rows \subseteq Command
  BY DEF SameRows, Rows
<1>2. \A K : CommandsOf(K)' = CommandsOf(K) /\ CommandsOf(K) \subseteq Command
  BY <1>1 DEF SameRows, CommandsOf
<1>3. \A s : Changes(s)' = Changes(s) /\ Changes(s) \subseteq Command
  BY <1>2 DEF Changes
<1>4. \A s : Newest(Changes(s))' = Newest(Changes(s))
  BY <1>3 DEF Newest
<1>5. (before' = before => NewSyncs' = NewSyncs) /\ NewSyncs \subseteq Command
  BY <1>2 DEF NewSyncs
<1>6. QED
  BY <1>2, <1>3, <1>4, <1>5

Harmless ==
  /\ SameRows
  /\ UNCHANGED <<trusted, before, edgeTrusted, filter>>
  /\ \A c \in Command : /\ handouts'[c] \in Nat /\ handouts[c] <= handouts'[c]
                        /\ RanOk(c)' => RanOk(c)

LEMMA QuietEffect == TableInv /\ EffectInv /\ Harmless => EffectInv'
<1> SUFFICES ASSUME TableInv, EffectInv, Harmless PROVE EffectInv'
  OBVIOUS
<1>0. SameRows /\ UNCHANGED <<request, trusted, before, edgeTrusted, filter>>
  BY DEF Harmless, SameRows
<1>1. \A c \in Command : handouts'[c] <= 1 => handouts[c] <= 1
  <2> SUFFICES ASSUME NEW c \in Command, handouts'[c] <= 1 PROVE handouts[c] <= 1
    OBVIOUS
  <2>1. handouts[c] \in Nat /\ handouts'[c] \in Nat /\ handouts[c] <= handouts'[c]
    BY RanFacts DEF Harmless
  <2>2. QED
    BY <2>1
<1>2. FilterInv'
  <2> SUFFICES ASSUME NEW s \in Scope, NEW c \in Newest(Changes(s)), RanOk(c)',
                      \A d \in Changes(s) : d < c => handouts'[d] <= 1
               PROVE  s \in filter <=> request[c].kind = Block[s]
    BY <1>0, SameRowsFacts DEF FilterInv
  <2>1. c \in Command /\ Changes(s) \subseteq Command
    BY <1>0, SameRowsFacts DEF Newest
  <2>2. RanOk(c)
    BY <2>1 DEF Harmless
  <2>3. \A d \in Changes(s) : d < c => handouts[d] <= 1
    BY <1>1, <2>1
  <2>4. QED
    BY <2>2, <2>3 DEF EffectInv, FilterInv
<1>3. SyncInv'
  BY <1>0, SameRowsFacts DEF Harmless, EffectInv, SyncInv
<1>4. TrustInv'
  <2> SUFFICES ASSUME NEW s \in NewSyncs, NEW c \in CommandsOf(BlockKind), trusted, s < c,
                      RanOk(s)', handouts'[s] <= 1, RanOk(c)'
               PROVE  FALSE
    BY <1>0, SameRowsFacts DEF TrustInv
  <2>1. s \in Command /\ c \in Command
    BY <1>0, SameRowsFacts
  <2>2. RanOk(s) /\ RanOk(c) /\ handouts[s] <= 1
    BY <1>1, <2>1 DEF Harmless
  <2>3. QED
    BY <2>2 DEF EffectInv, TrustInv
<1>5. QED
  BY <1>2, <1>3, <1>4 DEF EffectInv

\* A poll hands out, reopens and expires, none of which is a success.
LEMMA PollIsHarmless ==
  ASSUME TableInv, ServicePoll(Edge), Quiet, UNCHANGED <<edgeTrusted, filter>>
  PROVE  Harmless
<1>1. PICK reopened \in SUBSET Command, expired \in SUBSET Command, claimed \in SUBSET Command,
           answered \in BOOLEAN :
        /\ \A c \in reopened \cup expired \cup claimed : status[c] # "absent"
        /\ PollEffect(Edge, reopened, expired, claimed, answered)
  BY DEF ServicePoll, Of, WithStatus, OpenStatus
<1>2. \A c \in Command :
        /\ status'[c] = "absent" <=> status[c] = "absent"
        /\ status'[c] = "succeeded" => status[c] = "succeeded"
        /\ handouts'[c] \in Nat /\ handouts[c] <= handouts'[c]
  <2> SUFFICES ASSUME NEW c \in Command
               PROVE  /\ status'[c] = "absent" <=> status[c] = "absent"
                      /\ status'[c] = "succeeded" => status[c] = "succeeded"
                      /\ handouts'[c] \in Nat /\ handouts[c] <= handouts'[c]
    OBVIOUS
  <2>1. status'[c] = CASE c \in claimed  -> "claimed"
                       [] c \in expired  -> "expired"
                       [] c \in reopened -> "pending"
                       [] OTHER          -> status[c]
    BY <1>1 DEF PollEffect
  <2>2. handouts'[c] = IF c \in claimed THEN handouts[c] + 1 ELSE handouts[c]
    BY <1>1 DEF PollEffect
  <2>3. status'[c] \in {"claimed", "expired", "pending"} \/ status'[c] = status[c]
    BY <2>1
  <2>4. c \notin claimed \cup expired \cup reopened => status'[c] = status[c]
    BY <2>1
  <2>5. QED
    BY <1>1, <2>2, <2>3, <2>4, RanFacts
<1>3. \A c \in Command : RanOk(c)' => RanOk(c)
  BY <1>1, <1>2 DEF PollEffect, RanOk
<1>4. QED
  BY <1>2, <1>3 DEF Harmless, SameRows, Quiet

LEMMA ResultIsHarmless ==
  ASSUME TableInv, NEW r \in results, NEW answered \in BOOLEAN, DeliverResult(r, answered), Quiet,
         UNCHANGED <<edgeTrusted, filter>>
  PROVE  Harmless
<1>1. ServiceTypeOK /\ r.cmd \in Command
  BY DEF TableInv, OrderInv, ServiceTypeOK, Result
<1>2. /\ UNCHANGED handouts /\ results' \subseteq results
      /\ status'[r.cmd] = IF r.ok THEN "succeeded" ELSE "failed"
      /\ \A c \in Command : c # r.cmd => status'[c] = status[c]
  BY <1>1 DEF DeliverResult, ServiceTypeOK
<1>3. \A c \in Command : RanOk(c)' => RanOk(c)
  BY <1>2 DEF RanOk
<1>4. status[r.cmd] # "absent"
  BY <1>1, RanFacts DEF HasRun
<1>5. SameRows
  BY <1>2, <1>4 DEF SameRows, Quiet
<1>6. \A c \in Command : handouts'[c] \in Nat /\ handouts[c] <= handouts'[c]
  BY <1>2, RanFacts
<1>7. QED
  BY <1>3, <1>5, <1>6 DEF Harmless, Quiet

LEMMA CancelIsHarmless ==
  ASSUME TableInv, NEW c \in Command, CancelCheck(c) \/ CancelCommit(c), Quiet,
         UNCHANGED <<edgeTrusted, filter>>
  PROVE  Harmless
<1>1. UNCHANGED <<handouts, results>>
  BY DEF CancelCheck, CancelCommit, agentVars
<1>2. \A d \in Command : \/ status'[d] = status[d]
                         \/ (d \in cancelling /\ status'[d] = "cancelled")
  BY DEF CancelCheck, CancelCommit, TableInv, OrderInv, ServiceTypeOK
<1>3. \A d \in Command : RanOk(d)' => RanOk(d)
  BY <1>1, <1>2 DEF RanOk
<1>4. SameRows
  BY <1>2 DEF SameRows, Quiet, TableInv, OrderInv, HandoutsCounted
<1>5. \A d \in Command : handouts'[d] \in Nat /\ handouts[d] <= handouts'[d]
  BY <1>1, RanFacts
<1>6. QED
  BY <1>3, <1>4, <1>5 DEF Harmless, Quiet

LEMMA StillIsHarmless ==
  ASSUME TableInv, UNCHANGED <<status, handouts, results>>, Quiet, UNCHANGED <<edgeTrusted, filter>>
  PROVE  Harmless
<1>1. \A d \in Command : handouts'[d] \in Nat /\ handouts[d] <= handouts'[d]
  BY RanFacts
<1>2. QED
  BY <1>1 DEF Harmless, SameRows, RanOk, Quiet

LEMMA OtherIsHarmless ==
  ASSUME TableInv, [Next]_vars, ~EdgeAgent, ~AllowlistRecord, ~Queues
  PROVE  Harmless
<1>0. Quiet /\ UNCHANGED <<edgeTrusted, filter>>
  BY StepKinds DEF TableInv
<1>1. CASE AgentPolls
  BY <1>0, <1>1, PollIsHarmless DEF AgentPolls
<1>2. CASE \E r \in results, answered \in BOOLEAN : ReceiveResult(r, answered)
  BY <1>0, <1>2, ResultIsHarmless DEF ReceiveResult
<1>3. CASE \E c \in Command : Cancel(c)
  BY <1>0, <1>3, CancelIsHarmless DEF Cancel
<1>4. CASE UNCHANGED <<status, handouts, results>>
  BY <1>0, <1>4, StillIsHarmless
<1>5. CASE Decisions
  BY <1>3, <1>4, <1>5, DecisionKinds DEF TableInv, serviceVars
<1>6. CASE Reputation \/ (\E e \in Event : AnalyzerWrites(e)) \/ SendEvents \/ RunEnds \/ UNCHANGED vars
  BY <1>4, <1>6
  DEF Reputation, ScanStarts, ScanTakesRow, ScanCounts, ScanChecks, ScanStops,
      CheckStarts, CheckEnds, AnalyzerWrites, SendEvents, RunEnds, AbortRun, vars,
      serviceVars
<1>7. CASE \E post \in posts : ReceiveEvents(post) \/ LoseEvents(post)
  BY <1>4, <1>7 DEF ReceiveEvents, LoseEvents, serviceVars
<1>8. QED
  BY <1>1, <1>2, <1>5, <1>6, <1>7 DEF Next

(***************************************************************************)
(* A trust without a sync: no sync is as new as the allowlist any more.    *)
(***************************************************************************)
LEMMA AllowlistEffect == TableInv /\ EffectInv /\ AllowlistRecord => EffectInv'
<1> SUFFICES ASSUME TableInv, EffectInv, AllowlistRecord PROVE EffectInv'
  OBVIOUS
<1>1. UNCHANGED <<status, handouts, results, request, edgeTrusted, filter>>
  BY DEF AllowlistRecord, serviceVars, edgeVars
<1>2. CASE trusted
  <2>1. Quiet
    BY <1>2 DEF AllowlistRecord, Quiet
  <2>2. QED
    BY <1>1, <2>1, StillIsHarmless, QuietEffect
<1>3. CASE ~trusted
  <2>1. SameRows /\ \A c : RanOk(c)' = RanOk(c)
    BY <1>1 DEF SameRows, RanOk
  <2>2. NewSyncs' = {}
    BY <1>3, <2>1, SameRowsFacts DEF AllowlistRecord, NewSyncs, CommandsOf
  <2>3. FilterInv'
    BY <1>1, <2>1, SameRowsFacts DEF EffectInv, FilterInv
  <2>4. QED
    BY <2>2, <2>3 DEF EffectInv, SyncInv, TrustInv
<1>4. QED
  BY <1>2, <1>3

(***************************************************************************)
(* Executions.  Only the command that is run may come to be reported.      *)
(***************************************************************************)
Executes(k, ok) ==
  /\ UNCHANGED <<status, handouts, request, trusted, before>>
  /\ \A c \in Command : RanOk(c)' => RanOk(c) \/ (ok /\ c = Current(Edge))
  /\ Working({k})

LEMMA ExecutionFacts ==
  ASSUME NEW k, Working({k}), NEW ok \in BOOLEAN,
         RunCommand(Edge, ok, "done") \/ AbortRun(Edge), UNCHANGED rowVars
  PROVE  Executes(k, ok) /\ SameRows
  BY DEF RunCommand, AbortRun, RanOk, Executes, SameRows, rowVars

\* An execution that fails or does not report, and changes nothing.
LEMMA FailureEffect ==
  ASSUME TableInv, EffectInv, NEW k, Executes(k, FALSE), SameRows, UNCHANGED <<edgeTrusted, filter>>
  PROVE  EffectInv'
<1>1. \A c \in Command : handouts'[c] \in Nat /\ handouts[c] <= handouts'[c]
  BY RanFacts DEF Executes
<1>2. Harmless
  BY <1>1 DEF Executes, Harmless
<1>3. QED
  BY <1>2, QuietEffect

(***************************************************************************)
(* The newest change of a scope has been run after every older one that    *)
(* was handed out once, so none of them changes the list again.            *)
(***************************************************************************)
LEMMA FilterEffect ==
  ASSUME TableInv, EffectInv, NEW s \in Scope, NEW k \in {Block[s], Unblock[s]},
         NEW ok \in BOOLEAN, Executes(k, ok), SameRows,
         \A t \in Scope : t # s => (t \in filter' <=> t \in filter),
         s \in filter' <=> k = Block[s]
  PROVE  FilterInv'
<1> SUFFICES ASSUME NEW t \in Scope, NEW c \in Newest(Changes(t)), RanOk(c)',
                    \A d \in Changes(t) : d < c => handouts[d] <= 1
             PROVE  t \in filter' <=> request[c].kind = Block[t]
  BY SameRowsFacts DEF FilterInv, Executes
<1>1. Current(Edge) \in Changes(s) /\ Current(Edge) \in Command /\ request[Current(Edge)].kind = k
  BY WorkingFacts DEF Executes, CommandsOf, Changes
<1>2. c \in Changes(t) /\ c \in Command
  BY SameRowsFacts DEF Newest
<1>3. CASE t # s
  <2>1. c # Current(Edge)
    BY <1>1, <1>2, <1>3, ScopeKinds DEF Changes, CommandsOf
  <2>2. RanOk(c)
    BY <1>2, <2>1 DEF Executes
  <2>3. QED
    BY <1>3, <2>2 DEF EffectInv, FilterInv
<1>4. CASE t = s /\ c = Current(Edge)
  BY <1>1, <1>4
<1>5. CASE t = s /\ c # Current(Edge)
  <2>1. Current(Edge) <= c
    BY <1>1, <1>5 DEF Newest
  <2>2. Current(Edge) < c
    BY <1>1, <1>2, <1>5, <2>1 DEF Command
  <2>3. ~RanOk(c)
    BY <1>1, <1>2, <1>5, <2>2, OldestFirst DEF Executes
  <2>4. QED
    BY <1>2, <1>5, <2>3 DEF Executes
<1>6. QED
  BY <1>3, <1>4, <1>5

LEMMA BlockEffect ==
  ASSUME TableInv, EffectInv, BlockDomain, UNCHANGED rowVars
  PROVE  EffectInv'
<1>1. PICK s \in Scope :
        /\ Working({Block[s]}) /\ UNCHANGED edgeTrusted
        /\ \/ ~edgeTrusted /\ filter' = filter \cup {s} /\ (Succeeds \/ AbortRun(Edge))
           \/ UNCHANGED filter /\ Fails
  BY DEF BlockDomain
<1>2. CASE UNCHANGED filter /\ Fails
  BY <1>1, <1>2, ExecutionFacts, FailureEffect DEF Fails
<1>3. CASE ~edgeTrusted /\ filter' = filter \cup {s} /\ (Succeeds \/ AbortRun(Edge))
  <2>1. Executes(Block[s], TRUE) /\ SameRows
    BY <1>1, <1>3, ExecutionFacts DEF Succeeds
  <2>2. FilterInv'
    <3>1. \A t \in Scope : t # s => (t \in filter' <=> t \in filter)
      BY <1>3
    <3>2. s \in filter' <=> Block[s] = Block[s]
      BY <1>3
    <3>3. QED
      BY <2>1, <3>1, <3>2, FilterEffect
  <2>3. /\ Current(Edge) \in Command /\ request[Current(Edge)].kind = Block[s]
        /\ Current(Edge) \in CommandsOf(BlockKind) /\ Current(Edge) \notin NewSyncs
    BY <1>1, WorkingFacts, ScopeKinds DEF CommandsOf, NewSyncs
  <2>4. NewSyncs' = NewSyncs /\ NewSyncs \subseteq Command
    BY <2>1, SameRowsFacts DEF Executes
  <2>5. \A u \in NewSyncs : RanOk(u)' => RanOk(u)
    BY <2>1, <2>3, <2>4 DEF Executes
  <2>6. SyncInv'
    BY <1>1, <2>1, <2>4, <2>5 DEF EffectInv, SyncInv, Executes
  <2>7. TrustInv'
    <3> SUFFICES ASSUME NEW u \in NewSyncs, NEW c \in CommandsOf(BlockKind),
                        trusted, u < c, RanOk(u)', handouts[u] <= 1, RanOk(c)'
                 PROVE  FALSE
      BY <2>1, <2>4, SameRowsFacts DEF TrustInv, Executes
    <3>1. RanOk(u) /\ edgeTrusted = trusted
      BY <2>5 DEF EffectInv, SyncInv
    <3>2. QED
      BY <1>3, <3>1
  <2>8. QED
    BY <2>2, <2>6, <2>7 DEF EffectInv
<1>4. QED
  BY <1>1, <1>2, <1>3

LEMMA UnblockEffect ==
  ASSUME TableInv, EffectInv, UnblockDomainOnEdge, UNCHANGED rowVars
  PROVE  EffectInv'
<1>1. PICK s \in Scope :
        /\ Working({Unblock[s]}) /\ UNCHANGED edgeTrusted
        /\ \/ filter' = filter \ {s} /\ (Succeeds \/ AbortRun(Edge))
           \/ UNCHANGED filter /\ Fails
  BY DEF UnblockDomainOnEdge
<1>2. CASE UNCHANGED filter /\ Fails
  BY <1>1, <1>2, ExecutionFacts, FailureEffect DEF Fails
<1>3. CASE filter' = filter \ {s} /\ (Succeeds \/ AbortRun(Edge))
  <2>1. Executes(Unblock[s], TRUE) /\ SameRows
    BY <1>1, <1>3, ExecutionFacts DEF Succeeds
  <2>2. FilterInv'
    <3>1. \A t \in Scope : t # s => (t \in filter' <=> t \in filter)
      BY <1>3
    <3>2. s \in filter' <=> Unblock[s] = Block[s]
      BY <1>3, ScopeKinds
    <3>3. QED
      BY <2>1, <3>1, <3>2, FilterEffect
  <2>3. /\ Current(Edge) \in Command
        /\ \A c \in NewSyncs \cup CommandsOf(BlockKind) : c # Current(Edge)
    <3>1. Current(Edge) \in Command /\ request[Current(Edge)].kind = Unblock[s]
      BY <1>1, WorkingFacts
    <3>2. Unblock[s] \notin BlockKind /\ Unblock[s] # "SyncAllowlist"
      BY ScopeKinds
    <3>3. QED
      BY <3>1, <3>2 DEF CommandsOf, NewSyncs
  <2>4. NewSyncs' = NewSyncs /\ NewSyncs \subseteq Command /\ CommandsOf(BlockKind) \subseteq Command
    BY <2>1, SameRowsFacts DEF Executes
  <2>5. \A c \in NewSyncs \cup CommandsOf(BlockKind) : RanOk(c)' => RanOk(c)
    BY <2>1, <2>3, <2>4 DEF Executes
  <2>6. SyncInv'
    BY <1>1, <2>1, <2>4, <2>5 DEF EffectInv, SyncInv, Executes
  <2>7. TrustInv'
    BY <2>1, <2>4, <2>5, SameRowsFacts DEF EffectInv, TrustInv, Executes
  <2>8. QED
    BY <2>2, <2>6, <2>7 DEF EffectInv
<1>4. QED
  BY <1>1, <1>2, <1>3

\* A sync that is run for the first time comes before every block that was queued after it.
LEMMA SyncEffect ==
  ASSUME TableInv, EffectInv, SyncAllowlist, UNCHANGED rowVars
  PROVE  EffectInv'
<1>1. /\ Working({"SyncAllowlist"}) /\ UNCHANGED filter
      /\ \/ edgeTrusted' = trusted /\ (Succeeds \/ AbortRun(Edge))
         \/ UNCHANGED edgeTrusted /\ Fails
  BY DEF SyncAllowlist
<1>2. CASE UNCHANGED edgeTrusted /\ Fails
  BY <1>1, <1>2, ExecutionFacts, FailureEffect DEF Fails
<1>3. CASE edgeTrusted' = trusted /\ (Succeeds \/ AbortRun(Edge))
  <2>1. Executes("SyncAllowlist", TRUE) /\ SameRows
    BY <1>1, <1>3, ExecutionFacts DEF Succeeds
  <2>2. SyncInv'
    BY <1>3, <2>1 DEF SyncInv, Executes
  <2>3. Current(Edge) \in Command /\ request[Current(Edge)].kind = "SyncAllowlist"
    BY <1>1, WorkingFacts
  <2>4. \A c \in Command : request[c].kind # "SyncAllowlist" /\ RanOk(c)' => RanOk(c)
    BY <2>1, <2>3 DEF Executes
  <2>5. FilterInv'
    <3> SUFFICES ASSUME NEW s \in Scope, NEW c \in Newest(Changes(s)), RanOk(c)',
                        \A d \in Changes(s) : d < c => handouts[d] <= 1
                 PROVE  s \in filter <=> request[c].kind = Block[s]
      BY <1>1, <2>1, SameRowsFacts DEF FilterInv, Executes
    <3>1. c \in Command /\ request[c].kind # "SyncAllowlist"
      BY ScopeKinds DEF Newest, Changes, CommandsOf, Rows
    <3>2. QED
      BY <2>4, <3>1 DEF EffectInv, FilterInv
  <2>6. TrustInv'
    <3> SUFFICES ASSUME NEW u \in NewSyncs, NEW c \in CommandsOf(BlockKind),
                        trusted, u < c, RanOk(u)', handouts[u] <= 1, RanOk(c)'
                 PROVE  FALSE
      BY <2>1, SameRowsFacts DEF TrustInv, Executes
    <3>1. c \in Command /\ u \in Command /\ RanOk(c)
      BY <2>4, ScopeKinds DEF CommandsOf, NewSyncs, Rows
    <3>2. CASE u = Current(Edge)
      BY <1>1, <3>1, <3>2, OldestFirst
    <3>3. CASE u # Current(Edge)
      BY <2>1, <3>1, <3>3 DEF Executes, EffectInv, TrustInv
    <3>4. QED
      BY <3>2, <3>3
  <2>7. QED
    BY <2>2, <2>5, <2>6 DEF EffectInv
<1>4. QED
  BY <1>1, <1>2, <1>3

LEMMA BlockIpEffect ==
  ASSUME TableInv, EffectInv, BlockIp, UNCHANGED rowVars
  PROVE  EffectInv'
<1>1. PICK ok \in BOOLEAN : RunCommand(Edge, ok, "done")
  BY DEF BlockIp, Succeeds, Fails
<1>2. Executes("BlockIp", ok) /\ SameRows /\ UNCHANGED <<edgeTrusted, filter>>
  BY <1>1, ExecutionFacts DEF BlockIp
<1>3. /\ Current(Edge) \in Command
      /\ \A K : {"BlockIp"} \cap K = {} => \A c \in CommandsOf(K) : RanOk(c)' => RanOk(c)
  BY <1>2, WorkingFacts DEF Executes, CommandsOf, Rows
<1>4. FilterInv'
  <2>1. \A s \in Scope : \A c \in Changes(s) : RanOk(c)' => RanOk(c)
    BY <1>3, ScopeKinds DEF Changes
  <2>2. QED
    BY <1>2, <2>1, SameRowsFacts DEF EffectInv, FilterInv, Executes, Newest
<1>5. \A c \in NewSyncs : RanOk(c)' => RanOk(c)
  BY <1>3 DEF NewSyncs
<1>6. \A c \in CommandsOf(BlockKind) : RanOk(c)' => RanOk(c)
  BY <1>3, ScopeKinds
<1>7. SyncInv' /\ TrustInv'
  BY <1>2, <1>5, <1>6, SameRowsFacts DEF EffectInv, SyncInv, TrustInv, Executes
<1>8. QED
  BY <1>4, <1>7 DEF EffectInv

LEMMA EffectStep == TableInv /\ EffectInv /\ [Next]_vars => EffectInv'
<1>1. TableInv /\ EffectInv /\ EdgeAgent => EffectInv'
  BY BlockEffect, UnblockEffect, SyncEffect, BlockIpEffect DEF EdgeAgent
<1>2. QED
  BY <1>1, QueuesEffect, AllowlistEffect, OtherIsHarmless, QuietEffect

LEMMA Invariants == Spec => [](TableInv /\ EffectInv)
  BY TableInit, TableInvStep, EffectInit, EffectStep, PTL DEF Spec

(***************************************************************************)
(* The sender filter holds the domain exactly if its newest block or       *)
(* unblock that has succeeded is a block.                                  *)
(***************************************************************************)
THEOREM FilterFollows == Spec => []FilterFollowsNewest
<1>1. EffectInv => FilterFollowsNewest
  BY DEF EffectInv, FilterInv, FilterFollowsNewest, RanOk, Changes
<1>2. QED
  BY <1>1, Invariants, PTL

(***************************************************************************)
(* No block of a trusted domain succeeds that was queued after a sync that *)
(* brought the trust to the Edge host.                                     *)
(***************************************************************************)
THEOREM TrustedStaysUnblocked == Spec => []TrustedNotBlocked
<1>1. EffectInv => TrustedNotBlocked
  BY DEF EffectInv, TrustInv, TrustedNotBlocked, RanOk, NewSyncs
<1>2. QED
  BY <1>1, Invariants, PTL

-----------------------------------------------------------------------------
(***************************************************************************)
(* What the tracking log can count, and what a check can score.            *)
(***************************************************************************)
LEMMA FiniteImage ==
  ASSUME NEW S, IsFiniteSet(S), NEW f, DOMAIN f = S
  PROVE  IsFiniteSet({f[x] : x \in S})
<1> DEFINE T == {f[x] : x \in S}
           g == [x \in S |-> f[x]]
<1>1. g \in Surjection(S, T)
  BY DEF Surjection
<1> HIDE DEF g
<1>2. QED
  BY <1>1, FS_Surjection

LEMMA DiscoveredTyped == Discoveries \subseteq Traffic
<1> SUFFICES ASSUME NEW log \in SUBSET TrackingRow PROVE Discovered(log) \in Traffic
  BY DEF Discoveries
<1> DEFINE received == {r \in log : r.way = "Incoming" /\ r.to \cap Inside # {}}
           messages == {<<r.msg, r.to>> : r \in received}
           all      == {<<r.msg, r.to>> : r \in Incoming}
           inboxes  == {p \in Inside : \E r \in received : p \in r.to}
           sentOut  == {<<r.msg, r.to>> : r \in log \ Incoming}
           pairs    == {{key} \X (key[2] \ Inside) : key \in sentOut}
<1>1. IsFiniteSet(Incoming) /\ IsFiniteSet(Inside) /\ IsFiniteSet(log \ Incoming)
  BY ReputationAssumption, FS_Subset DEF Incoming
<1>2. Cardinality(messages) \in 0..Cardinality(all)
  <2> DEFINE f == [r \in Incoming |-> <<r.msg, r.to>>]
  <2>1. IsFiniteSet({f[r] : r \in Incoming})
    <3> DOMAIN f = Incoming
      OBVIOUS
    <3> HIDE DEF f
    <3> QED
      BY <1>1, FiniteImage
  <2>2. all = {f[r] : r \in Incoming} /\ messages \subseteq all
    BY DEF Incoming
  <2> HIDE DEF f, messages, all
  <2>3. IsFiniteSet(all) /\ IsFiniteSet(messages) /\ Cardinality(messages) <= Cardinality(all)
    BY <2>1, <2>2, FS_Subset
  <2>4. QED
    BY <2>3, FS_CardinalityType
<1>3. Cardinality(inboxes) \in 0..Cardinality(Inside)
  <2>1. inboxes \subseteq Inside
    OBVIOUS
  <2> HIDE DEF inboxes
  <2>2. QED
    BY <1>1, <2>1, FS_Subset, FS_CardinalityType
<1>4. Cardinality(UNION pairs) \in Nat
  <2> DEFINE f == [r \in log \ Incoming |-> <<r.msg, r.to>>]
             g == [key \in sentOut |-> {key} \X (key[2] \ Inside)]
  <2>1. IsFiniteSet(sentOut)
    <3>1. sentOut = {f[r] : r \in log \ Incoming} /\ DOMAIN f = log \ Incoming
      OBVIOUS
    <3> HIDE DEF f, sentOut
    <3>2. QED
      BY <1>1, <3>1, FiniteImage
  <2>2. ASSUME NEW key \in sentOut PROVE IsFiniteSet({key} \X (key[2] \ Inside))
    <3> DEFINE outside == key[2] \ Inside
    <3>1. IsFiniteSet(key[2]) /\ outside \subseteq key[2]
      BY <2>2, ReputationAssumption
    <3> HIDE DEF outside
    <3>2. IsFiniteSet(outside) /\ IsFiniteSet({key})
      BY <3>1, FS_Subset, FS_Singleton
    <3>3. IsFiniteSet({key} \X outside)
      BY <3>2, FS_Product
    <3>4. QED
      BY <3>3 DEF outside
  <2>3. \A T \in pairs : IsFiniteSet(T)
    BY <2>2
  <2> HIDE DEF sentOut
  <2>4. pairs = {g[key] : key \in sentOut} /\ DOMAIN g = sentOut
    OBVIOUS
  <2> HIDE DEF g, pairs
  <2>5. IsFiniteSet(pairs)
    BY <2>1, <2>4, FiniteImage
  <2>6. QED
    BY <2>3, <2>5, FS_UNION, FS_CardinalityType
<1>5. Discovered(log) = [inbound |-> Cardinality(messages), recipients |-> Cardinality(inboxes),
                         outbound |-> Cardinality(UNION pairs)]
  BY DEF Discovered
<1> HIDE DEF received, messages, all, inboxes, sentOut, pairs
<1>6. QED
  BY <1>2, <1>3, <1>4, <1>5 DEF Traffic, all

LEMMA PointsTyped ==
  ASSUME NEW e \in Evidence, candidate \in CandidateRow
  PROVE  /\ DblPoints[Signals[e].dbl] \in Nat /\ YoungPoints[Signals[e].young] \in 0..25
         /\ IpPoints[Signals[e].ip] \in Nat /\ VirusTotalPoints(Signals[e]) \in Nat
         /\ CandidatePoints \in Nat
         /\ \A b : /\ When(b, 3) \in 0..3 /\ When(b, 8) \in 0..8
                  /\ When(b, 30) \in Nat /\ (~b => When(b, 30) = 0)
<1>1. Signals[e] \in Signal
  BY ReputationAssumption
<1>2. DblPoints[Signals[e].dbl] \in Nat
  BY <1>1 DEF Signal, DblPoints
<1>3. YoungPoints[Signals[e].young] \in 0..25
  BY <1>1 DEF Signal, YoungPoints
<1>4. IpPoints[Signals[e].ip] \in Nat
  BY <1>1 DEF Signal, IpPoints
<1>5. VirusTotalPoints(Signals[e]) \in Nat
  BY DEF VirusTotalPoints
<1>6. CandidatePoints \in Nat
  <2>1. candidate.hits \in Hits \cup {0}
    BY DEF CandidateRow
  <2>2. candidate.hits \in Nat
    <3>1. Hits \cup {0} \subseteq Nat
      BY ReputationAssumption
    <3>2. QED
      BY <2>1, <3>1
  <2> DEFINE points == 10 + 10 * candidate.hits
  <2>3. points \in Nat
    BY <2>2
  <2> HIDE DEF points
  <2>4. AtMost(40, points) \in Nat
    BY <2>3 DEF AtMost
  <2>5. QED
    BY <2>4 DEF CandidatePoints, When, points
<1>7. \A b : /\ When(b, 3) \in 0..3 /\ When(b, 8) \in 0..8
            /\ When(b, 30) \in Nat /\ (~b => When(b, 30) = 0)
  BY DEF When
<1>8. QED
  BY <1>2, <1>3, <1>4, <1>5, <1>6, <1>7

\* A domain that no provider lists and no candidate sends for scores less than 60.
LEMMA ScoreFacts ==
  ASSUME candidate \in CandidateRow, NEW e \in Evidence, NEW t \in Traffic
  PROVE  /\ Score(e, t) \in 0..100
         /\ ~Listed(Signals[e]) /\ ~candidate.known => Score(e, t) < 60
<1> DEFINE dbl   == DblPoints[Signals[e].dbl]
           zrd   == When(Signals[e].zrd, 30)
           vt    == VirusTotalPoints(Signals[e])
           young == YoungPoints[Signals[e].young]
           mx    == When(~Signals[e].mx, 8)
           spf   == When(~Signals[e].spf, 3)
           dmarc == When(~Signals[e].dmarc, 3)
           ip    == IpPoints[Signals[e].ip]
           volume  == When(t.inbound >= ManyMessages, 8)
           breadth == When(t.recipients >= ManyRecipients, 8)
<1>1. /\ dbl \in Nat /\ zrd \in Nat /\ vt \in Nat /\ young \in 0..25 /\ mx \in 0..8
      /\ spf \in 0..3 /\ dmarc \in 0..3 /\ ip \in Nat /\ CandidatePoints \in Nat
      /\ volume \in 0..8 /\ breadth \in 0..8
  BY PointsTyped
<1>2. ~Listed(Signals[e]) => dbl = 0 /\ zrd = 0 /\ vt = 0 /\ ip = 0
  <2> SUFFICES ASSUME ~Listed(Signals[e]) PROVE dbl = 0 /\ zrd = 0 /\ vt = 0 /\ ip = 0
    OBVIOUS
  <2>1. Signals[e] \in Signal
    BY ReputationAssumption
  <2>2. dbl = 0 /\ zrd = 0 /\ ip = 0
    BY DEF Listed, DblPoints, IpPoints, When
  <2>3. vt = 0
    BY <2>1 DEF Listed, VirusTotalPoints, Signal
  <2>4. QED
    BY <2>2, <2>3
<1>3. ~candidate.known => CandidatePoints = 0
  BY DEF CandidatePoints, When
<1>4. Score(e, t) = AtMost(100, dbl + zrd + vt + young + mx + spf + dmarc + ip
                                  + CandidatePoints + volume + breadth)
  BY DEF Score
<1> HIDE DEF dbl, zrd, vt, young, mx, spf, dmarc, ip, volume, breadth
<1>5. QED
  BY <1>1, <1>2, <1>3, <1>4 DEF AtMost

LEMMA AdviceTyped == \A n, t : Advised(n, t) \in Advice
  BY DEF Advised, Advice

LEMMA CheckedTyped ==
  ASSUME candidate \in CandidateRow, NEW was \in Record, NEW e \in Evidence, NEW t \in Traffic
  PROVE  Checked(was, t, e) \in Record
<1>1. Score(e, t) \in 0..100
  BY ScoreFacts
<1> DEFINE score == Score(e, t)
           advice == Advised(score, t)
<1>2. score \in 0..100 /\ advice \in Advice
  BY <1>1, AdviceTyped
<1>3. Checked(was, t, e) = [was EXCEPT !.traffic = t, !.score = score, !.advice = advice,
                                       !.evidence = e]
  BY DEF Checked
<1> HIDE DEF score, advice
<1>4. QED
  BY <1>2, <1>3 DEF Record

LEMMA CommitTyped ==
  ASSUME record \in Record, NEW was \in Record, NEW new \in Record, Commits(was, new)
  PROVE  record' \in Record /\ mixed' \in BOOLEAN /\ record'.status = record.status
  BY DEF Commits, Saved, Column, Stale, Record

-----------------------------------------------------------------------------
(***************************************************************************)
(* The steps that write the record, and those that write the candidate.    *)
(***************************************************************************)
TypeInv == TypeOK /\ TableInv

Writes ==
  \E was \in Record, new \in Record :
    /\ Commits(was, new)
    /\ \/ \E e \in Evidence, t \in Traffic : new = Checked(was, t, e)
       \/ new.evidence = Failed

Results == \E r \in results, answered \in BOOLEAN : ReceiveResult(r, answered)

LEMMA RecordKinds ==
  ASSUME TypeInv, [Next]_vars
  PROVE  UNCHANGED <<record, mixed>> \/ Writes \/ ScanCounts \/ DismissRecord \/ AllowlistRecord
         \/ Results
<1>1. CASE Decisions
  BY <1>1 DEF Decisions, BlockCheck, BlockCommit, ChangeAllowlist, ApproveCandidate, Cancel,
              UnblockDomain, DismissCandidate, rowVars, scanVars
<1>2. CASE ScanChecks
  <2>1. PICK s \in scan :
          \/ \E e \in Evidence : Commits(s.was, Checked(s.was, s.found, e))
          \/ Commits(s.was, [s.was EXCEPT !.traffic = s.found, !.evidence = Failed])
    BY <1>2 DEF ScanChecks
  <2>2. s.was \in Record /\ s.found \in Traffic /\ candidate \in CandidateRow
    BY DEF TypeInv, TypeOK
  <2>3. ASSUME NEW e \in Evidence, Commits(s.was, Checked(s.was, s.found, e)) PROVE Writes
    BY <2>2, <2>3, CheckedTyped DEF Writes
  <2>4. ASSUME Commits(s.was, [s.was EXCEPT !.traffic = s.found, !.evidence = Failed]) PROVE Writes
    <3> DEFINE new == [s.was EXCEPT !.traffic = s.found, !.evidence = Failed]
    <3>1. new \in Record /\ new.evidence = Failed
      BY <2>2 DEF Record
    <3> HIDE DEF new
    <3>2. Commits(s.was, new)
      BY <2>4 DEF new
    <3>3. QED
      BY <2>2, <3>1, <3>2 DEF Writes
  <2>5. QED
    BY <2>1, <2>3, <2>4
<1>3. CASE CheckEnds
  <2>1. PICK was \in checks : \/ \E e \in Evidence : Commits(was, Checked(was, was.traffic, e))
                             \/ UNCHANGED <<record, mixed>>
    BY <1>3 DEF CheckEnds
  <2>2. was \in Record /\ was.traffic \in Traffic /\ candidate \in CandidateRow
    BY DEF TypeInv, TypeOK, Record
  <2>3. ASSUME NEW e \in Evidence, Commits(was, Checked(was, was.traffic, e)) PROVE Writes
    BY <2>2, <2>3, CheckedTyped DEF Writes
  <2>4. QED
    BY <2>1, <2>3
<1>4. CASE ScanStarts \/ ScanTakesRow \/ ScanStops \/ CheckStarts
  BY <1>4 DEF ScanStarts, ScanTakesRow, ScanStops, CheckStarts, rowVars
<1>5. CASE SendEvents \/ AgentPolls \/ RunEnds \/ EdgeAgent \/ \E e \in Event : AnalyzerWrites(e)
  BY <1>5 DEF SendEvents, AgentPolls, RunEnds, EdgeAgent, AnalyzerWrites, rowVars, scanVars
<1>6. CASE \E post \in posts : ReceiveEvents(post) \/ LoseEvents(post)
  BY <1>6 DEF ReceiveEvents, LoseEvents, rowVars, scanVars
<1>7. CASE UNCHANGED vars
  BY <1>7 DEF vars, rowVars, scanVars
<1>8. QED
  BY <1>1, <1>2, <1>3, <1>4, <1>5, <1>6, <1>7 DEF Next, Reputation, Results

LEMMA CandidateKinds ==
  ASSUME [Next]_vars
  PROVE  UNCHANGED candidate \/ (\E c \in Command : ApproveCandidate(c)) \/ DismissCandidate
         \/ (\E post \in posts : ReceiveEvents(post)) \/ Results
  BY DEF Next, Decisions, BlockCheck, BlockCommit, ChangeAllowlist, Cancel, UnblockDomain,
         DismissRecord, AllowlistRecord, Reputation, ScanStarts, ScanTakesRow, ScanCounts,
         ScanChecks, ScanStops, CheckStarts, CheckEnds, SendEvents, AgentPolls, RunEnds, EdgeAgent,
         AnalyzerWrites, LoseEvents, Results, rowVars, vars

LEMMA RecordTyped == TypeInv /\ [Next]_vars => record' \in Record /\ mixed' \in BOOLEAN
<1> SUFFICES ASSUME TypeInv, [Next]_vars PROVE record' \in Record /\ mixed' \in BOOLEAN
  OBVIOUS
<1>t. record \in Record /\ mixed \in BOOLEAN
  BY DEF TypeInv, TypeOK
<1>1. CASE Writes
  BY <1>t, <1>1, CommitTyped DEF Writes
<1>2. CASE ScanCounts
  <2>1. \A s \in scan : s.found \in Traffic
    BY DEF TypeInv, TypeOK
  <2>2. QED
    BY <1>t, <1>2, <2>1 DEF ScanCounts, Record
<1>3. CASE DismissRecord \/ AllowlistRecord
  BY <1>t, <1>3 DEF DismissRecord, AllowlistRecord, Record
<1>4. CASE Results
  BY <1>t, <1>4 DEF Results, ReceiveResult, scanVars, Record
<1>5. QED
  BY <1>t, <1>1, <1>2, <1>3, <1>4, RecordKinds

\* An event that is fed has hits that are some.
LEMMA FedTyped ==
  ASSUME TypeInv, NEW new \in SUBSET (1..Len(events)), new # {}
  PROVE  Fed(new) \in CandidateRow
<1>1. Len(events) \in Nat /\ \A e \in 1..Len(events) : events[e].hits \in Hits
  <2>1. events \in Seq(Event)
    BY DEF TypeInv, TypeOK
  <2>2. Len(events) \in Nat /\ \A e \in 1..Len(events) : events[e] \in Event
    BY <2>1
  <2>3. QED
    BY <2>2 DEF Event
<1>2. PICK last \in new : \A d \in new : d <= last
  BY <1>1, BoundedHasGreatest
<1> DEFINE chosen == CHOOSE e \in new : \A d \in new : d <= e
<1>3. chosen \in new
  BY <1>2
<1>4. Fed(new) = [known |-> TRUE,
                  status |-> IF \E e \in new : events[e].action = "Blocked" THEN "blocked"
                                                                            ELSE candidate.status,
                  hits |-> events[chosen].hits]
  BY DEF Fed
<1> HIDE DEF chosen
<1>5. candidate.status \in {"open", "approved", "dismissed", "blocked"}
  BY DEF TypeInv, TypeOK, CandidateRow
<1>6. QED
  BY <1>1, <1>3, <1>4, <1>5 DEF CandidateRow

LEMMA CandidateTyped == TypeInv /\ [Next]_vars => candidate' \in CandidateRow
<1> SUFFICES ASSUME TypeInv, [Next]_vars PROVE candidate' \in CandidateRow
  OBVIOUS
<1>t. candidate \in CandidateRow
  BY DEF TypeInv, TypeOK
<1>1. CASE \E c \in Command : ApproveCandidate(c)
  BY <1>t, <1>1 DEF ApproveCandidate, CandidateRow
<1>2. CASE DismissCandidate
  BY <1>t, <1>2 DEF DismissCandidate, CandidateRow
<1>3. CASE \E post \in posts : ReceiveEvents(post)
  <2>1. PICK post \in posts : candidate' = Feed(post)
    BY <1>3 DEF ReceiveEvents
  <2>2. post \subseteq 1..Len(events)
    BY DEF TypeInv, TypeOK
  <2>3. CASE post \subseteq seen
    BY <1>t, <2>1, <2>3 DEF Feed
  <2>4. CASE ~(post \subseteq seen)
    <3>1. post \ seen # {} /\ post \ seen \in SUBSET (1..Len(events))
      BY <2>2, <2>4
    <3>2. QED
      BY <2>1, <2>4, <3>1, FedTyped DEF Feed
  <2>5. QED
    BY <2>3, <2>4
<1>4. CASE Results
  BY <1>t, <1>4 DEF Results, ReceiveResult, CandidateRow
<1>5. QED
  BY <1>t, <1>1, <1>2, <1>3, <1>4, CandidateKinds

LEMMA MessagesFinite == IsFiniteSet({<<r.msg, r.to>> : r \in Incoming})
<1> DEFINE f == [r \in Incoming |-> <<r.msg, r.to>>]
<1>1. IsFiniteSet(Incoming) /\ DOMAIN f = Incoming
  BY ReputationAssumption, FS_Subset DEF Incoming
<1>2. {<<r.msg, r.to>> : r \in Incoming} = {f[r] : r \in Incoming}
  OBVIOUS
<1> HIDE DEF f
<1>3. QED
  BY <1>1, <1>2, FiniteImage

LEMMA NoRecordTyped == NoTraffic \in Traffic /\ NoRecord \in Record
<1> DEFINE most == Cardinality({<<r.msg, r.to>> : r \in Incoming})
           all  == Cardinality(Inside)
<1>1. most \in Nat /\ all \in Nat
  BY MessagesFinite, FS_CardinalityType, ReputationAssumption
<1>2. Traffic = [inbound : 0..most, recipients : 0..all, outbound : Nat]
  BY DEF Traffic
<1> HIDE DEF most, all
<1>5. NoTraffic \in Traffic
  BY <1>1, <1>2 DEF NoTraffic
<1>6. "open" \in {"open", "dismissed", "blocked", "allowlisted"} /\ 0 \in 0..100
      /\ "monitor" \in Advice /\ Nothing \in Evidence \cup {Nothing, Failed}
  BY DEF Advice
<1>7. NoRecord \in Record
  BY <1>5, <1>6 DEF NoRecord, Record
<1>8. QED
  BY <1>5, <1>7

ScanRow == [stage : {"row", "check"}, found : Traffic, was : Record]

LEMMA OneScan ==
  ASSUME NEW x \in ScanRow
  PROVE  {x} \subseteq ScanRow /\ Cardinality({x}) <= 1
<1>1. Cardinality({x}) = 1
  BY FS_Singleton
<1>2. QED
  BY <1>1

LEMMA ScanTyped ==
  ASSUME TypeInv, [Next]_vars
  PROVE  /\ scan' \subseteq ScanRow /\ Cardinality(scan') <= 1
         /\ checks' \subseteq Record /\ started' \in Nat
<1>t. /\ record \in Record /\ checks \subseteq Record /\ started \in Nat
      /\ scan \subseteq ScanRow /\ Cardinality(scan) <= 1
  BY DEF TypeInv, TypeOK, ScanRow
<1>1. CASE ScanStarts
  <2>1. PICK t \in Discoveries : \E out \in {0, t.outbound} :
          scan' = {[stage |-> "row", found |-> [t EXCEPT !.outbound = out], was |-> NoRecord]}
    BY <1>1 DEF ScanStarts
  <2>2. PICK out \in {0, t.outbound} :
          scan' = {[stage |-> "row", found |-> [t EXCEPT !.outbound = out], was |-> NoRecord]}
    BY <2>1
  <2>3. [t EXCEPT !.outbound = out] \in Traffic
    BY DiscoveredTyped DEF Traffic
  <2> DEFINE x == [stage |-> "row", found |-> [t EXCEPT !.outbound = out], was |-> NoRecord]
  <2>4. x \in ScanRow
    BY <2>3, NoRecordTyped DEF ScanRow
  <2>5. scan' = {x}
    BY <2>2
  <2> HIDE DEF x
  <2>6. scan' \subseteq ScanRow /\ Cardinality(scan') <= 1
    BY <2>4, <2>5, OneScan
  <2>7. checks' = checks /\ started' = started + 1
    BY <1>1 DEF ScanStarts
  <2>8. QED
    BY <1>t, <2>6, <2>7
<1>2. CASE ScanTakesRow
  <2>1. PICK s \in scan : scan' = {[s EXCEPT !.stage = "check", !.was = record]}
    BY <1>2 DEF ScanTakesRow
  <2> DEFINE x == [s EXCEPT !.stage = "check", !.was = record]
  <2>2. x \in ScanRow
    BY <1>t DEF ScanRow
  <2>3. scan' = {x}
    BY <2>1
  <2> HIDE DEF x
  <2>4. scan' \subseteq ScanRow /\ Cardinality(scan') <= 1
    BY <2>2, <2>3, OneScan
  <2>5. checks' = checks /\ started' = started
    BY <1>2 DEF ScanTakesRow
  <2>6. QED
    BY <1>t, <2>4, <2>5
<1>3. CASE ScanCounts \/ ScanChecks \/ ScanStops
  <2>1. scan' = {} /\ checks' = checks /\ started' = started
    BY <1>3 DEF ScanCounts, ScanChecks, ScanStops
  <2>2. Cardinality(scan') = 0
    BY <2>1, FS_EmptySet
  <2>3. QED
    BY <1>t, <2>1, <2>2
<1>4. CASE CheckStarts \/ CheckEnds
  BY <1>t, <1>4 DEF CheckStarts, CheckEnds
<1>5. CASE Decisions
  <2>1. scan' = scan /\ checks' = checks
    BY <1>5
    DEF Decisions, BlockCheck, BlockCommit, ChangeAllowlist, ApproveCandidate, Cancel,
        UnblockDomain, DismissRecord, AllowlistRecord, DismissCandidate, scanVars
  <2>2. started' = started \/ started' = started + 1
    BY <1>5
    DEF Decisions, BlockCheck, BlockCommit, ChangeAllowlist, ApproveCandidate, Cancel,
        UnblockDomain, DismissRecord, AllowlistRecord, DismissCandidate, scanVars
  <2>3. QED
    BY <1>t, <2>1, <2>2
<1>6. CASE SendEvents \/ AgentPolls \/ RunEnds \/ EdgeAgent \/ \E e \in Event : AnalyzerWrites(e)
  BY <1>t, <1>6 DEF SendEvents, AgentPolls, RunEnds, EdgeAgent, AnalyzerWrites, scanVars
<1>7. CASE Results \/ \E post \in posts : ReceiveEvents(post) \/ LoseEvents(post)
  BY <1>t, <1>7 DEF Results, ReceiveResult, ReceiveEvents, LoseEvents, scanVars
<1>8. CASE UNCHANGED vars
  BY <1>t, <1>8 DEF vars, scanVars
<1>9. QED
  BY <1>1, <1>2, <1>3, <1>4, <1>5, <1>6, <1>7, <1>8 DEF Next, Reputation, Results

LEMMA EventsTyped ==
  ASSUME TypeInv, [Next]_vars
  PROVE  /\ events' \in Seq(Event) /\ seen' \subseteq 1..Len(events')
         /\ posts' \subseteq SUBSET (1..Len(events')) /\ sent' \subseteq SUBSET (1..Len(events'))
<1>t. /\ events \in Seq(Event) /\ seen \subseteq 1..Len(events)
      /\ posts \subseteq SUBSET (1..Len(events)) /\ sent \subseteq SUBSET (1..Len(events))
  BY DEF TypeInv, TypeOK
<1>1. ASSUME NEW e \in Event, AnalyzerWrites(e)
      PROVE  /\ events' \in Seq(Event) /\ seen' \subseteq 1..Len(events')
             /\ posts' \subseteq SUBSET (1..Len(events')) /\ sent' \subseteq SUBSET (1..Len(events'))
  <2>1. events' = Append(events, e) /\ UNCHANGED <<seen, posts, sent>>
    BY <1>1 DEF AnalyzerWrites
  <2>2. events' \in Seq(Event) /\ Len(events') = Len(events) + 1 /\ Len(events) \in Nat
    BY <1>t, <2>1
  <2>3. 1..Len(events) \subseteq 1..Len(events')
    BY <2>2
  <2>4. QED
    BY <1>t, <2>1, <2>2, <2>3
<1>2. CASE SendEvents
  <2>1. DOMAIN events = 1..Len(events)
    BY <1>t
  <2>2. sent' \subseteq SUBSET (1..Len(events))
    BY <1>2, <2>1 DEF SendEvents
  <2>3. events' = events /\ seen' = seen /\ posts' = posts \cup sent'
    BY <1>2 DEF SendEvents
  <2>4. QED
    BY <1>t, <2>2, <2>3
<1>3. CASE AgentPolls \/ RunEnds \/ EdgeAgent
  BY <1>t, <1>3 DEF AgentPolls, RunEnds, EdgeAgent
<1>4. CASE \E post \in posts : ReceiveEvents(post) \/ LoseEvents(post)
  BY <1>t, <1>4 DEF ReceiveEvents, LoseEvents
<1>5. CASE UNCHANGED <<seen, edgeVars>>
  BY <1>t, <1>5 DEF edgeVars
<1>6. CASE Decisions \/ Reputation \/ Results \/ UNCHANGED vars
  BY <1>5, <1>6
  DEF Decisions, BlockCheck, BlockCommit, ChangeAllowlist, ApproveCandidate, Cancel, UnblockDomain,
      DismissRecord, AllowlistRecord, DismissCandidate, Queue, Reputation, ScanStarts, ScanTakesRow,
      ScanCounts, ScanChecks, ScanStops, CheckStarts, CheckEnds, Results, ReceiveResult, vars
<1>7. QED
  BY <1>1, <1>2, <1>3, <1>4, <1>6 DEF Next, Results

LEMMA TypeInit == Init => TypeInv
<1> SUFFICES ASSUME Init PROVE TypeInv
  OBVIOUS
<1>1. TableInv
  BY TableInit
<1>2. record \in Record /\ mixed \in BOOLEAN /\ before \subseteq Command
  BY NoRecordTyped DEF Init
<1>3. candidate \in CandidateRow /\ trusted \in BOOLEAN /\ edgeTrusted \in BOOLEAN
  BY DEF Init, CandidateRow
<1>4. events \in Seq(Event) /\ seen \subseteq 1..Len(events)
      /\ posts \subseteq SUBSET (1..Len(events)) /\ sent \subseteq SUBSET (1..Len(events))
  BY DEF Init
<1>5. Cardinality(scan) <= 1 /\ scan = {} /\ checks = {} /\ blocking = {} /\ filter = {}
      /\ started = 0
  BY FS_EmptySet DEF Init
<1>6. ServiceTypeOK /\ request \in [Command -> [kind : Kind, sourced : BOOLEAN]]
  BY <1>1 DEF TableInv, RequestsTyped, OrderInv
<1>7. QED
  BY <1>1, <1>2, <1>3, <1>4, <1>5, <1>6 DEF TypeInv, TypeOK

LEMMA TypeStep == TypeInv /\ [Next]_vars => TypeInv'
<1> SUFFICES ASSUME TypeInv, [Next]_vars PROVE TypeInv'
  OBVIOUS
<1>1. TableInv' /\ ServiceTypeOK'
  BY TableInvStep DEF TypeInv, TableInv, OrderInv
<1>2. before' \subseteq Command
  BY <1>1 DEF TableInv, RequestsTyped, Rows
<1>3. QED
  BY <1>1, <1>2, RecordTyped, CandidateTyped, ScanTyped, EventsTyped
  DEF TypeInv, TypeOK, TableInv, RequestsTyped, ScanRow

(***************************************************************************)
(* TypeOK is an invariant: no score leaves 0..100, nothing is counted that *)
(* the log does not hold, no event is stored that was not written, and one *)
(* scan runs at a time.                                                    *)
(***************************************************************************)
THEOREM TypeCorrect == Spec => []TypeOK
<1>1. TypeInv => TypeOK
  BY DEF TypeInv
<1>2. QED
  BY <1>1, TypeInit, TypeStep, PTL DEF Spec

(***************************************************************************)
(* Decisions about domains use the table as the service allows, so their   *)
(* commands reach the Edge agent one by one in the order of the decisions. *)
(***************************************************************************)
THEOREM UsesService == Spec => ServiceSpec /\ ImplementsLifecycle
<1>1. Init => ServiceInit
  BY DEF Init
<1>2. TypeInv /\ [Next]_vars => [ServiceNext]_serviceVars
  BY StepIsTableStep, TableStepIsService DEF TypeInv, TableInv
<1>3. Spec => ServiceSpec
  BY <1>1, <1>2, TypeInit, TypeStep, PTL DEF Spec, ServiceSpec
<1>4. QED
  BY <1>3, ServiceImplementsLifecycle

-----------------------------------------------------------------------------
(***************************************************************************)
(* The advice: it is inductive as it stands, because a check writes score, *)
(* advice and evidence together unless one of them had changed since it    *)
(* read the record, and that is what mixed remembers.                      *)
(***************************************************************************)
LEMMA KnownStays == TypeInv /\ [Next]_vars => (candidate.known => candidate'.known)
<1> SUFFICES ASSUME TypeInv, [Next]_vars, candidate.known PROVE candidate'.known
  OBVIOUS
<1>t. candidate \in CandidateRow
  BY DEF TypeInv, TypeOK
<1>1. CASE \E c \in Command : ApproveCandidate(c)
  BY <1>t, <1>1 DEF ApproveCandidate, CandidateRow
<1>2. CASE DismissCandidate
  BY <1>t, <1>2 DEF DismissCandidate, CandidateRow
<1>3. CASE \E post \in posts : ReceiveEvents(post)
  BY <1>3 DEF ReceiveEvents, Feed, Fed
<1>4. CASE Results
  BY <1>t, <1>4 DEF Results, ReceiveResult, CandidateRow
<1>5. QED
  BY <1>1, <1>2, <1>3, <1>4, CandidateKinds

LEMMA CheckedAdvice ==
  ASSUME candidate \in CandidateRow, NEW was \in Record, NEW e \in Evidence, NEW t \in Traffic,
         ~Listed(Signals[e]), ~candidate.known
  PROVE  Checked(was, t, e).advice \notin {"block_suggested", "investigate_outbound"}
<1> DEFINE score == Score(e, t)
<1>1. score \in 0..100 /\ score < 60
  BY ScoreFacts
<1>2. Checked(was, t, e).advice = Advised(score, t)
  BY DEF Checked, Record
<1> HIDE DEF score
<1>3. Advised(score, t) \in {"review", "monitor"}
  BY <1>1 DEF Advised
<1>4. QED
  BY <1>2, <1>3

LEMMA AdviceStep == TypeInv /\ AdviceNeedsEvidence /\ [Next]_vars => AdviceNeedsEvidence'
<1> SUFFICES ASSUME TypeInv, AdviceNeedsEvidence, [Next]_vars,
                    record'.advice \in {"block_suggested", "investigate_outbound"},
                    record'.evidence \in Evidence, ~mixed'
             PROVE  Listed(Signals[record'.evidence]) \/ candidate'.known
  BY DEF AdviceNeedsEvidence
<1>t. record \in Record /\ candidate \in CandidateRow
  BY DEF TypeInv, TypeOK
<1>1. CASE Writes
  <2>1. PICK was \in Record, new \in Record :
          /\ Commits(was, new)
          /\ \/ \E e \in Evidence, t \in Traffic : new = Checked(was, t, e)
             \/ new.evidence = Failed
    BY <1>1 DEF Writes
  <2>2. was.advice = record.advice /\ was.evidence = record.evidence
    BY <2>1 DEF Commits, Stale
  <2>3. record'.advice = new.advice /\ record'.evidence = new.evidence
    BY <1>t, <2>1, <2>2 DEF Commits, Saved, Column, Record
  <2>4. PICK e \in Evidence, t \in Traffic : new = Checked(was, t, e)
    BY <2>1, <2>3, ReputationAssumption
  <2>5. new.evidence = e
    BY <2>4 DEF Checked, Record
  <2>6. Listed(Signals[e]) \/ candidate.known
    BY <1>t, <2>3, <2>4, CheckedAdvice
  <2>7. QED
    BY <2>3, <2>5, <2>6, KnownStays
<1>2. CASE record'.advice = record.advice /\ record'.evidence = record.evidence /\ mixed' = mixed
  BY <1>2, KnownStays DEF AdviceNeedsEvidence
<1>3. CASE ScanCounts \/ DismissRecord \/ AllowlistRecord
  <2>1. record'.advice = record.advice /\ record'.evidence = record.evidence /\ mixed' = mixed
    BY <1>t, <1>3 DEF ScanCounts, DismissRecord, AllowlistRecord, Record
  <2>2. QED
    BY <1>2, <2>1
<1>4. CASE Results
  <2>1. record'.advice = record.advice /\ record'.evidence = record.evidence /\ mixed' = mixed
    BY <1>t, <1>4 DEF Results, ReceiveResult, scanVars, Record
  <2>2. QED
    BY <1>2, <2>1
<1>5. QED
  BY <1>1, <1>2, <1>3, <1>4, RecordKinds

(***************************************************************************)
(* AdviceNeedsEvidence for every evidence and every traffic: what is added *)
(* for age, missing mail records, volume and breadth stays below 60, so    *)
(* that it takes a provider or a candidate to advise a block.              *)
(***************************************************************************)
THEOREM AdviceHasEvidence == Spec => []AdviceNeedsEvidence
<1>1. Init => AdviceNeedsEvidence
  BY DEF Init, NoRecord, AdviceNeedsEvidence
<1>2. QED
  BY <1>1, TypeInit, TypeStep, AdviceStep, PTL DEF Spec

-----------------------------------------------------------------------------
(***************************************************************************)
(* The decisions.                                                          *)
(***************************************************************************)
LEMMA RecordDecision ==
  ASSUME TypeInv, [Next]_vars, record.status \in {"dismissed", "allowlisted"},
         record'.status # record.status
  PROVE  record'.status \in {"dismissed", "allowlisted"} \/ Reported(BlockKind)
<1>t. record \in Record
  BY DEF TypeInv, TypeOK
<1>1. CASE Writes
  BY <1>t, <1>1, CommitTyped DEF Writes
<1>2. CASE ScanCounts
  BY <1>t, <1>2 DEF ScanCounts, Record
<1>3. CASE DismissRecord \/ AllowlistRecord
  BY <1>t, <1>3 DEF DismissRecord, AllowlistRecord, Record
<1>4. CASE Results
  <2>1. PICK r \in results, answered \in BOOLEAN : ReceiveResult(r, answered)
    BY <1>4 DEF Results
  <2>2. r \in results \ results'
    BY <2>1 DEF ReceiveResult, DeliverResult
  <2>3. Blocks(r, BlockKind)
    BY <1>t, <2>1 DEF ReceiveResult, Record
  <2>4. QED
    BY <2>2, <2>3 DEF Reported
<1>5. QED
  BY <1>1, <1>2, <1>3, <1>4, RecordKinds

LEMMA CandidateDecision ==
  ASSUME TypeInv, [Next]_vars, candidate.status = "dismissed", candidate'.status # "dismissed"
  PROVE  \/ candidate'.status = "approved" \/ Reported({"BlockIp"})
         \/ \E e \in seen' \ seen : events[e].action = "Blocked"
<1>t. candidate \in CandidateRow
  BY DEF TypeInv, TypeOK
<1>1. CASE \E c \in Command : ApproveCandidate(c)
  BY <1>t, <1>1 DEF ApproveCandidate, CandidateRow
<1>2. CASE DismissCandidate
  BY <1>t, <1>2 DEF DismissCandidate, CandidateRow
<1>3. CASE \E post \in posts : ReceiveEvents(post)
  BY <1>3 DEF ReceiveEvents, Feed, Fed
<1>4. CASE Results
  <2>1. PICK r \in results, answered \in BOOLEAN : ReceiveResult(r, answered)
    BY <1>4 DEF Results
  <2>2. r \in results \ results'
    BY <2>1 DEF ReceiveResult, DeliverResult
  <2>3. Blocks(r, {"BlockIp"})
    BY <1>t, <2>1 DEF ReceiveResult, CandidateRow
  <2>4. QED
    BY <2>2, <2>3 DEF Reported
<1>5. QED
  BY <1>1, <1>2, <1>3, <1>4, CandidateKinds

(***************************************************************************)
(* DecisionStands for every number of checks, events and commands: a check *)
(* writes no status, an event is fed once, and a result that blocks leaves *)
(* the table of results with the step that applies it.                     *)
(***************************************************************************)
THEOREM DecisionsKept == Spec => DecisionStands
<1>1. TypeInv /\ [Next]_vars =>
        [ /\ record.status \in {"dismissed", "allowlisted"} /\ record'.status # record.status =>
               record'.status \in {"dismissed", "allowlisted"} \/ Reported(BlockKind)
          /\ candidate.status = "dismissed" /\ candidate'.status # "dismissed" =>
               \/ candidate'.status = "approved" \/ Reported({"BlockIp"})
               \/ \E e \in seen' \ seen : events[e].action = "Blocked" ]_vars
  BY RecordDecision, CandidateDecision
<1>2. QED
  BY <1>1, TypeInit, TypeStep, PTL DEF Spec, DecisionStands

=============================================================================
