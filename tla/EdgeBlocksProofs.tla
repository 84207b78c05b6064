-------------------------- MODULE EdgeBlocksProofs --------------------------
(***************************************************************************)
(* Theorems about EdgeBlocks, for every number of commands, hand-outs and  *)
(* requests: they do not use the bounds.                                   *)
(***************************************************************************)
EXTENDS EdgeBlocks, CommandServiceProofs

\* There is one agent, and one answer it gives.
LEMMA Constants == Node = {Edge} /\ "done" \in Answer
  BY BlocksAssumption

-----------------------------------------------------------------------------
(***************************************************************************)
(* A trust request has read commands that exist, so every step of the      *)
(* component is one on the command table.                                  *)
(***************************************************************************)
PendingExist == \A t \in trusting : \A c \in t.pending : status[c] # "absent"

LEMMA QueueIsTableStep ==
  ASSUME NEW kinds, NEW cancelled \in SUBSET Command, DOMAIN kinds \subseteq Command,
         \A c \in cancelled : status[c] # "absent", Queue(kinds, cancelled)
  PROVE  QueuesRows
<1> DEFINE rows == [c \in DOMAIN kinds |-> Edge]
<1>1. rows \in [DOMAIN kinds -> Node]
  BY Constants
<1>2. WriteRows(rows, cancelled)
  BY DEF Queue
<1> HIDE DEF rows
<1>3. QED
  BY <1>1, <1>2 DEF QueuesRows

\* What an admin request or the scan adds to the table.
Queues ==
  \E added, cancelled \in SUBSET Command : \E kinds \in [added -> Kind] :
    /\ \A c \in cancelled : status[c] # "absent"
    /\ Queue(kinds, cancelled)
    /\ trusted' # trusted => \E c \in added : kinds[c] = "SyncAllowlist"

LEMMA RequestQueues ==
  ASSUME TypeOK, PendingExist, NEW c \in Command, Request(c), ~Cancel(c)
  PROVE  Queues
<1>1. ASSUME NEW k \in Kind, Queue([d \in {c} |-> k], {}), trusted' # trusted => k = "SyncAllowlist"
      PROVE  Queues
  <2> DEFINE kinds == [d \in {c} |-> k]
  <2>1. kinds \in [{c} -> Kind] /\ kinds[c] = k /\ Queue(kinds, {})
    BY <1>1
  <2> HIDE DEF kinds
  <2>2. QED
    BY <1>1, <2>1 DEF Queues
<1>2. CASE BlockCommit(c)
  BY <1>1, <1>2 DEF BlockCommit, Kind
<1>3. CASE ApproveCandidate(c)
  BY <1>1, <1>3 DEF ApproveCandidate, Kind
<1>4. CASE Unblock(c)
  BY <1>1, <1>4 DEF Unblock, Kind
<1>5. CASE ChangeAllowlist(c)
  BY <1>1, <1>5 DEF ChangeAllowlist, Kind
<1>6. CASE ScanCommit(c)
  BY <1>1, <1>6 DEF ScanCommit, Kind
<1>7. CASE TrustCommit(c)
  <2> DEFINE kinds == [d \in {c, c + 1} |-> IF d = c THEN "SyncAllowlist" ELSE "UnblockIp"]
  <2>1. PICK t \in trusting : Queue(kinds, t.pending)
    BY <1>7 DEF TrustCommit
  <2>2. kinds \in [{c, c + 1} -> Kind] /\ kinds[c] = "SyncAllowlist"
    BY DEF Kind
  <2>3. t.pending \in SUBSET Command /\ \A d \in t.pending : status[d] # "absent"
    BY DEF TypeOK, PendingExist
  <2>4. {c, c + 1} \in SUBSET Command
    BY <1>7 DEF TrustCommit
  <2> HIDE DEF kinds
  <2>5. QED
    BY <2>1, <2>2, <2>3, <2>4 DEF Queues
<1>8. QED
  BY <1>2, <1>3, <1>4, <1>5, <1>6, <1>7 DEF Request

LEMMA QueuesAreTableSteps == Queues => QueuesRows
  BY QueueIsTableStep DEF Queues

LEMMA StepIsTableStep == TypeOK /\ PendingExist /\ [Next]_vars => TableStep
<1> SUFFICES ASSUME TypeOK, PendingExist, [Next]_vars PROVE TableStep
  OBVIOUS
<1>1. ASSUME NEW c \in Command, Request(c) PROVE TableStep
  <2>1. CASE Cancel(c)
    BY <2>1 DEF Cancel, TableStep
  <2>2. CASE ~Cancel(c)
    BY <1>1, <2>2, RequestQueues, QueuesAreTableSteps DEF TableStep
  <2>3. QED
    BY <2>1, <2>2
<1>2. CASE EdgeAgent
  BY <1>2, Constants
  DEF EdgeAgent, BlockIp, UnblockIp, FetchAllowlist, StoreAllowlist, SyncFails, Succeeds, Fails,
      edgeVars, TableStep
<1>3. CASE RunEnds \/ AgentPolls
  BY <1>3, Constants DEF RunEnds, AgentPolls, TableStep
<1>4. ASSUME NEW r \in results, NEW answered \in BOOLEAN, ReceiveResult(r, answered)
      PROVE  TableStep
  BY <1>4 DEF ReceiveResult, TableStep
<1>5. CASE UNCHANGED serviceVars
  BY <1>5 DEF TableStep
<1>6. QED
  BY <1>1, <1>2, <1>3, <1>4, <1>5
  DEF Next, BlockCheck, TrustCheck, TrustFails, ScanRead, BlockExpires, vars

-----------------------------------------------------------------------------
(***************************************************************************)
(* Every variable keeps its type, and rows stay.                           *)
(***************************************************************************)
TypeInv == TypeOK /\ OrderInv /\ PendingExist

LEMMA TypeInit == Init => TypeInv
<1> SUFFICES ASSUME Init PROVE TypeInv
  OBVIOUS
<1>1. OrderInv
  BY OrderInvInit DEF Init
<1>2. QED
  BY <1>1 DEF Init, TypeInv, TypeOK, OrderInv, PendingExist, Kind

LEMMA RowsStay ==
  ASSUME OrderInv, TableStep, NEW c \in Command, status[c] # "absent"
  PROVE  status'[c] # "absent"
<1>t. ServiceTypeOK
  BY DEF OrderInv
<1>1. CASE QueuesRows
  BY <1>1 DEF QueuesRows, WriteRows
<1>2. ASSUME NEW n \in Node, ServicePoll(n) PROVE status'[c] # "absent"
  BY <1>2 DEF ServicePoll, PollEffect
<1>3. ASSUME NEW r \in results, NEW answered \in BOOLEAN, DeliverResult(r, answered)
      PROVE  status'[c] # "absent"
  BY <1>3, <1>t DEF DeliverResult, ServiceTypeOK
<1>4. ASSUME NEW d \in Command, CancelCheck(d) \/ CancelCommit(d) PROVE status'[c] # "absent"
  BY <1>4, <1>t DEF CancelCheck, CancelCommit, ServiceTypeOK
<1>5. QED
  BY <1>1, <1>2, <1>3, <1>4 DEF TableStep, RunCommand, LoseResult, AbortRun, serviceVars

LEMMA TypeStep == TypeInv /\ [Next]_vars => TypeInv'
<1> SUFFICES ASSUME TypeInv, [Next]_vars PROVE TypeInv'
  OBVIOUS
<1>1. TableStep
  BY StepIsTableStep DEF TypeInv
<1>2. OrderInv'
  BY <1>1, OrderInvStep DEF TypeInv
<1>3. ServiceTypeOK'
  BY <1>2 DEF OrderInv
<1>4. trusting' \subseteq trusting \/ trusting' = {[entry |-> trusted,
           pending |-> OfKind({"BlockIp"}) \cap WithStatus({"pending"})]}
  BY DEF Next, TrustCheck, TrustFails, BlockCheck, ScanRead, Request, BlockCommit,
         ApproveCandidate, Unblock, ChangeAllowlist, TrustCommit, ScanCommit, Cancel, EdgeAgent,
         RunEnds, BlockExpires, AgentPolls, ReceiveResult, requestVars, vars
<1>5. PendingExist'
  <2>1. ASSUME NEW t \in trusting', NEW c \in t.pending PROVE status'[c] # "absent"
    <3>1. c \in Command /\ status[c] # "absent"
      BY <1>4, <2>1 DEF TypeInv, TypeOK, PendingExist, OfKind, Rows
    <3>2. QED
      BY <1>1, <3>1, RowsStay DEF TypeInv
  <2>2. QED
    BY <2>1 DEF PendingExist
<1>6. trusting' \subseteq [entry : BOOLEAN, pending : SUBSET Command]
  BY <1>4 DEF TypeInv, TypeOK, OfKind, Rows
<1>7. kind' \in [Command -> Kind]
  <2>1. CASE UNCHANGED kind
    BY <2>1 DEF TypeInv, TypeOK
  <2>2. CASE Queues
    BY <2>2 DEF Queues, Queue, TypeInv, TypeOK
  <2>3. QED
    BY <2>1, <2>2, RequestQueues
    DEF TypeInv, Next, TrustCheck, TrustFails, BlockCheck, ScanRead, Cancel, EdgeAgent, RunEnds,
        BlockExpires, AgentPolls, ReceiveResult, requestVars, vars
<1>8. trusted' \in BOOLEAN /\ blockPassed' \in BOOLEAN /\ scanPassed' \in BOOLEAN
  BY DEF TypeInv, TypeOK, Next, TrustCheck, TrustFails, BlockCheck, ScanRead, Request, BlockCommit,
         ApproveCandidate, Unblock, ChangeAllowlist, TrustCommit, ScanCommit, Cancel, EdgeAgent,
         RunEnds, BlockExpires, AgentPolls, ReceiveResult, requestVars, vars
<1>9. edgeTrusted' \in BOOLEAN /\ fetched' \subseteq BOOLEAN /\ blocked' \in BOOLEAN /\ unread' \in BOOLEAN
  <2>1. CASE EdgeAgent
    BY <2>1 DEF TypeInv, TypeOK, EdgeAgent, BlockIp, UnblockIp, FetchAllowlist, StoreAllowlist,
                SyncFails, edgeVars
  <2>2. CASE RunEnds \/ BlockExpires
    BY <2>2 DEF TypeInv, TypeOK, RunEnds, BlockExpires
  <2>3. CASE UNCHANGED edgeVars
    BY <2>3 DEF TypeInv, TypeOK, edgeVars
  <2>4. QED
    BY <2>1, <2>2, <2>3
    DEF Next, TrustCheck, TrustFails, BlockCheck, ScanRead, Request, BlockCommit,
        ApproveCandidate, Unblock, ChangeAllowlist, TrustCommit, ScanCommit, Cancel, Queue,
        AgentPolls, ReceiveResult, vars
<1>10. QED
  BY <1>2, <1>3, <1>5, <1>6, <1>7, <1>8, <1>9 DEF TypeInv, TypeOK

(***************************************************************************)
(* TypeOK is an invariant: no cancellation, result or poll writes a status *)
(* that is none, and no agent runs without a command.                      *)
(***************************************************************************)
THEOREM TypeCorrect == Spec => []TypeOK
<1>1. TypeInv => TypeOK
  BY DEF TypeInv
<1>2. QED
  BY <1>1, TypeInit, TypeStep, PTL DEF Spec

(***************************************************************************)
(* Blocks, unblocks and allowlists use the table as the service allows, so *)
(* no agent runs their commands twice at once or in another order.         *)
(***************************************************************************)
THEOREM UsesService == Spec => ServiceSpec /\ ImplementsLifecycle
<1>1. Init => ServiceInit
  BY DEF Init
<1>2. TypeInv /\ [Next]_vars => [ServiceNext]_serviceVars
  BY StepIsTableStep, TableStepIsService DEF TypeInv
<1>3. Spec => ServiceSpec
  BY <1>1, <1>2, TypeInit, TypeStep, PTL DEF Spec, ServiceSpec
<1>4. QED
  BY <1>3, ServiceImplementsLifecycle

-----------------------------------------------------------------------------
(***************************************************************************)
(* What has to hold all the time for the three properties to hold when a   *)
(* result is in.  A success counts from the moment the agent posts it.     *)
(***************************************************************************)
RanOk(c) == status[c] = "succeeded" \/ \E r \in results : r.cmd = c /\ r.ok

NewestSync == Newest(OfKind({"SyncAllowlist"}))

FetchInv == fetched # {} => Working("SyncAllowlist")

\* An allowlist that was fetched after the newest change was queued is the central one.
FollowInv ==
  /\ OfKind({"SyncAllowlist"}) = {} => ~trusted /\ ~edgeTrusted
  /\ \A s \in NewestSync : handouts[s] > 0 => fetched \subseteq {trusted}
  /\ \A s \in NewestSync : RanOk(s) => edgeTrusted = trusted

UnblockInv ==
  \A c \in Newest(OfKind({"BlockIp", "UnblockIp"})) :
    /\ kind[c] = "UnblockIp" /\ RanOk(c) /\ ~unread
    /\ \A b \in OfKind({"BlockIp"}) : handouts[b] <= 1
    => ~blocked

TrustInv ==
  \A s \in NewestSync, u \in OfKind({"UnblockIp"}) :
    trusted /\ s < u /\ RanOk(s) /\ RanOk(u) /\ handouts[s] <= 1 /\ ~unread => ~blocked

EffectInv == FetchInv /\ FollowInv /\ UnblockInv /\ TrustInv

LEMMA EffectInit == Init => EffectInv
  BY DEF Init, ServiceInit, EffectInv, FetchInv, FollowInv, UnblockInv, TrustInv, NewestSync, Newest,
         OfKind, Rows

\* What is run was handed out, and its row exists.
LEMMA RanFacts ==
  ASSUME TypeInv, NEW c \in Command
  PROVE  /\ RanOk(c) => HasRun(c)
         /\ HasRun(c) => handouts[c] > 0
         /\ handouts[c] > 0 => status[c] # "absent"
         /\ handouts[c] \in Nat
  BY DEF TypeInv, OrderInv, HandoutsCounted, HasRun, RanOk, ResultStatus, ServiceTypeOK

LEMMA WorkingFacts ==
  ASSUME TypeInv, NEW k, Working(k)
  PROVE  /\ Current(Edge) \in Command /\ Current(Edge) \in batch[Edge]
         /\ kind[Current(Edge)] = k
         /\ handouts[Current(Edge)] > 0 /\ status[Current(Edge)] # "absent"
         /\ node[Current(Edge)] = Edge
<1>1. ServiceTypeOK /\ Edge \in Node
  BY Constants DEF TypeInv, OrderInv
<1>2. Current(Edge) \in Command /\ Current(Edge) \in batch[Edge]
  BY <1>1, CurrentInBatch DEF Working
<1>3. handouts[Current(Edge)] > 0 /\ node[Current(Edge)] = Edge
  BY <1>1, <1>2 DEF TypeInv, OrderInv, HandoutsCounted
<1>4. QED
  BY <1>2, <1>3, RanFacts DEF Working

(***************************************************************************)
(* New commands.  They are the newest, and none of them has run.           *)
(***************************************************************************)
LEMMA QueuesEffect == TypeInv /\ EffectInv /\ Queues => EffectInv'
<1> SUFFICES ASSUME TypeInv, EffectInv, Queues PROVE EffectInv'
  OBVIOUS
<1>1. PICK added \in SUBSET Command, cancelled \in SUBSET Command :
        \E kinds \in [added -> Kind] :
          /\ \A c \in cancelled : status[c] # "absent"
          /\ Queue(kinds, cancelled)
          /\ trusted' # trusted => \E c \in added : kinds[c] = "SyncAllowlist"
  BY DEF Queues
<1>2. PICK kinds \in [added -> Kind] :
          /\ \A c \in cancelled : status[c] # "absent"
          /\ Queue(kinds, cancelled)
          /\ trusted' # trusted => \E c \in added : kinds[c] = "SyncAllowlist"
  BY <1>1
<1>3. WriteRows([c \in added |-> Edge], cancelled) /\ UNCHANGED edgeVars
  BY <1>2 DEF Queue
<1>4. /\ \A c \in added : status[c] = "absent" /\ status'[c] = "pending" /\ kind'[c] = kinds[c]
      /\ \A c \in Command \ added : /\ kind'[c] = kind[c]
                                    /\ status'[c] = status[c] \/ status'[c] = "cancelled"
                                    /\ status'[c] = "absent" <=> status[c] = "absent"
      /\ \A c \in added, d \in Command \ added : d < c => status[d] # "absent"
      /\ UNCHANGED <<handouts, batch, waiting, results>>
  <2>1. /\ \A c \in added : status[c] = "absent"
        /\ \A c \in added, d \in Command \ added : d < c => status[d] # "absent"
        /\ UNCHANGED <<handouts, batch, waiting, results>>
    BY <1>3 DEF WriteRows, agentVars
  <2>2. \A c \in Command : status'[c] = CASE c \in added     -> "pending"
                                          [] c \in cancelled -> "cancelled"
                                          [] OTHER           -> status[c]
    BY <1>3 DEF WriteRows
  <2>3. added \cap cancelled = {}
    BY <1>2, <2>1
  <2>4. \A c \in added : status'[c] = "pending"
    BY <2>2, <2>3
  <2>5. \A c \in Command \ added : /\ c \in cancelled => status'[c] = "cancelled"
                                   /\ c \notin cancelled => status'[c] = status[c]
    BY <2>2
  <2>6. \A c \in Command : kind'[c] = IF c \in added THEN kinds[c] ELSE kind[c]
    BY <1>2 DEF Queue
  <2>7. QED
    BY <1>2, <2>1, <2>4, <2>5, <2>6
<1>5. \A c \in Command : c \in Nat
  BY DEF Command
<1>6. \A c \in added, d \in Rows : d < c
  <2> SUFFICES ASSUME NEW c \in added, NEW d \in Rows PROVE d < c
    OBVIOUS
  <2>1. c # d /\ ~(c < d)
    BY <1>4 DEF Rows, TypeInv, OrderInv, RowsInOrder
  <2>2. QED
    BY <1>5, <2>1 DEF Rows
<1>7. \A c \in added : handouts[c] = 0 /\ ~RanOk(c) /\ ~RanOk(c)'
  <2> SUFFICES ASSUME NEW c \in added PROVE handouts[c] = 0 /\ ~RanOk(c) /\ ~RanOk(c)'
    OBVIOUS
  <2>1. handouts[c] = 0
    BY <1>4 DEF TypeInv, OrderInv, HandoutsCounted
  <2>2. ~RanOk(c)
    BY <2>1, RanFacts
  <2>3. QED
    BY <1>4, <2>1, <2>2 DEF RanOk
<1>8. \A c \in Command : RanOk(c)' => RanOk(c)
  BY <1>4, <1>7 DEF RanOk
<1>9. Rows' = Rows \cup added /\ \A K : OfKind(K)' = OfKind(K) \cup {c \in added : kinds[c] \in K}
  BY <1>4 DEF Rows, OfKind
<1>10. \A K : \A c \in Newest(OfKind(K))' : c \in added \/ c \in Newest(OfKind(K))
  BY <1>9 DEF Newest
<1>11. FetchInv'
  <2>1. Working("SyncAllowlist") => Working("SyncAllowlist")'
    <3> SUFFICES ASSUME Working("SyncAllowlist") PROVE Working("SyncAllowlist")'
      OBVIOUS
    <3>1. Current(Edge) \notin added /\ Current(Edge) \in Command
      BY <1>4, WorkingFacts
    <3>2. Current(Edge)' = Current(Edge)
      BY <1>4 DEF Current
    <3>3. QED
      BY <1>4, <3>1, <3>2 DEF Working
  <2>2. QED
    BY <1>3, <2>1 DEF EffectInv, FetchInv, edgeVars
<1>12. FollowInv'
  <2>1. CASE \E c \in added : kinds[c] = "SyncAllowlist"
    <3>1. OfKind({"SyncAllowlist"})' # {}
      BY <1>9, <2>1
    <3>2. \A s \in NewestSync' : s \in added
      <4> SUFFICES ASSUME NEW s \in NewestSync', s \notin added PROVE FALSE
        OBVIOUS
      <4>1. PICK c \in added : kinds[c] = "SyncAllowlist"
        BY <2>1
      <4>2. c <= s /\ s \in Rows
        BY <1>9, <4>1 DEF NewestSync, Newest, OfKind
      <4>3. QED
        BY <1>5, <1>6, <4>2 DEF Rows
    <3>3. QED
      BY <1>4, <1>7, <3>1, <3>2 DEF FollowInv, NewestSync, Newest, OfKind, Rows
  <2>2. CASE ~\E c \in added : kinds[c] = "SyncAllowlist"
    <3>1. OfKind({"SyncAllowlist"})' = OfKind({"SyncAllowlist"})
      BY <1>9, <2>2
    <3>2. NewestSync' = NewestSync /\ trusted' = trusted /\ NewestSync \subseteq Command
      BY <1>2, <2>2, <3>1 DEF NewestSync, Newest, OfKind, Rows
    <3>3. QED
      BY <1>3, <1>4, <1>8, <3>1, <3>2 DEF EffectInv, FollowInv, edgeVars
  <2>3. QED
    BY <2>1, <2>2
<1>13. UnblockInv'
  <2> SUFFICES ASSUME NEW c \in Newest(OfKind({"BlockIp", "UnblockIp"}))',
                      kind'[c] = "UnblockIp", RanOk(c)', ~unread',
                      \A b \in OfKind({"BlockIp"})' : handouts'[b] <= 1
               PROVE  ~blocked'
    BY DEF UnblockInv
  <2>1. c \in Newest(OfKind({"BlockIp", "UnblockIp"})) /\ c \in Command /\ c \notin added
    <3>1. c \in added \/ c \in Newest(OfKind({"BlockIp", "UnblockIp"}))
      BY <1>10
    <3>2. c \notin added
      BY <1>7
    <3>3. QED
      BY <3>1, <3>2 DEF Newest, OfKind, Rows
  <2>2. kind[c] = "UnblockIp" /\ RanOk(c)
    BY <1>4, <1>8, <2>1
  <2>3. \A b \in OfKind({"BlockIp"}) : handouts[b] <= 1
    BY <1>4, <1>9
  <2>4. QED
    BY <1>3, <2>1, <2>2, <2>3 DEF EffectInv, UnblockInv, edgeVars
<1>14. TrustInv'
  <2> SUFFICES ASSUME NEW s \in NewestSync', NEW u \in OfKind({"UnblockIp"})',
                      trusted', s < u, RanOk(s)', RanOk(u)', handouts'[s] <= 1, ~unread'
               PROVE  ~blocked'
    BY DEF TrustInv
  <2>1. s \notin added /\ u \notin added /\ s \in Command /\ u \in Command
    BY <1>7 DEF NewestSync, Newest, OfKind, Rows
  <2>2. s \in NewestSync /\ u \in OfKind({"UnblockIp"}) /\ RanOk(s) /\ RanOk(u)
    BY <1>8, <1>9, <1>10, <2>1 DEF NewestSync
  <2>3. trusted' = trusted
    <3> SUFFICES ASSUME NEW c \in added, kinds[c] = "SyncAllowlist" PROVE FALSE
      BY <1>2
    <3>1. c <= s
      BY <1>9 DEF NewestSync, Newest
    <3>2. QED
      BY <1>5, <1>6, <2>2, <3>1 DEF NewestSync, Newest, OfKind, Rows
  <2>4. QED
    BY <1>3, <1>4, <2>2, <2>3 DEF EffectInv, TrustInv, edgeVars
<1>15. QED
  BY <1>11, <1>12, <1>13, <1>14 DEF EffectInv

(***************************************************************************)
(* Every other step leaves the rows and their kinds alone.                 *)
(***************************************************************************)
SameRows == kind' = kind /\ \A c \in Command : status'[c] = "absent" <=> status[c] = "absent"

LEMMA SameRowsFacts ==
  ASSUME SameRows
  PROVE  /\ Rows' = Rows /\ \A K : OfKind(K)' = OfKind(K)
         /\ \A K : Newest(OfKind(K))' = Newest(OfKind(K))
         /\ NewestSync' = NewestSync /\ NewestSync \subseteq Command
<1>1. Rows' = Rows
  BY DEF SameRows, Rows
<1>2. \A K : OfKind(K)' = OfKind(K)
  BY <1>1 DEF SameRows, OfKind
<1>3. \A K : Newest(OfKind(K))' = Newest(OfKind(K))
  BY <1>2 DEF Newest
<1>4. NewestSync' = NewestSync /\ NewestSync \subseteq Command
  BY <1>2 DEF NewestSync, Newest, OfKind, Rows
<1>5. QED
  BY <1>1, <1>2, <1>3, <1>4

\* Steps that report no success and do not block: the invariant does not mind them.
Harmless ==
  /\ SameRows
  /\ UNCHANGED <<trusted, edgeTrusted>>
  /\ UNCHANGED <<blocked, unread>> \/ blocked' = FALSE
  /\ fetched' = {} \/ (fetched' = fetched /\ handouts' = handouts)
  /\ \A c \in Command : /\ handouts'[c] \in Nat /\ handouts[c] <= handouts'[c]
                        /\ RanOk(c)' => RanOk(c)

LEMMA QuietEffect == TypeInv /\ EffectInv /\ Harmless /\ FetchInv' => EffectInv'
<1> SUFFICES ASSUME TypeInv, EffectInv, Harmless, FetchInv' PROVE EffectInv'
  OBVIOUS
<1>0. SameRows
  BY DEF Harmless
<1>1. \A c \in Command : handouts[c] \in Nat /\ handouts'[c] >= handouts[c]
  BY RanFacts DEF Harmless
<1>2. FollowInv'
  BY <1>0, SameRowsFacts DEF Harmless, EffectInv, FollowInv
<1>3. UnblockInv'
  <2> SUFFICES ASSUME NEW c \in Newest(OfKind({"BlockIp", "UnblockIp"})),
                      kind[c] = "UnblockIp", RanOk(c)', ~unread,
                      \A b \in OfKind({"BlockIp"}) : handouts'[b] <= 1
               PROVE  ~blocked
    BY <1>0, SameRowsFacts DEF UnblockInv, SameRows, Harmless
  <2>1. c \in Command /\ RanOk(c)
    BY DEF Harmless, Newest, OfKind, Rows
  <2>2. \A b \in OfKind({"BlockIp"}) : handouts[b] <= 1
    <3>1. \A b \in OfKind({"BlockIp"}) : b \in Command
      BY DEF OfKind, Rows
    <3>2. QED
      BY <1>1, <3>1 DEF Harmless
  <2>3. ~blocked
    BY <2>1, <2>2 DEF EffectInv, UnblockInv
  <2>4. QED
    BY <2>3
<1>4. TrustInv'
  <2> SUFFICES ASSUME NEW s \in NewestSync, NEW u \in OfKind({"UnblockIp"}),
                      trusted, s < u, RanOk(s)', RanOk(u)', handouts'[s] <= 1, ~unread
               PROVE  ~blocked
    BY <1>0, SameRowsFacts DEF TrustInv, Harmless
  <2>1. s \in Command /\ u \in Command
    BY DEF NewestSync, Newest, OfKind, Rows
  <2>2. RanOk(s) /\ RanOk(u) /\ handouts[s] <= 1
    BY <1>1, <2>1 DEF Harmless
  <2>3. ~blocked
    BY <2>1, <2>2 DEF EffectInv, TrustInv
  <2>4. QED
    BY <2>3 DEF Harmless
<1>5. QED
  BY <1>2, <1>3, <1>4 DEF EffectInv

(***************************************************************************)
(* Executions.  Only the command that is run may come to be reported.      *)
(***************************************************************************)
LEMMA ExecutionFacts ==
  ASSUME TypeInv, NEW k, Working(k), NEW ok \in BOOLEAN,
         RunCommand(Edge, ok, "done") \/ AbortRun(Edge)
  PROVE  /\ UNCHANGED <<status, handouts>>
         /\ \A c \in Command : RanOk(c)' => RanOk(c) \/ (ok /\ c = Current(Edge))
  BY DEF RunCommand, AbortRun, RanOk

\* Nothing is fetched while another command is run.
LEMMA NothingFetched ==
  ASSUME EffectInv, NEW k, Working(k), k # "SyncAllowlist"
  PROVE  fetched = {}
  BY DEF EffectInv, FetchInv, Working

\* A block comes before no unblock that has run, and fails once a trust is known.
LEMMA BlockEffect ==
  ASSUME TypeInv, EffectInv, BlockIp, UNCHANGED requestVars
  PROVE  EffectInv'
<1>1. Working("BlockIp") /\ fetched = {} /\ UNCHANGED <<edgeTrusted, fetched, unread, kind, trusted>>
  BY NothingFetched DEF BlockIp, requestVars
<1>2. PICK ok \in BOOLEAN : RunCommand(Edge, ok, "done") \/ AbortRun(Edge)
  BY DEF BlockIp, Succeeds, Fails
<1>3. /\ UNCHANGED <<status, handouts>>
      /\ \A c \in Command : RanOk(c)' => RanOk(c) \/ c = Current(Edge)
  BY <1>1, <1>2, ExecutionFacts
<1>4. SameRows /\ FetchInv'
  BY <1>1, <1>3 DEF SameRows, FetchInv
<1>5. CASE UNCHANGED blocked /\ Fails
  <2>1. \A c \in Command : RanOk(c)' => RanOk(c)
    BY <1>5 DEF Fails, RunCommand, RanOk
  <2>2. Harmless
    BY <1>1, <1>3, <1>4, <1>5, <2>1, RanFacts DEF Harmless, TypeInv, TypeOK
  <2>3. QED
    BY <1>4, <2>2, QuietEffect
<1>6. CASE ~edgeTrusted
  <2>c. /\ Current(Edge) \in Command /\ Current(Edge) \in batch[Edge]
        /\ kind[Current(Edge)] = "BlockIp" /\ status[Current(Edge)] # "absent"
    BY <1>1, WorkingFacts
  <2>1. \A c \in Command : kind[c] # "BlockIp" /\ RanOk(c)' => RanOk(c)
    BY <1>3, <2>c
  <2>2. \A K : \A c \in OfKind(K) : c \in Command /\ kind[c] \in K
    BY DEF OfKind, Rows
  <2>3. \A s \in NewestSync : s \in OfKind({"SyncAllowlist"})
    BY DEF NewestSync, Newest
  <2>4. FollowInv'
    BY <1>1, <1>3, <1>4, <2>1, <2>2, <2>3, SameRowsFacts DEF EffectInv, FollowInv
  <2>5. UnblockInv'
    <3> SUFFICES ASSUME NEW c \in Newest(OfKind({"BlockIp", "UnblockIp"})),
                        kind[c] = "UnblockIp", RanOk(c)',
                        \A b \in OfKind({"BlockIp"}) : handouts[b] <= 1
                 PROVE  FALSE
      BY <1>1, <1>3, <1>4, SameRowsFacts DEF UnblockInv
    <3>1. c \in Command /\ RanOk(c) /\ node[c] = Edge
      BY <2>1, Constants DEF Newest, OfKind, Rows, TypeInv, OrderInv, ServiceTypeOK
    <3>2. Current(Edge) <= c /\ handouts[Current(Edge)] <= 1 /\ Current(Edge) # c
      BY <2>c DEF Newest, OfKind, Rows
    <3>3. Current(Edge) < c
      BY <2>c, <3>1, <3>2 DEF Command
    <3>4. ~HasRun(c)
      BY <2>c, <3>1, <3>2, <3>3, Constants DEF TypeInv, OrderInv, RunsInOrder
    <3>5. QED
      BY <3>1, <3>4, RanFacts
  <2>6. TrustInv'
    <3> SUFFICES ASSUME NEW s \in NewestSync, trusted, RanOk(s)' PROVE FALSE
      BY <1>1, <1>3, <1>4, SameRowsFacts DEF TrustInv
    <3>1. RanOk(s)
      BY <2>1, <2>2, <2>3
    <3>2. QED
      BY <1>6, <3>1 DEF EffectInv, FollowInv
  <2>7. QED
    BY <1>4, <2>4, <2>5, <2>6 DEF EffectInv
<1>7. QED
  BY <1>5, <1>6 DEF BlockIp

LEMMA UnblockEffect ==
  ASSUME TypeInv, EffectInv, UnblockIp, UNCHANGED requestVars
  PROVE  EffectInv'
<1>1. Working("UnblockIp") /\ fetched = {} /\ UNCHANGED <<edgeTrusted, fetched, kind, trusted>>
  BY NothingFetched DEF UnblockIp, requestVars
<1>2. PICK ok \in BOOLEAN : RunCommand(Edge, ok, "done") \/ AbortRun(Edge)
  BY DEF UnblockIp, Succeeds, Fails
<1>3. /\ UNCHANGED <<status, handouts>>
      /\ \A c \in Command : RanOk(c)' => RanOk(c) \/ c = Current(Edge)
  BY <1>1, <1>2, ExecutionFacts
<1>4. SameRows /\ FetchInv'
  BY <1>1, <1>3 DEF SameRows, FetchInv
<1>5. CASE (UNCHANGED <<blocked, unread>> \/ blocked' = FALSE) /\ Fails
  <2>1. \A c \in Command : RanOk(c)' => RanOk(c)
    BY <1>5 DEF Fails, RunCommand, RanOk
  <2>h. \A c \in Command : handouts'[c] \in Nat /\ handouts[c] <= handouts'[c]
    BY <1>3, RanFacts
  <2>2. Harmless
    BY <1>1, <1>4, <1>5, <2>1, <2>h DEF Harmless, TypeInv, TypeOK
  <2>3. QED
    BY <1>4, <2>2, QuietEffect
<1>6. CASE blocked' = FALSE \/ unread' = TRUE
  <2>1. kind[Current(Edge)] = "UnblockIp"
    BY <1>1, WorkingFacts
  <2>2. \A s \in NewestSync : s \in Command /\ kind[s] = "SyncAllowlist"
    BY DEF NewestSync, Newest, OfKind, Rows
  <2>3. FollowInv'
    BY <1>1, <1>3, <1>4, <2>1, <2>2, SameRowsFacts DEF EffectInv, FollowInv
  <2>4. UnblockInv' /\ TrustInv'
    BY <1>6 DEF UnblockInv, TrustInv
  <2>5. QED
    BY <1>4, <2>3, <2>4 DEF EffectInv
<1>7. \/ blocked' = FALSE
      \/ blocked = TRUE /\ blocked' = TRUE /\ (unread' = TRUE \/ (unread' = unread /\ Fails))
  <2>1. blocked \in BOOLEAN /\ unread \in BOOLEAN
    BY DEF TypeInv, TypeOK
  <2>2. CASE blocked = TRUE
    BY <2>1, <2>2 DEF UnblockIp
  <2>3. CASE blocked = FALSE
    BY <2>3 DEF UnblockIp
  <2>4. QED
    BY <2>1, <2>2, <2>3
<1>8. QED
  BY <1>5, <1>6, <1>7

LEMMA FetchEffect ==
  ASSUME TypeInv, EffectInv, FetchAllowlist, UNCHANGED requestVars
  PROVE  EffectInv'
<1>1. /\ UNCHANGED <<serviceVars, kind, trusted, edgeTrusted, blocked, unread>>
      /\ fetched' = {trusted} /\ Working("SyncAllowlist")
  BY DEF FetchAllowlist, requestVars
<1>2. UNCHANGED <<status, handouts, batch, waiting, results>>
  BY <1>1 DEF serviceVars
<1>3. SameRows /\ \A c : RanOk(c)' = RanOk(c)
  BY <1>1, <1>2 DEF SameRows, RanOk
<1>4. FetchInv'
  BY <1>1, <1>2 DEF FetchInv, Working, Current
<1>5. FollowInv'
  BY <1>1, <1>2, <1>3, SameRowsFacts DEF EffectInv, FollowInv
<1>6. UnblockInv' /\ TrustInv'
  BY <1>1, <1>2, <1>3, SameRowsFacts DEF EffectInv, UnblockInv, TrustInv
<1>7. QED
  BY <1>4, <1>5, <1>6 DEF EffectInv

\* The newest sync has fetched the allowlist as it is, and has run before any unblock after it.
LEMMA StoreEffect ==
  ASSUME TypeInv, EffectInv, StoreAllowlist, UNCHANGED requestVars
  PROVE  EffectInv'
<1>1. Working("SyncAllowlist") /\ fetched' = {} /\ UNCHANGED <<blocked, unread, kind, trusted>>
  BY DEF StoreAllowlist, requestVars
<1>2. PICK ok \in BOOLEAN : RunCommand(Edge, ok, "done") \/ AbortRun(Edge)
  BY DEF StoreAllowlist, Succeeds, Fails
<1>3. /\ UNCHANGED <<status, handouts>>
      /\ \A c \in Command : RanOk(c)' => RanOk(c) \/ c = Current(Edge)
  BY <1>1, <1>2, ExecutionFacts
<1>4. SameRows /\ FetchInv'
  BY <1>1, <1>3 DEF SameRows, FetchInv
<1>5. CASE UNCHANGED edgeTrusted /\ Fails
  <2>1. \A c \in Command : RanOk(c)' => RanOk(c)
    BY <1>5 DEF Fails, RunCommand, RanOk
  <2>2. Harmless
    BY <1>1, <1>3, <1>4, <1>5, <2>1, RanFacts DEF Harmless, TypeInv, TypeOK
  <2>3. QED
    BY <1>4, <2>2, QuietEffect
<1>6. CASE edgeTrusted' \in fetched
  <2>c. /\ Current(Edge) \in Command /\ Current(Edge) \in batch[Edge]
        /\ kind[Current(Edge)] = "SyncAllowlist" /\ handouts[Current(Edge)] > 0
        /\ status[Current(Edge)] # "absent"
    BY <1>1, WorkingFacts
  <2>1. \A s \in NewestSync : s \in Command /\ kind[s] = "SyncAllowlist"
    BY DEF NewestSync, Newest, OfKind, Rows
  <2>2. FollowInv'
    <3>1. OfKind({"SyncAllowlist"}) # {}
      BY <2>c DEF OfKind, Rows
    <3>2. \A s \in NewestSync : RanOk(s)' => handouts[s] > 0
      BY <1>3, <2>c, <2>1, RanFacts
    <3>3. \A s \in NewestSync : RanOk(s)' => edgeTrusted' = trusted
      BY <1>6, <3>2 DEF EffectInv, FollowInv
    <3>4. QED
      BY <1>1, <1>4, <3>1, <3>3, SameRowsFacts DEF FollowInv
  <2>3. UnblockInv'
    <3>1. \A c \in Command : kind[c] = "UnblockIp" /\ RanOk(c)' => RanOk(c)
      BY <1>3, <2>c
    <3>2. \A c \in Newest(OfKind({"BlockIp", "UnblockIp"})) : c \in Command
      BY DEF Newest, OfKind, Rows
    <3>3. QED
      BY <1>1, <1>3, <1>4, <3>1, <3>2, SameRowsFacts DEF EffectInv, UnblockInv
  <2>4. TrustInv'
    <3> SUFFICES ASSUME NEW s \in NewestSync, NEW u \in OfKind({"UnblockIp"}),
                        trusted, s < u, RanOk(s)', RanOk(u)', handouts[s] <= 1, ~unread
                 PROVE  ~blocked
      BY <1>1, <1>3, <1>4, SameRowsFacts DEF TrustInv
    <3>1. u \in Command /\ RanOk(u) /\ node[u] = Edge
      BY <1>3, <2>c, Constants DEF OfKind, Rows, TypeInv, OrderInv, ServiceTypeOK
    <3>2. RanOk(s)
      <4> SUFFICES ASSUME s = Current(Edge) PROVE FALSE
        BY <1>3, <2>1
      <4>1. ~HasRun(u)
        BY <2>c, <3>1, Constants DEF TypeInv, OrderInv, RunsInOrder
      <4>2. QED
        BY <3>1, <4>1, RanFacts
    <3>3. QED
      BY <3>1, <3>2 DEF EffectInv, TrustInv
  <2>5. QED
    BY <1>4, <2>2, <2>3, <2>4 DEF EffectInv
<1>7. QED
  BY <1>5, <1>6 DEF StoreAllowlist

LEMMA EdgeAgentEffect == TypeInv /\ EffectInv /\ EdgeAgent => EffectInv'
<1> SUFFICES ASSUME TypeInv, EffectInv, EdgeAgent PROVE EffectInv'
  OBVIOUS
<1>1. CASE SyncFails
  <2>1. /\ UNCHANGED <<kind, trusted, edgeTrusted, fetched, blocked, unread>>
        /\ fetched = {} /\ Fails
    BY <1>1 DEF SyncFails, edgeVars, EdgeAgent, requestVars
  <2>2. UNCHANGED <<status, handouts>> /\ \A c \in Command : RanOk(c)' => RanOk(c)
    BY <2>1 DEF Fails, RunCommand, RanOk
  <2>3. Harmless /\ FetchInv'
    BY <2>1, <2>2, RanFacts DEF Harmless, SameRows, FetchInv, TypeInv, TypeOK
  <2>4. QED
    BY <2>3, QuietEffect
<1>2. QED
  BY <1>1, BlockEffect, UnblockEffect, FetchEffect, StoreEffect DEF EdgeAgent

(***************************************************************************)
(* Polls, results and the rest.                                            *)
(***************************************************************************)
LEMMA PollEffectOnEdge == TypeInv /\ EffectInv /\ AgentPolls => EffectInv'
<1> SUFFICES ASSUME TypeInv, EffectInv, AgentPolls PROVE EffectInv'
  OBVIOUS
<1>1. /\ fetched = {} /\ UNCHANGED <<kind, trusted, edgeTrusted, fetched, blocked, unread>>
      /\ ServicePoll(Edge)
  BY DEF AgentPolls, requestVars, edgeVars, EffectInv, FetchInv, Working
<1>2. PICK reopened \in SUBSET Command, expired \in SUBSET Command, claimed \in SUBSET Command,
           answered \in BOOLEAN :
        /\ \A c \in reopened \cup expired \cup claimed : status[c] # "absent"
        /\ PollEffect(Edge, reopened, expired, claimed, answered)
  BY <1>1 DEF ServicePoll, Of, WithStatus, OpenStatus
<1>3. \A c \in Command :
        /\ status'[c] = "absent" <=> status[c] = "absent"
        /\ status'[c] = "succeeded" => status[c] = "succeeded"
        /\ handouts'[c] \in Nat /\ handouts[c] <= handouts'[c]
  <2> SUFFICES ASSUME NEW c \in Command
               PROVE  /\ status'[c] = "absent" <=> status[c] = "absent"
                      /\ status'[c] = "succeeded" => status[c] = "succeeded"
                      /\ handouts'[c] \in Nat /\ handouts[c] <= handouts'[c]
    OBVIOUS
  <2>1. status'[c] = CASE c \in claimed  -> "claimed"
                       [] c \in expired  -> "expired"
                       [] c \in reopened -> "pending"
                       [] OTHER          -> status[c]
    BY <1>2 DEF PollEffect
  <2>2. handouts'[c] = IF c \in claimed THEN handouts[c] + 1 ELSE handouts[c]
    BY <1>2 DEF PollEffect
  <2>3. status'[c] \in {"claimed", "expired", "pending"} \/ status'[c] = status[c]
    BY <2>1
  <2>4. c \notin claimed \cup expired \cup reopened => status'[c] = status[c]
    BY <2>1
  <2>5. QED
    BY <1>2, <2>2, <2>3, <2>4, RanFacts
<1>4. \A c \in Command : RanOk(c)' => RanOk(c)
  BY <1>2, <1>3 DEF PollEffect, RanOk
<1>5. Harmless /\ FetchInv'
  BY <1>1, <1>3, <1>4 DEF Harmless, SameRows, FetchInv, TypeInv, TypeOK
<1>6. QED
  BY <1>5, QuietEffect

LEMMA ResultEffect ==
  ASSUME TypeInv, EffectInv, NEW r \in results, NEW answered \in BOOLEAN,
         ReceiveResult(r, answered)
  PROVE  EffectInv'
<1>1. /\ UNCHANGED <<kind, trusted, edgeTrusted, fetched, blocked, unread>>
      /\ DeliverResult(r, answered)
  BY DEF ReceiveResult, requestVars, edgeVars
<1>t. ServiceTypeOK /\ r.cmd \in Command
  BY DEF TypeInv, OrderInv, ServiceTypeOK, Result
<1>2. /\ UNCHANGED handouts /\ results' \subseteq results
      /\ status'[r.cmd] = IF r.ok THEN "succeeded" ELSE "failed"
      /\ \A c \in Command : c # r.cmd => status'[c] = status[c]
  BY <1>1, <1>t DEF DeliverResult, ServiceTypeOK
<1>3. \A c \in Command : RanOk(c)' => RanOk(c)
  BY <1>2 DEF RanOk
<1>4. status[r.cmd] # "absent"
  BY <1>t, RanFacts DEF HasRun
<1>5. SameRows
  BY <1>1, <1>2, <1>4 DEF SameRows
<1>6. FetchInv'
  <2> SUFFICES ASSUME Working("SyncAllowlist") PROVE Working("SyncAllowlist")'
    BY <1>1 DEF EffectInv, FetchInv
  <2>1. \A n \in Node : ~AwaitedBy(n, r)
    BY Constants DEF Working, AwaitedBy
  <2>2. batch' = batch /\ waiting' = waiting
    BY <1>1, <1>t, <2>1 DEF DeliverResult, ServiceTypeOK
  <2>3. QED
    BY <1>1, <2>2 DEF Working, Current
<1>7. Harmless
  BY <1>1, <1>2, <1>3, <1>5, RanFacts DEF Harmless, TypeInv, TypeOK
<1>8. QED
  BY <1>6, <1>7, QuietEffect

LEMMA CancelEffect ==
  ASSUME TypeInv, EffectInv, NEW c \in Command, Cancel(c)
  PROVE  EffectInv'
<1>1. /\ UNCHANGED <<kind, trusted, edgeTrusted, fetched, blocked, unread, handouts, batch, waiting, results>>
      /\ CancelCheck(c) \/ CancelCommit(c)
  BY DEF Cancel, CancelCheck, CancelCommit, agentVars, requestVars, edgeVars
<1>2. \A d \in Command : status'[d] = status[d] \/ (d \in cancelling /\ status'[d] = "cancelled")
  BY <1>1 DEF CancelCheck, CancelCommit, TypeInv, OrderInv, ServiceTypeOK
<1>3. SameRows /\ \A d \in Command : RanOk(d)' => RanOk(d)
  BY <1>1, <1>2 DEF SameRows, RanOk, TypeInv, OrderInv, HandoutsCounted
<1>4. Harmless /\ FetchInv'
  BY <1>1, <1>3, RanFacts
  DEF Harmless, TypeInv, TypeOK, EffectInv, FetchInv, Working, Current
<1>5. QED
  BY <1>4, QuietEffect

LEMMA OtherEffect ==
  ASSUME TypeInv, EffectInv, UNCHANGED serviceVars \/ AbortRun(Edge),
         UNCHANGED <<kind, trusted, edgeTrusted>>, UNCHANGED <<blocked, unread>> \/ blocked' = FALSE,
         fetched' = {} \/ (UNCHANGED <<serviceVars, fetched>>)
  PROVE  EffectInv'
<1>1. UNCHANGED <<status, handouts, results>>
  BY DEF serviceVars, AbortRun
<1>2. SameRows /\ \A d \in Command : RanOk(d)' => RanOk(d)
  BY <1>1 DEF SameRows, RanOk
<1>3. FetchInv'
  BY DEF serviceVars, EffectInv, FetchInv, Working, Current
<1>h. \A c \in Command : handouts'[c] \in Nat /\ handouts[c] <= handouts'[c]
  BY <1>1, RanFacts
<1>4. Harmless
  BY <1>1, <1>2, <1>h DEF Harmless, serviceVars
<1>5. QED
  BY <1>3, <1>4, QuietEffect

LEMMA EffectStep == TypeInv /\ EffectInv /\ [Next]_vars => EffectInv'
<1> SUFFICES ASSUME TypeInv, EffectInv, [Next]_vars PROVE EffectInv'
  OBVIOUS
<1>1. ASSUME NEW c \in Command, Request(c) PROVE EffectInv'
  <2>1. CASE Cancel(c)
    BY <2>1, CancelEffect
  <2>2. CASE ~Cancel(c)
    BY <1>1, <2>2, RequestQueues, QueuesEffect DEF TypeInv
  <2>3. QED
    BY <2>1, <2>2
<1>2. CASE BlockCheck \/ TrustCheck \/ TrustFails \/ ScanRead \/ UNCHANGED vars
  BY <1>2, OtherEffect
  DEF BlockCheck, TrustCheck, TrustFails, ScanRead, edgeVars, requestVars, vars, TypeInv, TypeOK
<1>3. CASE RunEnds \/ BlockExpires
  BY <1>3, OtherEffect DEF RunEnds, BlockExpires, requestVars, TypeInv, TypeOK
<1>4. QED
  BY <1>1, <1>2, <1>3, EdgeAgentEffect, PollEffectOnEdge, ResultEffect DEF Next

-----------------------------------------------------------------------------
LEMMA Invariants == Spec => [](TypeInv /\ EffectInv)
  BY TypeInit, TypeStep, EffectInit, EffectStep, PTL DEF Spec

(***************************************************************************)
(* The Edge agent has the central allowlist once the newest sync has       *)
(* succeeded, however often syncs run, fail or report late.                *)
(***************************************************************************)
THEOREM AllowlistFollowed == Spec => []EdgeFollowsAllowlist
<1>1. TypeInv /\ EffectInv => EdgeFollowsAllowlist
  <2> SUFFICES ASSUME TypeInv, EffectInv, Rows # {}, Done(NewestSync)
               PROVE  edgeTrusted = trusted
    BY DEF EdgeFollowsAllowlist, NewestSync
  <2>1. CASE OfKind({"SyncAllowlist"}) = {}
    BY <2>1 DEF EffectInv, FollowInv, TypeInv, TypeOK
  <2>2. CASE OfKind({"SyncAllowlist"}) # {}
    <3>1. OfKind({"SyncAllowlist"}) \in SUBSET Nat /\ OfKind({"SyncAllowlist"}) \subseteq 1..MaxCommands
      BY DEF OfKind, Rows, Command
    <3>2. NewestSync # {}
      BY <2>2, <3>1, BoundedHasGreatest, ServiceAssumption DEF NewestSync, Newest
    <3>3. QED
      BY <3>2 DEF EffectInv, FollowInv, Done, RanOk
  <2>3. QED
    BY <2>1, <2>2
<1>2. QED
  BY <1>1, Invariants, PTL

(***************************************************************************)
(* An unblock that succeeded last holds, whatever blocks were pending,     *)
(* claimed or running when it was asked for.                               *)
(***************************************************************************)
THEOREM UnblocksHold == Spec => []UnblockHolds
<1>1. TypeInv /\ EffectInv => UnblockHolds
  BY DEF EffectInv, UnblockInv, UnblockHolds, RanOk
<1>2. QED
  BY <1>1, Invariants, PTL

(***************************************************************************)
(* A trusted address stays unblocked.                                      *)
(***************************************************************************)
THEOREM TrustsHold == Spec => []TrustHolds
<1>1. TypeInv /\ EffectInv => TrustHolds
  BY DEF EffectInv, TrustInv, TrustHolds, NewestSync, RanOk
<1>2. QED
  BY <1>1, Invariants, PTL

=============================================================================
