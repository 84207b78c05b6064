------------------------- MODULE CommandQueueProofs -------------------------
(***************************************************************************)
(* Theorems about CommandQueue, for every set of nodes, every number of    *)
(* commands, every TTL, claim timeout and batch limit.                     *)
(***************************************************************************)
EXTENDS CommandQueue, CommandServiceProofs, FiniteSetTheorems

(***************************************************************************)
(* Every variable keeps the type of its column or of its part of an agent. *)
(***************************************************************************)
LEMMA TypeInit == Init => TypeOK
  BY ServiceTypeInit, QueueAssumption DEF Init, TypeOK

\* The actions of the service leave the clock alone, and Poll and Tick saturate it.
LEMMA TypeStep == TypeOK /\ [Next]_vars => TypeOK'
<1> SUFFICES ASSUME TypeOK, [Next]_vars PROVE TypeOK'
  OBVIOUS
<1> USE DEF TypeOK
<1>1. CASE AgentStep /\ UNCHANGED <<age, claimAge>>
  BY <1>1, RunType, DeliverType, LoseType, AbortType DEF AgentStep
<1>2. CASE AdminStep /\ UNCHANGED <<age, claimAge>>
  <2>1. ASSUME NEW c \in Command, NEW n \in Node, QueueCommand(c, n) PROVE ServiceTypeOK'
    <3>1. QueueRows([d \in {c} |-> n])
      BY <2>1 DEF QueueCommand
    <3>2. QED
      BY <3>1, QueueType
  <2>2. QED
    BY <1>2, <2>1, CancelType DEF AdminStep
<1>3. ASSUME NEW n \in Node, Poll(n)
      PROVE  TypeOK'
  <2>1. NextBatch(n) \subseteq Command
    BY DEF NextBatch, Ready, Of
  <2>2. ServiceTypeOK'
    BY <1>3, <2>1, PollType DEF Poll
  <2>3. QED
    BY <1>3, <2>2, QueueAssumption DEF Poll
<1>4. CASE Tick
  BY <1>4, QueueAssumption DEF Tick, Older, serviceVars, ServiceTypeOK
<1>5. CASE UNCHANGED vars
  BY <1>5 DEF vars, serviceVars, ServiceTypeOK
<1>6. QED
  BY <1>1, <1>2, <1>3, <1>4, <1>5 DEF Next, Untimed

(***************************************************************************)
(* TypeOK is an invariant of every instance of the queue.                  *)
(***************************************************************************)
THEOREM TypeCorrect == Spec => []TypeOK
  BY TypeInit, TypeStep, PTL DEF Spec

-----------------------------------------------------------------------------
(***************************************************************************)
(* What one poll does to the status of a command, case by case.            *)
(***************************************************************************)
LEMMA PollStatus ==
  ASSUME TypeOK, NEW n \in Node, Poll(n), NEW c \in Command
  PROVE  \/ /\ c \in NextBatch(n)
            /\ node[c] = n /\ status[c] = "pending" /\ c \in Live
            /\ status'[c] = "claimed" /\ handouts'[c] = handouts[c] + 1 /\ claimAge'[c] = 0
         \/ /\ c \notin NextBatch(n)
            /\ status[c] \in OpenStatus
            /\ status'[c] = "expired" /\ handouts'[c] = handouts[c]
         \/ /\ c \notin NextBatch(n)
            /\ node[c] = n /\ status[c] = "claimed" /\ c \in Live /\ claimAge[c] > Stale
            /\ status'[c] = "pending" /\ handouts'[c] = handouts[c] /\ claimAge'[c] = 0
         \/ /\ c \notin NextBatch(n)
            /\ status'[c] = status[c] /\ handouts'[c] = handouts[c]
            /\ claimAge'[c] = claimAge[c]
<1>1. PICK answered \in BOOLEAN :
        PollEffect(n, StaleClaims(n), Expired(n), NextBatch(n), answered)
  BY DEF Poll
<1>2. NextBatch(n) \subseteq Ready(n)
  BY DEF NextBatch
<1>3. CASE c \in NextBatch(n)
  <2>1. c \in Ready(n)
    BY <1>2, <1>3
  <2>2. status'[c] = "claimed" /\ handouts'[c] = handouts[c] + 1
    <3>1. c \notin Expired(n) /\ c \notin StaleClaims(n)
      BY <2>1 DEF Ready, Expired, StaleClaims, WithStatus, Live
    <3>2. QED
      BY <1>1, <1>3, <3>1 DEF PollEffect
  <2>3. QED
    BY <1>3, <2>1, <2>2 DEF Poll, Ready, Of, WithStatus
<1>4. CASE c \notin NextBatch(n) /\ c \in Expired(n)
  <2>1. c \notin StaleClaims(n)
    BY <1>4 DEF Expired, StaleClaims
  <2>2. status'[c] = "expired" /\ handouts'[c] = handouts[c]
    BY <1>1, <1>4, <2>1 DEF PollEffect
  <2>3. QED
    BY <1>4, <2>2 DEF Expired, WithStatus
<1>5. CASE c \notin NextBatch(n) /\ c \in StaleClaims(n)
  <2>1. c \notin Expired(n)
    BY <1>5 DEF Expired, StaleClaims
  <2>2. status'[c] = "pending" /\ handouts'[c] = handouts[c]
    BY <1>1, <1>5, <2>1 DEF PollEffect
  <2>3. QED
    BY <1>5, <2>2 DEF Poll, StaleClaims, Of, WithStatus
<1>6. CASE c \notin NextBatch(n) /\ c \notin Expired(n) /\ c \notin StaleClaims(n)
  <2>1. status'[c] = status[c] /\ handouts'[c] = handouts[c]
    BY <1>1, <1>6 DEF PollEffect
  <2>2. QED
    BY <1>6, <2>1 DEF Poll
<1>7. QED
  BY <1>3, <1>4, <1>5, <1>6

(***************************************************************************)
(* HeldNotOffered is inductive: only a poll makes a command pending again, *)
(* it only looks at commands of its own node, and that node holds nothing. *)
(***************************************************************************)
LEMMA HeldInit == Init => HeldNotOffered
  BY DEF Init, ServiceInit, HeldNotOffered

\* No other step puts a command into a batch or back to pending.
LEMMA HeldStep == TypeOK /\ HeldNotOffered /\ [Next]_vars => HeldNotOffered'
<1> SUFFICES ASSUME TypeOK, HeldNotOffered, [Next]_vars,
                    NEW m \in Node, NEW d \in batch'[m]
             PROVE  node'[d] = m /\ status'[d] \notin {"absent", "pending"}
  BY DEF HeldNotOffered
<1>1. d \in batch[m] => d \in Command /\ node[d] = m /\ status[d] \notin {"absent", "pending"}
  BY DEF HeldNotOffered, TypeOK, ServiceTypeOK
<1>2. ASSUME NEW n \in Node, NEW ok \in BOOLEAN, NEW answer \in Answer,
             RunCommand(n, ok, answer)
      PROVE  node'[d] = m /\ status'[d] \notin {"absent", "pending"}
  BY <1>1, <1>2 DEF RunCommand
<1>3. ASSUME NEW r \in results, NEW answered \in BOOLEAN, DeliverResult(r, answered)
      PROVE  node'[d] = m /\ status'[d] \notin {"absent", "pending"}
  <2>1. d \in batch[m]
    BY <1>3 DEF DeliverResult
  <2>2. QED
    BY <1>1, <1>3, <2>1 DEF DeliverResult, TypeOK, ServiceTypeOK
<1>4. ASSUME NEW r \in results, LoseResult(r)
      PROVE  node'[d] = m /\ status'[d] \notin {"absent", "pending"}
  BY <1>1, <1>4 DEF LoseResult
<1>5. ASSUME NEW n \in Node, AbortRun(n)
      PROVE  node'[d] = m /\ status'[d] \notin {"absent", "pending"}
  <2>1. d \in batch[m]
    BY <1>5 DEF AbortRun, TypeOK, ServiceTypeOK
  <2>2. QED
    BY <1>1, <1>5, <2>1 DEF AbortRun
<1>6. ASSUME NEW c \in Command, NEW n \in Node, QueueCommand(c, n)
      PROVE  node'[d] = m /\ status'[d] \notin {"absent", "pending"}
  <2>1. d \in batch[m] /\ d # c
    BY <1>1, <1>6 DEF QueueCommand, QueueRows, WriteRows, agentVars
  <2>2. QED
    BY <1>1, <1>6, <2>1 DEF QueueCommand, QueueRows, WriteRows, TypeOK, ServiceTypeOK
<1>7. ASSUME NEW c \in Command, CancelCheck(c)
      PROVE  node'[d] = m /\ status'[d] \notin {"absent", "pending"}
  BY <1>1, <1>7 DEF CancelCheck, agentVars
<1>8. ASSUME NEW c \in Command, CancelCommit(c)
      PROVE  node'[d] = m /\ status'[d] \notin {"absent", "pending"}
  BY <1>1, <1>8 DEF CancelCommit, agentVars, TypeOK, ServiceTypeOK
<1>9. ASSUME NEW n \in Node, Poll(n)
      PROVE  node'[d] = m /\ status'[d] \notin {"absent", "pending"}
  <2>1. node' = node
    BY <1>9 DEF Poll, PollEffect
  <2>2. batch'[m] = batch[m] \/ (m = n /\ batch'[m] = NextBatch(n))
    BY <1>9 DEF Poll, PollEffect, TypeOK, ServiceTypeOK
  <2>3. CASE d \in batch[m]
    <3>1. m # n
      BY <1>9, <2>3 DEF Poll
    <3>2. QED
      BY <1>1, <1>9, <2>1, <2>3, <3>1, PollStatus
  <2>4. CASE m = n /\ d \in NextBatch(n)
    <3>1. d \in Command
      BY <2>4 DEF NextBatch, Ready, Of
    <3>2. QED
      BY <1>9, <2>1, <2>4, <3>1, PollStatus
  <2>5. QED
    BY <2>2, <2>3, <2>4
<1>10. CASE Tick
  BY <1>1, <1>10 DEF Tick, serviceVars
<1>11. CASE UNCHANGED vars
  BY <1>1, <1>11 DEF vars, serviceVars
<1>12. QED
  BY <1>2, <1>3, <1>4, <1>5, <1>6, <1>7, <1>8, <1>9, <1>10, <1>11
  DEF Next, Untimed, AgentStep, AdminStep

(***************************************************************************)
(* No command is offered again while a run of an agent holds it: two       *)
(* executions of one command never overlap.                                *)
(***************************************************************************)
THEOREM NoOverlappingExecution == Spec => []HeldNotOffered
  BY TypeInit, TypeStep, HeldInit, HeldStep, PTL DEF Spec

-----------------------------------------------------------------------------
(***************************************************************************)
(* A command that is closed stays closed.                                  *)
(***************************************************************************)
THEOREM ClosedForGood == Spec => ClosedNeverReopened
<1> DEFINE Stays == \A c \in Command : status[c] \in ClosedStatus => status'[c] \in ClosedStatus
<1>1. TypeOK /\ [Next]_vars => Stays
  <2> SUFFICES ASSUME TypeOK, [Next]_vars, NEW c \in Command, status[c] \in ClosedStatus
               PROVE  status'[c] \in ClosedStatus
    OBVIOUS
  <2> USE DEF ClosedStatus, ResultStatus
  <2>1. ASSUME NEW r \in results, NEW answered \in BOOLEAN, DeliverResult(r, answered)
        PROVE  status'[c] \in ClosedStatus
    BY <2>1 DEF DeliverResult, TypeOK, ServiceTypeOK
  <2>2. ASSUME NEW d \in Command, NEW n \in Node, QueueCommand(d, n)
        PROVE  status'[c] \in ClosedStatus
    BY <2>2 DEF QueueCommand, QueueRows, WriteRows, TypeOK, ServiceTypeOK
  <2>3. ASSUME NEW d \in Command, CancelCommit(d)
        PROVE  status'[c] \in ClosedStatus
    BY <2>3 DEF CancelCommit, TypeOK, ServiceTypeOK
  <2>4. ASSUME NEW n \in Node, Poll(n)
        PROVE  status'[c] \in ClosedStatus
    BY <2>4, PollStatus DEF OpenStatus
  <2>5. CASE UNCHANGED status
    BY <2>5
  <2>6. QED
    BY <2>1, <2>2, <2>3, <2>4, <2>5
    DEF Next, Untimed, AgentStep, AdminStep, RunCommand, LoseResult, AbortRun, CancelCheck,
        Tick, vars, serviceVars
<1>2. TypeOK /\ [Next]_vars => [Stays]_vars
  BY <1>1
<1>3. QED
  BY <1>2, TypeInit, TypeStep, PTL DEF Spec, ClosedNeverReopened

-----------------------------------------------------------------------------
(***************************************************************************)
(* Every earlier hand-out used up more than a claim timeout of the age of  *)
(* the command; the current claim has used up claimAge more.               *)
(***************************************************************************)
RedeliveryInv ==
  \A c \in Command :
    /\ status[c] = "absent" => handouts[c] = 0
    /\ status[c] = "pending" /\ c \in Live => handouts[c] * (Stale + 1) <= age[c]
    /\ status[c] = "claimed" /\ c \in Live =>
         handouts[c] * (Stale + 1) + claimAge[c] <= age[c] + Stale + 1
    /\ handouts[c] * (Stale + 1) <= TTL + Stale + 1

\* One more hand-out takes one claim timeout more (products are beyond the later leaves).
LEMMA Distribute == \A h, s \in Nat : /\ h * (s + 1) \in Nat
                                      /\ (h + 1) * (s + 1) = h * (s + 1) + s + 1
  OBVIOUS

\* Nothing was handed out yet.
LEMMA RedeliveryInit == Init => RedeliveryInv
<1> SUFFICES ASSUME Init PROVE RedeliveryInv
  OBVIOUS
<1>1. 0 * (Stale + 1) = 0
  BY QueueAssumption
<1>2. QED
  BY <1>1, QueueAssumption DEF Init, ServiceInit, RedeliveryInv

\* A poll starts a claim only on a live command, and reopens one only after its timeout.
LEMMA RedeliveryStep == TypeOK /\ RedeliveryInv /\ [Next]_vars => RedeliveryInv'
<1> SUFFICES ASSUME TypeOK, RedeliveryInv, [Next]_vars, NEW c \in Command
             PROVE  /\ status'[c] = "absent" => handouts'[c] = 0
                    /\ status'[c] = "pending" /\ c \in Live' =>
                         handouts'[c] * (Stale + 1) <= age'[c]
                    /\ status'[c] = "claimed" /\ c \in Live' =>
                         handouts'[c] * (Stale + 1) + claimAge'[c] <= age'[c] + Stale + 1
                    /\ handouts'[c] * (Stale + 1) <= TTL + Stale + 1
  BY DEF RedeliveryInv
<1> DEFINE Bound(h, s, a, k) ==
             /\ s = "absent" => h = 0
             /\ s = "pending" /\ a <= TTL => h * (Stale + 1) <= a
             /\ s = "claimed" /\ a <= TTL => h * (Stale + 1) + k <= a + Stale + 1
             /\ h * (Stale + 1) <= TTL + Stale + 1
<1> SUFFICES Bound(handouts'[c], status'[c], age'[c], claimAge'[c])
  BY DEF Live
<1>1. Bound(handouts[c], status[c], age[c], claimAge[c])
  BY DEF RedeliveryInv, Live
<1>2. /\ handouts[c] \in Nat /\ age[c] \in 0..(TTL + 1) /\ claimAge[c] \in 0..(Stale + 1)
      /\ handouts[c] * (Stale + 1) \in Nat
      /\ (handouts[c] + 1) * (Stale + 1) = handouts[c] * (Stale + 1) + Stale + 1
  BY Distribute, QueueAssumption DEF TypeOK, ServiceTypeOK
<1>3. ASSUME NEW r \in results, NEW answered \in BOOLEAN, DeliverResult(r, answered),
             UNCHANGED <<age, claimAge>>
      PROVE  Bound(handouts'[c], status'[c], age'[c], claimAge'[c])
  <2>1. handouts'[c] = handouts[c] /\ status'[c] \in {status[c], "succeeded", "failed"}
    BY <1>3 DEF DeliverResult, TypeOK, ServiceTypeOK
  <2>2. QED
    BY <1>1, <1>3, <2>1
<1>4. ASSUME NEW d \in Command, NEW n \in Node, QueueCommand(d, n), UNCHANGED <<age, claimAge>>
      PROVE  Bound(handouts'[c], status'[c], age'[c], claimAge'[c])
  <2>1. CASE c = d
    <3>1. handouts[c] = 0 /\ handouts'[c] = 0 /\ status'[c] = "pending"
      BY <1>1, <1>4, <2>1 DEF QueueCommand, QueueRows, WriteRows, TypeOK, ServiceTypeOK
    <3>2. 0 * (Stale + 1) = 0
      BY QueueAssumption
    <3>3. QED
      BY <1>2, <1>4, <3>1, <3>2, QueueAssumption
  <2>2. CASE c # d
    <3>1. handouts'[c] = handouts[c] /\ status'[c] = status[c]
      BY <1>4, <2>2 DEF QueueCommand, QueueRows, WriteRows, TypeOK, ServiceTypeOK
    <3>2. QED
      BY <1>1, <1>4, <3>1
  <2>3. QED
    BY <2>1, <2>2
<1>5. ASSUME NEW d \in Command, CancelCommit(d), UNCHANGED <<age, claimAge>>
      PROVE  Bound(handouts'[c], status'[c], age'[c], claimAge'[c])
  <2>1. handouts'[c] = handouts[c] /\ status'[c] \in {status[c], "cancelled"}
    BY <1>5 DEF CancelCommit, TypeOK, ServiceTypeOK
  <2>2. QED
    BY <1>1, <1>5, <2>1
<1>6. ASSUME NEW n \in Node, Poll(n)
      PROVE  Bound(handouts'[c], status'[c], age'[c], claimAge'[c])
  <2>1. age'[c] = age[c]
    BY <1>6 DEF Poll
  <2>2. CASE /\ status[c] = "pending" /\ c \in Live
             /\ status'[c] = "claimed" /\ handouts'[c] = handouts[c] + 1 /\ claimAge'[c] = 0
    BY <1>1, <1>2, <2>1, <2>2, QueueAssumption DEF Live
  <2>3. CASE status'[c] = "expired" /\ handouts'[c] = handouts[c]
    BY <1>1, <2>1, <2>3
  <2>4. CASE /\ status[c] = "claimed" /\ c \in Live /\ claimAge[c] > Stale
             /\ status'[c] = "pending" /\ handouts'[c] = handouts[c] /\ claimAge'[c] = 0
    BY <1>1, <1>2, <2>1, <2>4, QueueAssumption DEF Live
  <2>5. CASE status'[c] = status[c] /\ handouts'[c] = handouts[c] /\ claimAge'[c] = claimAge[c]
    BY <1>1, <2>1, <2>5
  <2>6. QED
    BY <1>6, <2>2, <2>3, <2>4, <2>5, PollStatus
<1>7. CASE Tick
  <2>1. handouts'[c] = handouts[c] /\ status'[c] = status[c]
    BY <1>7 DEF Tick, serviceVars
  <2>2. status[c] # "absent" /\ age'[c] <= TTL => age'[c] = age[c] + 1 /\ age[c] <= TTL
    BY <1>2, <1>7, QueueAssumption DEF Tick, Older
  <2>3. claimAge'[c] \in {claimAge[c], claimAge[c] + 1}
    BY <1>7 DEF Tick, Older
  <2>4. QED
    BY <1>1, <1>2, <2>1, <2>2, <2>3, QueueAssumption
<1>8. CASE UNCHANGED <<status, handouts, age, claimAge>>
  BY <1>1, <1>8
<1>9. QED
  BY <1>3, <1>4, <1>5, <1>6, <1>7, <1>8
  DEF Next, Untimed, AgentStep, AdminStep, RunCommand, LoseResult, AbortRun, CancelCheck,
      vars, serviceVars

(***************************************************************************)
(* A command is handed out at most once per claim timeout within its TTL.  *)
(***************************************************************************)
THEOREM RedeliveryBounded == Spec => []BoundedRedelivery
<1>1. RedeliveryInv => BoundedRedelivery
  BY DEF RedeliveryInv, BoundedRedelivery
<1>2. QED
  BY <1>1, TypeInit, TypeStep, RedeliveryInit, RedeliveryStep, PTL DEF Spec

-----------------------------------------------------------------------------
(***************************************************************************)
(* The batch limit cuts the queue of a node behind, never in front of, a   *)
(* command that is handed out.                                             *)
(***************************************************************************)
LEMMA BatchIsOldest ==
  ASSUME NEW n \in Node, NEW c \in NextBatch(n), NEW d \in Ready(n), d < c
  PROVE  d \in NextBatch(n)
<1> DEFINE Before(e) == {b \in Ready(n) : b < e}
<1>1. Ready(n) \subseteq Command /\ IsFiniteSet(Command)
  BY FS_Interval, ServiceAssumption DEF Ready, Of, Command
<1>2. IsFiniteSet(Before(c)) /\ IsFiniteSet(Before(d))
  BY <1>1, FS_Subset
<1>3. Before(d) \subseteq Before(c)
  <2>1. ASSUME NEW b \in Ready(n), b < d PROVE b < c
    BY <1>1, <2>1, ServiceAssumption DEF NextBatch, Command
  <2>2. QED
    BY <2>1
<1>4. Cardinality(Before(d)) <= Cardinality(Before(c))
  BY <1>2, <1>3, FS_Subset
<1>5. Cardinality(Before(c)) < BatchLimit
  BY DEF NextBatch
<1>6. Cardinality(Before(d)) \in Nat /\ Cardinality(Before(c)) \in Nat
  BY <1>2, FS_CardinalityType
<1>7. QED
  BY <1>4, <1>5, <1>6, QueueAssumption DEF NextBatch

(***************************************************************************)
(* A poll that hands out a command hands out every older one of the node   *)
(* that is waiting, whatever the batch limit.                              *)
(***************************************************************************)
THEOREM OldestFirst == Spec => NoOvertaking
<1> DEFINE InOrder ==
             \A c, d \in Command :
               /\ c < d
               /\ node[c] = node[d]
               /\ status[c] = "pending" /\ c \in Live
               /\ status[d] = "pending" /\ status'[d] = "claimed"
               => status'[c] = "claimed"
<1>1. TypeOK /\ [Next]_vars => InOrder
  <2> SUFFICES ASSUME TypeOK, [Next]_vars, NEW c \in Command, NEW d \in Command, c < d,
                      node[c] = node[d], status[c] = "pending", c \in Live,
                      status[d] = "pending", status'[d] = "claimed"
               PROVE  status'[c] = "claimed"
    OBVIOUS
  <2>1. PICK n \in Node : Poll(n)
    <3>1. ASSUME NEW r \in results, NEW answered \in BOOLEAN, DeliverResult(r, answered) PROVE FALSE
      BY <3>1 DEF DeliverResult, TypeOK, ServiceTypeOK
    <3>2. ASSUME NEW e \in Command, NEW n \in Node, QueueCommand(e, n) PROVE FALSE
      BY <3>2 DEF QueueCommand, QueueRows, WriteRows
    <3>3. ASSUME NEW e \in Command, CancelCommit(e) PROVE FALSE
      BY <3>3 DEF CancelCommit, TypeOK, ServiceTypeOK
    <3>4. ASSUME UNCHANGED status PROVE FALSE
      BY <3>4
    <3>5. QED
      BY <3>1, <3>2, <3>3, <3>4
      DEF Next, Untimed, AgentStep, AdminStep, RunCommand, LoseResult, AbortRun, CancelCheck,
          Tick, vars, serviceVars
  <2>2. d \in NextBatch(n) /\ node[d] = n
    BY <2>1, PollStatus
  <2>3. c \in Ready(n)
    BY <2>2 DEF Ready, Of, WithStatus
  <2>4. c \in NextBatch(n)
    BY <2>2, <2>3, BatchIsOldest
  <2>5. QED
    BY <2>1, <2>4, PollStatus
<1>2. TypeOK /\ [Next]_vars => [InOrder]_vars
  BY <1>1
<1>3. QED
  BY <1>2, TypeInit, TypeStep, PTL DEF Spec, NoOvertaking

\* Every poll of agent_get_commands is one the service allows: no run holds a claim it reopens.
LEMMA PollRefines ==
  ASSUME TypeOK, HeldNotOffered, NEW n \in Node, Poll(n)
  PROVE  ServicePoll(n)
<1>1. PICK answered \in BOOLEAN :
        PollEffect(n, StaleClaims(n), Expired(n), NextBatch(n), answered)
  BY DEF Poll
<1>2. ASSUME NEW c \in Of(n) PROVE c \notin Held
  BY DEF Held, HeldNotOffered, Of, Poll
<1>3. /\ StaleClaims(n) \in SUBSET ((Of(n) \cap WithStatus({"claimed"})) \ Held)
      /\ Expired(n) \in SUBSET ((Of(n) \cap WithStatus(OpenStatus)) \ Held)
  BY <1>2 DEF StaleClaims, Expired
<1>4. NextBatch(n) \in SUBSET (Of(n) \cap WithStatus({"pending"}))
  BY DEF NextBatch, Ready
<1>5. Expired(n) \cap (NextBatch(n) \cup StaleClaims(n)) = {}
  BY DEF Expired, NextBatch, Ready, StaleClaims
<1>6. \A c \in NextBatch(n), d \in (Of(n) \cap WithStatus({"pending"})) \ Expired(n) :
        d < c => d \in NextBatch(n)
  <2>1. (Of(n) \cap WithStatus({"pending"})) \ Expired(n) \subseteq Ready(n)
    BY DEF Expired, Ready, WithStatus, OpenStatus
  <2>2. QED
    BY <2>1, BatchIsOldest
<1>7. QED
  BY <1>1, <1>3, <1>4, <1>5, <1>6 DEF ServicePoll

(***************************************************************************)
(* The clock, the timeouts and the batch order of the code implement the   *)
(* service without a clock, on which Quarantine is built.                  *)
(***************************************************************************)
THEOREM QueueImplementsService == Spec => ImplementsService
<1>1. Init => ServiceInit
  BY DEF Init
<1>2. TypeOK /\ HeldNotOffered /\ [Next]_vars => [ServiceNext]_serviceVars
  <2> SUFFICES ASSUME TypeOK, HeldNotOffered, [Next]_vars
               PROVE  [ServiceNext]_serviceVars
    OBVIOUS
  <2>1. CASE Untimed
    BY <2>1 DEF Untimed, ServiceNext
  <2>2. ASSUME NEW n \in Node, Poll(n) PROVE ServiceNext
    BY <2>2, PollRefines DEF ServiceNext
  <2>3. CASE Tick
    BY <2>3 DEF Tick
  <2>4. CASE UNCHANGED vars
    BY <2>4 DEF vars
  <2>5. QED
    BY <2>1, <2>2, <2>3, <2>4 DEF Next
<1>3. QED
  BY <1>1, <1>2, TypeInit, TypeStep, HeldInit, HeldStep, PTL
  DEF Spec, ServiceSpec, ImplementsService

(***************************************************************************)
(* With its clock, its TTL and its batch limit, the command table still    *)
(* gives every command the life of a task.                                 *)
(***************************************************************************)
THEOREM QueueImplementsLifecycle == Spec => ImplementsLifecycle
  BY QueueImplementsService, ServiceImplementsLifecycle DEF ImplementsService

=============================================================================
