---------------------------- MODULE CommandQueue ----------------------------
(***************************************************************************)
(* The command table as the code runs it: agent_get_commands with its      *)
(* 60 minute TTL, its 10 minute claim timeout and its batch limit, over    *)
(* the agents, results and cancellations of CommandService.                *)
(*                                                                         *)
(* Time is kept as ages, which saturate one tick past the last value a     *)
(* comparison of the code tells apart; a saturated age only says "older".  *)
(***************************************************************************)
EXTENDS CommandService

CONSTANTS
  TTL,          \* command_ttl_minutes, in ticks
  Stale,        \* the claim timeout (10 minutes), in ticks
  BatchLimit    \* .limit(20)

ASSUME QueueAssumption ==
  /\ TTL \in Nat
  /\ Stale \in Nat
  /\ BatchLimit \in Nat \ {0}

VARIABLES
  age,        \* ticks since the row was created
  claimAge    \* ticks since claimed_at; 0 while claimed_at is null

vars == <<serviceVars, age, claimAge>>

TypeOK ==
  /\ ServiceTypeOK
  /\ age \in [Command -> 0..(TTL + 1)]
  /\ claimAge \in [Command -> 0..(Stale + 1)]

Init ==
  /\ ServiceInit
  /\ age = [c \in Command |-> 0]
  /\ claimAge = [c \in Command |-> 0]

Live == {c \in Command : age[c] <= TTL}     \* expires_at >= now

(***************************************************************************)
(* The three queries of agent_get_commands.  The session does not flush    *)
(* between them (autoflush=False), so a claim reopened by this poll is not *)
(* seen by the last query: it is handed out by the next poll.              *)
(***************************************************************************)
StaleClaimsOfAnyNode(n) ==
  {c \in WithStatus({"claimed"}) \cap Live : claimAge[c] > Stale}

StaleClaimsAtLimit(n) ==
  {c \in Of(n) \cap WithStatus({"claimed"}) \cap Live : claimAge[c] >= Stale}

StaleClaimsInAnyStatus(n) ==
  {c \in Of(n) \cap Live : claimAge[c] > Stale}

StaleClaims(n) ==
  {c \in Of(n) \cap WithStatus({"claimed"}) \cap Live : claimAge[c] > Stale}

ExpiredPendingOnly(n) == (Of(n) \cap WithStatus({"pending"})) \ Live

Expired(n) == (Of(n) \cap WithStatus(OpenStatus)) \ Live

ReadyOfAnyNode(n) == WithStatus({"pending"}) \cap Live

Ready(n) == Of(n) \cap WithStatus({"pending"}) \cap Live

NextBatchNewestFirst(n) ==
  {c \in Ready(n) : Cardinality({d \in Ready(n) : d > c}) < BatchLimit}

NextBatch(n) ==
  {c \in Ready(n) : Cardinality({d \in Ready(n) : d < c}) < BatchLimit}

(***************************************************************************)
(* agent_get_commands.  The scheduled task never starts a second run while *)
(* one is active (MultipleInstances IgnoreNew), so a node polls when its   *)
(* batch is empty.                                                         *)
(***************************************************************************)
Poll(n) ==
  /\ batch[n] = {}
  /\ \E answered \in BOOLEAN :
       PollEffect(n, StaleClaims(n), Expired(n), NextBatch(n), answered)
  /\ claimAge' = [c \in Command |->
                    IF c \in StaleClaims(n) \cup NextBatch(n) THEN 0 ELSE claimAge[c]]
  /\ UNCHANGED age

(***************************************************************************)
(* Time passes.  A tick is minutes long, so an admin request that has      *)
(* passed its status check commits before the next one.                    *)
(***************************************************************************)
Older(a, limit) == IF a > limit THEN a ELSE a + 1

Tick ==
  /\ cancelling = {}
  /\ age' = [c \in Command |->
               IF status[c] = "absent" THEN age[c] ELSE Older(age[c], TTL)]
  /\ claimAge' = [c \in Command |->
               IF status[c] = "claimed" THEN Older(claimAge[c], Stale) ELSE claimAge[c]]
  /\ UNCHANGED serviceVars

Untimed == AgentStep \/ AdminStep

Next ==
  \/ Untimed /\ UNCHANGED <<age, claimAge>>
  \/ \E n \in Node : Poll(n)
  \/ Tick

(***************************************************************************)
(* Fairness: the scheduled task of every node keeps starting runs, a run   *)
(* ends (it finishes its batch or is killed at its execution time limit),  *)
(* an admin request that was accepted commits, and time passes.  Nothing   *)
(* is assumed of the network: every result may be lost.                    *)
(***************************************************************************)
Fairness ==
  /\ WF_vars(Tick)
  /\ \A n \in Node : WF_vars(Poll(n))
  /\ \A n \in Node : WF_vars(AbortRun(n) /\ UNCHANGED <<age, claimAge>>)
  /\ \A c \in Command : WF_vars(CancelCommit(c) /\ UNCHANGED <<age, claimAge>>)

Spec     == Init /\ [][Next]_vars
FairSpec == Spec /\ Fairness

-----------------------------------------------------------------------------
(***************************************************************************)
(* While a run of an agent still holds a command the table does not offer  *)
(* it again: an execution never overlaps a second one of the same command, *)
(* whatever timed out, got lost or was cancelled in between (the node      *)
(* filter of the stale-claim query and the single run per node).           *)
(***************************************************************************)
HeldNotOffered ==
  \A n \in Node : \A c \in batch[n] : node[c] = n /\ status[c] \notin {"absent", "pending"}

(***************************************************************************)
(* However many runs crash or lose their results, a command is handed out  *)
(* at most once per claim timeout within its TTL: 6 times for the 60 and   *)
(* 10 minutes of the code.                                                 *)
(***************************************************************************)
BoundedRedelivery ==
  \A c \in Command : handouts[c] * (Stale + 1) <= TTL + Stale + 1

(***************************************************************************)
(* A command that reached a result, expired or was cancelled is never      *)
(* offered or handed out again (a late result may still overwrite how it   *)
(* was closed).                                                            *)
(***************************************************************************)
ClosedNeverReopened ==
  [][\A c \in Command : status[c] \in ClosedStatus => status'[c] \in ClosedStatus]_vars

(***************************************************************************)
(* A poll does not leave an older command of the node waiting while it     *)
(* hands out a newer one, also when the batch limit cuts the queue.        *)
(***************************************************************************)
NoOvertaking ==
  [][\A c, d \in Command :
       /\ c < d
       /\ node[c] = node[d]
       /\ status[c] = "pending" /\ c \in Live
       /\ status[d] = "pending" /\ status'[d] = "claimed"
       => status'[c] = "claimed"]_vars

(***************************************************************************)
(* Every command is eventually closed, although agents crash and results   *)
(* get lost: nothing stays pending or claimed for ever.                    *)
(***************************************************************************)
EventuallyClosed ==
  \A c \in Command : status[c] \in OpenStatus ~> status[c] \in ClosedStatus

(***************************************************************************)
(* The queue implements the service the other components rely on.          *)
(***************************************************************************)
ImplementsService == ServiceSpec

=============================================================================
