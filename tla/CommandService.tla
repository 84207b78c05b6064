--------------------------- MODULE CommandService ---------------------------
(***************************************************************************)
(* What the command table and the agents promise to the rest of the        *)
(* program, with no clock: a command that was queued is handed to its node *)
(* at least once or closed, a hand-out that got no result may be repeated, *)
(* but never while a run of an agent still holds it, and a result may come *)
(* late or be lost.  CommandQueue adds the clock, the TTL, the claim       *)
(* timeout and the batch order of the code and implements this service;    *)
(* the components with commands are built on it.                           *)
(*                                                                         *)
(* The web process is one uvicorn process whose agent endpoints are        *)
(* coroutines with no await between their reads and their commit, so each  *)
(* is one step here.  The admin pages run in a thread pool, so a           *)
(* cancellation is two steps: the read of the row and the commit.          *)
(***************************************************************************)
EXTENDS Naturals, FiniteSets

CONSTANTS
  Node,          \* agent nodes: the Edge agent and the mailbox agent
  Answer,        \* what an agent may report in the result of a command
  MaxCommands    \* bound: rows the command table may ever hold

ASSUME ServiceAssumption == Node # {} /\ MaxCommands \in Nat

(***************************************************************************)
(* Commands are numbered in the order their rows appear, that of           *)
(* created_at.                                                             *)
(***************************************************************************)
Command == 1..MaxCommands

OpenStatus   == {"pending", "claimed"}
ResultStatus == {"succeeded", "failed"}
ClosedStatus == ResultStatus \cup {"expired", "cancelled"}
Status       == {"absent"} \cup OpenStatus \cup ClosedStatus

VARIABLES
  status,      \* Command.status; "absent" until the row exists
  node,        \* Command.node_id
  handouts,    \* history: how often a poll has returned the command
  batch,       \* per node: commands the current run of its agent still has to finish
  waiting,     \* nodes whose agent has posted a result and waits for the answer
  results,     \* result requests sent and not yet handled
  cancelling   \* cancellations that passed the status check, before their commit

agentVars   == <<batch, waiting, results>>
serviceVars == <<status, node, handouts, batch, waiting, results, cancelling>>

Result == [cmd : Command, try : Nat, ok : BOOLEAN, answer : Answer]

ServiceTypeOK ==
  /\ status \in [Command -> Status]
  /\ node \in [Command -> Node]
  /\ handouts \in [Command -> Nat]
  /\ batch \in [Node -> SUBSET Command]
  /\ waiting \subseteq Node
  /\ results \subseteq Result
  /\ cancelling \subseteq Command

ServiceInit ==
  /\ status     = [c \in Command |-> "absent"]
  /\ node       = [c \in Command |-> CHOOSE n \in Node : TRUE]
  /\ handouts   = [c \in Command |-> 0]
  /\ batch      = [n \in Node |-> {}]
  /\ waiting    = {}
  /\ results    = {}
  /\ cancelling = {}

Of(n)      == {c \in Command : node[c] = n}
WithStatus(S) == {c \in Command : status[c] \in S}
Held       == UNION {batch[n] : n \in Node}

(***************************************************************************)
(* queue_command: new pending rows, all of them in one transaction.  rows  *)
(* maps each new command to its node.  The same transaction may cancel     *)
(* commands it has read as pending.                                        *)
(***************************************************************************)
WriteRows(rows, cancelled) ==
  /\ \A c \in DOMAIN rows : status[c] = "absent"
  /\ \A c \in DOMAIN rows, d \in Command \ DOMAIN rows : d < c => status[d] # "absent"
  /\ status' = [c \in Command |-> CASE c \in DOMAIN rows -> "pending"
                                    [] c \in cancelled   -> "cancelled"
                                    [] OTHER             -> status[c]]
  /\ node'   = [c \in Command |-> IF c \in DOMAIN rows THEN rows[c] ELSE node[c]]
  /\ UNCHANGED <<handouts, agentVars, cancelling>>

QueueRows(rows) == WriteRows(rows, {})

QueueCommand(c, n) == QueueRows([d \in {c} |-> n])

(***************************************************************************)
(* What one GET /api/agent/v1/commands of node n does, given the claims it *)
(* reopens, the commands it expires and the ones it claims and returns.    *)
(* The answer may get lost after the commit: then no run holds the batch.  *)
(***************************************************************************)
PollEffect(n, reopened, expired, claimed, answered) ==
  /\ status'   = [c \in Command |-> CASE c \in claimed  -> "claimed"
                                      [] c \in expired  -> "expired"
                                      [] c \in reopened -> "pending"
                                      [] OTHER          -> status[c]]
  /\ handouts' = [c \in Command |-> IF c \in claimed THEN handouts[c] + 1
                                                     ELSE handouts[c]]
  /\ batch'    = IF answered THEN [batch EXCEPT ![n] = @ \cup claimed] ELSE batch
  /\ UNCHANGED <<node, waiting, results, cancelling>>

(***************************************************************************)
(* The service hides how the sets are chosen.  It promises that a poll     *)
(* only touches commands of its node that no run of an agent holds, and    *)
(* hands them out in the order they were queued.                           *)
(***************************************************************************)
ServicePoll(n) ==
  \E reopened \in SUBSET ((Of(n) \cap WithStatus({"claimed"})) \ Held),
     expired  \in SUBSET ((Of(n) \cap WithStatus(OpenStatus)) \ Held),
     claimed  \in SUBSET (Of(n) \cap WithStatus({"pending"})),
     answered \in BOOLEAN :
       /\ expired \cap (claimed \cup reopened) = {}
       /\ \A c \in claimed, d \in (Of(n) \cap WithStatus({"pending"})) \ expired :
            d < c => d \in claimed
       /\ PollEffect(n, reopened, expired, claimed, answered)

(***************************************************************************)
(* The agent works through its batch in the order it was returned.         *)
(***************************************************************************)
CurrentNewest(n) == CHOOSE c \in batch[n] : \A d \in batch[n] : d <= c

Current(n) == CHOOSE c \in batch[n] : \A d \in batch[n] : c <= d

(***************************************************************************)
(* Process-Commands executes the current command, successfully or not, and *)
(* posts the result.                                                       *)
(***************************************************************************)
RunCommand(n, ok, answer) ==
  /\ batch[n] # {}
  /\ n \notin waiting
  /\ waiting' = waiting \cup {n}
  /\ results' = results \cup
       {[cmd |-> Current(n), try |-> handouts[Current(n)], ok |-> ok, answer |-> answer]}
  /\ UNCHANGED <<status, node, handouts, batch, cancelling>>

(***************************************************************************)
(* The post n waits for, as opposed to one of an earlier hand-out.         *)
(***************************************************************************)
AwaitedBy(n, r) ==
  /\ n \in waiting
  /\ r.cmd \in batch[n]
  /\ r.cmd = Current(n)
  /\ r.try = handouts[r.cmd]

(***************************************************************************)
(* agent_command_result writes the result whatever the status was.  Its    *)
(* answer lets the agent that still waits go on with the next command; it  *)
(* may also get lost.                                                      *)
(***************************************************************************)
DeliverResultRetries(r, answered) ==
  LET heard == {n \in Node : answered /\ AwaitedBy(n, r)} IN
  /\ r \in results
  /\ results' = results \ {r}
  /\ status'  = [status EXCEPT ![r.cmd] = IF r.ok THEN "succeeded" ELSE "pending"]
  /\ batch'   = [n \in Node |-> IF n \in heard THEN batch[n] \ {r.cmd} ELSE batch[n]]
  /\ waiting' = waiting \ heard
  /\ UNCHANGED <<node, handouts, cancelling>>

DeliverResultPostedAgain(r, answered) ==
  LET heard == {n \in Node : answered /\ AwaitedBy(n, r)} IN
  /\ r \in results
  /\ results' = IF answered THEN results \ {r} ELSE results
  /\ status'  = [status EXCEPT ![r.cmd] = IF r.ok THEN "succeeded" ELSE "failed"]
  /\ batch'   = [n \in Node |-> IF n \in heard THEN batch[n] \ {r.cmd} ELSE batch[n]]
  /\ waiting' = waiting \ heard
  /\ UNCHANGED <<node, handouts, cancelling>>

DeliverResult(r, answered) ==
  LET heard == {n \in Node : answered /\ AwaitedBy(n, r)} IN
  /\ r \in results
  /\ results' = results \ {r}
  /\ status'  = [status EXCEPT ![r.cmd] = IF r.ok THEN "succeeded" ELSE "failed"]
  /\ batch'   = [n \in Node |-> IF n \in heard THEN batch[n] \ {r.cmd} ELSE batch[n]]
  /\ waiting' = waiting \ heard
  /\ UNCHANGED <<node, handouts, cancelling>>

(***************************************************************************)
(* A result is lost on the way, or refused by verify_agent_request.        *)
(***************************************************************************)
LoseResult(r) ==
  /\ r \in results
  /\ results' = results \ {r}
  /\ UNCHANGED <<status, node, handouts, batch, waiting, cancelling>>

(***************************************************************************)
(* A run ends before its batch does: a post that failed or timed out       *)
(* throws out of the loop, the task scheduler kills the run, the host      *)
(* stops.  Its post may still be on the way.                               *)
(***************************************************************************)
AbortRun(n) ==
  /\ batch[n] # {}
  /\ batch'   = [batch EXCEPT ![n] = {}]
  /\ waiting' = waiting \ {n}
  /\ UNCHANGED <<status, node, handouts, results, cancelling>>

(***************************************************************************)
(* command_cancel: the status check, then the commit of the new status.    *)
(***************************************************************************)
CancelCheck(c) ==
  /\ status[c] = "pending"
  /\ cancelling' = cancelling \cup {c}
  /\ UNCHANGED <<status, node, handouts, agentVars>>

CancelCommitMisspelt(c) ==
  /\ c \in cancelling
  /\ cancelling' = cancelling \ {c}
  /\ status' = [status EXCEPT ![c] = "canceled"]
  /\ UNCHANGED <<node, handouts, agentVars>>

CancelCommit(c) ==
  /\ c \in cancelling
  /\ cancelling' = cancelling \ {c}
  /\ status' = [status EXCEPT ![c] = "cancelled"]
  /\ UNCHANGED <<node, handouts, agentVars>>

AgentStep ==
  \/ \E n \in Node, ok \in BOOLEAN, answer \in Answer : RunCommand(n, ok, answer)
  \/ \E r \in results, answered \in BOOLEAN : DeliverResult(r, answered)
  \/ \E r \in results : LoseResult(r)
  \/ \E n \in Node : AbortRun(n)

AdminStep ==
  \/ \E c \in Command, n \in Node : QueueCommand(c, n)
  \/ \E c \in Command : CancelCheck(c)
  \/ \E c \in Command : CancelCommit(c)

(***************************************************************************)
(* A request of a page may queue several commands in one transaction, and  *)
(* cancel commands it has read while they were pending.                    *)
(***************************************************************************)
QueuesRows ==
  \E added, cancelled \in SUBSET Command : \E rows \in [added -> Node] :
    /\ \A d \in cancelled : status[d] # "absent"
    /\ WriteRows(rows, cancelled)

ServiceNext == AgentStep \/ AdminStep \/ (\E n \in Node : ServicePoll(n)) \/ QueuesRows

ServiceSpec == ServiceInit /\ [][ServiceNext]_serviceVars

-----------------------------------------------------------------------------
(***************************************************************************)
(* The table and the agents seen as tasks: a command a run holds is        *)
(* running whatever its row says, and a claim no run holds is unsure.      *)
(***************************************************************************)
RowStage(s) ==
  CASE s = "absent"        -> "none"
    [] s = "pending"       -> "queued"
    [] s = "claimed"       -> "unsure"
    [] s \in ClosedStatus -> "over"

StageOf(c) == IF c \in Held THEN "running" ELSE RowStage(status[c])

CommandStage == [c \in Command |-> StageOf(c)]

Lifecycle == INSTANCE TaskLifecycle
               WITH Task <- Command, Worker <- Node, stage <- CommandStage, worker <- node

(***************************************************************************)
(* Whatever crashes, times out, gets lost, arrives late or is cancelled: a *)
(* command is never run twice at once and never again once it is over, and *)
(* an agent takes its commands in the order they were queued.  The status  *)
(* page, the incidents and the blocks are built on that life of a command. *)
(***************************************************************************)
ImplementsLifecycle == Lifecycle!Spec

=============================================================================
