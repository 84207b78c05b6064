------------------------ MODULE CommandServiceProofs ------------------------
(***************************************************************************)
(* What every component that uses the command table can rely on: each      *)
(* action of CommandService keeps the types of its variables, and what the *)
(* actions do to the status of a command.                                  *)
(***************************************************************************)
EXTENDS CommandService, WellFoundedInduction, TLAPS

(***************************************************************************)
(* A set of numbers that is not empty has a least element.                 *)
(***************************************************************************)
LEMMA NonemptyHasLeast ==
  ASSUME NEW S \in SUBSET Nat, S # {}
  PROVE  \E x \in S : \A y \in S : x <= y
<1> DEFINE Less == {ss \in Nat \X Nat : ss[1] < ss[2]}
<1>1. IsWellFoundedOn(Less, Nat)
  BY NatLessThanWellFounded DEF OpToRel
<1>2. PICK x \in S : \A y \in S : ~ (<<y, x>> \in Less)
  <2> HIDE DEF Less
  <2> QED
    BY <1>1, WFMin
<1>3. \A y \in S : ~ (y < x)
  BY <1>2
<1>4. QED
  BY <1>3

\* Numbers that are bounded have a greatest one among them.
LEMMA BoundedHasGreatest ==
  ASSUME NEW m \in Nat, NEW S \in SUBSET (1..m), S # {}
  PROVE  \E x \in S : \A y \in S : y <= x
<1> DEFINE T == {t \in Nat : \E x \in S : t = m - x}
<1>1. T \in SUBSET Nat /\ T # {}
  <2>1. PICK x \in S : x \in 1..m
    OBVIOUS
  <2>2. m - x \in Nat
    BY <2>1
  <2>3. QED
    BY <2>2
<1>2. PICK t \in T : \A y \in T : t <= y
  <2> HIDE DEF T
  <2> QED
    BY <1>1, NonemptyHasLeast
<1>3. PICK x \in S : t = m - x
  BY <1>2
<1>4. \A y \in S : m - x <= m - y
  BY <1>2, <1>3
<1>5. QED
  BY <1>3, <1>4

(***************************************************************************)
(* The command an agent works on is the oldest one of its batch.           *)
(***************************************************************************)
LEMMA LeastInBatch ==
  ASSUME ServiceTypeOK, NEW n \in Node, batch[n] # {}
  PROVE  /\ Current(n) \in batch[n]
         /\ Current(n) \in Command
         /\ \A d \in batch[n] : Current(n) <= d
<1>1. batch[n] \in SUBSET Nat /\ batch[n] \subseteq Command
  BY ServiceAssumption DEF ServiceTypeOK, Command
<1>2. \E c \in batch[n] : \A d \in batch[n] : c <= d
  BY <1>1, NonemptyHasLeast
<1>3. QED
  BY <1>1, <1>2 DEF Current

LEMMA CurrentInBatch ==
  ASSUME ServiceTypeOK, NEW n \in Node, batch[n] # {}
  PROVE  /\ Current(n) \in batch[n]
         /\ Current(n) \in Command
  BY LeastInBatch

-----------------------------------------------------------------------------
(***************************************************************************)
(* Every action keeps the types: in particular none writes a status that   *)
(* is not one of CommandStatus.                                            *)
(***************************************************************************)
LEMMA ServiceTypeInit == ServiceInit => ServiceTypeOK
<1> SUFFICES ASSUME ServiceInit PROVE ServiceTypeOK
  OBVIOUS
<1>1. \A c \in Command : node[c] \in Node
  BY ServiceAssumption DEF ServiceInit
<1>2. node \in [Command -> Node]
  BY <1>1 DEF ServiceInit
<1>3. QED
  BY <1>2 DEF ServiceInit, ServiceTypeOK, Status

\* An execution by an agent.
LEMMA RunType ==
  ASSUME ServiceTypeOK, NEW n \in Node, NEW ok \in BOOLEAN, NEW answer \in Answer,
         RunCommand(n, ok, answer)
  PROVE  ServiceTypeOK'
<1>1. Current(n) \in Command
  BY CurrentInBatch DEF RunCommand
<1>2. [cmd |-> Current(n), try |-> handouts[Current(n)], ok |-> ok, answer |-> answer] \in Result
  BY <1>1 DEF Result, ServiceTypeOK
<1>3. QED
  BY <1>2 DEF RunCommand, ServiceTypeOK

\* A result that arrives.
LEMMA DeliverType ==
  ASSUME ServiceTypeOK, NEW r \in results, NEW answered \in BOOLEAN, DeliverResult(r, answered)
  PROVE  ServiceTypeOK'
  BY DEF DeliverResult, ServiceTypeOK, Status, ResultStatus, ClosedStatus, Result

\* A result that is lost.
LEMMA LoseType ==
  ASSUME ServiceTypeOK, NEW r \in results, LoseResult(r)
  PROVE  ServiceTypeOK'
  BY DEF LoseResult, ServiceTypeOK

\* A run that ends.
LEMMA AbortType ==
  ASSUME ServiceTypeOK, NEW n \in Node, AbortRun(n)
  PROVE  ServiceTypeOK'
  BY DEF AbortRun, ServiceTypeOK

\* New rows, for nodes that exist.
LEMMA QueueType ==
  ASSUME ServiceTypeOK, NEW rows, DOMAIN rows \subseteq Command,
         \A c \in DOMAIN rows : rows[c] \in Node, QueueRows(rows)
  PROVE  ServiceTypeOK'
  BY DEF QueueRows, WriteRows, agentVars, ServiceTypeOK, Status, OpenStatus

\* The two steps of a cancellation.
LEMMA CancelType ==
  ASSUME ServiceTypeOK, NEW c \in Command, CancelCheck(c) \/ CancelCommit(c)
  PROVE  ServiceTypeOK'
  BY DEF CancelCheck, CancelCommit, agentVars, ServiceTypeOK, Status, ClosedStatus

\* A poll, whatever it reopens and expires.
LEMMA PollType ==
  ASSUME ServiceTypeOK, NEW n \in Node, NEW reopened, NEW expired, NEW claimed \in SUBSET Command,
         NEW answered \in BOOLEAN, PollEffect(n, reopened, expired, claimed, answered)
  PROVE  ServiceTypeOK'
  BY DEF PollEffect, ServiceTypeOK, Status, OpenStatus, ClosedStatus

\* A poll as the service promises it.
LEMMA ServicePollType ==
  ASSUME ServiceTypeOK, NEW n \in Node, ServicePoll(n)
  PROVE  ServiceTypeOK'
<1>1. PICK reopened, expired, claimed \in SUBSET Command, answered \in BOOLEAN :
        PollEffect(n, reopened, expired, claimed, answered)
  BY DEF ServicePoll, Of
<1>2. QED
  BY <1>1, PollType

-----------------------------------------------------------------------------
(***************************************************************************)
(* The life of a command.  LifeInv is what keeps a held command from being *)
(* offered and a late result or cancellation from creating a row.          *)
(***************************************************************************)
LifeInv ==
  /\ ServiceTypeOK
  /\ \A n \in Node : \A c \in batch[n] : node[c] = n /\ status[c] \notin {"absent", "pending"}
  /\ \A r \in results : status[r.cmd] # "absent"
  /\ \A c \in cancelling : status[c] # "absent"

LEMMA LifeInvInit == ServiceInit => LifeInv
  BY ServiceTypeInit DEF ServiceInit, LifeInv

\* A command that is held is not offered again.
LEMMA HeldIsHandedOut ==
  ASSUME LifeInv, NEW c \in Held
  PROVE  c \in Command /\ status[c] \notin {"absent", "pending"}
  BY DEF LifeInv, Held, ServiceTypeOK

(***************************************************************************)
(* What a poll does to each command: it claims it, which it may only do to *)
(* the oldest pending ones of the node, expires it, offers an unanswered   *)
(* claim again, or leaves it alone.                                        *)
(***************************************************************************)
PollChange(n, reopened, expired, claimed, answered) ==
  /\ \A c \in claimed :
       node[c] = n /\ status[c] = "pending" /\ status'[c] = "claimed"
  /\ \A c \in expired :
       c \notin Held /\ status[c] \in OpenStatus /\ status'[c] = "expired"
  /\ \A c \in reopened :
       c \notin Held /\ status[c] = "claimed" /\ status'[c] = "pending"
  /\ \A c \in Command \ (claimed \cup expired \cup reopened) : status'[c] = status[c]
  /\ \A c \in claimed, d \in Command :
       (d < c /\ node[d] = n /\ status[d] = "pending") => d \in claimed \cup expired
  /\ \A m \in Node : batch[m] \subseteq batch'[m]
  /\ \A m \in Node : batch'[m] \subseteq batch[m] \cup {c \in claimed : m = n}
  /\ node' = node /\ results' = results /\ cancelling' = cancelling

LEMMA PollChanges ==
  ASSUME ServiceTypeOK, NEW n \in Node, ServicePoll(n)
  PROVE  \E reopened, expired, claimed \in SUBSET Command, answered \in BOOLEAN :
           PollChange(n, reopened, expired, claimed, answered)
<1>1. PICK reopened \in SUBSET ((Of(n) \cap WithStatus({"claimed"})) \ Held),
           expired \in SUBSET ((Of(n) \cap WithStatus(OpenStatus)) \ Held),
           claimed \in SUBSET (Of(n) \cap WithStatus({"pending"})),
           answered \in BOOLEAN :
             /\ expired \cap (claimed \cup reopened) = {}
             /\ \A c \in claimed, d \in (Of(n) \cap WithStatus({"pending"})) \ expired :
                  d < c => d \in claimed
             /\ PollEffect(n, reopened, expired, claimed, answered)
  BY DEF ServicePoll
<1>2. /\ reopened \in SUBSET Command /\ expired \in SUBSET Command /\ claimed \in SUBSET Command
      /\ \A c \in claimed : node[c] = n /\ status[c] = "pending"
      /\ \A c \in expired : c \notin Held /\ status[c] \in OpenStatus
      /\ \A c \in reopened : c \notin Held /\ status[c] = "claimed"
  BY <1>1 DEF Of, WithStatus
<1>3. /\ claimed \cap expired = {} /\ reopened \cap expired = {} /\ claimed \cap reopened = {}
  BY <1>1, <1>2
<1>4. \A c \in Command :
        status'[c] = CASE c \in claimed  -> "claimed"
                       [] c \in expired  -> "expired"
                       [] c \in reopened -> "pending"
                       [] OTHER          -> status[c]
  BY <1>1, Zenon DEF PollEffect
<1>5. ASSUME NEW c \in Command
      PROVE  /\ c \in claimed => status'[c] = "claimed"
             /\ c \in expired => status'[c] = "expired"
             /\ c \in reopened => status'[c] = "pending"
             /\ c \notin claimed \cup expired \cup reopened => status'[c] = status[c]
  BY <1>3, <1>4, Zenon
<1>6. \A c \in claimed, d \in Command :
        (d < c /\ node[d] = n /\ status[d] = "pending") => d \in claimed \cup expired
  BY <1>1, <1>2 DEF Of, WithStatus
<1>7. /\ \A m \in Node : batch[m] \subseteq batch'[m]
      /\ \A m \in Node : batch'[m] \subseteq batch[m] \cup {c \in claimed : m = n}
      /\ node' = node /\ results' = results /\ cancelling' = cancelling
  BY <1>1 DEF PollEffect, ServiceTypeOK
<1>8. PollChange(n, reopened, expired, claimed, answered)
  BY <1>2, <1>5, <1>6, <1>7 DEF PollChange
<1>9. QED
  BY <1>2, <1>8

(***************************************************************************)
(* What a request does to each command: it adds it, cancels it, or leaves  *)
(* it alone.                                                               *)
(***************************************************************************)
LEMMA RowsQueued ==
  ASSUME ServiceTypeOK, QueuesRows
  PROVE  /\ ServiceTypeOK'
         /\ \A c \in Command :
              /\ \/ status'[c] = status[c]
                 \/ status[c] # "absent" /\ status'[c] = "cancelled"
                 \/ status[c] = "absent" /\ status'[c] = "pending"
              /\ status[c] # "absent" => node'[c] = node[c]
<1>1. PICK added \in SUBSET Command, cancelled \in SUBSET Command :
        \E rows \in [added -> Node] :
          (\A d \in cancelled : status[d] # "absent") /\ WriteRows(rows, cancelled)
  BY DEF QueuesRows
<1>2. PICK rows \in [added -> Node] :
        (\A d \in cancelled : status[d] # "absent") /\ WriteRows(rows, cancelled)
  BY <1>1
<1>3. DOMAIN rows = added /\ \A c \in added : rows[c] \in Node /\ status[c] = "absent"
  BY <1>2 DEF WriteRows
<1>4. \A c \in Command :
        status'[c] = CASE c \in DOMAIN rows -> "pending"
                       [] c \in cancelled   -> "cancelled"
                       [] OTHER             -> status[c]
  BY <1>2, Zenon DEF WriteRows
<1>5. node' = [c \in Command |-> IF c \in added THEN rows[c] ELSE node[c]]
  BY <1>2, <1>3 DEF WriteRows
<1>6. ASSUME NEW c \in Command
      PROVE  /\ c \in added => status'[c] = "pending"
             /\ c \notin added /\ c \in cancelled => status'[c] = "cancelled"
             /\ c \notin added /\ c \notin cancelled => status'[c] = status[c]
  <2>1. /\ c \in DOMAIN rows <=> c \in added
        /\ ~(c \in added /\ c \in cancelled)
    BY <1>2, <1>3
  <2>2. status'[c] = CASE c \in DOMAIN rows -> "pending"
                       [] c \in cancelled   -> "cancelled"
                       [] OTHER             -> status[c]
    BY <1>4, Zenon
  <2>3. QED
    BY <2>1, <2>2, Zenon
<1>7. status' \in [Command -> Status] /\ node' \in [Command -> Node]
  <2>1. \A c \in Command : status'[c] \in Status
    BY <1>6 DEF ServiceTypeOK, Status, OpenStatus, ClosedStatus
  <2>2. status' = [c \in Command |-> status'[c]]
    BY <1>2 DEF WriteRows
  <2>3. QED
    BY <1>3, <1>5, <2>1, <2>2 DEF ServiceTypeOK
<1>8. ServiceTypeOK'
  BY <1>2, <1>7 DEF WriteRows, agentVars, ServiceTypeOK
<1>9. QED
  BY <1>2, <1>3, <1>5, <1>6, <1>8

(***************************************************************************)
(* LifeInv through every action.                                           *)
(***************************************************************************)
LEMMA LifeInvStep == LifeInv /\ [ServiceNext]_serviceVars => LifeInv'
<1> SUFFICES ASSUME LifeInv, [ServiceNext]_serviceVars PROVE LifeInv'
  OBVIOUS
<1>t. ServiceTypeOK
  BY DEF LifeInv
<1>1. ASSUME NEW n \in Node, NEW ok \in BOOLEAN, NEW answer \in Answer,
             RunCommand(n, ok, answer)
      PROVE  LifeInv'
  <2>1. Current(n) \in batch[n]
    BY <1>1, <1>t, CurrentInBatch DEF RunCommand
  <2>2. status[Current(n)] # "absent"
    BY <2>1 DEF LifeInv
  <2>3. ServiceTypeOK'
    BY <1>1, <1>t, RunType
  <2>4. QED
    BY <1>1, <2>2, <2>3 DEF RunCommand, LifeInv
<1>2. ASSUME NEW r \in results, NEW answered \in BOOLEAN, DeliverResult(r, answered)
      PROVE  LifeInv'
  <2>1. ServiceTypeOK'
    BY <1>2, <1>t, DeliverType
  <2>2. \A c \in Command : status'[c] = status[c] \/ status'[c] \in ResultStatus
    BY <1>2, <1>t DEF DeliverResult, ServiceTypeOK, ResultStatus
  <2>3. \A n \in Node : batch'[n] \subseteq batch[n]
    BY <1>2, <1>t DEF DeliverResult, ServiceTypeOK
  <2>4. results' \subseteq results /\ node' = node /\ cancelling' = cancelling
    BY <1>2 DEF DeliverResult
  <2>5. \A c \in Command : /\ (status[c] # "absent") => (status'[c] # "absent")
                           /\ (status'[c] = "pending") => (status[c] = "pending")
    BY <2>2 DEF ResultStatus
  <2>6. \A n \in Node : \A c \in batch'[n] : node'[c] = n /\ status'[c] \notin {"absent", "pending"}
    <3> SUFFICES ASSUME NEW n \in Node, NEW c \in batch'[n]
                 PROVE  node'[c] = n /\ status'[c] \notin {"absent", "pending"}
      OBVIOUS
    <3>1. c \in batch[n] /\ c \in Command
      BY <1>t, <2>3 DEF ServiceTypeOK
    <3>2. node[c] = n /\ status[c] \notin {"absent", "pending"}
      BY <3>1 DEF LifeInv
    <3>3. QED
      BY <3>1, <3>2, <2>4, <2>5
  <2>7. \A s \in results' : status'[s.cmd] # "absent"
    <3> SUFFICES ASSUME NEW s \in results' PROVE status'[s.cmd] # "absent"
      OBVIOUS
    <3>1. s \in results /\ s.cmd \in Command
      BY <1>t, <2>4 DEF ServiceTypeOK, Result
    <3>2. QED
      BY <3>1, <2>5 DEF LifeInv
  <2>8. \A c \in cancelling' : status'[c] # "absent"
    <3> SUFFICES ASSUME NEW c \in cancelling' PROVE status'[c] # "absent"
      OBVIOUS
    <3>1. c \in cancelling /\ c \in Command
      BY <1>t, <2>4 DEF ServiceTypeOK
    <3>2. QED
      BY <3>1, <2>5 DEF LifeInv
  <2>9. QED
    BY <2>1, <2>6, <2>7, <2>8 DEF LifeInv
<1>3. ASSUME NEW r \in results, LoseResult(r) PROVE LifeInv'
  BY <1>3, <1>t, LoseType DEF LoseResult, LifeInv
<1>4. ASSUME NEW n \in Node, AbortRun(n) PROVE LifeInv'
  <2>1. ServiceTypeOK'
    BY <1>4, <1>t, AbortType
  <2>2. QED
    BY <1>4, <1>t, <2>1 DEF AbortRun, LifeInv, ServiceTypeOK
<1>5. ASSUME NEW c \in Command, NEW n \in Node, QueueCommand(c, n) PROVE LifeInv'
  <2>1. QueueRows([d \in {c} |-> n])
    BY <1>5 DEF QueueCommand
  <2>2. ServiceTypeOK'
    BY <1>t, <2>1, QueueType
  <2>3. /\ status[c] = "absent"
        /\ \A d \in Command \ {c} : status'[d] = status[d] /\ node'[d] = node[d]
        /\ status'[c] = "pending"
        /\ UNCHANGED <<handouts, agentVars, cancelling>>
    BY <2>1 DEF QueueRows, WriteRows
  <2>4. QED
    BY <1>t, <2>2, <2>3 DEF LifeInv, ServiceTypeOK, agentVars, Result
<1>6. ASSUME NEW c \in Command, CancelCheck(c) \/ CancelCommit(c) PROVE LifeInv'
  <2>1. ServiceTypeOK'
    BY <1>6, <1>t, CancelType
  <2>2. /\ UNCHANGED <<node, handouts, agentVars>>
        /\ cancelling' \subseteq cancelling \cup {d \in Command : status[d] = "pending"}
        /\ \A d \in Command : status'[d] = status[d] \/ status'[d] = "cancelled"
    BY <1>6, <1>t DEF CancelCheck, CancelCommit, ServiceTypeOK, agentVars
  <2>3. \A n \in Node : \A d \in batch'[n] : node'[d] = n /\ status'[d] \notin {"absent", "pending"}
    BY <1>t, <2>2 DEF LifeInv, ServiceTypeOK, agentVars
  <2>4. \A s \in results' : status'[s.cmd] # "absent"
    BY <1>t, <2>2 DEF LifeInv, ServiceTypeOK, Result, agentVars
  <2>5. \A d \in cancelling' : status'[d] # "absent"
    BY <1>t, <2>2 DEF LifeInv, ServiceTypeOK
  <2>6. QED
    BY <2>1, <2>3, <2>4, <2>5 DEF LifeInv
<1>7. ASSUME NEW n \in Node, ServicePoll(n) PROVE LifeInv'
  <2>1. ServiceTypeOK'
    BY <1>7, <1>t, ServicePollType
  <2>2. PICK reopened, expired, claimed \in SUBSET Command, answered \in BOOLEAN :
          PollChange(n, reopened, expired, claimed, answered)
    BY <1>7, <1>t, PollChanges
  <2>3. \A c \in claimed : node[c] = n /\ status'[c] = "claimed"
    BY <2>2 DEF PollChange
  <2>4. \A c \in Held : c \in Command /\ (status'[c] = status[c] \/ c \in claimed)
    BY <2>2, HeldIsHandedOut DEF PollChange
  <2>5. \A m \in Node : \A c \in batch'[m] : c \in batch[m] \/ (m = n /\ c \in claimed)
    BY <2>2, <1>t DEF PollChange, ServiceTypeOK
  <2>6. \A c \in Command : status[c] # "absent" => status'[c] # "absent"
    BY <2>2 DEF PollChange
  <2>7. node' = node /\ results' = results /\ cancelling' = cancelling
    BY <2>2 DEF PollChange
  <2>8. \A m \in Node : \A c \in batch'[m] : node'[c] = m /\ status'[c] \notin {"absent", "pending"}
    <3> SUFFICES ASSUME NEW m \in Node, NEW c \in batch'[m]
                 PROVE  node'[c] = m /\ status'[c] \notin {"absent", "pending"}
      OBVIOUS
    <3>1. CASE c \in claimed /\ m = n
      BY <3>1, <2>3, <2>7
    <3>2. CASE c \in batch[m]
      <4>1. node[c] = m /\ status[c] \notin {"absent", "pending"} /\ c \in Held
        BY <3>2 DEF LifeInv, Held
      <4>2. QED
        BY <4>1, <2>3, <2>4, <2>7
    <3>3. QED
      BY <2>5, <3>1, <3>2
  <2>9. QED
    BY <1>t, <2>1, <2>6, <2>7, <2>8 DEF LifeInv, ServiceTypeOK, Result
<1>8. CASE QueuesRows
  <2>1. ServiceTypeOK' /\ \A c \in Command : status[c] # "absent" =>
                            /\ status'[c] # "absent" /\ node'[c] = node[c]
                            /\ status'[c] = "pending" => status[c] = "pending"
    BY <1>8, <1>t, RowsQueued
  <2>2. UNCHANGED <<handouts, agentVars, cancelling>>
    BY <1>8 DEF QueuesRows, WriteRows
  <2>3. QED
    BY <1>t, <2>1, <2>2 DEF LifeInv, ServiceTypeOK, agentVars, Result
<1>9. CASE UNCHANGED serviceVars
  BY <1>9 DEF serviceVars, agentVars, LifeInv, ServiceTypeOK, Result
<1>10. QED
  BY <1>1, <1>2, <1>3, <1>4, <1>5, <1>6, <1>7, <1>8, <1>9
  DEF ServiceNext, AgentStep, AdminStep

-----------------------------------------------------------------------------
(***************************************************************************)
(* Which stage a command is in, as facts the steps below can use.          *)
(***************************************************************************)
StageFacts(c) ==
  /\ (StageOf(c) = "none")    <=> (status[c] = "absent")
  /\ (StageOf(c) = "queued")  <=> (status[c] = "pending")
  /\ (StageOf(c) = "running") <=> (c \in Held)
  /\ (StageOf(c) = "unsure")  <=> (status[c] = "claimed" /\ c \notin Held)
  /\ (StageOf(c) = "over")    <=> (status[c] \in ClosedStatus /\ c \notin Held)
  /\ StageOf(c) \in {"none", "queued", "running", "unsure", "over"}

LEMMA RowStages ==
  ASSUME NEW s \in Status
  PROVE  /\ (RowStage(s) = "none")   <=> (s = "absent")
         /\ (RowStage(s) = "queued") <=> (s = "pending")
         /\ (RowStage(s) = "unsure") <=> (s = "claimed")
         /\ (RowStage(s) = "over")   <=> (s \in ClosedStatus)
         /\ RowStage(s) \in {"none", "queued", "unsure", "over"}
<1>1. CASE s = "absent"
  <2>1. RowStage(s) = "none"
    BY <1>1 DEF RowStage, ClosedStatus, ResultStatus
  <2>2. QED
    BY <1>1, <2>1 DEF ClosedStatus, ResultStatus
<1>2. CASE s = "pending"
  <2>1. RowStage(s) = "queued"
    BY <1>2 DEF RowStage, ClosedStatus, ResultStatus
  <2>2. QED
    BY <1>2, <2>1 DEF ClosedStatus, ResultStatus
<1>3. CASE s = "claimed"
  <2>1. RowStage(s) = "unsure"
    BY <1>3 DEF RowStage, ClosedStatus, ResultStatus
  <2>2. QED
    BY <1>3, <2>1 DEF ClosedStatus, ResultStatus
<1>4. CASE s \in ClosedStatus
  <2>1. s \notin {"absent", "pending", "claimed"}
    BY <1>4 DEF ClosedStatus, ResultStatus
  <2>2. RowStage(s) = "over"
    BY <1>4, <2>1 DEF RowStage
  <2>3. QED
    BY <1>4, <2>1, <2>2
<1>5. QED
  BY <1>1, <1>2, <1>3, <1>4 DEF Status, OpenStatus

LEMMA Stages ==
  ASSUME LifeInv, NEW c \in Command
  PROVE  StageFacts(c)
<1>1. c \in Held => status[c] \notin {"absent", "pending"}
  BY HeldIsHandedOut
<1>2. status[c] \in Status
  BY DEF LifeInv, ServiceTypeOK
<1>3. CASE c \in Held
  <2>1. StageOf(c) = "running"
    BY <1>3 DEF StageOf
  <2>2. QED
    BY <1>1, <1>3, <2>1 DEF StageFacts
<1>4. CASE c \notin Held
  <2>1. StageOf(c) = RowStage(status[c])
    BY <1>4 DEF StageOf
  <2>2. QED
    BY <1>2, <1>4, <2>1, RowStages DEF StageFacts
<1>5. QED
  BY <1>3, <1>4

\* The same of the next state.
LEMMA StagesNext ==
  ASSUME LifeInv', NEW c \in Command
  PROVE  StageFacts(c)'
<1>1. c \in Held' => status'[c] \notin {"absent", "pending"}
  BY DEF LifeInv, Held
<1>2. status'[c] \in Status
  BY DEF LifeInv, ServiceTypeOK
<1>3. CASE c \in Held'
  <2>1. StageOf(c)' = "running"
    BY <1>3 DEF StageOf
  <2>2. QED
    BY <1>1, <1>3, <2>1 DEF StageFacts
<1>4. CASE c \notin Held'
  <2>1. StageOf(c)' = RowStage(status'[c])
    BY <1>4 DEF StageOf
  <2>2. QED
    BY <1>2, <1>4, <2>1, RowStages DEF StageFacts
<1>5. QED
  BY <1>3, <1>4

(***************************************************************************)
(* What a step may do to one command, and that this is a step of its life. *)
(***************************************************************************)
LifeChange(c) ==
  \/ /\ status'[c] = status[c]
     /\ c \in Held' => c \in Held
  \/ /\ status[c] # "absent" /\ status'[c] \in ClosedStatus
     /\ c \in Held' => c \in Held
  \/ status[c] = "absent" /\ status'[c] = "pending"
  \/ status[c] = "claimed" /\ c \notin Held /\ status'[c] = "pending"
  \/ status[c] = "pending" /\ status'[c] = "claimed"

LEMMA ChangeAdvances ==
  ASSUME LifeInv, LifeInv', NEW c \in Command, LifeChange(c)
  PROVE  /\ StageOf(c)' \in Lifecycle!Stage
         /\ StageOf(c)' = StageOf(c) \/ <<StageOf(c), StageOf(c)'>> \in Lifecycle!Steps
         /\ (StageOf(c) = "queued" /\ StageOf(c)' \in {"running", "unsure"})
              => (status[c] = "pending" /\ status'[c] = "claimed")
<1>1. StageFacts(c) /\ StageFacts(c)'
  BY Stages, StagesNext
<1>2. StageOf(c)' \in Lifecycle!Stage
  BY <1>1 DEF StageFacts, Lifecycle!Stage
<1>3. CASE status'[c] = status[c] /\ (c \in Held' => c \in Held)
  BY <1>1, <1>2, <1>3 DEF StageFacts, Lifecycle!Steps, ClosedStatus, ResultStatus
<1>4. CASE status[c] # "absent" /\ status'[c] \in ClosedStatus /\ (c \in Held' => c \in Held)
  BY <1>1, <1>2, <1>4 DEF StageFacts, Lifecycle!Steps, ClosedStatus, ResultStatus
<1>5. CASE status[c] = "absent" /\ status'[c] = "pending"
  BY <1>1, <1>2, <1>5 DEF StageFacts, Lifecycle!Steps
<1>6. CASE status[c] = "claimed" /\ c \notin Held /\ status'[c] = "pending"
  BY <1>1, <1>2, <1>6 DEF StageFacts, Lifecycle!Steps
<1>7. CASE status[c] = "pending" /\ status'[c] = "claimed"
  BY <1>1, <1>2, <1>7 DEF StageFacts, Lifecycle!Steps
<1>8. QED
  BY <1>3, <1>4, <1>5, <1>6, <1>7 DEF LifeChange

(***************************************************************************)
(* Changes of this kind, made in order, are a step of the lifecycle.       *)
(***************************************************************************)
LEMMA ChangesAreStep ==
  ASSUME LifeInv, LifeInv',
         \A c \in Command : LifeChange(c),
         \A c \in Command : status[c] # "absent" => node'[c] = node[c],
         \A c, d \in Command :
           (d < c /\ node[d] = node[c] /\ status[c] = "pending" /\ status'[c] = "claimed"
              /\ status[d] = "pending") => status'[d] # "pending"
  PROVE  Lifecycle!Next
<1>1. /\ CommandStage' = [c \in Command |-> StageOf(c)']
      /\ \A c \in Command : CommandStage[c] = StageOf(c) /\ CommandStage'[c] = StageOf(c)'
  BY DEF CommandStage
<1>2. \A c \in Command : StageFacts(c) /\ StageFacts(c)'
  BY Stages, StagesNext
<1>3. CommandStage' \in [Command -> Lifecycle!Stage]
  BY <1>1, ChangeAdvances
<1>4. \A c \in Command : Lifecycle!Advances(c)
  BY <1>1, ChangeAdvances DEF Lifecycle!Advances
<1>5. ASSUME NEW d \in Command, NEW c \in Command, d < c, node[d] = node[c],
             CommandStage[d] = "queued", Lifecycle!Taken(c)
      PROVE  CommandStage'[d] # "queued"
  <2>1. status[c] = "pending" /\ status'[c] = "claimed"
    BY <1>1, <1>5, ChangeAdvances DEF Lifecycle!Taken
  <2>2. status[d] = "pending"
    BY <1>1, <1>2, <1>5 DEF StageFacts
  <2>3. status'[d] # "pending"
    BY <1>5, <2>1, <2>2
  <2>4. QED
    BY <1>1, <1>2, <2>3 DEF StageFacts
<1>6. \A c \in Command : CommandStage[c] # "none" => node'[c] = node[c]
  BY <1>1, <1>2 DEF StageFacts
<1>7. node' \in [Command -> Node]
  BY DEF LifeInv, ServiceTypeOK
<1>8. QED
  BY <1>3, <1>4, <1>5, <1>6, <1>7 DEF Lifecycle!Next

(***************************************************************************)
(* A step that hands nothing out.                                          *)
(***************************************************************************)
LEMMA QuietStep ==
  ASSUME LifeInv, LifeInv', \A n \in Node : batch'[n] \subseteq batch[n],
         \A c \in Command : \/ status'[c] = status[c]
                            \/ (status[c] # "absent" /\ status'[c] \in ClosedStatus)
                            \/ (status[c] = "absent" /\ status'[c] = "pending"),
         \A c \in Command : status[c] # "absent" => node'[c] = node[c]
  PROVE  Lifecycle!Next
<1>1. \A c \in Command : c \in Held' => c \in Held
  BY DEF Held
<1>2. \A c \in Command : LifeChange(c)
  BY <1>1 DEF LifeChange
<1>3. \A c \in Command : ~(status[c] = "pending" /\ status'[c] = "claimed")
  BY DEF ClosedStatus, ResultStatus
<1>4. QED
  BY <1>2, <1>3, ChangesAreStep

(***************************************************************************)
(* Every action of the service is a step of the lifecycle or leaves every  *)
(* command in its stage.                                                   *)
(***************************************************************************)
LEMMA LifeStep ==
  LifeInv /\ LifeInv' /\ [ServiceNext]_serviceVars => [Lifecycle!Next]_<<CommandStage, node>>
<1> SUFFICES ASSUME LifeInv, LifeInv', [ServiceNext]_serviceVars
             PROVE  Lifecycle!Next \/ UNCHANGED <<CommandStage, node>>
  OBVIOUS
<1>t. ServiceTypeOK
  BY DEF LifeInv
<1>1. ASSUME NEW n \in Node, NEW ok \in BOOLEAN, NEW answer \in Answer,
             RunCommand(n, ok, answer)
      PROVE  Lifecycle!Next
  BY <1>1, QuietStep DEF RunCommand
<1>2. ASSUME NEW r \in results, NEW answered \in BOOLEAN, DeliverResult(r, answered)
      PROVE  Lifecycle!Next
  <2>1. \A n \in Node : batch'[n] \subseteq batch[n]
    BY <1>2, <1>t DEF DeliverResult, ServiceTypeOK
  <2>2. status[r.cmd] # "absent" /\ r.cmd \in Command
    BY <1>t DEF LifeInv, ServiceTypeOK, Result
  <2>3. \A c \in Command : status'[c] = status[c]
                             \/ (status[c] # "absent" /\ status'[c] \in ClosedStatus)
    BY <1>2, <1>t, <2>2 DEF DeliverResult, ServiceTypeOK, ResultStatus, ClosedStatus
  <2>4. node' = node
    BY <1>2 DEF DeliverResult
  <2>5. QED
    BY <2>1, <2>3, <2>4, QuietStep
<1>3. ASSUME NEW r \in results, LoseResult(r) PROVE Lifecycle!Next
  BY <1>3, QuietStep DEF LoseResult
<1>4. ASSUME NEW n \in Node, AbortRun(n) PROVE Lifecycle!Next
  <2>1. \A m \in Node : batch'[m] \subseteq batch[m]
    BY <1>4, <1>t DEF AbortRun, ServiceTypeOK
  <2>2. QED
    BY <1>4, <2>1, QuietStep DEF AbortRun
<1>5. ASSUME NEW c \in Command, NEW n \in Node, QueueCommand(c, n) PROVE Lifecycle!Next
  <2>1. /\ status[c] = "absent" /\ status'[c] = "pending"
        /\ \A d \in Command \ {c} : status'[d] = status[d] /\ node'[d] = node[d]
        /\ batch' = batch
    BY <1>5 DEF QueueCommand, QueueRows, WriteRows, agentVars
  <2>2. \A m \in Node : batch'[m] \subseteq batch[m]
    BY <2>1
  <2>3. \A d \in Command : status[d] # "absent" => node'[d] = node[d]
    BY <2>1
  <2>4. \A d \in Command : status'[d] = status[d]
                             \/ (status[d] = "absent" /\ status'[d] = "pending")
    BY <2>1
  <2>5. QED
    BY <2>2, <2>3, <2>4, QuietStep
<1>6. ASSUME NEW c \in Command, CancelCheck(c) \/ CancelCommit(c) PROVE Lifecycle!Next
  <2>1. batch' = batch /\ node' = node
    BY <1>6 DEF CancelCheck, CancelCommit, agentVars
  <2>2. \A d \in Command : status'[d] = status[d]
                             \/ (status[d] # "absent" /\ status'[d] \in ClosedStatus)
    BY <1>6, <1>t DEF CancelCheck, CancelCommit, LifeInv, ServiceTypeOK, ClosedStatus
  <2>3. QED
    BY <2>1, <2>2, QuietStep
<1>7. ASSUME NEW n \in Node, ServicePoll(n) PROVE Lifecycle!Next
  <2>1. PICK reopened, expired, claimed \in SUBSET Command, answered \in BOOLEAN :
          PollChange(n, reopened, expired, claimed, answered)
    BY <1>7, <1>t, PollChanges
  <2>2. \A c \in Command : c \in Held' => c \in Held \cup claimed
    BY <2>1 DEF PollChange, Held
  <2>3. ASSUME NEW c \in Command PROVE LifeChange(c)
    <3>1. CASE c \in claimed
      BY <2>1, <3>1 DEF PollChange, LifeChange
    <3>2. CASE c \in expired
      <4>1. status[c] # "absent" /\ status'[c] \in ClosedStatus
        BY <2>1, <3>2 DEF PollChange, OpenStatus, ClosedStatus
      <4>2. c \notin claimed
        BY <2>1, <3>2 DEF PollChange
      <4>3. QED
        BY <2>2, <4>1, <4>2 DEF LifeChange
    <3>3. CASE c \in reopened
      BY <2>1, <3>3 DEF PollChange, LifeChange
    <3>4. CASE c \notin claimed \cup expired \cup reopened
      <4>1. status'[c] = status[c]
        BY <2>1, <3>4 DEF PollChange
      <4>2. QED
        BY <2>2, <3>4, <4>1 DEF LifeChange
    <3>5. QED
      BY <3>1, <3>2, <3>3, <3>4
  <2>4. ASSUME NEW c \in Command, NEW d \in Command, d < c, node[d] = node[c],
               status[c] = "pending", status'[c] = "claimed", status[d] = "pending"
        PROVE  status'[d] # "pending"
    <3>1. c \in claimed /\ node[c] = n
      BY <2>1, <2>4 DEF PollChange
    <3>2. d \in claimed \cup expired
      BY <2>1, <2>4, <3>1 DEF PollChange
    <3>3. QED
      BY <2>1, <3>2 DEF PollChange
  <2>5. node' = node
    BY <2>1 DEF PollChange
  <2>6. QED
    BY <2>3, <2>4, <2>5, ChangesAreStep
<1>8. CASE QueuesRows
  <2>1. \A c \in Command :
          /\ \/ status'[c] = status[c]
             \/ status[c] # "absent" /\ status'[c] = "cancelled"
             \/ status[c] = "absent" /\ status'[c] = "pending"
          /\ status[c] # "absent" => node'[c] = node[c]
    BY <1>8, <1>t, RowsQueued
  <2>2. batch' = batch
    BY <1>8 DEF QueuesRows, WriteRows, agentVars
  <2>3. QED
    BY <2>1, <2>2, QuietStep DEF ClosedStatus
<1>9. CASE UNCHANGED serviceVars
  BY <1>9 DEF serviceVars, CommandStage, StageOf, RowStage, Held
<1>10. QED
  BY <1>1, <1>2, <1>3, <1>4, <1>5, <1>6, <1>7, <1>8, <1>9
  DEF ServiceNext, AgentStep, AdminStep

(***************************************************************************)
(* The command table and its agents implement the lifecycle of a task, for *)
(* any number of nodes, commands, hand-outs, losses and crashes: a command *)
(* is never executed again once it is over, never twice at once and in the *)
(* order of its node.                                                      *)
(***************************************************************************)
THEOREM ServiceImplementsLifecycle == ServiceSpec => ImplementsLifecycle
<1>1. ServiceInit => Lifecycle!Init
  <2> SUFFICES ASSUME ServiceInit PROVE Lifecycle!Init
    OBVIOUS
  <2>1. LifeInv
    BY LifeInvInit
  <2>2. \A c \in Command : StageFacts(c)
    BY <2>1, Stages
  <2>3. \A c \in Command : StageOf(c) = "none"
    BY <2>2 DEF StageFacts, ServiceInit
  <2>4. CommandStage = [c \in Command |-> "none"]
    BY <2>3 DEF CommandStage
  <2>5. QED
    BY <2>1, <2>4 DEF Lifecycle!Init, LifeInv, ServiceTypeOK
<1>2. QED
  BY <1>1, LifeInvInit, LifeInvStep, LifeStep, PTL
  DEF ServiceSpec, ImplementsLifecycle, Lifecycle!Spec

-----------------------------------------------------------------------------
(***************************************************************************)
(* The order of executions, for the components that build on it.  A        *)
(* TableStep is a step of the service with its cases side by side.         *)
(***************************************************************************)
TableStep ==
  \/ \E n \in Node, ok \in BOOLEAN, answer \in Answer : RunCommand(n, ok, answer)
  \/ \E r \in results, answered \in BOOLEAN : DeliverResult(r, answered)
  \/ \E r \in results : LoseResult(r)
  \/ \E n \in Node : AbortRun(n)
  \/ \E c \in Command : CancelCheck(c) \/ CancelCommit(c)
  \/ \E n \in Node : ServicePoll(n)
  \/ QueuesRows
  \/ UNCHANGED serviceVars

\* Each of its cases is an action of the service, or leaves the table and the agents alone.
LEMMA TableStepIsService == TableStep => [ServiceNext]_serviceVars
  BY DEF TableStep, ServiceNext, AgentStep, AdminStep

\* An execution of the command has ended, well or not.
HasRun(c) == status[c] \in ResultStatus \/ \E r \in results : r.cmd = c

RowsInOrder == \A c, d \in Command : c < d /\ status[d] # "absent" => status[c] # "absent"

HandoutsCounted ==
  /\ \A c \in Command : status[c] = "absent" => handouts[c] = 0 /\ c \notin cancelling
  /\ \A c \in Command : HasRun(c) \/ status[c] = "claimed" => handouts[c] > 0
  /\ \A n \in Node : \A c \in batch[n] : handouts[c] > 0 /\ node[c] = n

\* A command that was not handed out yet has none handed out after it.
OffersInOrder ==
  \A c, d \in Command :
    c < d /\ node[c] = node[d] /\ status[c] = "pending" /\ handouts[c] = 0 => handouts[d] = 0

\* A command that was handed out once and is not finished has none executed after it.
RunsInOrder ==
  \A n \in Node : \A c \in batch[n] : \A d \in Command :
    c < d /\ node[d] = n /\ handouts[c] <= 1 => ~HasRun(d)

OrderInv == ServiceTypeOK /\ RowsInOrder /\ HandoutsCounted /\ OffersInOrder /\ RunsInOrder

LEMMA OrderInvInit == ServiceInit => OrderInv
<1> SUFFICES ASSUME ServiceInit PROVE OrderInv
  OBVIOUS
<1>1. ServiceTypeOK
  BY ServiceTypeInit
<1>2. QED
  BY <1>1 DEF ServiceInit, OrderInv, RowsInOrder, HandoutsCounted, OffersInOrder, RunsInOrder,
              HasRun, ResultStatus

\* New rows, and rows that are cancelled with them.
LEMMA QueueOrder == OrderInv /\ QueuesRows => OrderInv'
<1> SUFFICES ASSUME OrderInv, QueuesRows PROVE OrderInv'
  OBVIOUS
<1>0. PICK added \in SUBSET Command, cancelled \in SUBSET Command :
        \E rows \in [added -> Node] :
          (\A d \in cancelled : status[d] # "absent") /\ WriteRows(rows, cancelled)
  BY DEF QueuesRows
<1>1. PICK rows \in [added -> Node] :
        /\ \A d \in cancelled : status[d] # "absent"
        /\ WriteRows(rows, cancelled)
  BY <1>0
<1>2. /\ \A c \in added : status[c] = "absent" /\ status'[c] = "pending" /\ node'[c] \in Node
      /\ \A c \in Command \ added : /\ node'[c] = node[c]
                                    /\ c \in cancelled => status'[c] = "cancelled"
                                    /\ c \notin cancelled => status'[c] = status[c]
      /\ status' \in [Command -> Status] /\ node' \in [Command -> Node]
      /\ UNCHANGED <<handouts, batch, waiting, results, cancelling>>
  <2>1. DOMAIN rows = added /\ \A c \in added : rows[c] \in Node
    OBVIOUS
  <2>2. status' = [c \in Command |-> CASE c \in added     -> "pending"
                                       [] c \in cancelled -> "cancelled"
                                       [] OTHER           -> status[c]]
    BY <1>1, <2>1 DEF WriteRows
  <2>3. \A c \in added : status'[c] = "pending" /\ status[c] = "absent"
    BY <1>1, <2>1, <2>2 DEF WriteRows
  <2>4. \A c \in Command \ added : /\ c \in cancelled => status'[c] = "cancelled"
                                   /\ c \notin cancelled => status'[c] = status[c]
    BY <2>2
  <2>5. status' \in [Command -> Status]
    BY <2>2, <2>3, <2>4 DEF OrderInv, ServiceTypeOK, Status, OpenStatus, ClosedStatus
  <2>6. node' = [c \in Command |-> IF c \in added THEN rows[c] ELSE node[c]]
    BY <1>1, <2>1 DEF WriteRows
  <2>7. node' \in [Command -> Node] /\ \A c \in Command \ added : node'[c] = node[c]
    BY <2>1, <2>6 DEF OrderInv, ServiceTypeOK
  <2>8. QED
    BY <1>1, <2>3, <2>4, <2>5, <2>7 DEF WriteRows, agentVars
<1>3. \A c \in added, d \in Command \ added : d < c => status[d] # "absent"
  BY <1>1 DEF WriteRows
<1>4. ServiceTypeOK'
  BY <1>2 DEF OrderInv, ServiceTypeOK
<1>5. RowsInOrder'
  BY <1>1, <1>2, <1>3 DEF OrderInv, RowsInOrder
<1>6. \A c \in Command : HasRun(c)' => HasRun(c)
  BY <1>2 DEF HasRun, ResultStatus
<1>7. HandoutsCounted'
  BY <1>1, <1>2, <1>6 DEF OrderInv, HandoutsCounted, ServiceTypeOK
<1>8. OffersInOrder'
  <2> SUFFICES ASSUME NEW c \in Command, NEW d \in Command, c < d, node'[c] = node'[d],
                      status'[c] = "pending", handouts'[c] = 0
               PROVE  handouts'[d] = 0
    BY DEF OffersInOrder
  <2>1. CASE status[d] = "absent"
    BY <1>2, <2>1 DEF OrderInv, HandoutsCounted
  <2>2. CASE status[d] # "absent"
    <3>1. status[c] # "absent"
      BY <2>2 DEF OrderInv, RowsInOrder
    <3>2. QED
      BY <1>2, <2>2, <3>1 DEF OrderInv, OffersInOrder
  <2>3. QED
    BY <2>1, <2>2
<1>9. RunsInOrder'
  <2> SUFFICES ASSUME NEW n \in Node, NEW c \in batch[n], NEW d \in Command, c < d,
                      node'[d] = n, handouts[c] <= 1
               PROVE  ~HasRun(d)'
    BY <1>2 DEF RunsInOrder
  <2>1. CASE d \in added
    <3>1. ~HasRun(d)
      BY <1>2, <2>1 DEF OrderInv, HandoutsCounted
    <3>2. QED
      BY <1>6, <3>1
  <2>2. CASE d \notin added
    BY <1>2, <1>6, <2>2 DEF OrderInv, RunsInOrder
  <2>3. QED
    BY <2>1, <2>2
<1>10. QED
  BY <1>4, <1>5, <1>7, <1>8, <1>9 DEF OrderInv

\* A poll claims in order, and nothing it claims for the first time has run.
LEMMA PollOrder ==
  ASSUME OrderInv, NEW n \in Node, ServicePoll(n)
  PROVE  OrderInv'
<1>1. PICK reopened \in SUBSET ((Of(n) \cap WithStatus({"claimed"})) \ Held),
           expired \in SUBSET ((Of(n) \cap WithStatus(OpenStatus)) \ Held),
           claimed \in SUBSET (Of(n) \cap WithStatus({"pending"})),
           answered \in BOOLEAN :
             /\ expired \cap (claimed \cup reopened) = {}
             /\ \A c \in claimed, d \in (Of(n) \cap WithStatus({"pending"})) \ expired :
                  d < c => d \in claimed
             /\ PollEffect(n, reopened, expired, claimed, answered)
  BY DEF ServicePoll
<1>2. ServiceTypeOK /\ ServiceTypeOK'
  BY ServicePollType DEF OrderInv
<1>3. /\ \A c \in claimed : /\ c \in Command /\ node[c] = n /\ status[c] = "pending"
                            /\ status'[c] = "claimed" /\ handouts'[c] = handouts[c] + 1
      /\ \A c \in Command \ claimed : handouts'[c] = handouts[c]
      /\ \A c \in expired : status[c] \in OpenStatus /\ status'[c] = "expired"
      /\ \A c \in reopened \ claimed : status[c] = "claimed" /\ status'[c] = "pending"
      /\ \A c \in Command : c \notin claimed \cup expired \cup reopened => status'[c] = status[c]
  <2>1. status' = [c \in Command |-> CASE c \in claimed  -> "claimed"
                                       [] c \in expired  -> "expired"
                                       [] c \in reopened -> "pending"
                                       [] OTHER          -> status[c]]
    BY <1>1 DEF PollEffect
  <2>2. claimed \subseteq Command /\ expired \subseteq Command /\ reopened \subseteq Command
    BY <1>1 DEF Of
  <2>3. \A c \in claimed : node[c] = n /\ status[c] = "pending"
    BY <1>1 DEF Of, WithStatus
  <2>4. \A c \in claimed : status'[c] = "claimed"
    <3>1. claimed \cap reopened = {}
      BY <2>3 DEF WithStatus
    <3>2. QED
      BY <1>1, <2>1, <2>2, <3>1
  <2>5. \A c \in expired : status[c] \in OpenStatus /\ status'[c] = "expired"
    BY <1>1, <2>1, <2>2 DEF WithStatus
  <2>6. \A c \in reopened \ claimed : status[c] = "claimed" /\ status'[c] = "pending"
    BY <1>1, <2>1, <2>2 DEF WithStatus
  <2>7. \A c \in Command : c \notin claimed \cup expired \cup reopened => status'[c] = status[c]
    BY <2>1
  <2>8. /\ \A c \in claimed : handouts'[c] = handouts[c] + 1
        /\ \A c \in Command \ claimed : handouts'[c] = handouts[c]
    BY <1>1, <2>2 DEF PollEffect
  <2>9. QED
    BY <2>2, <2>3, <2>4, <2>5, <2>6, <2>7, <2>8
<1>4. UNCHANGED <<node, waiting, results, cancelling>>
  BY <1>1 DEF PollEffect
<1>5. \A m \in Node : batch'[m] \subseteq batch[m] \cup claimed /\ (m # n => batch'[m] = batch[m])
  BY <1>1, <1>2 DEF PollEffect, ServiceTypeOK
<1>6. \A c \in Command : HasRun(c)' => HasRun(c)
  BY <1>3, <1>4 DEF HasRun, ResultStatus
<1>7. \A c \in Command : handouts[c] \in Nat /\ handouts'[c] \in Nat /\ handouts[c] <= handouts'[c]
  BY <1>2, <1>3 DEF ServiceTypeOK
<1>8. \A c \in Command : (status'[c] = "absent") <=> (status[c] = "absent")
  BY <1>3 DEF OpenStatus
<1>9. RowsInOrder'
  BY <1>8 DEF OrderInv, RowsInOrder
<1>10. HandoutsCounted'
  <2>1. \A c \in Command : status'[c] = "absent" => handouts'[c] = 0 /\ c \notin cancelling
    BY <1>3, <1>8 DEF OrderInv, HandoutsCounted
  <2>2. ASSUME NEW c \in Command, HasRun(c)' \/ status'[c] = "claimed" PROVE handouts'[c] > 0
    <3>1. CASE c \in claimed
      BY <1>3, <1>7, <3>1
    <3>2. CASE c \notin claimed
      <4>1. HasRun(c) \/ status[c] = "claimed"
        BY <1>3, <1>6, <2>2, <3>2
      <4>2. QED
        BY <1>3, <3>2, <4>1 DEF OrderInv, HandoutsCounted
    <3>3. QED
      BY <3>1, <3>2
  <2>3. ASSUME NEW m \in Node, NEW c \in batch'[m] PROVE handouts'[c] > 0 /\ node[c] = m
    <3>1. CASE c \in claimed
      <4>1. m = n \/ c \in batch[m]
        BY <1>5, <2>3
      <4>2. node[c] = m
        BY <1>3, <3>1, <4>1 DEF OrderInv, HandoutsCounted
      <4>3. QED
        BY <1>3, <1>7, <3>1, <4>2
    <3>2. CASE c \notin claimed
      <4>1. c \in batch[m] /\ c \in Command
        BY <1>2, <1>5, <2>3, <3>2 DEF ServiceTypeOK
      <4>2. QED
        BY <1>3, <3>2, <4>1 DEF OrderInv, HandoutsCounted
    <3>3. QED
      BY <3>1, <3>2
  <2>4. QED
    BY <1>4, <2>1, <2>2, <2>3 DEF HandoutsCounted
<1>11. OffersInOrder'
  <2> SUFFICES ASSUME NEW c \in Command, NEW d \in Command, c < d, node[c] = node[d],
                      status'[c] = "pending", handouts'[c] = 0
               PROVE  handouts'[d] = 0
    BY <1>4 DEF OffersInOrder
  <2>1. handouts[c] = 0 /\ c \notin claimed
    BY <1>3, <1>7
  <2>2. status[c] = "pending" /\ c \notin expired
    BY <1>3, <2>1 DEF OrderInv, HandoutsCounted
  <2>3. handouts[d] = 0
    BY <2>1, <2>2 DEF OrderInv, OffersInOrder
  <2>4. d \notin claimed
    BY <1>1, <1>3, <2>1, <2>2 DEF Of, WithStatus
  <2>5. QED
    BY <1>3, <2>3, <2>4
<1>12. RunsInOrder'
  <2> SUFFICES ASSUME NEW m \in Node, NEW c \in batch'[m], NEW d \in Command, c < d,
                      node[d] = m, handouts'[c] <= 1
               PROVE  ~HasRun(d)
    BY <1>4, <1>6 DEF RunsInOrder
  <2>1. c \in Command
    BY <1>2 DEF ServiceTypeOK
  <2>2. CASE c \in batch[m]
    BY <1>7, <2>1, <2>2 DEF OrderInv, RunsInOrder
  <2>3. CASE c \notin batch[m]
    <3>1. c \in claimed /\ m = n
      BY <1>5, <2>3
    <3>2. handouts[c] = 0 /\ status[c] = "pending" /\ node[c] = n
      BY <1>3, <1>7, <3>1
    <3>3. handouts[d] = 0
      BY <2>1, <3>1, <3>2 DEF OrderInv, OffersInOrder
    <3>4. QED
      BY <3>3 DEF OrderInv, HandoutsCounted
  <2>4. QED
    BY <2>2, <2>3
<1>13. QED
  BY <1>2, <1>9, <1>10, <1>11, <1>12 DEF OrderInv

\* Executions, results and cancellations.
LEMMA OrderInvStep == OrderInv /\ TableStep => OrderInv'
<1> SUFFICES ASSUME OrderInv, TableStep PROVE OrderInv'
  OBVIOUS
<1>t. ServiceTypeOK
  BY DEF OrderInv
<1>1. ASSUME NEW n \in Node, NEW ok \in BOOLEAN, NEW answer \in Answer, RunCommand(n, ok, answer)
      PROVE  OrderInv'
  <2>1. Current(n) \in batch[n] /\ Current(n) \in Command /\ \A d \in batch[n] : Current(n) <= d
    BY <1>1, <1>t, LeastInBatch DEF RunCommand
  <2>2. ServiceTypeOK'
    BY <1>1, <1>t, RunType
  <2>3. \A c \in Command : HasRun(c)' => HasRun(c) \/ c = Current(n)
    BY <1>1 DEF HasRun, RunCommand
  <2>4. handouts[Current(n)] > 0 /\ node[Current(n)] = n
    BY <2>1 DEF OrderInv, HandoutsCounted
  <2>5. HandoutsCounted'
    BY <1>1, <1>t, <2>1, <2>3, <2>4 DEF RunCommand, OrderInv, HandoutsCounted
  <2>6. RunsInOrder'
    <3> SUFFICES ASSUME NEW m \in Node, NEW c \in batch[m], NEW d \in Command, c < d,
                        node[d] = m, handouts[c] <= 1
                 PROVE  ~HasRun(d)'
      BY <1>1 DEF RunCommand, RunsInOrder
    <3>1. ~HasRun(d)
      BY DEF OrderInv, RunsInOrder
    <3>2. d # Current(n)
      <4> SUFFICES ASSUME d = Current(n) PROVE FALSE
        OBVIOUS
      <4>1. m = n
        BY <2>4
      <4>2. d <= c /\ c \in Nat /\ d \in Nat
        BY <1>t, <2>1, <4>1 DEF Command, ServiceTypeOK
      <4>3. QED
        BY <4>2
    <3>3. QED
      BY <2>3, <3>1, <3>2
  <2>7. RowsInOrder' /\ OffersInOrder'
    BY <1>1 DEF RunCommand, OrderInv, RowsInOrder, OffersInOrder
  <2>8. QED
    BY <2>2, <2>5, <2>6, <2>7 DEF OrderInv
<1>2. ASSUME NEW r \in results, NEW answered \in BOOLEAN, DeliverResult(r, answered) PROVE OrderInv'
  <2>1. ServiceTypeOK'
    BY <1>2, <1>t, DeliverType
  <2>2. r.cmd \in Command /\ HasRun(r.cmd)
    BY <1>t DEF ServiceTypeOK, Result, HasRun
  <2>3. /\ UNCHANGED <<node, handouts, cancelling>>
        /\ results' \subseteq results
        /\ \A n \in Node : batch'[n] \subseteq batch[n]
        /\ status'[r.cmd] \in ResultStatus
        /\ \A c \in Command : c # r.cmd => status'[c] = status[c]
    BY <1>2, <1>t, <2>2 DEF DeliverResult, ServiceTypeOK, ResultStatus
  <2>4. \A c \in Command : HasRun(c)' => HasRun(c)
    BY <2>2, <2>3 DEF HasRun
  <2>5. status[r.cmd] # "absent"
    BY <2>2, <1>t DEF OrderInv, HandoutsCounted, ServiceTypeOK
  <2>6. RowsInOrder'
    BY <2>3, <2>5 DEF OrderInv, RowsInOrder, ResultStatus
  <2>7. HandoutsCounted'
    <3>1. \A c \in Command : status'[c] = "absent" => status[c] = "absent"
      BY <2>3 DEF ResultStatus
    <3>2. \A c \in Command : status'[c] = "claimed" => status[c] = "claimed"
      BY <2>3 DEF ResultStatus
    <3>3. QED
      BY <2>3, <2>4, <3>1, <3>2 DEF OrderInv, HandoutsCounted
  <2>8. OffersInOrder'
    BY <2>3 DEF OrderInv, OffersInOrder, ResultStatus
  <2>9. RunsInOrder'
    BY <2>3, <2>4 DEF OrderInv, RunsInOrder
  <2>10. QED
    BY <2>1, <2>6, <2>7, <2>8, <2>9 DEF OrderInv
<1>3. ASSUME NEW r \in results, LoseResult(r) PROVE OrderInv'
  <2>1. ServiceTypeOK'
    BY <1>3, <1>t, LoseType
  <2>2. \A c \in Command : HasRun(c)' => HasRun(c)
    BY <1>3 DEF HasRun, LoseResult
  <2>3. QED
    BY <1>3, <2>1, <2>2
    DEF LoseResult, OrderInv, RowsInOrder, HandoutsCounted, OffersInOrder, RunsInOrder
<1>4. ASSUME NEW n \in Node, AbortRun(n) PROVE OrderInv'
  <2>1. ServiceTypeOK'
    BY <1>4, <1>t, AbortType
  <2>2. \A c \in Command : HasRun(c)' => HasRun(c)
    BY <1>4 DEF HasRun, AbortRun
  <2>3. \A m \in Node : batch'[m] \subseteq batch[m]
    BY <1>4, <1>t DEF AbortRun, ServiceTypeOK
  <2>4. QED
    BY <1>4, <2>1, <2>2, <2>3
    DEF AbortRun, OrderInv, RowsInOrder, HandoutsCounted, OffersInOrder, RunsInOrder
<1>5. ASSUME NEW c \in Command, CancelCheck(c) \/ CancelCommit(c) PROVE OrderInv'
  <2>1. ServiceTypeOK'
    BY <1>5, <1>t, CancelType
  <2>2. /\ UNCHANGED <<node, handouts, batch, results>>
        /\ cancelling' \subseteq cancelling \cup {d \in Command : status[d] = "pending"}
        /\ \A d \in Command : \/ status'[d] = status[d]
                              \/ d \in cancelling /\ status'[d] = "cancelled"
    BY <1>5, <1>t DEF CancelCheck, CancelCommit, ServiceTypeOK, agentVars
  <2>3. \A d \in Command : HasRun(d)' => HasRun(d)
    BY <2>2 DEF HasRun, ResultStatus
  <2>4. \A d \in Command : status'[d] = "absent" <=> status[d] = "absent"
    BY <2>2 DEF OrderInv, HandoutsCounted
  <2>5. RowsInOrder'
    BY <2>4 DEF OrderInv, RowsInOrder
  <2>6. HandoutsCounted'
    BY <2>2, <2>3, <2>4 DEF OrderInv, HandoutsCounted
  <2>7. OffersInOrder' /\ RunsInOrder'
    BY <2>2, <2>3 DEF OrderInv, OffersInOrder, RunsInOrder
  <2>8. QED
    BY <2>1, <2>5, <2>6, <2>7 DEF OrderInv
<1>6. CASE UNCHANGED serviceVars
  BY <1>6 DEF serviceVars, OrderInv, ServiceTypeOK, RowsInOrder, HandoutsCounted, OffersInOrder,
              RunsInOrder, HasRun
<1>7. QED
  BY <1>1, <1>2, <1>3, <1>4, <1>5, <1>6, PollOrder, QueueOrder DEF TableStep

-----------------------------------------------------------------------------
(***************************************************************************)
(* A command that was handed out once has one result at most, and its      *)
(* agent does nothing else before that result is answered: for agents that *)
(* ask for commands only between two runs.                                 *)
(***************************************************************************)
Once(c) == handouts[c] <= 1

OneResult ==
  /\ \A n \in waiting : batch[n] # {}
  /\ \A r, s \in results : r.cmd = s.cmd /\ Once(r.cmd) => r = s
  /\ \A r \in results : Once(r.cmd) => status[r.cmd] \notin ResultStatus
  /\ \A n \in Node : \A c \in batch[n] : Once(c) /\ HasRun(c) => n \in waiting /\ c = Current(n)

RunStep == TableStep /\ \A n \in Node : batch[n] # {} => batch'[n] \subseteq batch[n]

LEMMA OneResultInit == ServiceInit => OneResult
  BY DEF ServiceInit, OneResult

LEMMA ResultHasRun ==
  ASSUME OrderInv, NEW r \in results
  PROVE  /\ r.cmd \in Command /\ HasRun(r.cmd) /\ handouts[r.cmd] > 0
         /\ status[r.cmd] # "absent" /\ r.answer \in Answer
<1>1. r.cmd \in Command /\ r.answer \in Answer
  BY DEF OrderInv, ServiceTypeOK, Result
<1>2. HasRun(r.cmd)
  BY DEF HasRun
<1>3. handouts[r.cmd] > 0 /\ status[r.cmd] # "absent"
  BY <1>1, <1>2 DEF OrderInv, HandoutsCounted
<1>4. QED
  BY <1>1, <1>2, <1>3

\* The step of a run that reports.
LEMMA RunKeepsOneResult ==
  ASSUME OrderInv, OneResult, NEW n \in Node, NEW ok \in BOOLEAN, NEW answer \in Answer,
         RunCommand(n, ok, answer)
  PROVE  OneResult'
<1> DEFINE k == Current(n)
           new == [cmd |-> k, try |-> handouts[k], ok |-> ok, answer |-> answer]
<1>1. k \in batch[n] /\ k \in Command /\ node[k] = n
  BY CurrentInBatch DEF OrderInv, HandoutsCounted, RunCommand
<1>2. /\ results' = results \cup {new} /\ new.cmd = k
      /\ waiting' = waiting \cup {n} /\ n \notin waiting /\ batch[n] # {}
      /\ UNCHANGED <<status, handouts, batch>>
  BY DEF RunCommand
<1>3. \A m : Current(m)' = Current(m)
  BY <1>2 DEF Current
<1>n. k = Current(n)
  OBVIOUS
<1> HIDE DEF new, k
<1>4. \A c \in batch[n] : Once(c) => ~HasRun(c)
  BY <1>2 DEF OneResult
<1>5. Once(k) => status[k] \notin ResultStatus /\ \A r \in results : r.cmd # k
  BY <1>1, <1>4 DEF HasRun
<1>6. \A c : Once(c)' = Once(c) /\ (HasRun(c)' => HasRun(c) \/ c = k)
  BY <1>2 DEF Once, HasRun
<1>7. \A r, s \in results' : r.cmd = s.cmd /\ Once(r.cmd) => r = s
  BY <1>2, <1>5 DEF OneResult
<1>8. \A r \in results' : Once(r.cmd) => status[r.cmd] \notin ResultStatus
  BY <1>2, <1>5 DEF OneResult
<1>9. ASSUME NEW m \in Node, NEW c \in batch[m], Once(c), HasRun(c)'
      PROVE  m \in waiting' /\ c = Current(m)
  <2>1. CASE HasRun(c)
    BY <1>2, <1>9, <2>1 DEF OneResult
  <2>2. CASE c = k
    <3>1. m = n
      BY <1>1, <2>2 DEF OrderInv, HandoutsCounted
    <3>2. QED
      BY <1>2, <1>n, <2>2, <3>1
  <2>3. QED
    BY <1>6, <1>9, <2>1, <2>2
<1>10. \A m \in waiting' : batch[m] # {}
  BY <1>2 DEF OneResult
<1>11. QED
  BY <1>2, <1>3, <1>6, <1>7, <1>8, <1>9, <1>10 DEF OneResult

\* A result that arrives, answered or not.
LEMMA DeliverKeepsOneResult ==
  ASSUME OrderInv, OneResult, NEW r \in results, NEW answered \in BOOLEAN,
         DeliverResult(r, answered)
  PROVE  OneResult'
<1>1. r.cmd \in Command /\ HasRun(r.cmd) /\ batch \in [Node -> SUBSET Command] /\ waiting \subseteq Node
      /\ status \in [Command -> Status]
  BY ResultHasRun DEF OrderInv, ServiceTypeOK
<1>2. /\ results' = results \ {r} /\ handouts' = handouts
      /\ \A c \in Command : c # r.cmd => status'[c] = status[c]
      /\ waiting' \subseteq waiting
      /\ \A n \in Node :
           \/ AwaitedBy(n, r) /\ batch'[n] = batch[n] \ {r.cmd} /\ n \notin waiting'
           \/ batch'[n] = batch[n] /\ (n \in waiting' <=> n \in waiting)
  BY <1>1 DEF DeliverResult
<1>3. \A c \in Command : HasRun(c)' => HasRun(c)
  BY <1>1, <1>2 DEF HasRun
<1>4. \A c : Once(c)' = Once(c)
  BY <1>2 DEF Once
<1>5. ASSUME NEW s \in results', Once(s.cmd) PROVE status'[s.cmd] \notin ResultStatus
  <2>1. s \in results /\ s # r
    BY <1>2
  <2>2. s.cmd \in Command /\ s.cmd # r.cmd
    BY <1>5, <2>1, ResultHasRun DEF OneResult
  <2>3. QED
    BY <1>2, <1>5, <2>1, <2>2 DEF OneResult
<1>6. ASSUME NEW n \in Node, NEW c \in batch'[n], Once(c), HasRun(c)'
      PROVE  n \in waiting' /\ c = Current(n)'
  <2>1. c \in batch[n] /\ c \in Command
    BY <1>1, <1>2
  <2>2. n \in waiting /\ c = Current(n)
    BY <1>3, <1>6, <2>1 DEF OneResult
  <2>3. CASE AwaitedBy(n, r) /\ batch'[n] = batch[n] \ {r.cmd} /\ n \notin waiting'
    <3>1. c # Current(n)
      BY <1>6, <2>3 DEF AwaitedBy
    <3>2. QED
      BY <2>2, <3>1
  <2>4. CASE batch'[n] = batch[n] /\ (n \in waiting' <=> n \in waiting)
    <3>1. Current(n)' = Current(n)
      BY <2>4 DEF Current
    <3>2. QED
      BY <2>2, <2>4, <3>1
  <2>5. QED
    BY <1>2, <2>3, <2>4
<1>7. \A n \in waiting' : batch'[n] # {}
  BY <1>1, <1>2 DEF OneResult
<1>8. \A s, t \in results' : s.cmd = t.cmd /\ Once(s.cmd) => s = t
  BY <1>2 DEF OneResult
<1>9. QED
  BY <1>4, <1>5, <1>6, <1>7, <1>8 DEF OneResult

\* A poll of an agent whose last run is over, or one that brings it nothing.
LEMMA PollKeepsOneResult ==
  ASSUME OrderInv, OneResult, NEW n \in Node, ServicePoll(n),
         batch[n] # {} => batch'[n] \subseteq batch[n]
  PROVE  OneResult'
<1>1. ServiceTypeOK
  BY DEF OrderInv
<1>2. PICK reopened \in SUBSET ((Of(n) \cap WithStatus({"claimed"})) \ Held),
           expired \in SUBSET ((Of(n) \cap WithStatus(OpenStatus)) \ Held),
           claimed \in SUBSET (Of(n) \cap WithStatus({"pending"})),
           answered \in BOOLEAN :
             PollEffect(n, reopened, expired, claimed, answered)
  BY DEF ServicePoll
<1>3. reopened \subseteq Command /\ expired \subseteq Command /\ claimed \subseteq Command
  BY <1>2 DEF Of
<1>4. \A c \in Command :
        status'[c] = CASE c \in claimed  -> "claimed"
                       [] c \in expired  -> "expired"
                       [] c \in reopened -> "pending"
                       [] OTHER          -> status[c]
  BY <1>2, Zenon DEF PollEffect
<1>5. ASSUME NEW c \in Command
      PROVE  status'[c] = status[c] \/ status'[c] = "claimed" \/ status'[c] = "expired" \/ status'[c] = "pending"
  BY <1>4, Zenon
<1>6. \A c \in Command : status'[c] \in ResultStatus => status[c] \in ResultStatus
  BY <1>5 DEF ResultStatus
<1>7. /\ results' = results /\ waiting' = waiting
      /\ \A c \in Command : handouts'[c] = IF c \in claimed THEN handouts[c] + 1 ELSE handouts[c]
      /\ batch' = batch \/ batch' = [batch EXCEPT ![n] = @ \cup claimed]
  BY <1>2 DEF PollEffect
<1>8. /\ batch \in [Node -> SUBSET Command]
      /\ \A m \in Node : batch[m] \subseteq batch'[m]
      /\ \A m \in Node : batch'[m] = batch[m] \/ (m = n /\ batch[m] = {} /\ batch'[m] \subseteq claimed)
  <2>1. batch \in [Node -> SUBSET Command]
    BY <1>1 DEF ServiceTypeOK
  <2>2. CASE batch' = batch
    BY <2>1, <2>2
  <2>3. CASE batch' = [batch EXCEPT ![n] = @ \cup claimed]
    <3>1. batch'[n] = batch[n] \cup claimed /\ \A m \in Node : m # n => batch'[m] = batch[m]
      BY <2>1, <2>3
    <3>2. QED
      BY <2>1, <3>1
  <2>4. QED
    BY <1>7, <2>2, <2>3
<1>9. \A c \in Command : handouts[c] \in Nat /\ (Once(c)' => Once(c))
                         /\ (c \in claimed /\ Once(c)' => handouts[c] = 0)
  BY <1>1, <1>7 DEF Once, ServiceTypeOK
<1>10. \A c \in Command : HasRun(c)' => HasRun(c)
  BY <1>6, <1>7 DEF HasRun
<1>11. \A r \in results : r.cmd \in Command
  BY ResultHasRun
<1>12. \A r, s \in results : r.cmd = s.cmd /\ Once(r.cmd)' => r = s
  BY <1>9, <1>11 DEF OneResult
<1>13. \A r \in results : Once(r.cmd)' => status'[r.cmd] \notin ResultStatus
  BY <1>6, <1>9, <1>11 DEF OneResult
<1>14. ASSUME NEW m \in Node, NEW c \in batch'[m], Once(c)', HasRun(c)'
       PROVE  m \in waiting /\ c = Current(m)'
  <2>1. CASE batch'[m] = batch[m]
    <3>1. c \in Command /\ Current(m)' = Current(m)
      BY <1>8, <2>1 DEF Current
    <3>2. QED
      BY <1>9, <1>10, <1>14, <2>1, <3>1 DEF OneResult
  <2>2. CASE batch'[m] \subseteq claimed
    <3>1. c \in Command /\ handouts[c] = 0 /\ HasRun(c)
      BY <1>3, <1>9, <1>10, <1>14, <2>2
    <3>2. QED
      BY <3>1 DEF OrderInv, HandoutsCounted
  <2>3. QED
    BY <1>8, <2>1, <2>2
<1>15. \A m \in waiting : batch'[m] # {}
  BY <1>1, <1>8 DEF OneResult, ServiceTypeOK
<1>16. QED
  BY <1>7, <1>12, <1>13, <1>14, <1>15 DEF OneResult

\* The steps that leave batches, results and hand-outs alone.
LEMMA OthersKeepOneResult ==
  ASSUME OrderInv, OneResult, UNCHANGED <<handouts, batch, waiting, results>>,
         \A c \in Command : status'[c] \in ResultStatus => status[c] \in ResultStatus
  PROVE  OneResult'
<1>1. \A r \in results : r.cmd \in Command
  BY ResultHasRun
<1>2. \A n \in Node : \A c \in batch[n] : c \in Command
  BY DEF OrderInv, ServiceTypeOK
<1>3. \A n : Current(n)' = Current(n)
  BY DEF Current
<1>4. \A c : Once(c)' = Once(c)
  BY DEF Once
<1>5. \A c \in Command : HasRun(c)' => HasRun(c)
  BY DEF HasRun
<1>6. \A r \in results : Once(r.cmd) => status'[r.cmd] \notin ResultStatus
  BY <1>1 DEF OneResult
<1>7. \A n \in Node : \A c \in batch[n] : Once(c) /\ HasRun(c)' => n \in waiting /\ c = Current(n)
  BY <1>2, <1>5 DEF OneResult
<1>8. QED
  BY <1>3, <1>4, <1>6, <1>7 DEF OneResult

LEMMA OneResultStep == OrderInv /\ OneResult /\ RunStep => OneResult'
<1> SUFFICES ASSUME OrderInv, OneResult, RunStep PROVE OneResult'
  OBVIOUS
<1>1. ASSUME NEW n \in Node, AbortRun(n) PROVE OneResult'
  <2>1. /\ UNCHANGED <<status, handouts, results>>
        /\ waiting' = waiting \ {n} /\ waiting \subseteq Node
        /\ batch'[n] = {} /\ \A m \in Node : m # n => batch'[m] = batch[m]
    BY <1>1 DEF AbortRun, OrderInv, ServiceTypeOK
  <2>2. \A c : Once(c)' = Once(c) /\ HasRun(c)' = HasRun(c)
    BY <2>1 DEF Once, HasRun
  <2>3. \A m \in Node : m # n => Current(m)' = Current(m)
    BY <2>1 DEF Current
  <2>4. QED
    BY <2>1, <2>2, <2>3 DEF OneResult
<1>2. ASSUME NEW r \in results, LoseResult(r) PROVE OneResult'
  <2>1. results' = results \ {r} /\ UNCHANGED <<status, handouts, batch, waiting>>
    BY <1>2 DEF LoseResult
  <2>2. \A c : Once(c)' = Once(c) /\ (HasRun(c)' => HasRun(c))
    BY <2>1 DEF Once, HasRun
  <2>3. \A n : Current(n)' = Current(n)
    BY <2>1 DEF Current
  <2>4. QED
    BY <2>1, <2>2, <2>3 DEF OneResult
<1>3. ASSUME NEW c \in Command, CancelCheck(c) \/ CancelCommit(c) PROVE OneResult'
  <2>1. /\ UNCHANGED <<handouts, batch, waiting, results>>
        /\ \A d \in Command : status'[d] = status[d] \/ status'[d] = "cancelled"
    BY <1>3 DEF CancelCheck, CancelCommit, agentVars, OrderInv, ServiceTypeOK
  <2>2. QED
    BY <2>1, OthersKeepOneResult DEF ResultStatus
<1>4. CASE QueuesRows
  <2>1. PICK added \in SUBSET Command, cancelled \in SUBSET Command :
          \E rows \in [added -> Node] : WriteRows(rows, cancelled)
    BY <1>4 DEF QueuesRows
  <2>2. PICK rows \in [added -> Node] : WriteRows(rows, cancelled)
    BY <2>1
  <2>3. \A c \in Command : status'[c] = CASE c \in DOMAIN rows -> "pending"
                                          [] c \in cancelled   -> "cancelled"
                                          [] OTHER             -> status[c]
    BY <2>2, Zenon DEF WriteRows
  <2>4. ASSUME NEW c \in Command
        PROVE  status'[c] = status[c] \/ status'[c] = "pending" \/ status'[c] = "cancelled"
    BY <2>3, Zenon
  <2>5. UNCHANGED <<handouts, batch, waiting, results>>
    BY <2>2 DEF WriteRows, agentVars
  <2>6. QED
    BY <2>4, <2>5, OthersKeepOneResult DEF ResultStatus
<1>5. CASE UNCHANGED serviceVars
  BY <1>5, OthersKeepOneResult DEF serviceVars
<1>6. QED
  BY <1>1, <1>2, <1>3, <1>4, <1>5, RunKeepsOneResult, DeliverKeepsOneResult, PollKeepsOneResult
  DEF RunStep, TableStep

=============================================================================
