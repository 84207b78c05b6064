# Exchange Guard: specifications

TLA+ specifications of the Exchange Guard control plane (`app/`) and of the two
PowerShell agents it commands (`edge/`, `mailbox/`), TLC configurations that
check them on small instances, and TLAPS proofs of the theorems that matter most.

Check a module with `tlc -config X.cfg MCX`, a proof with `tlapm XProofs.tla`.
`PROJECT.json` lists the runs, the source lines every definition stands for, the
hazards and the theorems.

## The system

The web process is one uvicorn process over one PostgreSQL database
(READ COMMITTED, `autoflush=False`, `expire_on_commit=False`, no version columns).
In it run

- the **agent endpoints** (`async def`): they have no `await` between their reads
  and their commit, so on the one event loop each is atomic with respect to the others;
- the **admin pages** (`def`): in a thread pool, concurrent with each other and with
  the agent endpoints; what they read may be stale at their commit;
- four **worker threads**: reputation scan, outbound scan, inbound spoof scan, Telegram bot. A thread whose
  exception nobody catches ends, and only a restart of the process starts it again.

The **agents** run as scheduled tasks, the Edge agent every 2 minutes (killed after 5),
the mailbox agent every 5 (killed after 30), never two runs of one task at a time
(`MultipleInstances IgnoreNew`). A run asks for its commands, executes them one by
one and posts each result; a failed post ends the run.

| Component | State | Operations | Interacts by |
|---|---|---|---|
| command queue | `commands` rows: status, node, times, result | queue, poll (reopen stale claims, expire, claim), result, cancel | every component queues; the agents poll |
| agent request authentication | `agent_nonces` | verify a signed request, purge | in front of every agent endpoint |
| mailbox incidents | `mailbox_incidents` | quarantine, release, update on results | two commands per quarantine, one per release; Telegram opens them too |
| IP blocks and allowlist | `allowlist_entries`, the Edge agent's copy, Exchange's IP block list | block, unblock, trust, untrust, sync, approve | commands to the Edge agent; the agent fetches the allowlist while it executes |
| inbound spoof scan | `inbound_spoof_sources`, `ip_geo_records`, a daily lookup budget | rewrite sources, refresh GeoIP, country policy | reads allowlist, snapshots, commands; queues blocks |
| outbound monitor | `outbound_usage_records`, hourly and evidence rows | scan | reads sender profiles; ends in the alert sync |
| sender profiles | `outbound_sender_profiles` | add and remove bulk and expected senders | each starts a scan |
| Telegram alerts | `telegram_alerts`, update offset | sync, dispatch, button, reconcile | reads usage records, opens incidents, follows their status |
| mailbox inventory and policies | `mailbox_records`, `throttling_policy_records` | sync, apply, upsert, snapshot, result | commands to the mailbox agent |
| candidates and events | `events`, `candidates` | ingest, approve, dismiss, result of a block | Edge agent posts events |
| domain reputation | `reputation_records` | scan, check, block, dismiss, allowlist | network providers; queues domain blocks |
| snapshots, heartbeat, attachments, settings, audit | one row or an insert per call | - | - |

What is hard in this code: a claim that times out while its run is alive, results
that arrive late, twice or never, admin requests that commit what they decided on
stale reads, agents that are killed half way through an Exchange change, copies of
state (the agent's allowlist, `previous_ews_enabled`, `mailbox_command_id`) that
outlive what they were copied from, and incidents or alerts that wait for an event
that will not come. `PROJECT.json` lists them as hazards, each at its line.

## Modules

```
TaskLifecycle         what one queued command goes through, seen from the pages
 CommandService       what the command table and the agents promise, with no clock; implements TaskLifecycle
  CommandQueue        the table with TTL, claim timeout and batch order; implements CommandService and TaskLifecycle
  Quarantine          incidents and the mailbox agent, on CommandService
  EdgeBlocks          blocks, trust and the allowlist copy of the Edge agent, on CommandService
  MailboxPolicies     mailbox inventory and throttling policies, on CommandService
  DomainReputation    reputation records, candidates, events and the sender filter, on CommandService
OutboundScan          sender profiles, usage records and the scan
  TelegramAlerts      the alert sync of a scan, the bot's worker and the incidents its buttons open
AgentAuth             timestamp window and nonces
*Proofs               the theorems about each;  MC*  the instances for TLC
```

**TaskLifecycle** is the abstract specification of one command: it waits, it runs, it is over, and a
run that vanishes leaves it unsure until it is offered again. No task leaves `over`, none is offered while a
worker has it, and a worker takes its tasks in their order. `CommandService` maps to it (`CommandStage`) by calling a command
running while some run holds it, whatever its row says, and unsure when it is claimed and no run holds it.
That a cancellation overwrites the status of a command that an agent executes is thereby shown to be
invisible at that level: the execution under way ends, and none follows.

**CommandService** is the abstract specification of the command table, shared by the
components that queue commands. Its variables are the `status` and `node` of each row, the
number of `handouts`, the `batch` each run still has to finish, the nodes `waiting` for the
answer to a post, the `results` on their way, and cancellations between check and commit.
A poll may reopen, expire and claim any commands of its node that no run holds, in order;
why it does so is left to the implementation. A request may queue several rows at once and cancel
pending ones it has read (`QueuesRows`). A result that is never delivered is lost.
An agent that dies at any point is `AbortRun`; its post may still arrive. Rows are numbered in
the order they become visible, which stands for `created_at`; two requests that commit in
the opposite order of their `created_at` are not told apart.

**CommandQueue** adds `age` and `claimAge` and the three queries of `agent_get_commands` as they
are, including that a claim reopened by a poll is not handed out by the same poll
(the session does not flush before the last query). Ages saturate one tick after the last value
a comparison can tell apart. A poll is one step; a cancellation is two.

**Quarantine** models one mailbox: `queue_mailbox_quarantine` (one step, because of the row lock),
`incident_release` (two steps), `agent_command_result` with the whole incident branch, and what
Quarantine-Mailbox and Release-Mailbox do to EWS and the group, completed, failed, rolled back
or killed in between. What a PurgeSenderQueue removes is not state here. One release
request per incident is between its check and its commit at a time.

**EdgeBlocks** models one public address: the admin requests and the country policy with their
reads and commits apart, the allowlist, and the Edge agent with its stored copy of it and the block
list of Exchange. A `SyncAllowlist` is two steps, the fetch and the file. Block durations are
a block that may expire at any time. `Get-IPBlockListEntry` may fail; `UnblockIp` ignores that error
and reports success (line 349 of the Edge agent), which the history variable `unread` remembers as long as the
entry it missed is there.

**MailboxPolicies** models `mailbox_sync`, `mailbox_policy_apply` (its reads and its commit apart, the batches it cuts,
and that the session writes only columns that changed), `throttling_policy_upsert`, the three commands of the mailbox agent, the
inventory it posts for a command or at the end of a run, and the two handlers that write the same rows:
`agent_mailbox_snapshot` and `agent_command_result`. An item of a batch may fail before or after its change
while the command succeeds. Administrators change mailboxes and policies in Exchange itself. The history
variables `unsaid`, `late` and `cleared` say which mailboxes changed with no result to tell it,
whether a post was handled that the agent no longer waited for, and for which mailboxes an inventory took a failure off the page.

**DomainReputation** models one external domain and one address that sends for it. `run_reputation_scan` is the
discovery, the turn of the domain (the session reads the row) and the commit after the network calls; a check
on the page is a read and a commit as well. A commit writes the columns that differ from the row as it was
read (`Saved`), which is what lets two checks at once mix. `Score` and `Advised` are `_score` with its numbers over the signals it takes
from the providers' answers; `Discovered` counts the messages of a tracking log row by row. The decisions
are those of the reputation page, the candidate page, the allowlist page and the manual domain blocks. The Edge host appends
events to a file; a run posts its end again and again, polls only when that post was answered, and executes
its commands on the sender filter. `mixed` and `before` are history: the last check had read a row that was no longer
the current one; the commands that existed when the allowlist last changed.

**OutboundScan** is `run_outbound_scan` in the order of its three sessions: profiles, query, write. Any
set of senders may be heavy in the rows of a query; a level is `critical`, one of the exempt ones, or `low`
for all that raise no alert. The lock is the phase of the one scan; a caller that finds
it taken does nothing. An error ends the scan (`Abandon`); its handlers write to the database themselves, and when
that fails too the exception reaches the caller: a page fails, but the loop of the `outbound-monitor` thread (outbound.py:383-388) has no
handler and the thread is gone (`monitor`), with `_WORKER_STARTED` still set. From then on only pages start scans, up to the next restart.
Such an end takes two of the bounded faults, the error and the one of its handler. Who called a scan is not told apart: an abandoned scan that was a page's
looks like one whose error was recorded. `profile` changes by the four handlers, whose own scan is a `ScanStart` that may
or may not come.

**TelegramAlerts** extends it with `sync_critical_alerts` (a read step and a commit step, since the
worker commits in between) and with the worker: one dispatch, one reconciliation
and one poll per pass, each alert of a batch its own commit. The worker keeps what its session has read
(`todo`, `known`) over those commits. A dispatch that fails may have put the
message into the chat. Button presses arrive in order; `offset` is the one in memory, `saved` the one in
`AppSetting`: an exception in a callback loses the first, a restart takes up the second, and either makes
an update come again. After a restart the bot's thread may end before its loop (`"ended"`): the read of the offset and the
audit of a refused command menu are outside its `try`. Incidents are moved by an environment that allows every order of outcomes and
releases, a superset of what Quarantine does; one of them is opened by a button (with that alert as
its `opener`), by a button that follows an active one, or on the web page. `faults` counts errors and
restarts and is bounded by `MaxFaults`; alerts, incidents and presses have a bound each.

**AgentAuth** models `verify_agent_request` and the commit or rollback of the handler behind it.
Agents may have any clock (`Stamp`), requests are delivered late, repeatedly or never.

Each definition's comment names the function it translates; `PROJECT.json` has the lines.

## Runs

| Run | Instance | What it shows |
|---|---|---|
| CommandQueue | 2 nodes, 2 commands, TTL 1, claim timeout 0, batch of 1 | no command is offered while a run holds it, redelivery is bounded by TTL and timeout, closed commands stay closed, a poll keeps the order, the queue implements CommandService and TaskLifecycle, and every command is eventually closed |
| Quarantine | 2 incidents of one mailbox, 5 units of work (a command, its second hand-out, a command that expired, was cancelled or whose run vanished) | "quarantined" means contained until a newer release, the status follows the reports, the last release without redelivery restores the mailbox, a released incident stays released once its purge has reported |
| QuarantineRelease | 1 incident, 3 commands (quarantine, purge, release), otherwise as Quarantine | violated: a redelivered QuarantineMailbox undoes or falsifies a release |
| QuarantineStuck | as QuarantineRelease | violated: an incident pending with no open command |
| AgentAuth | 2 nodes, 2 nonces, stamps -1..4, window 1, retention 2, clock to 4 | at most once; refused only if handled |
| EdgeBlocks | 3 units of work (a command, or its second hand-out), 1 request between read and commit, listing may fail | the last unblock holds; a trusted, synchronised address stays unblocked; the agent's allowlist is the central one once the newest sync succeeded |
| EdgeBlocksAuto | as EdgeBlocks, 2 requests between read and commit | violated: the country policy blocks an address trusted meanwhile |
| TelegramAlerts | 1 sender, 2 alerts, 2 incidents, 1 press, 2 delivery attempts, 2 faults | a button opens at most one incident, a sender has one active alert, an alert that lapsed before it was taken up is never sent |
| TelegramAlertsLive | 1 alert, 1 incident (outcomes quarantined and released), 1 press, 1 attempt, 2 faults, profiles none and expected | an outcome is told in the end while the bot's thread lives; alerts come and go with the risk of a sender while the monitor's does |
| TelegramProfiles | as TelegramAlertsLive | violated: an alert is raised for an exempt sender |
| MailboxPolicies | 1 mailbox, 1 policy and the default, 2 commands, 2 units of work (a command, a second hand-out, a change by hand), 1 inventory on its way | the page shows what Exchange has once every change reported, the newest request wins or fails visibly, rows converge |
| DomainReputation | 1 domain in one scope, 1 candidate, 2 commands, 2 events, 3 units of work (commands, second hand-outs, scans, checks, decisions, events), 2 kinds of evidence, a log of 3 rows | the newest block or unblock decides; a trusted, synchronised domain is not blocked; advice rests on evidence; checks, scans and repeated events undo no decision |

Why the bounds are enough: two commands are the fewest that can overtake, hold up or be
mistaken for one another, a TTL of one tick with no claim timeout lets a command be reopened and then
expire, and a batch of one makes the limit cut the queue. Three commands are one whole cycle of
an incident, or a block, the sync and the unblock of a trust request. One repeated command is
enough for every redelivery scenario that involves a single lost result; `MaxWork` lets an instance
spend its units on commands or on fewer of which some are repeated (in Quarantine: or end without a result). Five units
are a quarantine, its purge, a release and a second quarantine with its purge, or one incident whose three commands are
repeated or lost. A second incident and a
second handling of one press are what a double use needs; two faults let an update be handled, lost
and fetched again, a message fail before it succeeds, or a thread end. "quarantined" and "released" are the outcomes that differ for `OutcomeTold`: the worker follows an alert beyond the first and "failed" and "partial" are followed like it. A second alert of the sender is what a scan could raise beside the first. The window and the
retention of AgentAuth are at the smallest ratio the theorem allows, where an off-by-one shows.
In MailboxPolicies a mailbox meets others only in the batch it shares, which one command per request covers; two
requests for one mailbox, or one request and a change by hand, are what page and Exchange can disagree about. In
DomainReputation the two kinds of evidence are the extremes of `Score`: the worst a domain can look that nobody
lists, and a listed one; `ManyMessages` and `ManyRecipients` are 1 there, so that a log of three rows reaches
both thresholds, and a message logged at two hops must count once.
For the safety properties of every component the theorems below remove the bounds.

Deadlock is checked in the CommandQueue run. Elsewhere the bounded supply of commands,
hand-outs or seconds lets an instance stop, so `CHECK_DEADLOCK FALSE`.

Fairness. CommandQueue: the scheduler keeps starting runs, a run ends (it finishes or is
killed at its time limit), an accepted cancellation commits, time passes. Nothing is
assumed of the network or of results. MailboxPolicies: the agent keeps working and its runs end, with
`SyncInventoryEveryRun` it posts an inventory in each, a post the agent waits for is handled at last when it is repeated for ever
(strong fairness: some attempt gets through), and posts it no longer waits for are handled or lost.
TelegramAlertsLive: a thread that lives goes on. The loop of the bot's `_worker` catches every exception (telegram_bot.py:926-932), so its steps are
weakly fair once it has come so far. The monitor's loop catches none: its thread starts scans as long as `monitor` is true, and a scan that has been started, by it
or by a page, is carried on to its end or its error. `AlertsFollowRisk` therefore speaks of a thread that is alive, `OutcomeTold` of a bot that has
reached its loop. Errors and restarts come to an end, possibly with a dead thread. Administrators, agents and operators may do nothing; no page need start a scan.

## What the violated runs show

- A release neither closes the quarantine command of its incident nor protects
  `previous_ews_enabled` from a second execution.
- Nothing ends the pending state of an incident whose commands expired or were cancelled; it
  can be neither released nor replaced.
- The country policy commits blocks decided on an allowlist read before.
- A scan raises an alert on profiles it read before its query; the scan that the new profile asks for
  finds the lock taken, so the alert stays until the next scan.

Met while modelling and not covered by a run:

- A database outage that outlasts a scan ends the outbound-monitor thread for good: its error handlers need the database themselves. Without the condition `monitor`, TLC
  refutes `AlertsFollowRisk` with a scan that commits a critical level, fails in its alert sync and is the last: "Create one Telegram alert per non-bulk sender for each
  critical episode" (telegram_bot.py:308) then waits for a restart or for somebody to ask for a scan. The bot's thread can end in the same way, but only before its loop.
- `command_cancel` writes `cancelled` over whatever the row has become since its check, also while an agent executes it.
- An alert that recovers while it is being sent is written back as sent, and its button still quarantines; alerts that a
  dispatch settles without sending are committed only with a later alert that it sends, so a batch full of them keeps newer alerts
  of other senders waiting. They are not sent themselves (`LapsedStaysUnsent`).
- An alert whose release was told is followed no more, so its chat does not learn that the incident became "quarantined" again; nor, of a later
  release, that of an alert which a scan marks recovered, having decided so before its button was pressed, after an outcome was told.
- A PurgeSenderQueue result after the release turns the incident "quarantined" again (`ReleaseIsFinal` holds from that result on). A failed incident
  can be released beside its successor, whose mailbox is then no longer contained (`ContainmentHolds` is stated up to such a release).
- A mailbox may have two active incidents: a failed one does not count as active, a new one is opened beside it, and the failed one turns "partial" when
  the half of it that was still open succeeds, or "pending" when it is released.
- `candidate_approve` does not look at the allowlist (the Edge agent does), and a listing error in `UnblockIp` goes unnoticed.
- A block that is handed out again undoes an unblock that was asked for, and executed, in between.
- `reputation_allowlist` queues no SyncAllowlist: the Edge agent goes on blocking the domain until some other change queues one.
- Two checks of one domain at once leave the advice of one beside the evidence of the other; a check that
  fails keeps the old score and advice.
- The result of an approved block sets a record or a candidate to "blocked" whatever was decided since, and an
  older event post that is handled late may overwrite the counters of the candidate.
- The result of an older policy change replaces `desired_policy`; when the newest change fails after it, the next inventory
  takes the failure off the page.

## Proofs

All for every value of the constants, from the named `ASSUME`s of the modules only.

- `CommandServiceProofs`: type lemmas for each action of the service, and that a non-empty
  batch has a current command (well-foundedness of `<` on the naturals). `ServiceImplementsLifecycle` rests on `LifeInv`: a command in a batch belongs to the
  node that holds it and is neither pending nor absent, and a result or a cancellation on its way is of a row that exists. `OrderInv` is what the components below build on: rows exist without gaps, a command that has
  run was handed out, and of the commands of one node that were handed out at most once none runs after a newer one.
  `OneResult` adds, for agents that poll only between two runs, that a command handed out once has at most one result and
  that its agent does nothing else until it is answered.
- `CommandQueueProofs`: `TypeCorrect`; `NoOverlappingExecution` (a command in a batch belongs to the node and is
  neither pending nor absent; inductive because a node polls only with an empty batch and the
  stale-claim query looks only at its own node); `ClosedForGood`, an action property that needs it;
  `RedeliveryBounded`, from an invariant that weighs hand-outs against the ages of a row;
  `OldestFirst`, from the three queries of a poll alone: the batch is the oldest part of what is pending after expiry;
  `QueueImplementsLifecycle`, by way of the service, and
  `QueueImplementsService`, where the poll maps to `ServicePoll` with the three query results as witnesses.
- `UsesService`, in the proof modules of the four components on CommandService: each of their steps is a step of the service or leaves the
  command table alone, so each behaviour is one of `ServiceSpec`, and by `ServiceImplementsLifecycle` of the life of a task as well. A page that queues
  several rows is `QueuesRows`, which `CommandServiceProofs` shows to keep `LifeInv` and to be a step or a stutter of TaskLifecycle.
- `QuarantineProofs`: `TypeCorrect`, `UsesService`, `QuarantineContains`, `OutcomeIsReported`, `ReleasesAreFinal` and `ReleaseUndoes`.
  `TableInv` is what all of them know of the command table: `OrderInv`, `OneResult`, and that the commands an incident names exist and have their kinds (`CommandsFit`).
  "Quarantined" is not inductive by itself: `SuccessContains` says that a QuarantineMailbox that succeeded or has a success on the way has left EWS off
  and the mailbox in the group, and that the run that has had it holds no release, as long as no release is newer or repeated (`ReleasesBefore`); older ones come first by `OrderInv`, so
  what earlier incidents and their releases left does not matter.
  For `OutcomeIsReported` the invariant (`OutcomeInv`) says which statuses of its two commands an incident may have. The delicate
  case is a success that meets a failed incident whose other command is still open and so changes nothing: by `OneResult` the command that failed cannot
  be the one that now succeeds, and one cancelled after its failure reports no more (`Silent`).
  For `ReleasesAreFinal` the invariant (`ReleasedInv`) says that the release of a released incident, if handed out once, has succeeded or been cancelled since and has nothing more to report; nor has
  a reported purge, so no result of its own can come, and one of another incident writes another row.
  For `ReleaseUndoes` the first half is `Finished`: of the commands of the mailbox agent, each handed out once, none runs after the newest has succeeded, so what that release set is what Exchange has. The second half,
  that the setting is the one of before, needs `ReadsOwnInv`: the only quarantine of the mailbox reads the setting of before as long as it has not run, and what a result recorded,
  and a release carries, is what it read. It is stated for a mailbox with one incident because a second quarantine may read the setting a first, failed one left.
- `TelegramAlertsProofs`: `TypeCorrect`, `ButtonSingleUse`, `OneAlertAtATime` and `LapsedAlertsUnsent`. The invariant says that an alert whose button can act has
  no incident, that one whose button opened an incident has that one for good, and that what the worker has
  read of its alerts still holds when it writes them back: a scan may overwrite a status in
  between but never touches an incident number or an opened incident. That only the commit of a scan makes a row or an active alert, and that no step takes back that an alert is late or
  inactive (`StepKeepsRow`), gives the other two: `OneAlertInv` adds that the senders a scan has decided to alert about have no active alert up to its commit, and for an alert that has lapsed
  `TakenUpFit` shows that the worker takes up only what it has found fit in the same pass.
- `EdgeBlocksProofs`: `TypeCorrect`, `UsesService`, `AllowlistFollowed`, `UnblocksHold`, `TrustsHold`. The strengthening
  (`EffectInv`) speaks of commands that have run instead of those that have reported: once the newest sync has run, or has fetched, what
  the Edge agent has, or is about to store, is the central list, because each change of that list queues a newer sync; and by `OrderInv` a block that was
  handed out once cannot run after a newer unblock. A redelivered block of a trusted address meets the allowlist copy.
- `DomainReputationProofs`: `TypeCorrect`, `UsesService`; `FilterFollows` and `TrustedStaysUnblocked`, the same argument per scope of the
  sender filter, for syncs queued after the last change of the allowlist; `AdviceHasEvidence`, where
  the points for age, missing mail records, volume and breadth are shown to stay below 60; `DecisionsKept`, an action property: no
  commit of a check writes the status, and an event is fed once.
- `MailboxPoliciesProofs`: `TypeCorrect`, `UsesService`; `PageIsTruthful` and `NewestIsFinal`. The invariant (`PostsInv`) adds to `OneResult` that a
  result fits its request, and that an inventory or a result the agent still waits for says what Exchange has. Then the
  policy of a row is the one in Exchange or a result on its way says so (`RowsTrue`), and by `OrderInv` no older request is
  carried out or reported after the newest one has its result (`NewestSettled`).
- `AgentAuthProofs`: `TypeCorrect`, `HandledAtMostOnce` (a handled request has its nonce row, or its
  timestamp has left the window; this is where `Retention >= 2 * Skew` is used), `FailedHandlerMayRetry`.

Only model-checked: liveness (`EventuallyClosed`, `InventoryConverges`,
`OutcomeTold`, `AlertsFollowRisk`), which is out of the prover's reach. Every other property of a passing run is a theorem.

## Plan

Left of the plan, in this order:

1. `InboundSpoof`: the aggregation of a scan, the daily GeoIP budget and the cap per scan.
2. `OutboundMetrics`: the counting of the outbound scan as a pure algorithm, against a reference definition.
3. TelegramAlerts with two senders, each with an alert: the batch that settles alerts without sending them, and what waits behind it.
4. The budget of checks of a reputation scan: every domain is checked in the end.

## Not modelled

Signatures and sessions (taken as valid), parsing and normalisation of addresses, wording, the
audit log (insert-only), what network providers answer (any evidence), whether a reputation check is due (force, the age of the last check and
the checks left in a scan are left open), SQL aggregation of the tracking log of the inbound and outbound scans, heartbeat and snapshot, ingestion of
attachments, the settings and thresholds commands, the export and import scripts, and the vendored `socksio`.
