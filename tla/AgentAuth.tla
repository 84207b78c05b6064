----------------------------- MODULE AgentAuth -----------------------------
(***************************************************************************)
(* Which signed agent requests the web process handles: the timestamp      *)
(* window and the nonce table of verify_agent_request.  The network or a   *)
(* proxy may deliver a request late, several times or never, the clock of  *)
(* an agent may be wrong, and a handler may fail after the checks.         *)
(*                                                                         *)
(* The nonce row is added to the transaction of the handler, so it is      *)
(* stored exactly when the handler commits.  Signatures are taken as       *)
(* valid: a request here is one its node has signed.                       *)
(***************************************************************************)
EXTENDS Integers

CONSTANTS
  Node,        \* enabled agent nodes
  Nonce,       \* nonces an agent may draw
  Stamp,       \* X-Timestamp: what the clock of an agent may show
  Skew,        \* max_skew_seconds = 300
  Retention,   \* how long a nonce row is kept: one day
  MaxClock     \* bound: the last second the model looks at

ASSUME AuthAssumption ==
  /\ Stamp \subseteq Int
  /\ Skew \in Nat /\ MaxClock \in Nat
  /\ Retention \in Nat /\ Retention >= 2 * Skew

VARIABLES
  clock,      \* server time, in seconds
  sent,       \* requests signed and sent; they may be delivered at any time
  nonces,     \* agent_nonces rows
  handled     \* history: how often a handler has committed a request

vars == <<clock, sent, nonces, handled>>

Request == [node : Node, nonce : Nonce, ts : Stamp]
Row     == [node : Node, nonce : Nonce, seen : Nat]

TypeOK ==
  /\ clock \in Nat
  /\ sent \subseteq Request
  /\ nonces \subseteq Row
  /\ handled \in [Request -> Nat]

Init ==
  /\ clock = 0
  /\ sent = {}
  /\ nonces = {}
  /\ handled = [m \in Request |-> 0]

(***************************************************************************)
(* An agent signs a request with a new GUID.                               *)
(***************************************************************************)
Send(m) ==
  /\ \A x \in sent : <<x.node, x.nonce>> # <<m.node, m.nonce>>
  /\ sent' = sent \cup {m}
  /\ UNCHANGED <<clock, nonces, handled>>

InWindow(m) ==
  /\ clock - m.ts <= Skew
  /\ m.ts - clock <= Skew

Replayed(m) == \E row \in nonces : row.node = m.node /\ row.nonce = m.nonce

\* The purge keeps the rows of the retention period, those of every node.
KeptTooShort == {row \in nonces : row.seen >= clock - Skew}
Kept == {row \in nonces : row.seen >= clock - Retention}

\* seen_at comes from the clock of the server, not from the request.
RowByStamp(m) == [node |-> m.node, nonce |-> m.nonce, seen |-> m.ts]
RowFor(m) == [node |-> m.node, nonce |-> m.nonce, seen |-> clock]

(***************************************************************************)
(* verify_agent_request and the handler behind it.  When the handler does  *)
(* not reach its commit, the purge and the nonce row are rolled back too.  *)
(***************************************************************************)
ReceiveNonceFirst(m, commits) ==
  /\ InWindow(m) /\ ~Replayed(m)
  /\ nonces'  = Kept \cup {RowFor(m)}
  /\ handled' = IF commits THEN [handled EXCEPT ![m] = @ + 1] ELSE handled
  /\ UNCHANGED <<clock, sent>>

Receive(m, commits) ==
  /\ InWindow(m) /\ ~Replayed(m)
  /\ IF commits
     THEN /\ nonces'  = Kept \cup {RowFor(m)}
          /\ handled' = [handled EXCEPT ![m] = @ + 1]
     ELSE UNCHANGED <<nonces, handled>>
  /\ UNCHANGED <<clock, sent>>

Tick ==
  /\ clock < MaxClock
  /\ clock' = clock + 1
  /\ UNCHANGED <<sent, nonces, handled>>

Next ==
  \/ \E m \in Request : Send(m)
  \/ \E m \in sent, commits \in BOOLEAN : Receive(m, commits)
  \/ Tick

Spec == Init /\ [][Next]_vars

-----------------------------------------------------------------------------
(***************************************************************************)
(* A request is handled at most once, however often it is delivered and    *)
(* whatever the clock of the agent shows: its nonce row is not purged      *)
(* while its timestamp is still in the window.                             *)
(***************************************************************************)
AtMostOnce == \A m \in Request : handled[m] <= 1

(***************************************************************************)
(* A request is refused as replayed only if it was handled: a handler that *)
(* fails after the checks leaves no nonce behind, so the request can be    *)
(* delivered again.                                                        *)
(***************************************************************************)
RefusedOnlyIfHandled == \A m \in sent : Replayed(m) => handled[m] > 0

=============================================================================
