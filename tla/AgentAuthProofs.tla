-------------------------- MODULE AgentAuthProofs --------------------------
(***************************************************************************)
(* Theorems about AgentAuth, for every window, every retention of at least *)
(* two windows, every set of nodes and nonces and every agent clock.       *)
(***************************************************************************)
EXTENDS AgentAuth, TLAPS

SameKey(m, row) == row.node = m.node /\ row.nonce = m.nonce

(***************************************************************************)
(* A handled request was handled once, and its row is in the table unless  *)
(* its timestamp has left the window for good.                             *)
(***************************************************************************)
Guarded(m) ==
  /\ handled[m] = 1
  /\ m \in sent
  /\ \/ \E row \in nonces : SameKey(m, row) /\ m.ts <= row.seen + Skew /\ row.seen <= clock
     \/ clock > m.ts + Skew

IInv ==
  /\ \A m \in Request : handled[m] # 0 => Guarded(m)
  /\ \A row \in nonces : \E m \in sent : handled[m] # 0 /\ SameKey(m, row)
  /\ \A m, x \in sent : m.node = x.node /\ m.nonce = x.nonce => m = x

(***************************************************************************)
(* Every variable keeps its type.                                          *)
(***************************************************************************)
LEMMA TypeInit == Init => TypeOK
  BY DEF Init, TypeOK

\* A row is dated by the server clock, which is a natural number.
LEMMA TypeStep == TypeOK /\ [Next]_vars => TypeOK'
<1> SUFFICES ASSUME TypeOK, [Next]_vars PROVE TypeOK'
  OBVIOUS
<1> USE DEF TypeOK
<1>1. ASSUME NEW m \in Request, Send(m) PROVE TypeOK'
  BY <1>1 DEF Send
<1>2. ASSUME NEW m \in sent, NEW commits \in BOOLEAN, Receive(m, commits) PROVE TypeOK'
  <2>1. m \in Request /\ RowFor(m) \in Row /\ Kept \subseteq Row
    BY DEF Request, RowFor, Row, Kept
  <2>2. QED
    BY <1>2, <2>1 DEF Receive
<1>3. CASE Tick
  BY <1>3 DEF Tick
<1>4. CASE UNCHANGED vars
  BY <1>4 DEF vars
<1>5. QED
  BY <1>1, <1>2, <1>3, <1>4 DEF Next

(***************************************************************************)
(* TypeOK is an invariant.                                                 *)
(***************************************************************************)
THEOREM TypeCorrect == Spec => []TypeOK
  BY TypeInit, TypeStep, PTL DEF Spec

-----------------------------------------------------------------------------
(***************************************************************************)
(* The purge leaves the row of every request that could still be accepted: *)
(* a row that is dropped was stored more than Retention seconds ago, which *)
(* is at least two windows.                                                *)
(***************************************************************************)
LEMMA PurgedIsOutOfWindow ==
  ASSUME TypeOK, NEW m \in Request, NEW row \in nonces \ Kept, m.ts <= row.seen + Skew
  PROVE  clock > m.ts + Skew
<1>1. row.seen \in Nat /\ clock \in Nat /\ m.ts \in Int
  BY AuthAssumption DEF TypeOK, Row, Request
<1>2. row.seen < clock - Retention
  BY <1>1, AuthAssumption DEF Kept
<1>3. QED
  BY <1>1, <1>2, AuthAssumption

(***************************************************************************)
(* The invariant is inductive.                                             *)
(***************************************************************************)
LEMMA IInvInit == Init => IInv
  BY DEF Init, IInv

\* Only a receipt matters: it adds one row, and drops rows that are out of their window.
LEMMA IInvStep == TypeOK /\ IInv /\ [Next]_vars => IInv'
<1> SUFFICES ASSUME TypeOK, IInv, [Next]_vars PROVE IInv'
  OBVIOUS
<1> USE DEF IInv, Guarded
<1>1. ASSUME NEW m \in Request, Send(m) PROVE IInv'
  <2>1. \A x \in sent : ~(x.node = m.node /\ x.nonce = m.nonce)
    BY <1>1 DEF Send
  <2>2. QED
    BY <1>1, <2>1 DEF Send
<1>2. ASSUME NEW m \in sent, NEW commits \in BOOLEAN, Receive(m, commits) PROVE IInv'
  <2>1. m \in Request /\ m.ts \in Int /\ clock \in Nat
    BY AuthAssumption DEF TypeOK, Request
  <2>2. handled[m] = 0
    <3>1. ~ \E row \in nonces : SameKey(m, row)
      BY <1>2 DEF Receive, Replayed, SameKey
    <3>2. ~ (clock > m.ts + Skew)
      BY <1>2, <2>1, AuthAssumption DEF Receive, InWindow
    <3>3. QED
      BY <2>1, <3>1, <3>2
  <2>3. CASE ~commits
    BY <1>2, <2>3 DEF Receive
  <2>4. CASE commits
    <3>1. /\ nonces' = Kept \cup {RowFor(m)} /\ clock' = clock /\ sent' = sent
          /\ handled' = [handled EXCEPT ![m] = handled[m] + 1]
      BY <1>2, <2>4 DEF Receive
    <3>2. handled'[m] = 1 /\ \A x \in Request \ {m} : handled'[x] = handled[x]
      BY <2>1, <2>2, <3>1 DEF TypeOK
    <3>3. SameKey(m, RowFor(m)) /\ m.ts <= RowFor(m).seen + Skew /\ RowFor(m).seen <= clock
      BY <1>2, <2>1, AuthAssumption DEF SameKey, RowFor, Receive, InWindow
    <3>4. ASSUME NEW x \in Request, handled'[x] # 0 PROVE Guarded(x)'
      <4>1. CASE x = m
        BY <3>1, <3>2, <3>3, <4>1
      <4>2. CASE x # m
        <5>1. Guarded(x) /\ handled'[x] = handled[x]
          BY <3>2, <3>4, <4>2
        <5>2. CASE clock > x.ts + Skew
          BY <3>1, <5>1, <5>2
        <5>3. ASSUME NEW row \in nonces, SameKey(x, row), x.ts <= row.seen + Skew,
                     row.seen <= clock
              PROVE  Guarded(x)'
          <6>1. CASE row \in Kept
            BY <3>1, <5>1, <5>3, <6>1
          <6>2. CASE row \notin Kept
            BY <3>1, <5>1, <5>3, <6>2, PurgedIsOutOfWindow
          <6>3. QED
            BY <6>1, <6>2
        <5>4. QED
          BY <5>1, <5>2, <5>3
      <4>3. QED
        BY <4>1, <4>2
    <3>5. ASSUME NEW row \in nonces'
          PROVE  \E x \in sent' : handled'[x] # 0 /\ SameKey(x, row)
      <4>1. CASE row = RowFor(m)
        BY <3>1, <3>2, <3>3, <4>1
      <4>2. CASE row \in Kept
        <5>1. PICK x \in sent : handled[x] # 0 /\ SameKey(x, row)
          BY <4>2 DEF Kept
        <5>2. x \in Request /\ x # m
          BY <2>2, <5>1 DEF TypeOK
        <5>3. QED
          BY <3>1, <3>2, <5>1, <5>2
      <4>3. QED
        BY <3>1, <4>1, <4>2
    <3>6. QED
      BY <3>1, <3>4, <3>5
  <2>5. QED
    BY <2>3, <2>4
<1>3. CASE Tick
  <2>1. ASSUME NEW m \in Request, handled[m] # 0 PROVE Guarded(m)'
    <3>1. m.ts \in Int /\ clock \in Nat /\ Skew \in Nat
      BY AuthAssumption DEF TypeOK, Request
    <3>2. \A row \in nonces : row.seen \in Nat
      BY DEF TypeOK, Row
    <3>3. QED
      BY <1>3, <2>1, <3>1, <3>2 DEF Tick
  <2>2. QED
    BY <1>3, <2>1 DEF Tick
<1>4. CASE UNCHANGED vars
  BY <1>4 DEF vars
<1>5. QED
  BY <1>1, <1>2, <1>3, <1>4 DEF Next

(***************************************************************************)
(* A request is handled at most once, however often it is delivered.       *)
(***************************************************************************)
THEOREM HandledAtMostOnce == Spec => []AtMostOnce
<1>1. TypeOK /\ IInv => AtMostOnce
  BY DEF TypeOK, IInv, Guarded, AtMostOnce
<1>2. QED
  BY <1>1, TypeInit, TypeStep, IInvInit, IInvStep, PTL DEF Spec

(***************************************************************************)
(* Only a request whose handler has committed is refused as replayed.      *)
(***************************************************************************)
THEOREM FailedHandlerMayRetry == Spec => []RefusedOnlyIfHandled
<1>1. TypeOK /\ IInv => RefusedOnlyIfHandled
  <2> SUFFICES ASSUME TypeOK, IInv, NEW m \in sent, Replayed(m) PROVE handled[m] > 0
    BY DEF RefusedOnlyIfHandled
  <2>1. PICK row \in nonces : SameKey(m, row)
    BY DEF Replayed, SameKey
  <2>2. PICK x \in sent : handled[x] # 0 /\ SameKey(x, row)
    BY DEF IInv
  <2>3. x = m
    BY <2>1, <2>2 DEF IInv, SameKey
  <2>4. QED
    BY <2>2, <2>3 DEF TypeOK
<1>2. QED
  BY <1>1, TypeInit, TypeStep, IInvInit, IInvStep, PTL DEF Spec

=============================================================================
