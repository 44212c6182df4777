---------------------------- MODULE GuardCallProofs ----------------------------
(***************************************************************************)
(* Calls, and what the ledger tells of them and of the chain: that repeated *)
(* denials revoke; that on a version 2 chain the guard's own entries never *)
(* fail the execution binding, because a call is followed from the allow   *)
(* that promises its outcome, through the operations under way, to the     *)
(* outcome; that the view rendered from the entries is the live chain,     *)
(* clean means closed out, and the ledger, read alone, is a history of the *)
(* delegation tree; and last the adapter's wrapped tools, whose calls      *)
(* follow the same line, and the snapshots they commit to.                 *)
(***************************************************************************)
EXTENDS GuardLedgerProofs, LangGraphAdapter

-----------------------------------------------------------------------------
(* Strikes *)

\* Also of nodes that nobody holds.
LiveStrikesCount ==
    StrikesOn =>
        \A n \in (1 .. MaxNodes) \ revoked : \A s \in CheckedScopes \cup {AnyScope} :
            /\ strikes[n][s] + Cardinality(Uncounted(n, s)) = Cardinality(StruckBy(n, s))
            /\ strikes[n][s] < StrikeLimit

\* One strike more.
LEMMA StrikeAdded ==
    ASSUME GuardTypeOK, NEW m \in 1 .. MaxNodes, NEW scope \in CheckedScopes, AddStrike(m, scope),
           NEW n \in 1 .. MaxNodes, NEW s \in CheckedScopes \cup {AnyScope}
    PROVE  strikes'[n][s] = IF n = m /\ s = StrikeKey(scope) THEN strikes[n][s] + 1
                            ELSE strikes[n][s]
<1>1. PICK t : t = StrikeKey(scope)
  OBVIOUS
<1>2. t \in CheckedScopes \cup {AnyScope}
  BY <1>1 DEF StrikeKey
<1>3. strikes \in [1 .. MaxNodes -> [CheckedScopes \cup {AnyScope} -> Nat]]
  BY DEF GuardTypeOK
<1>4. PICK f : f = [strikes[m] EXCEPT ![t] = @ + 1]
  OBVIOUS
<1>5. strikes' = [strikes EXCEPT ![m] = f]
  BY <1>1, <1>4 DEF AddStrike
<1>6. strikes[m] \in [CheckedScopes \cup {AnyScope} -> Nat]
  BY <1>3
<1>7. f[s] = IF s = t THEN strikes[m][s] + 1 ELSE strikes[m][s]
  BY <1>2, <1>4, <1>6
<1>8. strikes'[n] = IF n = m THEN f ELSE strikes[n]
  BY <1>3, <1>5
<1> QED
  BY <1>1, <1>7, <1>8

\* What a step may do to the count of a node that lives on.
StrikesSame(n, s) ==
    /\ StruckBy(n, s)' = StruckBy(n, s) /\ Uncounted(n, s)' = Uncounted(n, s)
    /\ strikes'[n][s] = strikes[n][s]
StrikeCounted(n, s) ==
    /\ \E j : j \notin StruckBy(n, s) /\ StruckBy(n, s)' = StruckBy(n, s) \cup {j}
    /\ Uncounted(n, s)' = Uncounted(n, s)
    /\ strikes'[n][s] = strikes[n][s] + 1 /\ strikes'[n][s] < StrikeLimit
StrikeSeen(n, s) ==
    /\ \E j : j \notin StruckBy(n, s) /\ StruckBy(n, s)' = StruckBy(n, s) \cup {j}
    /\ \E k : k \notin Uncounted(n, s) /\ Uncounted(n, s)' = Uncounted(n, s) \cup {k}
    /\ strikes'[n][s] = strikes[n][s]
StrikeReturns(n, s) ==
    /\ StruckBy(n, s)' = StruckBy(n, s)
    /\ \E k \in Uncounted(n, s) : Uncounted(n, s)' = Uncounted(n, s) \ {k}
    /\ strikes'[n][s] = strikes[n][s] + 1 /\ strikes'[n][s] < StrikeLimit

StrikeMove(n, s) ==
    StrikesSame(n, s) \/ StrikeCounted(n, s) \/ StrikeSeen(n, s) \/ StrikeReturns(n, s)

\* A strike entry is one for its node and key.
LEMMA StruckMoves ==
    ASSUME Extends, NEW n, NEW s
    PROVE  /\ (\A i \in Fresh : ledger'[i].event = "deny" /\ ledger'[i].reason = Policy
                                => ledger'[i].node # n)
                 => StruckBy(n, s)' = StruckBy(n, s)
           /\ \A e, j : Fresh = {j} /\ ledger'[j] = e /\ e.event = "deny" /\ e.reason = Policy =>
                 IF n = e.node /\ s = StrikeKey(e.scope)
                 THEN j \notin StruckBy(n, s) /\ StruckBy(n, s)' = StruckBy(n, s) \cup {j}
                 ELSE StruckBy(n, s)' = StruckBy(n, s)
<1>1. \A i \in DOMAIN ledger : i \in DOMAIN ledger' /\ ledger'[i] = ledger[i]
  BY DEF Extends
<1>2. ASSUME \A i \in Fresh : ledger'[i].event = "deny" /\ ledger'[i].reason = Policy
                                => ledger'[i].node # n
      PROVE  StruckBy(n, s)' = StruckBy(n, s)
  BY <1>1, <1>2 DEF StruckBy, Entries, Fresh
<1>3. ASSUME NEW e, NEW j, Fresh = {j}, ledger'[j] = e, e.event = "deny", e.reason = Policy
      PROVE  IF n = e.node /\ s = StrikeKey(e.scope)
             THEN j \notin StruckBy(n, s) /\ StruckBy(n, s)' = StruckBy(n, s) \cup {j}
             ELSE StruckBy(n, s)' = StruckBy(n, s)
  <2>1. j \notin DOMAIN ledger /\ DOMAIN ledger' = DOMAIN ledger \cup {j}
    BY <1>1, <1>3 DEF Fresh
  <2> QED
    BY <1>1, <1>3, <2>1 DEF StruckBy, Entries, StrikeKey
<1> QED
  BY <1>2, <1>3

\* A strike is uncounted from its denial's write until its operation goes on.
LEMMA UncountedMoves ==
    ASSUME NEW n, NEW s
    PROVE  /\ UNCHANGED inside => Uncounted(n, s)' = Uncounted(n, s)
           /\ \A u : Pushes(u) =>
                 IF u.op = "strike" /\ u.node = n /\ StrikeKey(u.scope) = s
                 THEN \E k : k \notin Uncounted(n, s) /\ Uncounted(n, s)' = Uncounted(n, s) \cup {k}
                 ELSE Uncounted(n, s)' = Uncounted(n, s)
           /\ \A u : Pops(u) =>
                 IF u.op = "strike" /\ u.node = n /\ StrikeKey(u.scope) = s
                 THEN \E k \in Uncounted(n, s) : Uncounted(n, s)' = Uncounted(n, s) \ {k}
                 ELSE Uncounted(n, s)' = Uncounted(n, s)
<1>1. UNCHANGED inside => Uncounted(n, s)' = Uncounted(n, s)
  BY DEF Uncounted, StrikeKey
<1>2. ASSUME NEW u, Pushes(u)
      PROVE  IF u.op = "strike" /\ u.node = n /\ StrikeKey(u.scope) = s
             THEN \E k : k \notin Uncounted(n, s) /\ Uncounted(n, s)' = Uncounted(n, s) \cup {k}
             ELSE Uncounted(n, s)' = Uncounted(n, s)
  <2>1. PICK k \in Nat \ DOMAIN inside :
            /\ DOMAIN inside' = DOMAIN inside \cup {k} /\ inside'[k] = u
            /\ \A l \in DOMAIN inside : inside'[l] = inside[l]
    BY <1>2 DEF Pushes
  <2> QED
    BY <2>1 DEF Uncounted, StrikeKey
<1>3. ASSUME NEW u, Pops(u)
      PROVE  IF u.op = "strike" /\ u.node = n /\ StrikeKey(u.scope) = s
             THEN \E k \in Uncounted(n, s) : Uncounted(n, s)' = Uncounted(n, s) \ {k}
             ELSE Uncounted(n, s)' = Uncounted(n, s)
  <2>1. PICK k \in DOMAIN inside :
            /\ DOMAIN inside' = DOMAIN inside \ {k} /\ inside[k] = u
            /\ \A l \in DOMAIN inside' : inside'[l] = inside[l]
    BY <1>3 DEF Pops
  <2> QED
    BY <2>1 DEF Uncounted, StrikeKey
<1> QED
  BY <1>1, <1>2, <1>3

\* Whatever a step does, to a node that lives on it does one of these.
LEMMA StrikesMove ==
    ASSUME TypedInv, SinkStep, StrikesOn, revoked \subseteq revoked',
           NEW n \in (1 .. MaxNodes) \ revoked', NEW s \in CheckedScopes \cup {AnyScope}
    PROVE  StrikeMove(n, s)
<1>0. /\ GuardTypeOK /\ held \subseteq 1 .. MaxNodes /\ n \notin revoked
      /\ \A k \in DOMAIN inside : OperationTyped(inside[k], held, issued)
  BY DEF TypedInv, GuardTypeOK, OperationsTyped
<1>1. PICK T : ledger \in Seq(T)
  BY DEF TypedInv, SinkInv, LedgerInv, Agrees
<1>2. ASSUME NEW e, Writes(e), e.event = "deny" /\ e.reason = Policy => e.node # n
      PROVE  StruckBy(n, s)' = StruckBy(n, s)
  BY <1>1, <1>2, WritesExtend, StruckMoves
<1>3. UNCHANGED ledger => StruckBy(n, s)' = StruckBy(n, s)
  BY <1>1, WritesExtend, StruckMoves
<1>4. CASE Step /\ UNCHANGED inside
  <2>1. Uncounted(n, s)' = Uncounted(n, s)
    BY <1>4, UncountedMoves
  <2>2. CASE Silent
    BY <1>3, <2>1, <2>2 DEF Silent, StrikesSame, StrikeMove
  <2>3. ASSUME NEW e, \/ Delegates(e) \/ Kills(e) \/ Denies(e) \/ AllowsCall(e)
                      \/ PassesThrough(e) \/ Reports(e) \/ Finishes(e)
        PROVE  StrikeMove(n, s)
    <3>1. /\ Writes(e) /\ strikes' = strikes
          /\ e.event = "deny" /\ e.reason = Policy => e.node # n
      BY <1>0, <2>3 DEF Delegates, Kills, IsKill, Denies, IsDenial, AllowsCall, PassesThrough,
                        Reports, Finishes
    <3> QED
      BY <1>2, <2>1, <3>1 DEF StrikesSame, StrikeMove
  <2>4. ASSUME NEW e, Strikes(e) PROVE StrikeMove(n, s)
    <3>1. /\ e.event = "deny" /\ e.reason = Policy /\ e.node \in 1 .. MaxNodes
          /\ e.scope \in CheckedScopes /\ AddStrike(e.node, e.scope)
          /\ ~StrikesOut(e.node, e.scope) /\ Writes(e)
      BY <1>0, <2>4 DEF Strikes, IsStrike, IsDenial
    <3>2. PICK j \in Nat : Extends /\ Fresh = {j} /\ ledger'[j] = e
      BY <1>1, <3>1, WritesExtend
    <3>3. CASE n = e.node /\ s = StrikeKey(e.scope)
      <4>1. strikes'[n][s] = strikes[n][s] + 1
        BY <1>0, <3>1, <3>3, StrikeAdded
      <4>2. strikes[n][s] + 1 < StrikeLimit
        <5>1. strikes[n][s] \in Nat /\ StrikeLimit \in Nat
          BY <1>0, GuardAssumption DEF GuardTypeOK
        <5> QED
          BY <3>1, <3>3, <5>1 DEF StrikesOut
      <4> QED
        BY <2>1, <3>1, <3>2, <3>3, <4>1, <4>2, StruckMoves DEF StrikeCounted, StrikeMove
    <3>4. CASE ~(n = e.node /\ s = StrikeKey(e.scope))
      <4>1. strikes'[n][s] = strikes[n][s]
        BY <1>0, <3>1, <3>4, StrikeAdded
      <4> QED
        BY <2>1, <3>1, <3>2, <3>4, <4>1, StruckMoves DEF StrikesSame, StrikeMove
    <3> QED
      BY <3>3, <3>4
  <2>5. ASSUME NEW d, NEW e, StrikesDown(d, e) PROVE StrikeMove(n, s)
    <3>1. /\ d.event = "deny" /\ d.node \in 1 .. MaxNodes /\ d.node # n
          /\ d.scope \in CheckedScopes /\ AddStrike(d.node, d.scope)
          /\ WritesBoth(d, e) /\ e.event = "kill"
      BY <1>0, <2>5 DEF StrikesDown, IsStrike, IsDenial, IsKill
    <3>2. PICK j, l \in Nat : Extends /\ Fresh = {j, l} /\ ledger'[j] = d /\ ledger'[l] = e
      BY <1>1, <3>1, WritesExtend
    <3>3. StruckBy(n, s)' = StruckBy(n, s)
      BY <3>1, <3>2, StruckMoves
    <3>4. strikes'[n][s] = strikes[n][s]
      BY <1>0, <3>1, StrikeAdded
    <3> QED
      BY <2>1, <3>3, <3>4 DEF StrikesSame, StrikeMove
  <2> QED
    BY <1>4, <2>2, <2>3, <2>4, <2>5 DEF Step
<1>5. ASSUME NEW e, NEW u, SeesAllow(e, u) \/ SeesOutcome(e, u)
      PROVE  StrikeMove(n, s)
  <2>1. Writes(e) /\ e.event # "deny" /\ Pushes(u) /\ u.op # "strike" /\ strikes' = strikes
    BY <1>5 DEF SeesAllow, SeesOutcome, AllowsCall, Reports
  <2> QED
    BY <1>2, <2>1, UncountedMoves DEF StrikesSame, StrikeMove
<1>6. ASSUME NEW e, NEW u, SeesDenial(e, u)
      PROVE  StrikeMove(n, s)
  <2>1. /\ e.event = "deny" /\ e.reason = Policy /\ Writes(e) /\ strikes' = strikes
        /\ Pushes(u) /\ u.op = "strike" /\ u.node = e.node /\ u.scope = e.scope
    BY <1>6 DEF SeesDenial, IsStrike, IsDenial
  <2>2. PICK j \in Nat : Extends /\ Fresh = {j} /\ ledger'[j] = e
    BY <1>1, <2>1, WritesExtend
  <2>3. CASE n = e.node /\ s = StrikeKey(e.scope)
    BY <2>1, <2>2, <2>3, StruckMoves, UncountedMoves DEF StrikeSeen, StrikeMove
  <2>4. CASE ~(n = e.node /\ s = StrikeKey(e.scope))
    BY <2>1, <2>2, <2>4, StruckMoves, UncountedMoves DEF StrikesSame, StrikeMove
  <2> QED
    BY <2>3, <2>4
<1>7. ASSUME NEW u, AllowGoesOn(u) \/ OutcomeGoesOn(u)
      PROVE  StrikeMove(n, s)
  BY <1>3, <1>7, UncountedMoves DEF AllowGoesOn, OutcomeGoesOn, StrikesSame, StrikeMove
<1>8. ASSUME NEW u, DenialGoesOn(u)
      PROVE  StrikeMove(n, s)
  <2>1. /\ Pops(u) /\ u.op = "strike" /\ u.node \in 1 .. MaxNodes /\ u.scope \in CheckedScopes
    BY <1>0, <1>8 DEF DenialGoesOn, Pops, OperationTyped
  <2>2. StruckBy(n, s)' = StruckBy(n, s)
    BY <1>2, <1>3, <1>8 DEF DenialGoesOn, IsKill
  <2>3. CASE u.node # n
    <3>1. strikes'[n][s] = strikes[n][s]
      BY <1>0, <1>8, <2>1, <2>3, StrikeAdded DEF DenialGoesOn
    <3> QED
      BY <2>1, <2>2, <2>3, <3>1, UncountedMoves DEF StrikesSame, StrikeMove
  <2>4. CASE u.node = n
    <3>1. AddStrike(n, u.scope) /\ ~StrikesOut(n, u.scope)
      BY <1>0, <1>8, <2>4 DEF DenialGoesOn
    <3>2. CASE s # StrikeKey(u.scope)
      <4>1. strikes'[n][s] = strikes[n][s]
        BY <1>0, <2>1, <3>1, <3>2, StrikeAdded
      <4> QED
        BY <2>1, <2>2, <3>2, <4>1, UncountedMoves DEF StrikesSame, StrikeMove
    <3>3. CASE s = StrikeKey(u.scope)
      <4>1. strikes'[n][s] = strikes[n][s] + 1
        BY <1>0, <2>1, <3>1, <3>3, StrikeAdded
      <4>2. strikes[n][s] + 1 < StrikeLimit
        <5>1. strikes[n][s] \in Nat /\ StrikeLimit \in Nat
          BY <1>0, GuardAssumption DEF GuardTypeOK
        <5> QED
          BY <3>1, <3>3, <5>1 DEF StrikesOut
      <4> QED
        BY <2>1, <2>2, <2>4, <3>3, <4>1, <4>2, UncountedMoves DEF StrikeReturns, StrikeMove
    <3> QED
      BY <3>2, <3>3
  <2> QED
    BY <2>3, <2>4
<1> QED
  BY <1>4, <1>5, <1>6, <1>7, <1>8 DEF SinkStep

\* The count and what it counts move together, and a node that reaches the
\* limit is not alive after the step.
LEMMA StrikesNext ==
    ASSUME TypedInv, LiveStrikesCount, SinkStep, revoked \subseteq revoked'
    PROVE  LiveStrikesCount'
<1>1. SUFFICES ASSUME StrikesOn, NEW n \in (1 .. MaxNodes) \ revoked',
                      NEW s \in CheckedScopes \cup {AnyScope}
               PROVE  /\ strikes'[n][s] + Cardinality(Uncounted(n, s)')
                             = Cardinality(StruckBy(n, s)')
                      /\ strikes'[n][s] < StrikeLimit
  BY DEF LiveStrikesCount
<1>2. PICK T : ledger \in Seq(T)
  BY DEF TypedInv, SinkInv, LedgerInv, Agrees
<1>3. PICK U : inside \in Seq(U)
  BY DEF TypedInv, SinkInv, OfHeld
<1>4. IsFiniteSet(StruckBy(n, s)) /\ IsFiniteSet(Uncounted(n, s))
  <2>1. IsFiniteSet(1 .. Len(ledger)) /\ StruckBy(n, s) \subseteq 1 .. Len(ledger)
    BY <1>2, FS_Interval DEF StruckBy, Entries
  <2>2. IsFiniteSet(1 .. Len(inside)) /\ Uncounted(n, s) \subseteq 1 .. Len(inside)
    BY <1>3, FS_Interval DEF Uncounted
  <2> QED
    BY <2>1, <2>2, FS_Subset
<1>5. PICK a, b : a = Cardinality(StruckBy(n, s)) /\ b = Cardinality(Uncounted(n, s))
  OBVIOUS
<1>6. /\ strikes[n][s] + b = a /\ strikes[n][s] < StrikeLimit
      /\ strikes[n][s] \in Nat /\ a \in Nat /\ b \in Nat
  BY <1>1, <1>4, <1>5, FS_CardinalityType DEF TypedInv, GuardTypeOK, LiveStrikesCount
<1>7. CASE StrikesSame(n, s)
  BY <1>5, <1>6, <1>7 DEF StrikesSame
<1>8. CASE StrikeCounted(n, s)
  <2>1. Cardinality(StruckBy(n, s)') = a + 1
    BY <1>4, <1>5, <1>8, FS_AddElement DEF StrikeCounted
  <2> QED
    BY <1>5, <1>6, <1>8, <2>1 DEF StrikeCounted
<1>9. CASE StrikeSeen(n, s)
  <2>1. Cardinality(StruckBy(n, s)') = a + 1
    BY <1>4, <1>5, <1>9, FS_AddElement DEF StrikeSeen
  <2>2. Cardinality(Uncounted(n, s)') = b + 1
    BY <1>4, <1>5, <1>9, FS_AddElement DEF StrikeSeen
  <2> QED
    BY <1>6, <1>9, <2>1, <2>2 DEF StrikeSeen
<1>10. CASE StrikeReturns(n, s)
  <2>1. Cardinality(Uncounted(n, s)') = b - 1
    BY <1>4, <1>5, <1>10, FS_RemoveElement DEF StrikeReturns
  <2> QED
    BY <1>5, <1>6, <1>10, <2>1 DEF StrikeReturns
<1> QED
  BY <1>1, <1>7, <1>8, <1>9, <1>10, StrikesMove DEF StrikeMove

\* A live node is short of the limit by scope or in all: the denial that reaches
\* it revokes, in the check that counts it.
THEOREM StrikesRevoke == SinkSpec => []RepeatedDenialsRevoke
<1>1. SinkInit => TypedInv /\ LiveStrikesCount
  <2> SUFFICES ASSUME SinkInit PROVE TypedInv /\ LiveStrikesCount
    OBVIOUS
  <2>1. ledger[1].event = "root" /\ DOMAIN ledger = {1} /\ DOMAIN inside = {}
    BY DEF SinkInit, GuardInit, RootEntry
  <2>2. \A n, s : StruckBy(n, s) = {} /\ Uncounted(n, s) = {}
    BY <2>1 DEF StruckBy, Entries, Uncounted
  <2>3. \A n \in 1 .. MaxNodes, s \in CheckedScopes \cup {AnyScope} : strikes[n][s] = 0
    BY DEF SinkInit, GuardInit
  <2>4. \A n, s : Cardinality(StruckBy(n, s)) = 0 /\ Cardinality(Uncounted(n, s)) = 0
    BY <2>2, FS_EmptySet
  <2>5. LiveStrikesCount
    BY <2>3, <2>4, GuardAssumption DEF LiveStrikesCount
  <2> QED
    BY <2>5, TypedInit
<1>2. TypedInv /\ LiveStrikesCount /\ [SinkNext]_<<allVars, sinkVars>>
          => TypedInv' /\ LiveStrikesCount'
  BY TypedNext, SealsStay, StrikesNext DEF TypedInv, SinkInv, LedgerInv, GInv
<1>3. TypedInv /\ LiveStrikesCount => RepeatedDenialsRevoke
  BY DEF TypedInv, GuardTypeOK, LiveStrikesCount, RepeatedDenialsRevoke
<1> QED
  BY <1>1, <1>2, <1>3, PTL DEF SinkSpec

-----------------------------------------------------------------------------
(* Calls that await an outcome *)

\* The calls that are promised an outcome, and those that have one; the calls
\* that an operation under way is still to register, or to resolve.
PromisedCalls == {<<ledger[i].node, ledger[i].call>> : i \in {j \in DOMAIN ledger : Promised(j)}}
OutcomeCalls == {ledger[i].call : i \in Entries(ledger, "outcome")}
Underways(op) == {k \in DOMAIN inside : inside[k].op = op}
Registering == {<<inside[k].node, inside[k].call>> : k \in Underways("register")}
Resolving == {inside[k].call : k \in Underways("resolve")}

\* A promised call is pending until its outcome, if no sink got ahead.
PromisedWait ==
    \A n, c : <<n, c>> \in PromisedCalls /\ c \notin early =>
        <<n, c>> \in pending \/ c \in OutcomeCalls \/ <<n, c>> \in Registering
\* A pending call was promised; it has no outcome but one being recorded.
PendingWait ==
    \A n, c : <<n, c>> \in pending =>
        /\ <<n, c>> \in PromisedCalls
        /\ c \notin early => c \notin OutcomeCalls \/ c \in Resolving
\* A call about to be registered was promised, and has no outcome yet.
RegistersWait ==
    \A n, c : <<n, c>> \in Registering =>
        <<n, c>> \in PromisedCalls /\ (c \notin early => c \notin OutcomeCalls)
\* The guard's marks are the ledger's outcomes, less those being recorded.
OutcomesMarked ==
    /\ Resolving \cup outcomed \subseteq OutcomeCalls
    /\ OutcomeCalls \subseteq outcomed \cup Resolving
CallsIssued ==
    /\ \A n, c : <<n, c>> \in PromisedCalls => c \in 1 .. issued
    /\ OutcomeCalls \subseteq 1 .. issued

AwaitInv == PromisedWait /\ PendingWait /\ RegistersWait /\ OutcomesMarked /\ CallsIssued

\* What NoteEarly notes.
EarlyNoted ==
    /\ early \subseteq early'
    /\ \A i \in Fresh, l \in DOMAIN inside :
          Settles(ledger'[i], inside[l]) => inside[l].call \in early'
OutcomeNoted(c) ==
    c \in Resolving \/ (\E n : <<n, c>> \in Registering) => c \in early'

\* The steps, by what they do to these.
LedgerCallsSame == PromisedCalls' = PromisedCalls /\ OutcomeCalls' = OutcomeCalls
UnderwaySame == Registering' = Registering /\ Resolving' = Resolving
QuietMove == LedgerCallsSame /\ UnderwaySame /\ UNCHANGED <<pending, outcomed>>
Promises(n, c) ==
    /\ c = issued + 1 /\ issued' = issued + 1
    /\ PromisedCalls' = PromisedCalls \cup {<<n, c>>} /\ OutcomeCalls' = OutcomeCalls
    /\ Resolving' = Resolving /\ UNCHANGED outcomed
    /\ \/ Registering' = Registering /\ RegisterPending(n, c)
       \/ Registering' = Registering \cup {<<n, c>>} /\ UNCHANGED pending
RegistersNow(n, c) ==
    /\ LedgerCallsSame /\ Resolving' = Resolving /\ UNCHANGED outcomed
    /\ <<n, c>> \in Registering /\ RegisterPending(n, c)
    /\ Registering' \subseteq Registering /\ Registering \subseteq Registering' \cup {<<n, c>>}
Obtains(c) ==
    /\ c \in 1 .. issued /\ c \notin outcomed /\ OutcomeNoted(c)
    /\ PromisedCalls' = PromisedCalls /\ OutcomeCalls' = OutcomeCalls \cup {c}
    /\ Registering' = Registering
    /\ \/ Resolving' = Resolving /\ ResolveCall(c)
       \/ Resolving' = Resolving \cup {c} /\ UNCHANGED <<pending, outcomed>>
ResolvesNow(c) ==
    /\ LedgerCallsSame /\ Registering' = Registering
    /\ c \in Resolving /\ ResolveCall(c)
    /\ Resolving' \subseteq Resolving /\ Resolving \subseteq Resolving' \cup {c}
AwaitMove ==
    \/ QuietMove
    \/ \E n, c : Promises(n, c) \/ RegistersNow(n, c)
    \/ \E c : Obtains(c) \/ ResolvesNow(c)

\* They keep what the calls await.
LEMMA AwaitNext ==
    ASSUME AwaitInv, AwaitMove, early \subseteq early', issued \in Nat, issued' \in Nat,
           issued <= issued'
    PROVE  AwaitInv'
<1>0. PromisedWait /\ PendingWait /\ RegistersWait /\ OutcomesMarked /\ CallsIssued
  BY DEF AwaitInv
<1>1. 1 .. issued \subseteq 1 .. issued' /\ issued + 1 \notin 1 .. issued
  OBVIOUS
<1>2. CASE QuietMove
  <2>1. CallsIssued'
    BY <1>0, <1>1, <1>2 DEF QuietMove, LedgerCallsSame, CallsIssued
  <2> QED
    BY <1>0, <1>2, <2>1 DEF QuietMove, LedgerCallsSame, UnderwaySame, AwaitInv, PromisedWait,
                            PendingWait, RegistersWait, OutcomesMarked
<1>3. ASSUME NEW n, NEW c, Promises(n, c) PROVE AwaitInv'
  <2>1. c \notin OutcomeCalls /\ c \in 1 .. issued'
    BY <1>0, <1>1, <1>3 DEF Promises, CallsIssued
  <2>2. CallsIssued' /\ OutcomesMarked'
    BY <1>0, <1>1, <1>3, <2>1 DEF Promises, CallsIssued, OutcomesMarked
  <2>3. PromisedWait'
    BY <1>0, <1>3 DEF Promises, PromisedWait, RegisterPending
  <2>4. PendingWait'
    BY <1>0, <1>3, <2>1 DEF Promises, PendingWait, RegisterPending
  <2>5. RegistersWait'
    BY <1>0, <1>3, <2>1 DEF Promises, RegistersWait
  <2> QED
    BY <2>2, <2>3, <2>4, <2>5 DEF AwaitInv
<1>4. ASSUME NEW n, NEW c, RegistersNow(n, c) PROVE AwaitInv'
  <2>1. CallsIssued' /\ OutcomesMarked'
    BY <1>0, <1>1, <1>4 DEF RegistersNow, LedgerCallsSame, CallsIssued, OutcomesMarked
  <2>2. PromisedWait'
    BY <1>0, <1>4 DEF RegistersNow, LedgerCallsSame, PromisedWait, RegisterPending
  <2>3. PendingWait'
    BY <1>0, <1>4 DEF RegistersNow, LedgerCallsSame, PendingWait, RegistersWait, RegisterPending
  <2>4. RegistersWait'
    BY <1>0, <1>4 DEF RegistersNow, LedgerCallsSame, RegistersWait
  <2> QED
    BY <2>1, <2>2, <2>3, <2>4 DEF AwaitInv
<1>5. ASSUME NEW c, Obtains(c) PROVE AwaitInv'
  <2>1. CallsIssued' /\ OutcomesMarked'
    BY <1>0, <1>1, <1>5 DEF Obtains, CallsIssued, OutcomesMarked, ResolveCall
  <2>2. \A n, d : <<n, d>> \in pending' => <<n, d>> \in pending /\ (d = c => c \in Resolving')
    BY <1>5 DEF Obtains, ResolveCall
  <2>3. \A n, d : <<n, d>> \in pending => <<n, d>> \in pending' \/ d = c
    BY <1>5 DEF Obtains, ResolveCall
  <2>4. PromisedWait'
    BY <1>0, <1>5, <2>3 DEF Obtains, PromisedWait
  <2>5. PendingWait'
    BY <1>0, <1>5, <2>2 DEF Obtains, PendingWait
  <2>6. RegistersWait'
    BY <1>0, <1>5 DEF Obtains, OutcomeNoted, RegistersWait
  <2> QED
    BY <2>1, <2>4, <2>5, <2>6 DEF AwaitInv
<1>6. ASSUME NEW c, ResolvesNow(c) PROVE AwaitInv'
  <2>1. CallsIssued' /\ OutcomesMarked'
    BY <1>0, <1>1, <1>6 DEF ResolvesNow, LedgerCallsSame, CallsIssued, OutcomesMarked, ResolveCall
  <2>2. \A n, d : <<n, d>> \in pending' => <<n, d>> \in pending /\ d # c
    BY <1>6 DEF ResolvesNow, ResolveCall
  <2>3. \A n, d : <<n, d>> \in pending => <<n, d>> \in pending' \/ d = c
    BY <1>6 DEF ResolvesNow, ResolveCall
  <2>4. PromisedWait'
    BY <1>0, <1>6, <2>3 DEF ResolvesNow, LedgerCallsSame, PromisedWait, OutcomesMarked
  <2>5. PendingWait'
    BY <1>0, <1>6, <2>2 DEF ResolvesNow, LedgerCallsSame, PendingWait
  <2>6. RegistersWait'
    BY <1>0, <1>6 DEF ResolvesNow, LedgerCallsSame, RegistersWait
  <2> QED
    BY <2>1, <2>4, <2>5, <2>6 DEF AwaitInv
<1> QED
  BY <1>2, <1>3, <1>4, <1>5, <1>6 DEF AwaitMove

\* What is written, and who is under way, by kind of step.
LEMMA LedgerCallsMove ==
    ASSUME Extends
    PROVE  /\ (\A i \in Fresh : /\ ledger'[i].event # "outcome"
                                /\ ledger'[i].event = "allow" => ledger'[i].capture = PreHookOnly)
                 => LedgerCallsSame
           /\ \A e, j : Fresh = {j} /\ ledger'[j] = e /\ e.event = "allow" /\ e.capture # PreHookOnly
                 => /\ PromisedCalls' = PromisedCalls \cup {<<e.node, e.call>>}
                    /\ OutcomeCalls' = OutcomeCalls
           /\ \A e, j : Fresh = {j} /\ ledger'[j] = e /\ e.event = "outcome"
                 => PromisedCalls' = PromisedCalls /\ OutcomeCalls' = OutcomeCalls \cup {e.call}
<1>1. \A i \in DOMAIN ledger : i \in DOMAIN ledger' /\ ledger'[i] = ledger[i]
  BY DEF Extends
<1>2. DOMAIN ledger' = DOMAIN ledger \cup Fresh
  BY DEF Extends, Fresh
<1>3. /\ (\A i \in Fresh : ledger'[i].event # "outcome") => OutcomeCalls' = OutcomeCalls
      /\ \A e, j : Fresh = {j} /\ ledger'[j] = e /\ e.event = "outcome"
              => OutcomeCalls' = OutcomeCalls \cup {e.call}
  BY <1>1, <1>2 DEF OutcomeCalls, Entries
<1>4. (\A i \in Fresh : ledger'[i].event = "allow" => ledger'[i].capture = PreHookOnly)
          => PromisedCalls' = PromisedCalls
  BY <1>1, <1>2 DEF PromisedCalls, Promised
<1>5. \A e, j : Fresh = {j} /\ ledger'[j] = e /\ e.event = "allow" /\ e.capture # PreHookOnly
          => PromisedCalls' = PromisedCalls \cup {<<e.node, e.call>>}
  BY <1>1, <1>2 DEF PromisedCalls, Promised
<1> QED
  BY <1>3, <1>4, <1>5 DEF LedgerCallsSame

\* Entering and leaving a sink changes what is under way by that operation.
LEMMA UnderwayMoves ==
    /\ UNCHANGED inside => UnderwaySame
    /\ \A u : Pushes(u) =>
          /\ Registering' = Registering \cup {x \in {<<u.node, u.call>>} : u.op = "register"}
          /\ Resolving' = Resolving \cup {x \in {u.call} : u.op = "resolve"}
    /\ \A u : Pops(u) =>
          /\ u.op = "register" => <<u.node, u.call>> \in Registering
          /\ u.op = "resolve" => u.call \in Resolving
          /\ Registering' \subseteq Registering
          /\ Registering \subseteq Registering' \cup {x \in {<<u.node, u.call>>} : u.op = "register"}
          /\ Resolving' \subseteq Resolving
          /\ Resolving \subseteq Resolving' \cup {x \in {u.call} : u.op = "resolve"}
<1>1. UNCHANGED inside => UnderwaySame
  BY DEF UnderwaySame, Registering, Resolving, Underways
<1>2. ASSUME NEW u, Pushes(u)
      PROVE  /\ Registering' = Registering \cup {x \in {<<u.node, u.call>>} : u.op = "register"}
             /\ Resolving' = Resolving \cup {x \in {u.call} : u.op = "resolve"}
  <2>1. PICK k \in Nat \ DOMAIN inside :
            /\ DOMAIN inside' = DOMAIN inside \cup {k} /\ inside'[k] = u
            /\ \A l \in DOMAIN inside : inside'[l] = inside[l]
    BY <1>2 DEF Pushes
  <2>2. \A op : /\ Underways(op)' = Underways(op) \cup {x \in {k} : u.op = op}
                /\ \A l \in Underways(op) : inside'[l] = inside[l]
    BY <2>1 DEF Underways
  <2> QED
    BY <2>1, <2>2 DEF Registering, Resolving
<1>3. ASSUME NEW u, Pops(u)
      PROVE  /\ u.op = "register" => <<u.node, u.call>> \in Registering
             /\ u.op = "resolve" => u.call \in Resolving
             /\ Registering' \subseteq Registering
             /\ Registering \subseteq Registering' \cup {x \in {<<u.node, u.call>>} : u.op = "register"}
             /\ Resolving' \subseteq Resolving
             /\ Resolving \subseteq Resolving' \cup {x \in {u.call} : u.op = "resolve"}
  <2>1. PICK k \in DOMAIN inside :
            /\ DOMAIN inside' = DOMAIN inside \ {k} /\ inside[k] = u
            /\ \A l \in DOMAIN inside' : inside'[l] = inside[l]
    BY <1>3 DEF Pops
  <2>2. \A op : /\ Underways(op)' = Underways(op) \ {k}
                /\ \A l \in Underways(op)' : inside'[l] = inside[l]
                /\ u.op = op <=> k \in Underways(op)
    BY <2>1 DEF Underways
  <2> QED
    BY <2>1, <2>2 DEF Registering, Resolving
<1> QED
  BY <1>1, <1>2, <1>3

\* What a sink settles is noted.
LEMMA NotesEarly ==
    ASSUME TypedInv, TypedInv', [SinkNext]_<<allVars, sinkVars>>
    PROVE  EarlyNoted
<1>1. PICK T : ledger \in Seq(T)
  BY DEF TypedInv, SinkInv, LedgerInv, Agrees
<1>2. PICK U : ledger' \in Seq(U)
  BY DEF TypedInv, SinkInv, LedgerInv, Agrees
<1>3. Fresh \subseteq Len(ledger) + 1 .. Len(ledger')
  BY <1>1, <1>2 DEF Fresh
<1>4. CASE SinkNext
  BY <1>3, <1>4 DEF SinkNext, NoteEarly, EarlyNoted
<1>5. CASE UNCHANGED <<allVars, sinkVars>>
  BY <1>5 DEF allVars, guardVars, sinkVars, EarlyNoted, Fresh
<1> QED
  BY <1>4, <1>5

\* An outcome is noted as early where its call is being recorded still.
LEMMA OutcomesNoted ==
    ASSUME EarlyNoted, NEW j \in Fresh, ledger'[j].event = "outcome"
    PROVE  OutcomeNoted(ledger'[j].call)
  BY DEF EarlyNoted, OutcomeNoted, Resolving, Registering, Underways, Settles

\* Every step of a version 2 guard is of one of these kinds.
LEMMA CallsMove ==
    ASSUME TypedInv, IsV2, SinkStep, EarlyNoted
    PROVE  AwaitMove
<1>1. PICK T : ledger \in Seq(T)
  BY DEF TypedInv, SinkInv, LedgerInv, Agrees
<1>2. ASSUME NEW e, Writes(e), e.event # "outcome", e.event = "allow" => e.capture = PreHookOnly
      PROVE  LedgerCallsSame
  BY <1>1, <1>2, WritesExtend, LedgerCallsMove
<1>3. UNCHANGED ledger => LedgerCallsSame
  BY <1>1, WritesExtend, LedgerCallsMove
<1>4. ASSUME NEW e, AllowsCall(e), e.capture # PreHookOnly
      PROVE  /\ e.call = issued + 1 /\ issued' = issued + 1 /\ UNCHANGED outcomed
             /\ PromisedCalls' = PromisedCalls \cup {<<e.node, e.call>>}
             /\ OutcomeCalls' = OutcomeCalls
  <2>1. /\ e.event = "allow" /\ Writes(e) /\ UNCHANGED outcomed
        /\ e.call = issued + 1 /\ issued' = issued + 1
    BY <1>4 DEF AllowsCall, DrawCall, NextCall
  <2> QED
    BY <1>1, <1>4, <2>1, WritesExtend, LedgerCallsMove
<1>5. ASSUME NEW e, Reports(e)
      PROVE  /\ e.call \in 1 .. issued /\ e.call \notin outcomed /\ OutcomeNoted(e.call)
             /\ PromisedCalls' = PromisedCalls /\ OutcomeCalls' = OutcomeCalls \cup {e.call}
  <2>1. PICK j \in Nat : Extends /\ Fresh = {j} /\ ledger'[j] = e
    BY <1>1, <1>5, WritesExtend DEF Reports
  <2> QED
    BY <1>5, <2>1, LedgerCallsMove, OutcomesNoted DEF Reports
<1>6. CASE Step /\ UNCHANGED inside
  <2>1. UnderwaySame
    BY <1>6, UnderwayMoves
  <2>2. CASE Silent
    BY <1>3, <2>1, <2>2 DEF Silent, bindingVars, QuietMove, AwaitMove
  <2>3. ASSUME NEW e, Delegates(e) \/ Kills(e) \/ Denies(e) \/ Strikes(e) \/ PassesThrough(e)
                      \/ Finishes(e)
        PROVE  AwaitMove
    <3>1. /\ Writes(e) /\ e.event # "outcome" /\ (e.event = "allow" => e.capture = PreHookOnly)
          /\ UNCHANGED <<pending, outcomed>>
      BY <2>3 DEF Delegates, Kills, IsKill, Denies, Strikes, IsStrike, IsDenial, PassesThrough,
                  Finishes, bindingVars
    <3> QED
      BY <1>2, <2>1, <3>1 DEF QuietMove, AwaitMove
  <2>4. ASSUME NEW d, NEW e, StrikesDown(d, e) PROVE AwaitMove
    <3>1. /\ WritesBoth(d, e) /\ d.event = "deny" /\ e.event = "kill"
          /\ UNCHANGED <<pending, outcomed>>
      BY <2>4 DEF StrikesDown, IsStrike, IsDenial, IsKill
    <3>2. LedgerCallsSame
      BY <1>1, <3>1, WritesExtend, LedgerCallsMove
    <3> QED
      BY <2>1, <3>1, <3>2 DEF QuietMove, AwaitMove
  <2>5. ASSUME NEW e, AllowsCall(e), Registers(e) PROVE AwaitMove
    <3>1. CASE e.capture = PreHookOnly
      <4>1. Writes(e) /\ e.event # "outcome" /\ UNCHANGED <<pending, outcomed>>
        BY <2>5, <3>1 DEF AllowsCall, Registers, AwaitsOutcome
      <4> QED
        BY <1>2, <2>1, <3>1, <4>1 DEF QuietMove, AwaitMove
    <3>2. CASE e.capture # PreHookOnly
      <4>1. RegisterPending(e.node, e.call)
        BY <2>5, <3>2 DEF Registers, AwaitsOutcome
      <4>2. Promises(e.node, e.call)
        BY <1>4, <2>1, <2>5, <3>2, <4>1 DEF Promises, UnderwaySame
      <4> QED
        BY <4>2 DEF AwaitMove
    <3> QED
      BY <3>1, <3>2
  <2>6. ASSUME NEW e, Reports(e), ResolveCall(e.call) PROVE AwaitMove
    <3>1. Obtains(e.call)
      BY <1>5, <2>1, <2>6 DEF Obtains, UnderwaySame
    <3> QED
      BY <3>1 DEF AwaitMove
  <2> QED
    BY <1>6, <2>2, <2>3, <2>4, <2>5, <2>6 DEF Step
<1>7. ASSUME NEW e, NEW u, SeesAllow(e, u) PROVE AwaitMove
  <2>1. /\ AllowsCall(e) /\ e.capture # PreHookOnly /\ UNCHANGED pending
        /\ Pushes(u) /\ u.op = "register" /\ u.node = e.node /\ u.call = e.call
    BY <1>7 DEF SeesAllow, AwaitsOutcome
  <2>2. Registering' = Registering \cup {<<e.node, e.call>>} /\ Resolving' = Resolving
    BY <2>1, UnderwayMoves
  <2>3. Promises(e.node, e.call)
    BY <1>4, <2>1, <2>2 DEF Promises
  <2> QED
    BY <2>3 DEF AwaitMove
<1>8. ASSUME NEW e, NEW u, SeesDenial(e, u) PROVE AwaitMove
  <2>1. /\ Writes(e) /\ e.event = "deny" /\ UNCHANGED <<pending, outcomed>>
        /\ Pushes(u) /\ u.op = "strike"
    BY <1>8 DEF SeesDenial, IsStrike, IsDenial
  <2>2. UnderwaySame
    BY <2>1, UnderwayMoves DEF UnderwaySame
  <2> QED
    BY <1>2, <2>1, <2>2 DEF QuietMove, AwaitMove
<1>9. ASSUME NEW e, NEW u, SeesOutcome(e, u) PROVE AwaitMove
  <2>1. /\ Reports(e) /\ UNCHANGED <<pending, outcomed>>
        /\ Pushes(u) /\ u.op = "resolve" /\ u.call = e.call
    BY <1>9 DEF SeesOutcome
  <2>2. Registering' = Registering /\ Resolving' = Resolving \cup {e.call}
    BY <2>1, UnderwayMoves
  <2>3. Obtains(e.call)
    BY <1>5, <2>1, <2>2 DEF Obtains
  <2> QED
    BY <2>3 DEF AwaitMove
<1>10. ASSUME NEW u, AllowGoesOn(u) PROVE AwaitMove
  <2>1. /\ Pops(u) /\ u.op = "register" /\ RegisterPending(u.node, u.call)
        /\ UNCHANGED <<ledger, outcomed>>
    BY <1>10 DEF AllowGoesOn
  <2>2. Resolving' = Resolving
    BY <2>1, UnderwayMoves
  <2>3. RegistersNow(u.node, u.call)
    BY <1>3, <2>1, <2>2, UnderwayMoves DEF RegistersNow
  <2> QED
    BY <2>3 DEF AwaitMove
<1>11. ASSUME NEW u, OutcomeGoesOn(u) PROVE AwaitMove
  <2>1. Pops(u) /\ u.op = "resolve" /\ ResolveCall(u.call) /\ UNCHANGED ledger
    BY <1>11 DEF OutcomeGoesOn
  <2>2. Registering' = Registering
    BY <2>1, UnderwayMoves
  <2>3. ResolvesNow(u.call)
    BY <1>3, <2>1, <2>2, UnderwayMoves DEF ResolvesNow
  <2> QED
    BY <2>3 DEF AwaitMove
<1>12. ASSUME NEW u, DenialGoesOn(u) PROVE AwaitMove
  <2>1. Pops(u) /\ u.op = "strike" /\ UNCHANGED <<pending, outcomed>>
    BY <1>12 DEF DenialGoesOn, bindingVars
  <2>2. UnderwaySame
    BY <2>1, UnderwayMoves DEF UnderwaySame
  <2>3. LedgerCallsSame
    BY <1>2, <1>3, <1>12 DEF DenialGoesOn, IsKill
  <2> QED
    BY <2>1, <2>2, <2>3 DEF QuietMove, AwaitMove
<1> QED
  BY <1>6, <1>7, <1>8, <1>9, <1>10, <1>11, <1>12 DEF SinkStep

-----------------------------------------------------------------------------
(* What is written at any one step *)

\* An entry of a version 2 chain keeps to what its execution binding asks.
FreshIsSound(i) ==
    LET e == ledger'[i]
    IN  /\ e.event = "kill" => e.pending = PendingAtKill(e.revoked)
        /\ e.event = "allow" /\ e.policy = NoPolicy => e.node \in held /\ IsRequest(e)
        /\ IsV2 =>
              /\ e.event \in {"allow", "deny"} => e.call = issued + 1 /\ issued' = issued + 1
              /\ e.event = "allow" =>
                    IF e.policy = NoPolicy THEN e.node \notin complete ELSE e.capture = PreHookOnly
              /\ e.event = "outcome" => e.call \in 1 .. issued /\ e.call \notin outcomed
              /\ e.event = "done" => PendingFor(e.node) = {}
\* Only a strike's denial and its kill are written in one step.
FreshTogether ==
    \A i, j \in Fresh : i # j =>
        /\ ledger'[i].event \in {"deny", "kill"}
        /\ ledger'[i].event # ledger'[j].event
FreshDone == {ledger'[i].node : i \in {j \in Fresh : ledger'[j].event = "done"}}
FreshFacts ==
    /\ Extends
    /\ \A i \in Fresh : FreshIsSound(i)
    /\ FreshTogether
    /\ complete' = complete \cup FreshDone
    /\ issued' \in {issued, issued + 1}

\* A step that writes one entry.
LEMMA OneFresh ==
    ASSUME NEW T, ledger \in Seq(T), NEW e, Writes(e), \A i \in Fresh : ledger'[i] = e => FreshIsSound(i),
           complete' = complete \cup {n \in {e.node} : e.event = "done"},
           issued' \in {issued, issued + 1}
    PROVE  FreshFacts
<1>1. PICK j \in Nat : Extends /\ Fresh = {j} /\ ledger'[j] = e
  BY WritesExtend
<1>2. FreshDone = {n \in {e.node} : e.event = "done"}
  BY <1>1 DEF FreshDone
<1> QED
  BY <1>1, <1>2 DEF FreshFacts, FreshTogether

\* All that any step writes is sound, in this sense.
LEMMA FreshHolds ==
    ASSUME TypedInv, SinkStep
    PROVE  FreshFacts
<1>1. PICK T : ledger \in Seq(T)
  BY DEF TypedInv, SinkInv, LedgerInv, Agrees
<1>2. ASSUME UNCHANGED <<ledger, complete, issued>> PROVE FreshFacts
  BY <1>1, <1>2, WritesExtend DEF FreshFacts, FreshTogether, FreshDone
<1>3. ASSUME NEW e, Writes(e), IsKill(e), UNCHANGED <<complete, issued>>
      PROVE  FreshFacts
  BY <1>1, <1>3, OneFresh DEF FreshIsSound, IsKill
<1>4. ASSUME NEW e, Writes(e), IsDenial(e)
      PROVE  FreshFacts
  <2>1. /\ e.event = "deny" /\ (IsV2 => e.call = issued + 1 /\ issued' = issued + 1)
        /\ issued' \in {issued, issued + 1} /\ UNCHANGED complete
    BY <1>4 DEF IsDenial, DrawCall, NextCall
  <2> QED
    BY <1>1, <1>4, <2>1, OneFresh DEF FreshIsSound
<1>5. ASSUME NEW e, AllowsCall(e) \/ PassesThrough(e)
      PROVE  FreshFacts
  <2>1. /\ Writes(e) /\ e.event = "allow"
        /\ IsV2 =>
              /\ e.call = issued + 1 /\ issued' = issued + 1
              /\ IF e.policy = NoPolicy THEN e.node \notin complete ELSE e.capture = PreHookOnly
        /\ e.policy = NoPolicy => e.node \in held /\ IsRequest(e)
        /\ issued' \in {issued, issued + 1} /\ UNCHANGED complete
    BY <1>5 DEF AllowsCall, PassesThrough, DrawCall, NextCall
  <2> QED
    BY <1>1, <2>1, OneFresh DEF FreshIsSound
<1>6. ASSUME NEW e, Reports(e)
      PROVE  FreshFacts
  BY <1>1, <1>6, OneFresh DEF FreshIsSound, Reports
<1>7. CASE Step /\ UNCHANGED inside
  <2>1. CASE Silent
    BY <1>2, <2>1 DEF Silent, bindingVars
  <2>2. ASSUME NEW e, Delegates(e) PROVE FreshFacts
    BY <1>1, <2>2, OneFresh DEF FreshIsSound, Delegates, bindingVars
  <2>3. ASSUME NEW e, Kills(e) PROVE FreshFacts
    BY <1>3, <2>3 DEF Kills, bindingVars
  <2>4. ASSUME NEW e, Denies(e) \/ Strikes(e) PROVE FreshFacts
    BY <1>4, <2>4 DEF Denies, Strikes, IsStrike
  <2>5. ASSUME NEW d, NEW e, StrikesDown(d, e) PROVE FreshFacts
    <3>1. /\ WritesBoth(d, e) /\ d.event = "deny"
          /\ IsV2 => d.call = issued + 1 /\ issued' = issued + 1
          /\ issued' \in {issued, issued + 1}
          /\ e.event = "kill" /\ e.pending = PendingAtKill(e.revoked) /\ UNCHANGED complete
      BY <2>5 DEF StrikesDown, IsStrike, IsDenial, IsKill, DrawCall, NextCall
    <3>2. PICK j, l \in Nat :
              Extends /\ Fresh = {j, l} /\ ledger'[j] = d /\ ledger'[l] = e
      BY <1>1, <3>1, WritesExtend
    <3>3. FreshIsSound(j) /\ FreshIsSound(l) /\ FreshDone = {}
      BY <3>1, <3>2 DEF FreshIsSound, FreshDone
    <3> QED
      BY <3>1, <3>2, <3>3 DEF FreshFacts, FreshTogether
  <2>6. ASSUME NEW e, Finishes(e) PROVE FreshFacts
    BY <1>1, <2>6, OneFresh DEF FreshIsSound, Finishes
  <2> QED
    BY <1>5, <1>6, <1>7, <2>1, <2>2, <2>3, <2>4, <2>5, <2>6 DEF Step
<1>8. ASSUME NEW e, NEW u, SeesAllow(e, u) \/ SeesDenial(e, u) \/ SeesOutcome(e, u)
      PROVE  FreshFacts
  BY <1>4, <1>5, <1>6, <1>8 DEF SeesAllow, SeesDenial, SeesOutcome, IsStrike
<1>9. ASSUME NEW u, AllowGoesOn(u) \/ OutcomeGoesOn(u) \/ DenialGoesOn(u)
      PROVE  FreshFacts
  BY <1>2, <1>3, <1>9 DEF AllowGoesOn, OutcomeGoesOn, DenialGoesOn, bindingVars
<1> QED
  BY <1>7, <1>8, <1>9 DEF SinkStep

-----------------------------------------------------------------------------
(* What the entries say of the calls *)

\* A call id is drawn once, and an outcome comes after the decision it is about.
CallsDrawn ==
    /\ \A i \in Decisions(ledger) : ledger[i].call \in 1 .. issued
    /\ \A i, j \in Decisions(ledger) : ledger[i].call = ledger[j].call => i = j
    /\ \A i \in Entries(ledger, "outcome"), j \in Decisions(ledger) :
          ledger[i].call = ledger[j].call => j < i
    /\ \A i \in DOMAIN ledger : Promised(i) => i \in Gated(ledger)
\* A call has one outcome, if no sink settled it early.
OutcomesOnce ==
    \A i, j \in Entries(ledger, "outcome") :
        ledger[i].call = ledger[j].call => i = j \/ ledger[i].call \in early
\* The guard's finished nodes are those the ledger says are done.
FinishedAreDone == complete = Finalized(ledger)

EntriesInv ==
    /\ CallsDrawn /\ OutcomesOnce /\ FinishedAreDone
    /\ FinishedNodesStayQuiet /\ KillSnapshotsOpenCalls

\* A new decision draws a new call id; an outcome is about one drawn before.
LEMMA CallsDrawnNext ==
    ASSUME IsV2, CallsDrawn, FreshFacts, issued \in Nat, \A i \in Entries(ledger, "outcome") :
           ledger[i].call \in 1 .. issued
    PROVE  CallsDrawn'
<1>1. /\ DOMAIN ledger' = DOMAIN ledger \cup Fresh /\ DOMAIN ledger' \subseteq Nat
      /\ \A i \in DOMAIN ledger : ledger'[i] = ledger[i]
      /\ \A i \in DOMAIN ledger, j \in Fresh : i < j
      /\ \A i \in Fresh : FreshIsSound(i)
  BY DEF FreshFacts, Extends, Fresh
<1>2. 1 .. issued \subseteq 1 .. issued' /\ issued + 1 \notin 1 .. issued
  BY DEF FreshFacts
<1>3. ASSUME NEW i \in Decisions(ledger)'
      PROVE  \/ i \in Decisions(ledger) /\ ledger[i].call \in 1 .. issued
             \/ i \in Fresh /\ ledger'[i].call = issued + 1 /\ issued' = issued + 1
                /\ ledger'[i].event \in {"allow", "deny"}
  BY <1>1, <1>3 DEF Decisions, Entries, CallsDrawn, FreshIsSound
<1>4. ASSUME NEW i \in Decisions(ledger)' PROVE ledger'[i].call \in 1 .. issued'
  <2>1. i \in Decisions(ledger) => ledger'[i] = ledger[i]
    BY <1>1 DEF Decisions, Entries
  <2>2. issued' = issued + 1 => issued + 1 \in 1 .. issued'
    OBVIOUS
  <2> QED
    BY <1>2, <1>3, <1>4, <2>1, <2>2
<1>5. ASSUME NEW i \in Decisions(ledger)', NEW j \in Decisions(ledger)',
             ledger'[i].call = ledger'[j].call
      PROVE  i = j
  <2>1. \A k \in Decisions(ledger) : ledger'[k] = ledger[k]
    BY <1>1 DEF Decisions, Entries
  <2>2. \A k, l \in Fresh : ledger'[k].event \in {"allow", "deny"}
                            /\ ledger'[l].event \in {"allow", "deny"} => k = l
    BY DEF FreshFacts, FreshTogether
  <2> QED
    BY <1>2, <1>3, <1>5, <2>1, <2>2 DEF CallsDrawn
<1>6. ASSUME NEW i \in Entries(ledger, "outcome")', NEW j \in Decisions(ledger)',
             ledger'[i].call = ledger'[j].call
      PROVE  j < i
  <2>1. \/ i \in Entries(ledger, "outcome") /\ ledger'[i] = ledger[i]
        \/ i \in Fresh /\ ledger'[i].call \in 1 .. issued
    BY <1>1 DEF Entries, FreshIsSound
  <2>2. \A k \in Decisions(ledger) : k \in DOMAIN ledger /\ ledger'[k] = ledger[k]
    BY <1>1 DEF Decisions, Entries
  <2>3. ledger'[i].call \in 1 .. issued
    BY <2>1
  <2>4. j \in Decisions(ledger)
    BY <1>2, <1>3, <1>6, <2>3
  <2> QED
    BY <1>1, <1>6, <2>1, <2>2, <2>4 DEF CallsDrawn
<1>7. \A i \in DOMAIN ledger' : Promised(i)' => i \in Gated(ledger)'
  <2>1. \A i \in Fresh : Promised(i)' => i \in Gated(ledger)'
    BY <1>1 DEF FreshIsSound, Promised, Gated, Entries
  <2> QED
    BY <1>1, <2>1 DEF CallsDrawn, Promised, Gated, Entries
<1> QED
  BY <1>4, <1>5, <1>6, <1>7 DEF CallsDrawn

\* A second outcome for a call needs a first that is not marked yet: one whose
\* operation is still under way, and which is noted as early.
LEMMA OutcomesOnceNext ==
    ASSUME IsV2, OutcomesOnce, OutcomesMarked, EarlyNoted, FreshFacts
    PROVE  OutcomesOnce'
<1>1. /\ DOMAIN ledger' = DOMAIN ledger \cup Fresh
      /\ \A i \in DOMAIN ledger : ledger'[i] = ledger[i]
      /\ \A i \in Fresh : FreshIsSound(i)
  BY DEF FreshFacts, Extends, Fresh
<1>2. ASSUME NEW i \in Entries(ledger, "outcome"), NEW j \in Fresh,
             ledger'[j].event = "outcome", ledger[i].call = ledger'[j].call
      PROVE  ledger[i].call \in early'
  <2>1. ledger[i].call \in OutcomeCalls /\ ledger'[j].call \notin outcomed
    BY <1>1, <1>2 DEF OutcomeCalls, FreshIsSound
  <2>2. OutcomeNoted(ledger'[j].call)
    BY <1>2, OutcomesNoted
  <2> QED
    BY <1>2, <2>1, <2>2 DEF OutcomesMarked, OutcomeNoted
<1>3. \A i, j \in Fresh : ledger'[i].event = "outcome" => i = j
  BY DEF FreshFacts, FreshTogether
<1>4. \A i \in Entries(ledger, "outcome")' :
          \/ i \in Entries(ledger, "outcome") /\ ledger'[i] = ledger[i]
          \/ i \in Fresh /\ ledger'[i].event = "outcome"
  BY <1>1 DEF Entries
<1>5. early \subseteq early'
  BY DEF EarlyNoted
<1> QED
  BY <1>2, <1>3, <1>4, <1>5 DEF OutcomesOnce

\* A node is finished by the entry that says so.
LEMMA FinishedNext ==
    ASSUME FinishedAreDone, FreshFacts
    PROVE  FinishedAreDone'
<1>1. /\ DOMAIN ledger' = DOMAIN ledger \cup Fresh
      /\ \A i \in DOMAIN ledger : ledger'[i] = ledger[i]
  BY DEF FreshFacts, Extends, Fresh
<1>2. Finalized(ledger)' = Finalized(ledger) \cup FreshDone
  BY <1>1 DEF Finalized, Entries, FreshDone
<1> QED
  BY <1>2 DEF FinishedAreDone, FreshFacts

\* A finished node was not about to be pending on anything.
LEMMA QuietNext ==
    ASSUME IsV2, FinishedNodesStayQuiet, FinishedAreDone, CallsDrawn', PromisedWait, EarlyNoted, FreshFacts
    PROVE  FinishedNodesStayQuiet'
<1>1. /\ DOMAIN ledger' = DOMAIN ledger \cup Fresh
      /\ \A i \in DOMAIN ledger : ledger'[i] = ledger[i]
      /\ \A i \in DOMAIN ledger, j \in Fresh : i < j
      /\ \A i \in Fresh : FreshIsSound(i)
  BY DEF FreshFacts, Extends, Fresh
<1>2. SUFFICES ASSUME NEW d \in Entries(ledger, "done")', NEW i \in Gated(ledger)',
                      ledger'[i].node = ledger'[d].node
               PROVE  /\ i < d
                      /\ Promised(i)' /\ ledger'[i].call \notin early'
                            => OutcomeBefore(ledger[i].call, d)'
  BY DEF FinishedNodesStayQuiet
<1>3. \/ d \in Entries(ledger, "done") /\ ledger'[d] = ledger[d]
      \/ d \in Fresh /\ ledger'[d].event = "done"
  BY <1>1 DEF Entries
<1>4. \/ i \in Gated(ledger) /\ ledger'[i] = ledger[i]
      \/ i \in Fresh /\ ledger'[i].event = "allow" /\ ledger'[i].policy = NoPolicy
  BY <1>1 DEF Gated, Entries
<1>5. i \notin Fresh
  <2>1. CASE d \in Fresh
    BY <1>3, <1>4, <2>1 DEF FreshFacts, FreshTogether, Entries, Gated, Fresh
  <2>2. CASE d \in Entries(ledger, "done") /\ ledger'[d] = ledger[d]
    <3>1. ledger'[i].node \in complete
      BY <1>2, <2>2 DEF FinishedAreDone, Finalized
    <3> QED
      BY <1>1, <1>4, <3>1 DEF FreshIsSound, Gated, Entries, Fresh
  <2> QED
    BY <1>3, <2>1, <2>2
<1>6. i \in Gated(ledger) /\ i \in DOMAIN ledger /\ ledger'[i] = ledger[i]
  BY <1>4, <1>5 DEF Gated, Entries
<1>7. \A c, k : OutcomeBefore(c, k) => \E j \in DOMAIN ledger' :
                    ledger'[j].event = "outcome" /\ ledger'[j].call = c /\ j < k
  BY <1>1 DEF OutcomeBefore, OutcomesOf, Entries
<1>8. CASE d \in Entries(ledger, "done") /\ ledger'[d] = ledger[d]
  <2>1. i < d /\ (Promised(i) /\ ledger[i].call \notin early => OutcomeBefore(ledger[i].call, d))
    BY <1>2, <1>6, <1>8 DEF FinishedNodesStayQuiet
  <2>2. early \subseteq early' /\ (Promised(i)' <=> Promised(i))
    BY <1>6 DEF EarlyNoted, Promised
  <2> QED
    BY <1>6, <1>7, <2>1, <2>2 DEF OutcomeBefore, OutcomesOf, Entries
<1>9. CASE d \in Fresh /\ ledger'[d].event = "done"
  <2>1. i < d /\ PendingFor(ledger'[d].node) = {}
    BY <1>1, <1>6, <1>9 DEF FreshIsSound
  <2>2. ASSUME Promised(i), ledger[i].call \notin early'
        PROVE  OutcomeBefore(ledger[i].call, d)'
    <3>1. <<ledger[i].node, ledger[i].call>> \in PromisedCalls
      BY <1>6, <2>2 DEF PromisedCalls
    <3>2. ledger[i].call \notin early
      BY <2>2 DEF EarlyNoted
    <3>3. <<ledger[i].node, ledger[i].call>> \notin pending
      BY <1>2, <1>6, <2>1 DEF PendingFor
    <3>4. <<ledger[i].node, ledger[i].call>> \notin Registering
      <4>1. SUFFICES ASSUME NEW l \in DOMAIN inside, inside[l].op = "register",
                            inside[l].node = ledger[i].node, inside[l].call = ledger[i].call
                     PROVE  FALSE
        BY DEF Registering, Underways
      <4>2. Settles(ledger'[d], inside[l])
        BY <1>2, <1>6, <1>9, <4>1 DEF Settles
      <4> QED
        BY <1>9, <2>2, <4>1, <4>2 DEF EarlyNoted
    <3>5. ledger[i].call \in OutcomeCalls
      BY <3>1, <3>2, <3>3, <3>4 DEF PromisedWait
    <3>6. PICK j \in Entries(ledger, "outcome") : ledger[j].call = ledger[i].call
      BY <3>5 DEF OutcomeCalls
    <3>7. j \in DOMAIN ledger' /\ j < d /\ ledger'[j].event = "outcome" /\ ledger'[j].call = ledger'[i].call
      BY <1>1, <1>6, <1>9, <3>6 DEF Entries
    <3> QED
      BY <1>6, <3>7 DEF OutcomeBefore, OutcomesOf, Entries
  <2> QED
    BY <1>6, <2>1, <2>2 DEF Promised
<1> QED
  BY <1>3, <1>8, <1>9

\* A call that was promised an outcome before i, on a node that the kill at i
\* revokes, and had none by then.
PromisedUntil(L, i, c) ==
    \E k \in DOMAIN L :
        /\ k < i /\ L[k].event = "allow" /\ L[k].capture # PreHookOnly
        /\ L[k].call = c /\ L[k].node \in L[i].revoked
ObtainedUntil(L, i, c) == \E k \in DOMAIN L : k < i /\ L[k].event = "outcome" /\ L[k].call = c

\* A kill names what is open, but for what a sink is about to change.
LEMMA SnapshotsNext ==
    ASSUME IsV2, KillSnapshotsOpenCalls, PromisedWait, PendingWait, EarlyNoted, FreshFacts,
           GuardTypeOK, NEW T, ledger \in Seq(T), NEW U, ledger' \in Seq(U)
    PROVE  KillSnapshotsOpenCalls'
<1>1. /\ DOMAIN ledger' = DOMAIN ledger \cup Fresh /\ DOMAIN ledger' \subseteq Nat
      /\ \A i \in DOMAIN ledger : ledger'[i] = ledger[i]
      /\ \A i \in DOMAIN ledger, j \in Fresh : i < j
      /\ \A i \in Fresh : FreshIsSound(i)
      /\ early \subseteq early'
  BY DEF FreshFacts, Extends, Fresh, EarlyNoted
<1>2. ASSUME NEW i \in Entries(ledger, "kill"), NEW c, c \notin early
      PROVE  c \in ledger[i].pending <=> PromisedUntil(ledger, i, c) /\ ~ObtainedUntil(ledger, i, c)
  <2>1. i \in Nat /\ \A k : k \in 1 .. i - 1 <=> k \in DOMAIN ledger /\ k < i
    BY <1>2 DEF Entries
  <2> QED
    BY <1>2, <2>1 DEF KillSnapshotsOpenCalls, Promised, OutcomeBefore, OutcomesOf, Entries,
                      PromisedUntil, ObtainedUntil
<1>3. ASSUME NEW i \in Entries(ledger', "kill"), NEW c, c \notin early'
      PROVE  /\ c \in ledger'[i].pending
                  => PromisedUntil(ledger', i, c) /\ ~ObtainedUntil(ledger', i, c)
             /\ PromisedUntil(ledger', i, c) /\ ~ObtainedUntil(ledger', i, c)
                  => c \in ledger'[i].pending
  <2>0. c \notin early
    BY <1>1, <1>3
  <2>1. CASE i \in DOMAIN ledger
    <3>1. /\ i \in Entries(ledger, "kill") /\ ledger'[i] = ledger[i]
          /\ \A k \in DOMAIN ledger' : k < i => k \in DOMAIN ledger /\ ledger'[k] = ledger[k]
      <4>1. \A k \in Fresh : ~(k < i)
        BY <1>1, <2>1
      <4> QED
        BY <1>1, <1>3, <2>1, <4>1 DEF Entries
    <3>2. /\ PromisedUntil(ledger', i, c) <=> PromisedUntil(ledger, i, c)
          /\ ObtainedUntil(ledger', i, c) <=> ObtainedUntil(ledger, i, c)
      BY <1>1, <3>1 DEF PromisedUntil, ObtainedUntil
    <3> QED
      BY <1>2, <2>0, <3>1, <3>2
  <2>2. CASE i \in Fresh
    <3>1. PICK e : e = ledger'[i]
      OBVIOUS
    <3>2. e.event = "kill" /\ \A d : d \in e.pending <=> \E n \in e.revoked : <<n, d>> \in pending
      <4>1. e.event = "kill" /\ e.pending = PendingAtKill(e.revoked)
        BY <1>1, <1>3, <2>2, <3>1 DEF Entries, FreshIsSound
      <4>2. \A p \in pending : p = <<p[1], p[2]>>
        <5>1. PICK H, C : pending \subseteq H \X C
          BY DEF GuardTypeOK
        <5> QED
          BY <5>1
      <4>3. ASSUME NEW n, NEW d PROVE d \in PendingFor(n) <=> <<n, d>> \in pending
        BY <4>2 DEF PendingFor
      <4>4. e.pending = UNION {PendingFor(n) : n \in e.revoked}
        BY <4>1 DEF PendingAtKill
      <4>5. \A d : d \in e.pending <=> \E n \in e.revoked : d \in PendingFor(n)
        BY <4>4
      <4> QED
        BY <4>1, <4>3, <4>5
    \* what came before it: the older entries, and perhaps a denial
    <3>3. \A k \in DOMAIN ledger' : k < i =>
              \/ k \in DOMAIN ledger /\ ledger'[k] = ledger[k]
              \/ ledger'[k].event = "deny"
      BY <1>1, <2>2, <3>1, <3>2 DEF FreshFacts, FreshTogether
    <3>4. ObtainedUntil(ledger', i, c) <=> c \in OutcomeCalls
      BY <1>1, <2>2, <3>3 DEF ObtainedUntil, OutcomeCalls, Entries
    <3>5. PromisedUntil(ledger', i, c) <=> \E n \in e.revoked : <<n, c>> \in PromisedCalls
      BY <1>1, <2>2, <3>1, <3>3 DEF PromisedUntil, PromisedCalls, Promised
    <3>6. \A n \in e.revoked : <<n, c>> \notin Registering
      BY <1>3, <2>2, <3>1, <3>2 DEF Registering, Underways, Settles, EarlyNoted
    <3>7. c \notin Resolving
      BY <1>3, <2>2, <3>1, <3>2 DEF Resolving, Underways, Settles, EarlyNoted
    <3> QED
      BY <2>0, <3>1, <3>2, <3>4, <3>5, <3>6, <3>7 DEF PromisedWait, PendingWait
  <2> QED
    BY <1>1, <1>3, <2>1, <2>2 DEF Entries
<1>4. ASSUME NEW i \in Entries(ledger', "kill"), NEW c, c \notin early'
      PROVE  PromisedUntil(ledger', i, c) /\ ~ObtainedUntil(ledger', i, c) <=>
                 \E j \in 1 .. i - 1 :
                     /\ ledger'[j].event = "allow" /\ ledger'[j].capture # PreHookOnly
                     /\ ledger'[j].call = c /\ ledger'[j].node \in ledger'[i].revoked
                     /\ ~\E k \in DOMAIN ledger' :
                           ledger'[k].event = "outcome" /\ ledger'[k].call = ledger'[j].call /\ k < i
  <2>1. i \in Nat /\ \A k : k \in 1 .. i - 1 <=> k \in DOMAIN ledger' /\ k < i
    BY <1>4 DEF Entries
  <2> QED
    BY <2>1 DEF PromisedUntil, ObtainedUntil
<1>5. SUFFICES ASSUME NEW i \in Entries(ledger', "kill"), NEW c, c \notin early'
               PROVE  c \in ledger'[i].pending <=>
                        \E j \in 1 .. i - 1 :
                          /\ ledger'[j].event = "allow" /\ ledger'[j].capture # PreHookOnly
                          /\ ledger'[j].call = c /\ ledger'[j].node \in ledger'[i].revoked
                          /\ ~\E k \in DOMAIN ledger' :
                                /\ ledger'[k].event = "outcome"
                                /\ ledger'[k].call = ledger'[j].call /\ k < i
  BY DEF KillSnapshotsOpenCalls, Promised, OutcomeBefore, OutcomesOf, Entries
<1> QED
  BY <1>3, <1>4, <1>5

\* The verifier finds the one allow, and the one outcome, of a call.
LEMMA CallsRead ==
    ASSUME CallsDrawn, OutcomesOnce, early = {}, NEW T, ledger \in Seq(T)
    PROVE  /\ \A a \in Entries(ledger, "allow") : AllowOf(ledger, ledger[a].call) = a
           /\ \A o \in Entries(ledger, "outcome") : FirstOutcomeOf(ledger, ledger[o].call) = o
<1>1. ASSUME NEW a \in Entries(ledger, "allow")
      PROVE  AllowOf(ledger, ledger[a].call) = a
  <2>1. PICK c : c = ledger[a].call
    OBVIOUS
  <2>2. {i \in Entries(ledger, "allow") : ledger[i].call = c} = {a}
    BY <1>1, <2>1 DEF CallsDrawn, Decisions
  <2>3. a <= a
    BY DEF Entries
  <2> QED
    BY <2>1, <2>2, <2>3 DEF AllowOf
<1>2. ASSUME NEW o \in Entries(ledger, "outcome")
      PROVE  FirstOutcomeOf(ledger, ledger[o].call) = o
  <2>1. PICK c : c = ledger[o].call
    OBVIOUS
  <2>2. {i \in Entries(ledger, "outcome") : ledger[i].call = c} = {o}
    BY <1>2, <2>1 DEF OutcomesOnce
  <2>3. o <= o
    BY DEF Entries
  <2> QED
    BY <2>1, <2>2, <2>3 DEF FirstOutcomeOf, OutcomesOf
<1> QED
  BY <1>1, <1>2

\* A call that has an outcome is observed, if nothing was misreported.
LEMMA ReportedAreObserved ==
    ASSUME CallsDrawn, OutcomesOnce, early = {}, ~Misreported, NEW T, ledger \in Seq(T)
    PROVE  /\ Reported(ledger) = Observed(ledger)
           /\ ~BindingFailure(ledger)
<1>1. ASSUME NEW call \in Reported(ledger)
      PROVE  SameNode(ledger, call) /\ InOrder(ledger, call) /\ ~ParamsMismatch(ledger, call)
  <2>1. PICK a \in Entries(ledger, "allow"), o \in Entries(ledger, "outcome") :
            ledger[a].call = call /\ ledger[o].call = call
    BY DEF Reported, Calls, OutcomesOf
  <2>2. AllowOf(ledger, call) = a /\ FirstOutcomeOf(ledger, call) = o
    BY <2>1, CallsRead
  <2>3. ledger[a].node = ledger[o].node /\ ~ParamsMismatch(ledger, call)
    BY <2>1, <2>2 DEF Misreported
  <2>4. a < o /\ a \in Nat /\ o \in Nat
    BY <2>1 DEF CallsDrawn, Decisions, Entries
  <2> QED
    BY <2>2, <2>3, <2>4 DEF SameNode, InOrder
<1>2. ~DuplicateCallId(ledger)
  BY DEF DuplicateCallId, CallsDrawn
<1>3. ~DuplicateOutcome(ledger)
  BY DEF DuplicateOutcome, OutcomesOnce
<1>4. ~OutcomeWithoutAllow(ledger)
  BY DEF OutcomeWithoutAllow, Misreported
<1> QED
  BY <1>1, <1>2, <1>3, <1>4 DEF BindingFailure, Observed

\* On such entries, with nothing misreported, the verifier's checks of the
\* execution binding pass.
LEMMA BindingHolds ==
    ASSUME EntriesInv, early = {}, ~Misreported, NEW T, ledger \in Seq(T)
    PROVE  ~BindingFailed(ledger)
<1>1. CallsDrawn /\ OutcomesOnce /\ FinishedNodesStayQuiet
  BY DEF EntriesInv
<1>2. SUFFICES ASSUME NEW node \in Finalized(ledger), NEW call \in UnaccountedAt(ledger, node)
               PROVE  FALSE
  BY <1>1, ReportedAreObserved DEF BindingFailed
<1>3. PICK a \in Entries(ledger, "allow") : ledger[a].call = call
  BY DEF UnaccountedAt, Unaccounted, Calls
<1>4. AllowOf(ledger, call) = a
  BY <1>1, <1>3, CallsRead
<1>5. ledger[a].node = node /\ Promised(a)
  BY <1>3, <1>4 DEF UnaccountedAt, Unaccounted, Unobserved, Promised, Entries
<1>6. PICK d \in Entries(ledger, "done") : ledger[d].node = node
  BY DEF Finalized
<1>7. OutcomeBefore(call, d)
  BY <1>1, <1>3, <1>5, <1>6 DEF CallsDrawn, FinishedNodesStayQuiet, Entries
<1>8. call \in Reported(ledger)
  BY <1>3, <1>7 DEF OutcomeBefore, Reported, Calls
<1> QED
  BY <1>1, <1>8, ReportedAreObserved DEF UnaccountedAt, Unaccounted

-----------------------------------------------------------------------------
(* Execution binding *)

BindingInv == TypedInv /\ AwaitInv /\ EntriesInv

\* A ledger of one root entry has no calls.
LEMMA BindingInit ==
    ASSUME SinkInit
    PROVE  BindingInv
<1>1. /\ DOMAIN ledger = {1} /\ ledger[1].event = "root" /\ DOMAIN inside = {}
      /\ pending = {} /\ outcomed = {} /\ complete = {}
  BY DEF SinkInit, GuardInit, RootEntry
<1>2. /\ \A event \in {"allow", "deny", "outcome", "done", "kill"} : Entries(ledger, event) = {}
      /\ \A i \in DOMAIN ledger : ~Promised(i)
      /\ Registering = {} /\ Resolving = {}
  BY <1>1 DEF Entries, Promised, Registering, Resolving, Underways
<1>3. PromisedCalls = {} /\ OutcomeCalls = {}
  BY <1>2 DEF PromisedCalls, OutcomeCalls
<1>4. AwaitInv
  BY <1>1, <1>2, <1>3 DEF AwaitInv, PromisedWait, PendingWait, RegistersWait, OutcomesMarked,
                          CallsIssued
<1>5. Decisions(ledger) = {} /\ Gated(ledger) = {} /\ Finalized(ledger) = {}
  BY <1>2 DEF Decisions, Gated, Finalized
<1>6. CallsDrawn /\ OutcomesOnce /\ FinishedAreDone
  BY <1>1, <1>2, <1>5 DEF CallsDrawn, OutcomesOnce, FinishedAreDone
<1>7. FinishedNodesStayQuiet /\ KillSnapshotsOpenCalls
  BY <1>2 DEF FinishedNodesStayQuiet, KillSnapshotsOpenCalls
<1> QED
  BY <1>4, <1>6, <1>7, TypedInit DEF BindingInv, EntriesInv

\* The calls' invariants support one another through every step.
LEMMA BindingNext ==
    ASSUME IsV2, BindingInv, [SinkNext]_<<allVars, sinkVars>>
    PROVE  BindingInv'
<1>1. TypedInv' /\ SinkStep
  BY TypedNext DEF BindingInv
<1>2. EarlyNoted
  BY <1>1, NotesEarly DEF BindingInv
<1>3. FreshFacts
  BY <1>1, FreshHolds DEF BindingInv
<1>4. PICK T, U : ledger \in Seq(T) /\ ledger' \in Seq(U)
  BY <1>1 DEF BindingInv, TypedInv, SinkInv, LedgerInv, Agrees
<1>5. issued \in Nat /\ issued' \in Nat /\ issued <= issued' /\ GuardTypeOK
  <2>1. GuardTypeOK /\ issued' \in {issued, issued + 1}
    BY <1>3 DEF BindingInv, TypedInv, FreshFacts
  <2>2. issued \in Nat
    BY <2>1 DEF GuardTypeOK
  <2> QED
    BY <2>1, <2>2
<1>6. AwaitInv'
  BY <1>1, <1>2, <1>5, CallsMove, AwaitNext DEF BindingInv, EarlyNoted
<1>7. /\ PromisedWait /\ PendingWait /\ OutcomesMarked
      /\ \A i \in Entries(ledger, "outcome") : ledger[i].call \in 1 .. issued
  BY DEF BindingInv, AwaitInv, CallsIssued, OutcomeCalls
<1>8. CallsDrawn' /\ OutcomesOnce' /\ FinishedAreDone'
  BY <1>2, <1>3, <1>5, <1>7, CallsDrawnNext, OutcomesOnceNext, FinishedNext
  DEF BindingInv, EntriesInv
<1>9. FinishedNodesStayQuiet' /\ KillSnapshotsOpenCalls'
  BY <1>2, <1>3, <1>4, <1>5, <1>7, <1>8, QuietNext, SnapshotsNext DEF BindingInv, EntriesInv
<1> QED
  BY <1>1, <1>6, <1>8, <1>9 DEF BindingInv, EntriesInv

\* They hold in every state of a guard of the version that binds executions.
LEMMA BindingAlways ==
    ASSUME IsV2
    PROVE  SinkSpec => []BindingInv
<1>1. SinkInit => BindingInv
  BY BindingInit
<1>2. BindingInv /\ [SinkNext]_<<allVars, sinkVars>> => BindingInv'
  BY BindingNext
<1> QED
  BY <1>1, <1>2, PTL DEF SinkSpec

\* On a version 2 chain the guard itself never spoils its execution binding: a
\* call id or an outcome repeated, an outcome ahead of its allow or missing when
\* its node finished takes an application that misreports, or a sink that
\* settles a call while it is being recorded.
THEOREM GuardNeverFailsBinding ==
    ASSUME IsV2
    PROVE  SinkSpec => []BindingFailsOnlyOnMisreport
<1>1. BindingInv => BindingFailsOnlyOnMisreport
  <2>1. BindingInv => \E T : ledger \in Seq(T)
    BY DEF BindingInv, TypedInv, SinkInv, LedgerInv, Agrees
  <2> QED
    BY <2>1, BindingHolds DEF BindingInv, BindingFailsOnlyOnMisreport
<1> QED
  BY <1>1, BindingAlways, PTL

\* A finished node has all its outcomes by its done, and no call after it.
THEOREM FinishedNodesAreQuiet ==
    ASSUME IsV2
    PROVE  SinkSpec => []FinishedNodesStayQuiet
<1>1. BindingInv => FinishedNodesStayQuiet
  BY DEF BindingInv, EntriesInv
<1> QED
  BY <1>1, BindingAlways, PTL

\* A kill lists the calls that were open on the nodes it revoked, and no others.
THEOREM KillsListOpenCalls ==
    ASSUME IsV2
    PROVE  SinkSpec => []KillSnapshotsOpenCalls
<1>1. BindingInv => KillSnapshotsOpenCalls
  BY DEF BindingInv, EntriesInv
<1> QED
  BY <1>1, BindingAlways, PTL

-----------------------------------------------------------------------------
(* What a step does to the chain, and what it writes of that *)

\* The events that tell of the tree.
Structural == {"root", "spawn", "kill"}

\* The nodes that are there stay as they are.
NodesSame ==
    \A n \in NodeIds :
        /\ n \in NodeIds' /\ nodes'[n].parent = nodes[n].parent /\ nodes'[n].agent = nodes[n].agent
        /\ nodes'[n].seal = nodes[n].seal

\* The tree as it was; a new node, told or not; a revocation, told or not.
Stays ==
    /\ NodesSame /\ NodeIds' = NodeIds /\ revoked' = revoked
    /\ \A i \in Fresh : ledger'[i].event \notin Structural
    /\ \A i, j \in Fresh : i = j
AddsChild(p) ==
    /\ p \in held
    /\ \E agent \in Agents, request \in Requests : AddChild(p, agent, request)
Spawns(p, e) ==
    /\ AddsChild(p) /\ Writes(e)
    /\ e.event = "spawn" /\ e.parent = p /\ e.node = Len(nodes) + 1
    /\ e.agent = nodes'[Len(nodes) + 1].agent /\ e.agent \notin Unhashable
    /\ e.authority = nodes'[Len(nodes) + 1].auth
SpawnsUnseen(p) == AddsChild(p) /\ UNCHANGED ledger
KillsAll(killed) ==
    /\ UNCHANGED nodes /\ revoked' = revoked \cup killed /\ killed \subseteq NodeIds
    /\ \E k \in Fresh : ledger'[k].event = "kill" /\ ledger'[k].revoked = killed
    /\ \A i \in Fresh : /\ ledger'[i].event \in {"deny", "kill"}
                        /\ ledger'[i].event = "kill" => ledger'[i].revoked = killed
KillsUnseen ==
    /\ UNCHANGED <<nodes, ledger>>
    /\ \E agent \in Unhashable : revoked' = revoked \cup Cascade(HeldBy(agent))

LiveMove ==
    \/ Stays
    \/ \E p : (\E e : Spawns(p, e)) \/ SpawnsUnseen(p)
    \/ \E killed : KillsAll(killed)
    \/ KillsUnseen

\* An entry that tells nothing of the tree.
LEMMA PlainMove ==
    ASSUME NEW T, ledger \in Seq(T), NEW e, Writes(e), e.event \notin Structural,
           UNCHANGED <<nodes, revoked>>
    PROVE  Stays
<1>1. PICK j \in Nat : Fresh = {j} /\ ledger'[j] = e
  BY WritesExtend
<1> QED
  BY <1>1 DEF Stays, NodesSame, NodeIds

\* A step that writes nothing.
LEMMA NoMove ==
    ASSUME NEW T, ledger \in Seq(T), UNCHANGED <<nodes, revoked, ledger>>
    PROVE  Stays
  BY WritesExtend DEF Stays, NodesSame, NodeIds

\* A kill, and the denial it may come with.
LEMMA KillMove ==
    ASSUME IInv, NEW T, ledger \in Seq(T), NEW targets, UNCHANGED nodes,
           revoked' = revoked \cup Cascade(targets), NEW target,
           NEW d, d.event = "deny", NEW e, e = KillEntry(target, Cascade(targets), PendingAtKill(Cascade(targets))),
           Writes(e) \/ WritesBoth(d, e)
    PROVE  KillsAll(Cascade(targets))
<1>1. e.event = "kill" /\ e.revoked = Cascade(targets) /\ Cascade(targets) \subseteq NodeIds
  BY DEF KillEntry, Cascade
<1>2. CASE Writes(e)
  BY <1>1, <1>2, WritesExtend DEF KillsAll
<1>3. CASE WritesBoth(d, e)
  BY <1>1, <1>3, WritesExtend DEF KillsAll
<1> QED
  BY <1>2, <1>3

\* delegate, with its entry or without.
LEMMA DelegationMoves ==
    ASSUME NEW T, ledger \in Seq(T), IInv, NEW n \in held, n \in NodeIds, DelegationStep(n)
    PROVE  LiveMove
<1>0. TypeOK /\ TreeWithinCeilings
  BY DEF IInv
<1>1. PICK agent \in Agents, request \in Requests :
        \/ Delegate(n, agent, request)
        \/ DelegateUnpersisted(n, agent, request)
        \/ DelegateUnhashable(n, agent, request)
        \/ DelegateRefused(n, agent, request)
  BY DEF DelegationStep
<1>2. CASE Delegate(n, agent, request) \/ DelegateUnpersisted(n, agent, request)
  <2>1. AddChild(n, agent, request) /\ Write(<<SpawnOf(n)>>) /\ agent \notin Unhashable
    BY <1>2 DEF Delegate, DelegateUnpersisted
  <2>2. PICK e : e = SpawnOf(n)
    OBVIOUS
  <2>3. /\ e.event = "spawn" /\ e.parent = n /\ e.node = Len(nodes) + 1
        /\ e.agent = nodes'[Len(nodes) + 1].agent
        /\ e.authority = nodes'[Len(nodes) + 1].auth
    BY <2>2 DEF SpawnOf, SpawnEntry
  <2>4. nodes'[Len(nodes) + 1].agent = agent
    <3>1. nodes'[Len(nodes) + 1] = NewNode(n, agent, nodes[n].depth + 1, now, Meet(nodes[n].auth, request))
      BY <1>0, <2>1, AddChildFacts
    <3> QED
      BY <3>1 DEF NewNode
  <2>5. Writes(e)
    BY <2>1, <2>2, WriteOne DEF Writes
  <2>6. Spawns(n, e)
    BY <2>1, <2>3, <2>4, <2>5 DEF Spawns, AddsChild
  <2> QED
    BY <2>6 DEF LiveMove
<1>3. CASE DelegateUnhashable(n, agent, request)
  <2>1. SpawnsUnseen(n)
    BY <1>3 DEF DelegateUnhashable, guardVars, SpawnsUnseen, AddsChild
  <2> QED
    BY <2>1 DEF LiveMove
<1>4. CASE DelegateRefused(n, agent, request)
  <2>1. PICK e : e = SpawnDeniedEntry(n, agent)
    OBVIOUS
  <2>2. e.event = "spawn_denied" /\ Write(<<e>>) /\ UNCHANGED <<nodes, revoked>>
    BY <1>4, <2>1 DEF SpawnDeniedEntry, DelegateRefused, chainVars
  <2>3. Stays
    BY <2>2, WriteOne, PlainMove DEF Writes, Structural
  <2> QED
    BY <2>3 DEF LiveMove
<1> QED
  BY <1>1, <1>2, <1>3, <1>4

\* What a check writes is no part of the tree, but for a strike's kill.
LEMMA CheckMoves ==
    ASSUME NEW T, ledger \in Seq(T), IInv, NEW n \in held, n \in NodeIds, CheckStep(n)
    PROVE  LiveMove
<1>1. PICK scope \in CheckedScopes, ctx \in Contexts, metered \in {FALSE, StrictMetering} :
        \/ \E capture \in Captures, params \in Params :
              CheckAllowed(n, scope, ctx, metered, capture, params)
        \/ CheckDenied(n, scope, ctx, metered)
        \/ CheckStruck(n, scope, ctx, metered)
        \/ CheckStruckOut(n, scope, ctx, metered)
        \/ CheckDeniedUnpersisted(n, scope, ctx, metered)
        \/ CheckNotCommitted(n, scope, ctx, metered)
        \/ CheckUnrepresentable(n, scope, ctx, metered)
        \/ RecordPassthrough(n, scope, ctx)
  BY DEF CheckStep
<1>2. ASSUME NEW e, Write(<<e>>), e.event \in {"allow", "deny"}, UNCHANGED chainVars
      PROVE  LiveMove
  <2>1. Stays
    BY <1>2, WriteOne, PlainMove DEF Writes, Structural, chainVars
  <2> QED
    BY <2>1 DEF LiveMove
<1>3. ASSUME NEW capture \in Captures, NEW params \in Params,
             CheckAllowed(n, scope, ctx, metered, capture, params)
      PROVE  LiveMove
  BY <1>2, <1>3 DEF CheckAllowed, CommitAllow, AllowEntry
<1>4. ASSUME NEW reason, Write(<<DenyEntry(n, scope, NextCall, reason)>>), UNCHANGED chainVars
      PROVE  LiveMove
  BY <1>2, <1>4 DEF DenyEntry
<1>5. CASE CheckStruckOut(n, scope, ctx, metered)
  <2>1. PICK d, e : /\ d = DenyEntry(n, scope, NextCall, Policy)
                    /\ e = KillEntry(n, Cascade({n}), PendingAtKill(Cascade({n})))
    OBVIOUS
  <2>2. /\ Write(<<d, e>>) /\ d.event = "deny"
        /\ UNCHANGED nodes /\ revoked' = revoked \cup Cascade({n})
    BY <1>5, <2>1 DEF CheckStruckOut, RevokeNode, DenyEntry
  <2>3. WritesBoth(d, e)
    BY <2>2, WriteTwo DEF WritesBoth
  <2>4. PICK targets : targets = {n}
    OBVIOUS
  <2>5. KillsAll(Cascade(targets))
    BY <2>1, <2>2, <2>3, <2>4, KillMove
  <2> QED
    BY <2>5 DEF LiveMove
<1>6. CASE CheckNotCommitted(n, scope, ctx, metered)
  BY <1>6, NoMove DEF CheckNotCommitted, LiveMove, chainVars
<1>7. CASE RecordPassthrough(n, scope, ctx)
  BY <1>2, <1>7 DEF RecordPassthrough, AllowEntry
<1> QED
  BY <1>1, <1>3, <1>4, <1>5, <1>6, <1>7
  DEF CheckDenied, CheckStruck, CheckDeniedUnpersisted, CheckUnrepresentable

\* A revocation is told whole, or, if the agent's name cannot be written, not.
LEMMA LifecycleMoves ==
    ASSUME NEW T, ledger \in Seq(T), IInv, NEW n \in held, LifecycleStep(n)
    PROVE  LiveMove
<1>1. ASSUME NEW e, Write(<<e>>), e.event \in {"deny", "outcome", "done"}, UNCHANGED chainVars
      PROVE  LiveMove
  <2>1. Stays
    BY <1>1, WriteOne, PlainMove DEF Writes, Structural, chainVars
  <2> QED
    BY <2>1 DEF LiveMove
<1>2. ASSUME NEW targets, NEW target, UNCHANGED nodes, revoked' = revoked \cup Cascade(targets),
             Write(<<KillEntry(target, Cascade(targets), PendingAtKill(Cascade(targets)))>>)
      PROVE  LiveMove
  <2>1. PICK e : e = KillEntry(target, Cascade(targets), PendingAtKill(Cascade(targets)))
    OBVIOUS
  <2>2. PICK d : d = DenyEntry(n, n, n, n)
    OBVIOUS
  <2>3. Writes(e) /\ d.event = "deny"
    BY <1>2, <2>1, <2>2, WriteOne DEF Writes, DenyEntry
  <2>4. KillsAll(Cascade(targets))
    BY <1>2, <2>1, <2>3, KillMove
  <2> QED
    BY <2>4 DEF LiveMove
<1>3. ASSUME NEW scope \in CheckedScopes, RecordDenial(n, scope) PROVE LiveMove
  BY <1>1, <1>3 DEF RecordDenial, DenyEntry
<1>4. ASSUME NEW call \in 1 .. issued, NEW params \in Params, RecordOutcome(n, call, params)
      PROVE  LiveMove
  BY <1>1, <1>4 DEF RecordOutcome, CommitOutcome, OutcomeEntry
<1>5. CASE Complete(n)
  BY <1>1, <1>5 DEF Complete, DoneEntry
<1>6. ASSUME NEW target \in NodeIds, Revoke(n, target) PROVE LiveMove
  BY <1>2, <1>6 DEF Revoke, RevokeNode
<1>7. ASSUME NEW agent \in Agents, RevokeByName(n, agent) PROVE LiveMove
  BY <1>2, <1>7 DEF RevokeByName, RevokeAgent
<1>8. ASSUME NEW agent \in Agents, RevokeByNameUnhashable(agent) PROVE LiveMove
  BY <1>8 DEF RevokeByNameUnhashable, RevokeAgent, guardVars, KillsUnseen, LiveMove
<1> QED
  BY <1>3, <1>4, <1>5, <1>6, <1>7, <1>8 DEF LifecycleStep

\* Every step of the guards does one of these to the tree.
LEMMA LiveMoves ==
    ASSUME SinkInv, [SinkNext]_<<allVars, sinkVars>>
    PROVE  LiveMove
<1>0. IInv /\ TypeOK /\ held \subseteq NodeIds
  BY DEF SinkInv, LedgerInv, GInv, IInv, HeldAreNodes
<1>1. PICK T : ledger \in Seq(T)
  BY DEF SinkInv, LedgerInv, Agrees
<1>2. ASSUME NEW n \in held, DelegationStep(n) \/ CheckStep(n) \/ LifecycleStep(n)
      PROVE  LiveMove
  BY <1>0, <1>1, <1>2, DelegationMoves, CheckMoves, LifecycleMoves
<1>3. ASSUME UNCHANGED <<nodes, revoked, ledger>> PROVE LiveMove
  BY <1>1, <1>3, NoMove DEF LiveMove
<1>4. CASE EnvironmentStep
  <2>1. CASE Tick
    BY <1>3, <1>4, <2>1 DEF EnvironmentStep, Tick, guardVars
  <2>2. ASSUME NEW n \in NodeIds, NEW a \in StrayAuthorities, StrayMutation(n, a)
        PROVE  LiveMove
    <3>1. /\ NodeIds' = NodeIds /\ UNCHANGED <<revoked, ledger>>
          /\ \A m \in NodeIds :
                /\ nodes'[m].parent = nodes[m].parent /\ nodes'[m].agent = nodes[m].agent
                /\ nodes'[m].seal = nodes[m].seal
      BY <1>0, <1>4, <2>2, StrayMutationFacts DEF EnvironmentStep, guardVars, StrayMutation
    <3>2. Fresh = {}
      BY <3>1 DEF Fresh
    <3>3. Stays
      BY <3>1, <3>2 DEF Stays, NodesSame
    <3> QED
      BY <3>3 DEF LiveMove
  <2> QED
    BY <1>4, <2>1, <2>2 DEF EnvironmentStep
<1>5. CASE [GuardNext]_allVars
  BY <1>2, <1>3, <1>4, <1>5 DEF GuardNext, allVars, chainVars, guardVars
<1>6. ASSUME NEW n \in held, SeenStep(n) PROVE LiveMove
  <2>1. /\ UNCHANGED chainVars
        /\ \E e : Write(<<e>>) /\ e.event \in {"allow", "deny", "outcome"}
    <3>1. ASSUME NEW scope, NEW ctx, NEW metered, NEW capture, NEW params,
                 AllowSeen(n, scope, ctx, metered, capture, params)
          PROVE  UNCHANGED chainVars /\ \E e : Write(<<e>>) /\ e.event \in {"allow", "deny", "outcome"}
      BY <3>1 DEF AllowSeen, CommitAllow, AllowEntry
    <3>2. ASSUME NEW scope, NEW ctx, NEW metered, DenialSeen(n, scope, ctx, metered)
          PROVE  UNCHANGED chainVars /\ \E e : Write(<<e>>) /\ e.event \in {"allow", "deny", "outcome"}
      BY <3>2 DEF DenialSeen, DenyEntry
    <3>3. ASSUME NEW call, NEW params, OutcomeSeen(n, call, params)
          PROVE  UNCHANGED chainVars /\ \E e : Write(<<e>>) /\ e.event \in {"allow", "deny", "outcome"}
      BY <3>3 DEF OutcomeSeen, CommitOutcome, OutcomeEntry
    <3> QED
      BY <1>6, <3>1, <3>2, <3>3 DEF SeenStep
  <2>2. Stays
    BY <1>1, <2>1, WriteOne, PlainMove DEF Writes, Structural, chainVars
  <2> QED
    BY <2>2 DEF LiveMove
<1>7. CASE Returns
  <2>1. CASE UNCHANGED <<chainVars, ledger>>
    BY <1>3, <2>1 DEF chainVars
  <2>2. CASE ~UNCHANGED <<chainVars, ledger>>
    <3>1. PICK n, e, d : /\ n = Top.node /\ d = DenyEntry(n, n, n, n)
                         /\ e = KillEntry(n, Cascade({n}), PendingAtKill(Cascade({n})))
      OBVIOUS
    <3>2. /\ RevokeNode(n) /\ Write(<<e>>) /\ d.event = "deny"
      BY <1>7, <2>2, <3>1 DEF Returns, AllowReturns, OutcomeReturns, DenialReturns, DenyEntry,
                              chainVars
    <3>3. Writes(e) /\ UNCHANGED nodes /\ revoked' = revoked \cup Cascade({n})
      BY <1>1, <3>2, WriteOne DEF Writes, RevokeNode
    <3>4. KillsAll(Cascade({n}))
      BY <1>0, <1>1, <3>1, <3>2, <3>3, KillMove
    <3> QED
      BY <3>4 DEF LiveMove
  <2> QED
    BY <2>1, <2>2
<1> QED
  BY <1>5, <1>6, <1>7 DEF SinkNext, allVars, sinkVars

-----------------------------------------------------------------------------
(* What the ledger tells of the live chain *)

\* An entry that defines a node tells its agent and its parent.
DefinitionsTell ==
    \A i \in Definitions(ledger) :
        LET e == ledger[i]
        IN  /\ e.node \in NodeIds /\ e.agent = nodes[e.node].agent /\ e.agent \notin Unhashable
            /\ e.event = "root" <=> e.node = 1
            /\ e.event = "spawn" => e.parent = nodes[e.node].parent
\* A node is defined before it is killed or done.
DefinitionsFirst ==
    \A i \in Definitions(ledger), j \in DOMAIN ledger :
        \/ ledger[j].event = "kill" /\ ledger[i].node \in ledger[j].revoked
        \/ ledger[j].event = "done" /\ ledger[i].node = ledger[j].node
        => i < j
\* What is revoked and shown is shown revoked; what is not shown has nothing below.
KillsTold == revoked \cap NodesOn(ledger) \subseteq KilledOn(ledger)
OrphansBarren == \A n \in NodeIds : nodes[n].parent \in NodesOn(ledger) \cup {NoParent}

LiveInv ==
    /\ TypedInv /\ FinishedAreDone
    /\ DefinitionsTell /\ DefinitionsFirst /\ KillsTold /\ OrphansBarren

\* A step of the chain leaves the nodes that are there as they are.
LEMMA NodesKept ==
    ASSUME IInv, [Next]_chainVars
    PROVE  NodesSame
<1>0. TypeOK /\ TreeWithinCeilings
  BY DEF IInv
<1>1. ASSUME NEW p \in NodeIds, NEW agent \in Agents, NEW request \in Requests,
             AddChild(p, agent, request)
      PROVE  NodesSame
  BY <1>0, <1>1, AddChildFacts DEF NodesSame
<1>2. ASSUME NEW m \in NodeIds, NEW a \in StrayAuthorities, StrayMutation(m, a)
      PROVE  NodesSame
  BY <1>0, <1>2, StrayMutationFacts DEF NodesSame
<1>3. CASE UNCHANGED nodes
  BY <1>3 DEF NodesSame, NodeIds
<1> QED
  BY <1>1, <1>2, <1>3 DEF Next, RevokeNode, RevokeAgent, Tick, chainVars

\* What is defined, and what is killed, after more entries.
LEMMA ReadAfterward ==
    ASSUME Extends
    PROVE  /\ Definitions(ledger') =
                  Definitions(ledger) \cup {i \in Fresh : ledger'[i].event \in {"root", "spawn"}}
           /\ KilledOn(ledger) \subseteq KilledOn(ledger')
           /\ \A k \in Fresh : ledger'[k].event = "kill" => ledger'[k].revoked \subseteq KilledOn(ledger')
           /\ (\A i \in Fresh : ledger'[i].event \notin {"root", "spawn"})
                => NodesOn(ledger') = NodesOn(ledger)
           /\ \A e, k : Fresh = {k} /\ ledger'[k] = e /\ e.event = "spawn"
                => NodesOn(ledger') = NodesOn(ledger) \cup {e.node}
<1>1. DOMAIN ledger' = DOMAIN ledger \cup Fresh /\ \A i \in DOMAIN ledger : ledger'[i] = ledger[i]
  BY DEF Extends, Fresh
<1>2. Definitions(ledger') =
          Definitions(ledger) \cup {i \in Fresh : ledger'[i].event \in {"root", "spawn"}}
  BY <1>1 DEF Definitions
<1>3. Entries(ledger, "kill") \subseteq Entries(ledger', "kill")
  BY <1>1 DEF Entries
<1>4. KilledOn(ledger) \subseteq KilledOn(ledger')
  BY <1>1, <1>3 DEF KilledOn, Entries
<1>5. \A k \in Fresh : ledger'[k].event = "kill" => ledger'[k].revoked \subseteq KilledOn(ledger')
  BY <1>1 DEF KilledOn, Entries
<1>6. \A i \in Definitions(ledger) : i \in DOMAIN ledger
  BY DEF Definitions
<1>7. (\A i \in Fresh : ledger'[i].event \notin {"root", "spawn"})
          => NodesOn(ledger') = NodesOn(ledger)
  BY <1>1, <1>2, <1>6 DEF NodesOn
<1>8. \A e, k : Fresh = {k} /\ ledger'[k] = e /\ e.event = "spawn"
          => NodesOn(ledger') = NodesOn(ledger) \cup {e.node}
  <2>1. SUFFICES ASSUME NEW e, NEW k, Fresh = {k}, ledger'[k] = e, e.event = "spawn"
                 PROVE  NodesOn(ledger') = NodesOn(ledger) \cup {e.node}
    OBVIOUS
  <2>2. Definitions(ledger') = Definitions(ledger) \cup {k}
    BY <1>2, <2>1
  <2> QED
    BY <1>1, <1>6, <2>1, <2>2 DEF NodesOn
<1> QED
  BY <1>2, <1>4, <1>5, <1>7, <1>8

\* The agents that no entry can name hold orphans, which have nothing below.
LEMMA UnseenAreOffLedger ==
    ASSUME LiveInv, NEW agent \in Unhashable
    PROVE  Cascade(HeldBy(agent)) \cap NodesOn(ledger) = {}
<1>1. HeldBy(agent) \cap NodesOn(ledger) = {}
  <2>1. SUFFICES ASSUME NEW n \in NodeIds, nodes[n].agent = agent, n \in NodesOn(ledger)
                 PROVE  FALSE
    BY DEF HeldBy
  <2>2. PICK i \in Definitions(ledger) : ledger[i].node = n
    BY <2>1 DEF NodesOn
  <2> QED
    BY <2>1, <2>2 DEF LiveInv, DefinitionsTell
<1>2. PICK T : T = HeldBy(agent) /\ T \subseteq NodeIds
  BY DEF HeldBy
<1>3. ClosedDownwards(T)
  <2>1. SUFFICES ASSUME NEW m \in NodeIds, nodes[m].parent \in T PROVE m \in T
    BY DEF ClosedDownwards
  <2>2. nodes[m].parent \in NodesOn(ledger) \cup {NoParent} /\ NoParent \notin NodeIds
    BY DEF LiveInv, OrphansBarren, NoParent, NodeIds
  <2> QED
    BY <1>1, <1>2, <2>1, <2>2
<1>4. Cascade(T) \subseteq T
  BY <1>2, <1>3 DEF Cascade
<1> QED
  BY <1>1, <1>2, <1>4

\* The tree on the ledger, through a step that writes no definition.
LEMMA LiveAfterOthers ==
    ASSUME LiveInv, TypedInv', FinishedAreDone', Extends, NodesSame,
           \A i \in Fresh : ledger'[i].event \notin {"root", "spawn"},
           revoked' \cap NodesOn(ledger) \subseteq KilledOn(ledger'),
           \A n \in NodeIds' \ NodeIds : nodes'[n].parent \in held
    PROVE  LiveInv'
<1>1. /\ Definitions(ledger') = Definitions(ledger) /\ NodesOn(ledger') = NodesOn(ledger)
      /\ DOMAIN ledger' = DOMAIN ledger \cup Fresh
      /\ \A i \in DOMAIN ledger : ledger'[i] = ledger[i] /\ \A j \in Fresh : i < j
      /\ \A i \in Definitions(ledger) : i \in DOMAIN ledger
  <2>1. \A i \in Definitions(ledger) : i \in DOMAIN ledger
    BY DEF Definitions
  <2> QED
    BY <2>1, ReadAfterward DEF Extends, Fresh
<1>2. DefinitionsTell'
  BY <1>1 DEF LiveInv, DefinitionsTell, NodesSame
<1>3. DefinitionsFirst'
  BY <1>1 DEF LiveInv, DefinitionsFirst
<1>4. OrphansBarren'
  BY <1>1 DEF LiveInv, OrphansBarren, NodesSame, TypedInv, SinkInv, LedgerInv, Agrees
<1> QED
  BY <1>1, <1>2, <1>3, <1>4 DEF LiveInv, KillsTold

\* The tree on the ledger, through a spawn.
LEMMA LiveAfterSpawn ==
    ASSUME LiveInv, TypedInv', FinishedAreDone', Extends, NodesSame,
           NEW p, NEW e, Spawns(p, e)
    PROVE  LiveInv'
<1>0. /\ IInv /\ TypeOK /\ TreeWithinCeilings /\ p \in NodeIds
      /\ held \subseteq NodesOn(ledger) /\ KilledOn(ledger) \subseteq revoked
      /\ revoked \subseteq NodeIds /\ held \subseteq NodeIds /\ complete \subseteq NodeIds
  BY DEF LiveInv, TypedInv, SinkInv, LedgerInv, GInv, HeldAreNodes, IInv, TypeOK, Agrees,
         GuardTypeOK, Spawns, AddsChild
<1>1. PICK T : ledger \in Seq(T)
  BY DEF LiveInv, TypedInv, SinkInv, LedgerInv, Agrees
<1>2. PICK k \in Nat : Fresh = {k} /\ ledger'[k] = e
  BY <1>1, WritesExtend DEF Spawns
<1>3. PICK c : c = Len(nodes) + 1
  OBVIOUS
<1>4. /\ NodeIds' = NodeIds \cup {c} /\ UNCHANGED revoked /\ c \notin NodeIds /\ c # 1
      /\ nodes'[c].parent = p
  <2>1. PICK agent \in Agents, request \in Requests : AddChild(p, agent, request)
    BY DEF Spawns, AddsChild
  <2>2. /\ NodeIds' = NodeIds \cup {c} /\ UNCHANGED revoked
        /\ nodes'[c] = NewNode(p, agent, nodes[p].depth + 1, now, Meet(nodes[p].auth, request))
    BY <1>0, <1>3, <2>1, AddChildFacts
  <2>3. c \notin NodeIds /\ c # 1
    BY <1>0, <1>3, NodeFacts DEF NodeIds
  <2> QED
    BY <2>2, <2>3 DEF NewNode
<1>5. e.event = "spawn" /\ e.parent = p /\ e.node = c /\ e.agent = nodes'[c].agent
      /\ e.agent \notin Unhashable
  BY <1>3 DEF Spawns
<1>6. /\ Definitions(ledger') = Definitions(ledger) \cup {k}
      /\ NodesOn(ledger') = NodesOn(ledger) \cup {c}
      /\ KilledOn(ledger) \subseteq KilledOn(ledger')
  BY <1>2, <1>5, ReadAfterward
<1>7. /\ DOMAIN ledger' = DOMAIN ledger \cup {k} /\ k \notin DOMAIN ledger
      /\ \A i \in DOMAIN ledger : ledger'[i] = ledger[i] /\ i < k
      /\ \A i \in Definitions(ledger) : i \in DOMAIN ledger
  BY <1>2 DEF Extends, Fresh, Definitions
<1>8. DefinitionsTell'
  BY <1>2, <1>4, <1>5, <1>6, <1>7 DEF LiveInv, DefinitionsTell, NodesSame
<1>9. DefinitionsFirst'
  <2>1. ASSUME NEW j \in DOMAIN ledger
        PROVE  /\ ~(ledger[j].event = "kill" /\ c \in ledger[j].revoked)
               /\ ~(ledger[j].event = "done" /\ c = ledger[j].node)
    <3>1. c \notin KilledOn(ledger) /\ c \notin Finalized(ledger)
      BY <1>0, <1>4 DEF LiveInv, FinishedAreDone
    <3> QED
      BY <3>1 DEF KilledOn, Finalized, Entries
  <2> QED
    BY <1>2, <1>5, <1>6, <1>7, <2>1 DEF LiveInv, DefinitionsFirst
<1>10. KillsTold'
  BY <1>0, <1>4, <1>6 DEF LiveInv, KillsTold
<1>11. OrphansBarren'
  BY <1>0, <1>4, <1>6 DEF LiveInv, OrphansBarren, NodesSame, Spawns, AddsChild
<1> QED
  BY <1>8, <1>9, <1>10, <1>11 DEF LiveInv

\* What the ledger tells stays true through every step.
LEMMA LiveNext ==
    ASSUME LiveInv, [SinkNext]_<<allVars, sinkVars>>
    PROVE  LiveInv'
<1>1. TypedInv' /\ SinkStep /\ [Next]_chainVars
  BY TypedNext DEF LiveInv
<1>2. /\ IInv /\ TypeOK /\ TreeWithinCeilings /\ SinkInv
      /\ NodesOn(ledger) \subseteq NodeIds /\ held \subseteq NodesOn(ledger)
  BY DEF LiveInv, TypedInv, SinkInv, LedgerInv, GInv, IInv, Agrees, NodeIds
<1>3. Extends /\ NodesSame /\ FinishedAreDone'
  BY <1>1, <1>2, FreshHolds, FinishedNext, NodesKept DEF LiveInv, FreshFacts
<1>4. KillsTold
  BY DEF LiveInv
<1>5. CASE Stays
  BY <1>1, <1>3, <1>4, <1>5, LiveAfterOthers, ReadAfterward DEF Stays, Structural, KillsTold
<1>6. ASSUME NEW p, NEW e, Spawns(p, e) PROVE LiveInv'
  BY <1>1, <1>3, <1>6, LiveAfterSpawn
<1>7. ASSUME NEW p, SpawnsUnseen(p) PROVE LiveInv'
  <2>1. PICK agent \in Agents, request \in Requests : AddChild(p, agent, request)
    BY <1>7 DEF SpawnsUnseen, AddsChild
  <2>2. PICK c : c = Len(nodes) + 1
    OBVIOUS
  <2>3. /\ NodeIds' = NodeIds \cup {c} /\ UNCHANGED revoked
        /\ nodes'[c] = NewNode(p, agent, nodes[p].depth + 1, now, Meet(nodes[p].auth, request))
    BY <1>2, <1>7, <2>1, <2>2, AddChildFacts DEF SpawnsUnseen, AddsChild
  <2>4. nodes'[c].parent \in held
    BY <1>7, <2>3 DEF NewNode, SpawnsUnseen, AddsChild
  <2>5. Fresh = {} /\ ledger' = ledger
    BY <1>7 DEF SpawnsUnseen, Fresh
  <2> QED
    BY <1>1, <1>3, <1>4, <2>3, <2>4, <2>5, LiveAfterOthers DEF KillsTold
<1>8. ASSUME NEW killed, KillsAll(killed) PROVE LiveInv'
  <2>1. killed \subseteq KilledOn(ledger') /\ KilledOn(ledger) \subseteq KilledOn(ledger')
    BY <1>3, <1>8, ReadAfterward DEF KillsAll
  <2>2. NodeIds' = NodeIds /\ revoked' = revoked \cup killed
        /\ \A i \in Fresh : ledger'[i].event \notin {"root", "spawn"}
    BY <1>8 DEF KillsAll, NodeIds
  <2> QED
    BY <1>1, <1>3, <1>4, <2>1, <2>2, LiveAfterOthers DEF KillsTold
<1>9. CASE KillsUnseen
  <2>1. PICK agent \in Unhashable : revoked' = revoked \cup Cascade(HeldBy(agent))
    BY <1>9 DEF KillsUnseen
  <2>2. NodeIds' = NodeIds /\ ledger' = ledger /\ Fresh = {}
    BY <1>9 DEF KillsUnseen, NodeIds, Fresh
  <2>3. Cascade(HeldBy(agent)) \cap NodesOn(ledger) = {}
    BY UnseenAreOffLedger
  <2> QED
    BY <1>1, <1>3, <1>4, <2>1, <2>2, <2>3, LiveAfterOthers DEF KillsTold
<1> QED
  BY <1>2, <1>5, <1>6, <1>7, <1>8, <1>9, LiveMoves DEF LiveMove

\* A root entry tells of the root.
LEMMA LiveInit ==
    ASSUME SinkInit
    PROVE  LiveInv
<1>1. TypedInv
  BY TypedInit
<1>2. PICK r : r = RootEntry(1, nodes[1].agent, nodes[1].auth)
  OBVIOUS
<1>3. /\ ledger = <<r>> /\ r.event = "root" /\ r.node = 1 /\ r.agent = nodes[1].agent
      /\ r.agent \notin Unhashable /\ complete = {}
  BY <1>2 DEF SinkInit, GuardInit, RootEntry
<1>4. NodeIds = {1} /\ nodes[1].parent = NoParent /\ revoked = {}
  BY DEF SinkInit, GuardInit, Init, NodeIds, NewNode
<1>5. DOMAIN ledger = {1} /\ ledger[1] = r
  BY <1>3
<1>6. Definitions(ledger) = {1} /\ Entries(ledger, "done") = {}
  BY <1>3, <1>5 DEF Definitions, Entries
<1>7. FinishedAreDone
  BY <1>3, <1>6 DEF FinishedAreDone, Finalized
<1>8. DefinitionsTell /\ DefinitionsFirst
  BY <1>3, <1>4, <1>5, <1>6 DEF DefinitionsTell, DefinitionsFirst
<1> QED
  BY <1>1, <1>4, <1>7, <1>8 DEF LiveInv, KillsTold, OrphansBarren

\* What is read of a node of the ledger.
LEMMA ReadNode ==
    ASSUME LiveInv, NEW n \in NodesOn(ledger)
    PROVE  /\ DefinitionOf(ledger, n) \in Definitions(ledger)
           /\ ledger[DefinitionOf(ledger, n)].node = n
           /\ n \in NodeIds
           /\ ledger[DefinitionOf(ledger, n)].agent = nodes[n].agent
           /\ ledger[DefinitionOf(ledger, n)].event = "root" <=> n = 1
           /\ ledger[DefinitionOf(ledger, n)].event = "spawn" =>
                  ledger[DefinitionOf(ledger, n)].parent = nodes[n].parent
           /\ AuthorityOn(ledger, n) = nodes[n].seal
           /\ ledger[DefinitionOf(ledger, n)].authority = nodes[n].seal
<1>1. PICK i \in Definitions(ledger) : ledger[i].node = n
  BY DEF NodesOn
<1>2. DOMAIN ledger \subseteq Nat /\ Monotonicity(ledger) /\ AuthorityOn(ledger, n) = nodes[n].seal
  BY DEF LiveInv, TypedInv, SinkInv, LedgerInv, Agrees, Verifies
<1>3. DefinitionOf(ledger, n) = i
  BY <1>1, <1>2, DefinedOnce
<1> QED
  BY <1>1, <1>2, <1>3 DEF LiveInv, DefinitionsTell, AuthorityOn

\* The view a reviewer renders from the entries is the running chain, however
\* its operations interleaved with their sinks: nothing that was killed or
\* finished is missing, and no node that the ledger does not show can act.
THEOREM LedgerShowsChain == SinkSpec => []LedgerShowsLiveState
<1>1. SinkInit => LiveInv
  BY LiveInit
<1>2. LiveInv /\ [SinkNext]_<<allVars, sinkVars>> => LiveInv'
  BY LiveNext
<1>3. LiveInv => LedgerShowsLiveState
  <2> SUFFICES ASSUME LiveInv PROVE LedgerShowsLiveState
    OBVIOUS
  <2>0. /\ DefinitionsFirst /\ KillsTold /\ OrphansBarren /\ FinishedAreDone
        /\ TypeOK /\ TreeWithinCeilings
        /\ held \subseteq NodesOn(ledger) /\ KilledOn(ledger) \subseteq revoked
    BY DEF LiveInv, TypedInv, SinkInv, LedgerInv, GInv, IInv, Agrees
  <2>1. ASSUME NEW n \in NodesOn(ledger)
        PROVE  /\ n \in NodeIds
               /\ DelegationGraph(ledger)[n] =
                    [agent |-> nodes[n].agent, parent |-> nodes[n].parent,
                     scopes |-> nodes[n].seal.scopes,
                     revoked |-> n \in revoked, complete |-> n \in complete]
               /\ AuthorityOn(ledger, n) = nodes[n].seal
    <3>1. PICK i : i = DefinitionOf(ledger, n)
      OBVIOUS
    <3>2. /\ i \in Definitions(ledger) /\ ledger[i].node = n /\ n \in NodeIds
          /\ ledger[i].agent = nodes[n].agent /\ ledger[i].authority = nodes[n].seal
          /\ ledger[i].event = "root" <=> n = 1
          /\ ledger[i].event = "spawn" => ledger[i].parent = nodes[n].parent
          /\ AuthorityOn(ledger, n) = nodes[n].seal
      BY <3>1, ReadNode
    <3>3. (IF ledger[i].event = "root" THEN Nobody ELSE ledger[i].parent) = nodes[n].parent
      <4>1. ledger[i].event \in {"root", "spawn"}
        BY <3>2 DEF Definitions
      <4>2. nodes[n].parent = NoParent <=> n = 1
        BY <2>0, <3>2 DEF TreeWithinCeilings
      <4> QED
        BY <3>2, <4>1, <4>2 DEF Nobody, NoParent
    <3>4. PICK killed, finished :
              /\ killed = UNION {ledger[j].revoked : j \in {k \in Entries(ledger, "kill") : i < k}}
              /\ finished = {ledger[j].node : j \in {k \in Entries(ledger, "done") : i < k}}
      OBVIOUS
    <3>5. n \in killed <=> n \in revoked
      <4>1. ASSUME n \in revoked
            PROVE  n \in killed
        <5>1. PICK j \in Entries(ledger, "kill") : n \in ledger[j].revoked
          BY <2>0, <4>1 DEF KillsTold, KilledOn
        <5>2. i < j
          BY <2>0, <3>2, <5>1 DEF DefinitionsFirst, Entries
        <5> QED
          BY <3>4, <5>1, <5>2
      <4>2. killed \subseteq revoked
        BY <2>0, <3>4 DEF KilledOn
      <4> QED
        BY <4>1, <4>2
    <3>6. n \in finished <=> n \in complete
      <4>1. ASSUME n \in complete
            PROVE  n \in finished
        <5>1. PICK j \in Entries(ledger, "done") : n = ledger[j].node
          BY <2>0, <4>1 DEF FinishedAreDone, Finalized
        <5>2. i < j
          BY <2>0, <3>2, <5>1 DEF DefinitionsFirst, Entries
        <5> QED
          BY <3>4, <5>1, <5>2
      <4>2. finished \subseteq complete
        BY <2>0, <3>4 DEF FinishedAreDone, Finalized
      <4> QED
        BY <4>1, <4>2
    <3>7. DelegationGraph(ledger)[n] =
            [agent |-> ledger[i].agent,
             parent |-> IF ledger[i].event = "root" THEN Nobody ELSE ledger[i].parent,
             scopes |-> ledger[i].authority.scopes,
             revoked |-> n \in killed, complete |-> n \in finished]
      BY <3>1, <3>4 DEF DelegationGraph
    <3> QED
      BY <3>2, <3>3, <3>5, <3>6, <3>7
  <2>2. held \cap Orphans = {}
    BY <2>0 DEF Orphans
  <2>3. \A n \in Orphans : Children(n) = {}
    BY <2>0 DEF Orphans, Children, OrphansBarren, NoParent, NodeIds
  <2>4. DOMAIN DelegationGraph(ledger) = NodesOn(ledger)
    BY DEF DelegationGraph
  <2> QED
    BY <2>1, <2>2, <2>3, <2>4 DEF LedgerShowsLiveState
<1> QED
  BY <1>1, <1>2, <1>3, PTL DEF SinkSpec

-----------------------------------------------------------------------------
(* What the verifier calls clean *)

\* With nothing under way, the calls that are pending on a node are those the
\* verifier cannot account for.
LEMMA PendingIsUnaccounted ==
    ASSUME BindingInv, ~Misreported, early = {}, inside = <<>>, NEW n
    PROVE  PendingFor(n) = UnaccountedAt(ledger, n)
<1>1. PICK T : ledger \in Seq(T)
  BY DEF BindingInv, TypedInv, SinkInv, LedgerInv, Agrees
<1>2. CallsDrawn /\ OutcomesOnce /\ PromisedWait /\ PendingWait /\ pending \subseteq held \X (1 .. issued)
  BY DEF BindingInv, EntriesInv, AwaitInv, TypedInv, GuardTypeOK
<1>3. Registering = {} /\ Resolving = {}
  BY DEF Registering, Resolving, Underways
<1>4. \A c : c \in OutcomeCalls <=> OutcomesOf(ledger, c) # {}
  BY DEF OutcomeCalls, OutcomesOf
<1>5. Observed(ledger) = {c \in Calls(ledger) : c \in OutcomeCalls}
  BY <1>1, <1>2, <1>4, ReportedAreObserved DEF Reported
<1>6. \A a \in Entries(ledger, "allow") : AllowOf(ledger, ledger[a].call) = a
  BY <1>1, <1>2, CallsRead
<1>7. \A c : c \in UnaccountedAt(ledger, n) <=> <<n, c>> \in PromisedCalls /\ c \notin OutcomeCalls
  <2>1. ASSUME NEW c \in UnaccountedAt(ledger, n)
        PROVE  <<n, c>> \in PromisedCalls /\ c \notin OutcomeCalls
    <3>1. c \in Calls(ledger) /\ c \notin OutcomeCalls /\ ledger[AllowOf(ledger, c)].capture # PreHookOnly
          /\ ledger[AllowOf(ledger, c)].node = n
      BY <1>5 DEF UnaccountedAt, Unaccounted, Unobserved
    <3>2. PICK a \in Entries(ledger, "allow") : ledger[a].call = c
      BY <3>1 DEF Calls
    <3>3. Promised(a) /\ ledger[a].node = n /\ a \in DOMAIN ledger
      BY <1>6, <3>1, <3>2 DEF Promised, Entries
    <3> QED
      BY <3>1, <3>2, <3>3 DEF PromisedCalls
  <2>2. ASSUME NEW c, <<n, c>> \in PromisedCalls, c \notin OutcomeCalls
        PROVE  c \in UnaccountedAt(ledger, n)
    <3>1. PICK a \in DOMAIN ledger : Promised(a) /\ ledger[a].node = n /\ ledger[a].call = c
      BY <2>2 DEF PromisedCalls
    <3>2. a \in Entries(ledger, "allow") /\ ledger[a].capture # PreHookOnly
      BY <3>1 DEF Promised, Entries
    <3>3. c \in Calls(ledger) /\ AllowOf(ledger, c) = a
      BY <1>6, <3>1, <3>2 DEF Calls
    <3> QED
      BY <1>5, <2>2, <3>1, <3>2, <3>3 DEF UnaccountedAt, Unaccounted, Unobserved
  <2> QED
    BY <2>1, <2>2
<1>8. \A c : c \in PendingFor(n) <=> <<n, c>> \in PromisedCalls /\ c \notin OutcomeCalls
  <2>1. \A c : c \in PendingFor(n) <=> <<n, c>> \in pending
    <3>1. PICK H, C : pending \subseteq H \X C
      BY <1>2
    <3>2. \A p \in pending : p = <<p[1], p[2]>>
      BY <3>1
    <3> QED
      BY <3>2 DEF PendingFor
  <2> QED
    BY <1>2, <1>3, <2>1 DEF PromisedWait, PendingWait
<1> QED
  BY <1>7, <1>8

\* The verifier says clean of a ledger just when the running chain is closed
\* out, if its application reported what happened.
THEOREM CleanMeansClosedOut ==
    ASSUME IsV2
    PROVE  SinkSpec => []CleanIffClosedOut
<1>1. BindingInv /\ LiveInv => CleanIffClosedOut
  <2> SUFFICES ASSUME BindingInv, LiveInv, ~Misreported, early = {}, inside = <<>>
               PROVE  Aggregate(ledger) = "clean" <=> ClosedOut
    BY DEF CleanIffClosedOut
  <2>1. PICK T : ledger \in Seq(T)
    BY DEF LiveInv, TypedInv, SinkInv, LedgerInv, Agrees
  <2>2. /\ CallsDrawn /\ OutcomesOnce /\ FinishedAreDone /\ OutcomesMarked
        /\ KillsTold /\ KilledOn(ledger) \subseteq revoked /\ EntriesInv
    BY DEF BindingInv, EntriesInv, AwaitInv, LiveInv, TypedInv, SinkInv, LedgerInv, Agrees
  <2>3. ~BindingFailed(ledger)
    BY <2>1, <2>2, BindingHolds
  <2>4. Unobserved(ledger) = {} <=>
            \A i \in Entries(ledger, "allow") : ~Promised(i) => ledger[i].call \in outcomed
    <3>1. outcomed = OutcomeCalls
      <4>1. Resolving = {}
        BY DEF Resolving, Underways
      <4> QED
        BY <2>2, <4>1 DEF OutcomesMarked
    <3>2. Observed(ledger) = {c \in Calls(ledger) : c \in OutcomeCalls}
      <4>1. \A c : c \in OutcomeCalls <=> OutcomesOf(ledger, c) # {}
        BY DEF OutcomeCalls, OutcomesOf
      <4> QED
        BY <2>1, <2>2, <4>1, ReportedAreObserved DEF Reported
    <3>3. \A a \in Entries(ledger, "allow") : AllowOf(ledger, ledger[a].call) = a
      BY <2>1, <2>2, CallsRead
    <3>4. \A a \in Entries(ledger, "allow") : ~Promised(a) <=> ledger[a].capture = PreHookOnly
      BY DEF Promised, Entries
    <3> QED
      BY <3>1, <3>2, <3>3, <3>4 DEF Unobserved, Calls
  <2>5. ASSUME NEW n \in NodesOn(ledger)
        PROVE  Lifecycle(ledger, n) \notin {"in_progress", "revoked_with_pending"}
                   <=> n \in complete \cup revoked /\ PendingFor(n) = {}
    <3>1. PendingFor(n) = UnaccountedAt(ledger, n)
      BY PendingIsUnaccounted
    <3>2. n \in Finalized(ledger) => UnaccountedAt(ledger, n) = {}
      BY <2>3 DEF BindingFailed
    <3>3. n \in revoked <=> n \in KilledOn(ledger)
      BY <2>2 DEF KillsTold
    <3>4. complete = Finalized(ledger)
      BY <2>2 DEF FinishedAreDone
    <3>5. CASE n \in Finalized(ledger)
      BY <3>1, <3>2, <3>4, <3>5 DEF Lifecycle
    <3>6. CASE n \in KilledOn(ledger) \ Finalized(ledger)
      BY <3>1, <3>3, <3>6 DEF Lifecycle
    <3>7. CASE n \notin KilledOn(ledger) \cup Finalized(ledger)
      BY <3>3, <3>4, <3>7 DEF Lifecycle
    <3> QED
      BY <3>5, <3>6, <3>7
  <2>6. Aggregate(ledger) = "clean" <=>
            /\ Unobserved(ledger) = {}
            /\ \A n \in NodesOn(ledger) :
                  Lifecycle(ledger, n) \notin {"in_progress", "revoked_with_pending"}
    <3>1. CASE \/ Unobserved(ledger) # {}
               \/ \E n \in NodesOn(ledger) :
                     Lifecycle(ledger, n) \in {"in_progress", "revoked_with_pending"}
      BY <2>3, <3>1 DEF Aggregate
    <3>2. CASE ~ \/ Unobserved(ledger) # {}
                 \/ \E n \in NodesOn(ledger) :
                       Lifecycle(ledger, n) \in {"in_progress", "revoked_with_pending"}
      BY <2>3, <3>2 DEF Aggregate
    <3> QED
      BY <3>1, <3>2
  <2> QED
    BY <2>4, <2>5, <2>6 DEF ClosedOut
<1>2. SinkInit => LiveInv
  BY LiveInit
<1>3. LiveInv /\ [SinkNext]_<<allVars, sinkVars>> => LiveInv'
  BY LiveNext
<1> QED
  BY <1>1, <1>2, <1>3, BindingAlways, PTL DEF SinkSpec

-----------------------------------------------------------------------------
(* The ledger implements the delegation tree *)

\* What the ledger says the tree is, node by node.
LedgerTells ==
    /\ NodesOn(ledger) \subseteq NodeIds
    /\ LedgerTree =
           [n \in NodesOn(ledger) |-> [parent |-> nodes[n].parent, grant |-> nodes[n].seal]]
    /\ KilledOn(ledger) \cap NodesOn(ledger) = revoked \cap NodesOn(ledger)
    /\ \A n \in NodesOn(ledger) : nodes[n].parent \in NodesOn(ledger) \cup {NoParent}

\* The tree read off the ledger is the part of the chain that it shows.
LEMMA TreeIsTold ==
    ASSUME LiveInv
    PROVE  LedgerTells
<1>1. /\ NodesOn(ledger) \subseteq NodeIds /\ TreeWithinCeilings
      /\ KilledOn(ledger) \subseteq revoked /\ KillsTold /\ OrphansBarren
  BY DEF LiveInv, TypedInv, SinkInv, LedgerInv, GInv, IInv, Agrees, NodeIds
<1>2. ASSUME NEW n \in NodesOn(ledger)
      PROVE  /\ (IF ledger[DefinitionOf(ledger, n)].event = "root" THEN NoParent ELSE ParentOn(n))
                    = nodes[n].parent
             /\ AuthorityOn(ledger, n) = nodes[n].seal
  <2>1. PICK i : i = DefinitionOf(ledger, n)
    OBVIOUS
  <2>2. /\ i \in Definitions(ledger) /\ n \in NodeIds
        /\ ledger[i].event = "root" <=> n = 1
        /\ ledger[i].event = "spawn" => ledger[i].parent = nodes[n].parent
        /\ AuthorityOn(ledger, n) = nodes[n].seal
    BY <2>1, ReadNode
  <2>3. ledger[i].event \in {"root", "spawn"} /\ (nodes[n].parent = NoParent <=> n = 1)
    BY <1>1, <2>2 DEF Definitions, TreeWithinCeilings
  <2> QED
    BY <2>1, <2>2, <2>3 DEF ParentOn
<1>3. LedgerTree =
          [n \in NodesOn(ledger) |-> [parent |-> nodes[n].parent, grant |-> nodes[n].seal]]
  BY <1>2 DEF LedgerTree
<1>4. KilledOn(ledger) \cap NodesOn(ledger) = revoked \cap NodesOn(ledger)
  BY <1>1 DEF KillsTold
<1> QED
  BY <1>1, <1>3, <1>4 DEF LedgerTells, OrphansBarren

\* The line of a node, read off the ledger, is its path in the chain: what is
\* missing from the ledger has nothing below.
LEMMA RecordedLine ==
    ASSUME LedgerTells, NEW n \in NodesOn(ledger)
    PROVE  Recorded!Line(n) = AncestorsOrSelf(n)
<1>1. DOMAIN LedgerTree = NodesOn(ledger)
      /\ \A a \in NodesOn(ledger) : LedgerTree[a].parent = nodes[a].parent
  BY DEF LedgerTells
<1>2. ASSUME NEW S \in SUBSET NodesOn(ledger)
      PROVE  Recorded!ClosedUp(S) <=> ClosedUpwards(S)
  BY <1>1 DEF Recorded!ClosedUp, Recorded!Top, ClosedUpwards, NoParent
<1>3. Recorded!Line(n) = {a \in NodesOn(ledger) :
          \A S \in SUBSET NodesOn(ledger) : n \in S /\ Recorded!ClosedUp(S) => a \in S}
  BY <1>1 DEF Recorded!Line, Recorded!Nodes
<1>4. ASSUME NEW a \in NodesOn(ledger),
             \A S \in SUBSET NodesOn(ledger) : n \in S /\ ClosedUpwards(S) => a \in S
      PROVE  a \in AncestorsOrSelf(n)
  <2>1. SUFFICES ASSUME NEW S \in SUBSET NodeIds, n \in S, ClosedUpwards(S)
                 PROVE  a \in S
    BY DEF AncestorsOrSelf, LedgerTells
  <2>2. ClosedUpwards(S \cap NodesOn(ledger))
    BY <2>1 DEF ClosedUpwards, LedgerTells
  <2> QED
    BY <1>4, <2>1, <2>2
<1>5. ASSUME NEW a \in AncestorsOrSelf(n)
      PROVE  a \in NodesOn(ledger)
             /\ \A S \in SUBSET NodesOn(ledger) : n \in S /\ ClosedUpwards(S) => a \in S
  <2>1. NodesOn(ledger) \in SUBSET NodeIds /\ ClosedUpwards(NodesOn(ledger))
    BY DEF LedgerTells, ClosedUpwards
  <2> QED
    BY <2>1 DEF AncestorsOrSelf
<1> QED
  BY <1>2, <1>3, <1>4, <1>5

\* The acts on a ledger that got more entries.
LEMMA ActsAfterward ==
    ASSUME Extends
    PROVE  /\ Gated(ledger') = Gated(ledger) \cup
                  {i \in Fresh : ledger'[i].event = "allow" /\ ledger'[i].policy = NoPolicy}
           /\ \A i \in Gated(ledger) : i \in DOMAIN ledger /\ ledger'[i] = ledger[i]
           /\ Gated(ledger) \cap Fresh = {}
  BY DEF Extends, Fresh, Gated, Entries

\* Meters fill a context with numbers.
LEMMA FilledIsReadable ==
    ASSUME GuardTypeOK, Readable, NEW n \in held, NEW scope \in CheckedScopes, NEW ctx \in Contexts,
           NEW f \in DOMAIN FillMeters(n, scope, ctx)
    PROVE  FillMeters(n, scope, ctx)[f] \in JsonValue
<1>1. CASE f \in DOMAIN ctx
  BY <1>1 DEF FillMeters, Readable
<1>2. CASE f \notin DOMAIN ctx
  <2>1. PICK k : k = CHOOSE l \in AutoMetered(n, ctx) : nodes[n].auth.ceilings[l].field = f
    OBVIOUS
  <2>2. \E l \in AutoMetered(n, ctx) : nodes[n].auth.ceilings[l].field = f
    BY <1>2 DEF FillMeters
  <2>3. k \in CallKeys
    BY <2>1, <2>2 DEF AutoMetered, CallLimits
  <2>4. PICK c : c = calls[n][k] + (IF k \in Counted(n, scope, ctx) THEN 1 ELSE 0)
    OBVIOUS
  <2>5. c \in Int
    <3>1. calls[n][k] \in Nat
      BY <2>3 DEF GuardTypeOK
    <3> QED
      BY <2>4, <3>1
  <2>6. FillMeters(n, scope, ctx)[f] = Number(c)
    BY <1>2, <2>1, <2>4 DEF FillMeters
  <2> QED
    BY <2>5, <2>6 DEF Number, JsonValue
<1> QED
  BY <1>1, <1>2

\* What the refinement is read off, and the other two parts of the tree.
RecordedInv == LiveInv /\ TreeInv /\ OneMeaning

RecordedActs == [i \in Gated(ledger) |-> ledger[i]]
RecordedDead == KilledOn(ledger) \cap NodesOn(ledger)

\* The tree on the ledger stays when no definition is added.
LEMMA SameTree ==
    ASSUME LedgerTells, LedgerTells', NodesSame, NodesOn(ledger') = NodesOn(ledger)
    PROVE  LedgerTree' = LedgerTree
<1>1. \A n \in NodesOn(ledger) : nodes'[n].parent = nodes[n].parent /\ nodes'[n].seal = nodes[n].seal
  BY DEF LedgerTells, NodesSame
<1> QED
  BY <1>1 DEF LedgerTells

\* The acts stay when no authorized allow is added.
LEMMA SameActs ==
    ASSUME Extends, \A i \in Fresh : ~(ledger'[i].event = "allow" /\ ledger'[i].policy = NoPolicy)
    PROVE  RecordedActs' = RecordedActs
<1>1. Gated(ledger') = Gated(ledger) /\ \A i \in Gated(ledger) : ledger'[i] = ledger[i]
  BY ActsAfterward
<1> QED
  BY <1>1 DEF RecordedActs

\* An act that the verifier finds within its node's authority is within the
\* authority of the line, which is alive.
LEMMA ActFitsLine ==
    ASSUME RecordedInv, LiveInv', Readable, FreshFacts, LedgerTells, Stays, NEW k \in Fresh,
           ledger'[k].event = "allow", ledger'[k].policy = NoPolicy
    PROVE  /\ ledger'[k].node \in NodesOn(ledger)
           /\ AncestorsOrSelf(ledger'[k].node) \cap revoked = {}
           /\ \A a \in AncestorsOrSelf(ledger'[k].node) :
                 Permits(nodes[a].seal, ledger'[k].scope, ledger'[k].ctx)
<1>1. PICK e, n : e = ledger'[k] /\ n = e.node
  OBVIOUS
<1>2. /\ Extends /\ n \in held /\ IsRequest(e)
      /\ IInv /\ TypeOK /\ GuardTypeOK /\ OneMeaning
      /\ \A i \in Fresh : i = k
      /\ \A i \in Fresh : ledger'[i].event \notin {"root", "spawn", "kill"}
  BY <1>1 DEF FreshFacts, FreshIsSound, RecordedInv, LiveInv, TypedInv, SinkInv, LedgerInv, GInv,
              IInv, Stays, Structural
<1>3. k \in Gated(ledger') /\ Containment(ledger')
  BY <1>2, ActsAfterward DEF LiveInv, TypedInv, SinkInv, LedgerInv, Agrees, Verifies
<1>4. /\ n \in DefinedBefore(ledger', k) /\ n \notin KilledBefore(ledger', k)
      /\ Permits(AuthorityOn(ledger', n), e.scope, e.ctx)
  BY <1>1, <1>3 DEF Containment
<1>5. NodesOn(ledger') = NodesOn(ledger) /\ n \in NodesOn(ledger)
  <2>1. NodesOn(ledger') = NodesOn(ledger)
    BY <1>2, ReadAfterward
  <2> QED
    BY <1>4, <2>1 DEF DefinedBefore, NodesOn
<1>6. AuthorityOn(ledger', n) = nodes[n].seal
  <2>1. AuthorityOn(ledger', n) = nodes'[n].seal
    BY <1>5 DEF LiveInv, TypedInv, SinkInv, LedgerInv, Agrees
  <2> QED
    BY <1>5, <2>1 DEF Stays, NodesSame, LedgerTells
<1>7. n \notin KilledOn(ledger)
  <2>1. SUFFICES ASSUME NEW j \in Entries(ledger, "kill"), n \in ledger[j].revoked
                 PROVE  FALSE
    BY DEF KilledOn
  <2>2. j \in Entries(ledger', "kill") /\ j < k /\ ledger'[j] = ledger[j]
    BY <1>2 DEF Extends, Entries
  <2> QED
    BY <1>4, <2>1, <2>2 DEF KilledBefore
<1>8. n \in NodeIds /\ n \notin revoked
  BY <1>5, <1>7 DEF LedgerTells
<1>9. AncestorsOrSelf(n) \cap revoked = {}
  BY <1>2, <1>8, ClosureReachesSubtree DEF RevocationReachesSubtree
<1>10. e.scope \in Scope /\ \A f \in DOMAIN e.ctx : e.ctx[f] \in JsonValue
  <2>1. PICK scope \in CheckedScopes, ctx \in Contexts :
            e.scope = scope /\ e.ctx = FillMeters(n, scope, ctx)
    BY <1>1, <1>2 DEF IsRequest
  <2> QED
    BY <1>2, <2>1, FilledIsReadable DEF Readable
<1>11. ASSUME NEW a \in AncestorsOrSelf(n)
       PROVE  Permits(nodes[a].seal, e.scope, e.ctx)
  <2>1. a \in NodeIds
    BY <1>11 DEF AncestorsOrSelf
  <2>2. IsNarrowerThan(nodes[n].seal, nodes[a].seal)
    BY <1>2, <1>8, ParentsComposeToAncestors DEF AncestorAttenuation
  <2>3. IsAuthority(nodes[n].seal) /\ IsAuthority(nodes[a].seal)
    BY <1>2, <1>8, <2>1, NodeFacts
  <2>4. ReadAlike(nodes[n].seal, nodes[a].seal)
    BY <1>2, <1>8, <2>1 DEF OneMeaning, KeysMeanOneThing, AuthoritiesIn, NodeIds
  <2> QED
    BY <1>4, <1>6, <1>10, <2>2, <2>3, <2>4, NarrowerSound
<1> QED
  BY <1>1, <1>5, <1>9, <1>11

\* An entry that defines and kills nothing is an act, or tells nothing.
LEMMA StaysRecorded ==
    ASSUME RecordedInv, LiveInv', Readable, FreshFacts, LedgerTells, LedgerTells', Stays
    PROVE  [Recorded!TreeNext]_Recorded!treeVars
<1>1. Extends /\ NodesSame /\ revoked' = revoked /\ NodesOn(ledger') = NodesOn(ledger)
      /\ \A i, j \in Fresh : i = j
  BY ReadAfterward DEF FreshFacts, Stays, Structural
<1>2. LedgerTree' = LedgerTree /\ RecordedDead' = RecordedDead
  BY <1>1, SameTree DEF LedgerTells, RecordedDead
<1>3. CASE \A i \in Fresh : ~(ledger'[i].event = "allow" /\ ledger'[i].policy = NoPolicy)
  BY <1>1, <1>2, <1>3, SameActs DEF Recorded!treeVars, RecordedDead, RecordedActs
<1>4. ASSUME NEW k \in Fresh, ledger'[k].event = "allow", ledger'[k].policy = NoPolicy
      PROVE  Recorded!TreeNext
  <2>1. PICK e, n : e = ledger'[k] /\ n = e.node
    OBVIOUS
  <2>2. /\ n \in NodesOn(ledger) /\ AncestorsOrSelf(n) \cap revoked = {}
        /\ \A a \in AncestorsOrSelf(n) : Permits(nodes[a].seal, e.scope, e.ctx)
    BY <1>4, <2>1, ActFitsLine
  <2>3. Recorded!Line(n) = AncestorsOrSelf(n) /\ AncestorsOrSelf(n) \subseteq NodesOn(ledger)
    <3>1. Recorded!Line(n) = AncestorsOrSelf(n)
      BY <2>2, RecordedLine
    <3>2. Recorded!Line(n) \subseteq NodesOn(ledger)
      BY DEF Recorded!Line, Recorded!Nodes, LedgerTells
    <3> QED
      BY <3>1, <3>2
  <2>4. /\ Gated(ledger') = Gated(ledger) \cup {k} /\ k \notin Gated(ledger)
        /\ \A i \in Gated(ledger) : ledger'[i] = ledger[i]
    BY <1>1, <1>4, ActsAfterward
  <2>5. /\ RecordedActs' = [i \in DOMAIN RecordedActs \cup {k} |->
                               IF i = k THEN e ELSE RecordedActs[i]]
        /\ k \in DOMAIN RecordedActs' \ DOMAIN RecordedActs /\ RecordedActs'[k] = e
    BY <2>1, <2>4 DEF RecordedActs
  <2>6. Recorded!LineLives(n)
    BY <2>2, <2>3 DEF Recorded!LineLives, LedgerTells
  <2>7. \A a \in Recorded!Line(n) : AllowsAct(LedgerTree[a].grant, e)
    BY <2>2, <2>3 DEF LedgerTells, AllowsAct
  <2>8. n \in DOMAIN LedgerTree
    BY <2>2 DEF LedgerTells
  <2>9. /\ RecordedActs' = [i \in DOMAIN RecordedActs \cup {k} |->
                               IF i = k THEN RecordedActs'[k] ELSE RecordedActs[i]]
        /\ RecordedActs'[k].node \in DOMAIN LedgerTree
        /\ Recorded!LineLives(RecordedActs'[k].node)
        /\ \A a \in Recorded!Line(RecordedActs'[k].node) :
              AllowsAct(LedgerTree[a].grant, RecordedActs'[k])
    BY <2>1, <2>5, <2>6, <2>7, <2>8
  <2>10. UNCHANGED <<LedgerTree, RecordedDead>>
    BY <1>2
  <2> QED
    BY <2>5, <2>9, <2>10
    DEF Recorded!TreeNext, Recorded!Act, Recorded!Nodes, RecordedActs, RecordedDead
<1> QED
  BY <1>3, <1>4

\* A spawn grows the recorded tree.
LEMMA SpawnRecorded ==
    ASSUME RecordedInv, LiveInv', FreshFacts, LedgerTells, LedgerTells', NEW p, NEW e, Spawns(p, e)
    PROVE  Recorded!TreeNext
<1>0. TreeInv /\ IInv /\ p \in NodeIds /\ p \in NodesOn(ledger) /\ Extends /\ revoked \subseteq NodeIds
  BY DEF RecordedInv, TreeInv, LiveInv, TypedInv, SinkInv, LedgerInv, GInv, HeldAreNodes, Agrees,
         Spawns, AddsChild, FreshFacts, IInv, TypeOK
<1>1. PICK T : ledger \in Seq(T)
  BY DEF RecordedInv, LiveInv, TypedInv, SinkInv, LedgerInv, Agrees
<1>2. PICK k \in Nat : Fresh = {k} /\ ledger'[k] = e
  BY <1>1, WritesExtend DEF Spawns
<1>3. PICK c : c = Len(nodes) + 1
  OBVIOUS
<1>4. PICK agent \in Agents, request \in Requests : AddChild(p, agent, request)
  BY DEF Spawns, AddsChild
<1>5. /\ NodeIds' = NodeIds \cup {c} /\ c \notin NodeIds
      /\ \A n \in NodeIds : nodes'[n] = nodes[n]
      /\ nodes'[c].parent = p /\ UNCHANGED revoked
      /\ AncestorsOrSelf(p) \cap revoked = {}
      /\ \A a \in AncestorsOrSelf(p) : IsNarrowerThan(nodes'[c].seal, nodes[a].seal)
      /\ Cardinality(AncestorsOrSelf(p)) <= MaxDepth
      /\ IsFiniteSet(Children(p)) /\ Cardinality(Children(p)) < MaxFanout
  BY <1>0, <1>3, <1>4, ChildFitsLine
<1>6. NodesOn(ledger') = NodesOn(ledger) \cup {c} /\ e.event = "spawn"
  BY <1>0, <1>2, <1>3, ReadAfterward DEF Spawns
<1>7. c \notin NodesOn(ledger) /\ c \notin revoked
  BY <1>0, <1>5 DEF LedgerTells
<1>8. /\ LedgerTree' = [m \in NodesOn(ledger) \cup {c} |->
                           IF m = c THEN [parent |-> p, grant |-> nodes'[c].seal]
                           ELSE LedgerTree[m]]
      /\ DOMAIN LedgerTree = NodesOn(ledger) /\ DOMAIN LedgerTree' = NodesOn(ledger) \cup {c}
      /\ LedgerTree'[c].grant = nodes'[c].seal
  <2>1. \A m \in NodesOn(ledger) : nodes'[m] = nodes[m]
    BY <1>5 DEF LedgerTells
  <2> QED
    BY <1>5, <1>6, <1>7, <2>1 DEF LedgerTells
<1>9. RecordedDead' = RecordedDead
  BY <1>5, <1>6, <1>7 DEF LedgerTells, RecordedDead
<1>10. RecordedActs' = RecordedActs
  BY <1>0, <1>2, <1>6, SameActs
<1>11. Recorded!Line(p) = AncestorsOrSelf(p) /\ AncestorsOrSelf(p) \subseteq NodesOn(ledger)
  <2>1. Recorded!Line(p) = AncestorsOrSelf(p)
    BY <1>0, RecordedLine
  <2>2. Recorded!Line(p) \subseteq NodesOn(ledger)
    BY <1>8 DEF Recorded!Line, Recorded!Nodes
  <2> QED
    BY <2>1, <2>2
<1>12. Recorded!Cardinality(Recorded!Granted(p)) < MaxFanout
  <2>1. Recorded!Granted(p) \subseteq Children(p)
    BY <1>8 DEF Recorded!Granted, Recorded!Nodes, LedgerTells, Children
  <2>2. PICK S, C : S = Recorded!Granted(p) /\ C = Children(p)
    OBVIOUS
  <2>3. Cardinality(S) <= Cardinality(C) /\ Cardinality(S) \in Nat /\ Cardinality(C) \in Nat
    BY <1>5, <2>1, <2>2, FS_Subset, FS_CardinalityType
  <2>4. Cardinality(Recorded!Granted(p)) < MaxFanout
    BY <1>5, <2>2, <2>3, LimitsAssumption
  <2> QED
    BY <2>4 DEF Recorded!Cardinality, Cardinality
<1>13. Recorded!Cardinality(Recorded!Line(p)) <= MaxDepth
  BY <1>5, <1>11 DEF Recorded!Cardinality, Cardinality
<1>14. Recorded!LineLives(p)
  BY <1>5, <1>11 DEF Recorded!LineLives, LedgerTells
<1>15. \A a \in Recorded!Line(p) : IsNarrowerThan(LedgerTree'[c].grant, LedgerTree[a].grant)
  BY <1>5, <1>8, <1>11 DEF LedgerTells
<1>16. Recorded!Grow(c, p, LedgerTree'[c].grant)
  BY <1>8, <1>9, <1>10, <1>12, <1>13, <1>14, <1>15
  DEF Recorded!Grow, Recorded!Nodes, RecordedActs, RecordedDead
<1> QED
  BY <1>0, <1>7, <1>8, <1>16 DEF Recorded!TreeNext, Recorded!Nodes

\* A kill takes all below along, as far as the ledger shows it.
LEMMA KillRecorded ==
    ASSUME RecordedInv, LiveInv', FreshFacts, LedgerTells, LedgerTells', NEW killed, KillsAll(killed)
    PROVE  Recorded!TreeNext
<1>0. /\ Extends /\ nodes' = nodes /\ NodeIds' = NodeIds /\ revoked' = revoked \cup killed
      /\ \A i \in Fresh : ledger'[i].event \in {"deny", "kill"}
      /\ RevokedClosed'
  BY DEF FreshFacts, KillsAll, NodeIds, LiveInv, TypedInv, SinkInv, LedgerInv, GInv, IInv
<1>1. NodesOn(ledger') = NodesOn(ledger) /\ NodesSame
  BY <1>0, ReadAfterward DEF NodesSame
<1>2. LedgerTree' = LedgerTree /\ RecordedActs' = RecordedActs
  BY <1>0, <1>1, SameTree, SameActs
<1>3. PICK S : S = (killed \cap NodesOn(ledger)) \ revoked
  OBVIOUS
<1>4. RecordedDead' = RecordedDead \cup S /\ S \subseteq NodesOn(ledger) \ RecordedDead
  BY <1>0, <1>1, <1>3 DEF LedgerTells, RecordedDead
<1>5. DOMAIN LedgerTree = NodesOn(ledger)
      /\ \A n \in NodesOn(ledger) : LedgerTree[n].parent = nodes[n].parent
  BY DEF LedgerTells
<1>6. ASSUME NEW n \in NodesOn(ledger), nodes[n].parent \in RecordedDead'
      PROVE  n \in RecordedDead'
  <2>1. nodes[n].parent \in revoked' /\ n \in NodeIds
    BY <1>1, <1>6 DEF LedgerTells, RecordedDead
  <2>2. n \in revoked'
    BY <1>0, <2>1 DEF RevokedClosed
  <2> QED
    BY <1>1, <2>2 DEF LedgerTells, RecordedDead
<1>7. Recorded!Kill(S)
  BY <1>2, <1>4, <1>5, <1>6 DEF Recorded!Kill, Recorded!Nodes, RecordedActs, RecordedDead
<1> QED
  BY <1>4, <1>5, <1>7 DEF Recorded!TreeNext, Recorded!Nodes, RecordedDead

\* What is said of the chain, and of the ledger, goes on to hold.
LEMMA RecordedNext ==
    ASSUME RecordedInv, [SinkNext]_<<allVars, sinkVars>>
    PROVE  RecordedInv'
<1>1. LiveInv /\ TypedInv /\ TreeInv /\ OneMeaning /\ IInv
  BY DEF RecordedInv, LiveInv, TypedInv, SinkInv, LedgerInv, GInv
<1>2. [Next]_chainVars
  BY <1>1, TypedNext
<1> QED
  BY <1>1, <1>2, LiveNext, TreeInvariance, OneMeaningNext DEF RecordedInv

\* Every step of the guards, with the writes of it that failed, is a step of
\* the tree that the ledger records, or none.
LEMMA RecordedSteps ==
    ASSUME Readable, RecordedInv, LiveInv', LedgerTells, LedgerTells',
           [SinkNext]_<<allVars, sinkVars>>
    PROVE  [Recorded!TreeNext]_Recorded!treeVars
<1>1. LiveInv /\ TypedInv /\ SinkInv
  BY DEF RecordedInv, LiveInv, TypedInv
<1>2. FreshFacts
  BY <1>1, TypedNext, FreshHolds
<1>3. LiveMove
  BY <1>1, LiveMoves
<1>4. CASE Stays
  BY <1>2, <1>4, StaysRecorded
<1>5. ASSUME NEW p, NEW e, Spawns(p, e) PROVE Recorded!TreeNext
  BY <1>2, <1>5, SpawnRecorded
<1>6. ASSUME NEW killed, KillsAll(killed) PROVE Recorded!TreeNext
  BY <1>2, <1>6, KillRecorded
<1>7. ASSUME UNCHANGED ledger PROVE UNCHANGED Recorded!treeVars
  <2>1. NodesOn(ledger') = NodesOn(ledger) /\ KilledOn(ledger') = KilledOn(ledger)
        /\ Gated(ledger') = Gated(ledger)
    BY <1>7
  <2>2. LedgerTree' = LedgerTree
    BY <1>7 DEF LedgerTree, ParentOn
  <2> QED
    BY <1>7, <2>1, <2>2 DEF Recorded!treeVars
<1> QED
  BY <1>3, <1>4, <1>5, <1>6, <1>7 DEF LiveMove, SpawnsUnseen, KillsUnseen

\* The ledger of one root entry is the tree of one node.
LEMMA RecordedInit ==
    ASSUME KeysMeanOneThing(Given), SinkInit
    PROVE  RecordedInv /\ Recorded!TreeInit
<1>1. Init /\ RecordedInv
  BY LiveInit, TreeInvariance, OneMeaningInit DEF SinkInit, GuardInit, RecordedInv
<1>2. PICK r : r = RootEntry(1, nodes[1].agent, nodes[1].auth)
  OBVIOUS
<1>3. /\ ledger = <<r>> /\ r.event = "root" /\ r.node = 1
  BY <1>2 DEF SinkInit, GuardInit, RootEntry
<1>4. DOMAIN ledger = {1} /\ ledger[1] = r
  BY <1>3
<1>5. Entries(ledger, "kill") = {} /\ Entries(ledger, "allow") = {} /\ Definitions(ledger) = {1}
  BY <1>3, <1>4 DEF Definitions, Entries
<1>6. NodesOn(ledger) = {1} /\ KilledOn(ledger) = {} /\ Gated(ledger) = {}
  BY <1>3, <1>4, <1>5 DEF NodesOn, KilledOn, Gated
<1>7. LedgerTells
  BY <1>1, TreeIsTold DEF RecordedInv
<1>8. nodes[1].parent = NoParent
  BY <1>1 DEF Init, NewNode
<1>9. DOMAIN LedgerTree = {1}
      /\ LedgerTree = [n \in {1} |-> [parent |-> Recorded!Top, grant |-> LedgerTree[n].grant]]
  BY <1>6, <1>7, <1>8 DEF LedgerTells, Recorded!Top, NoParent
<1>10. RecordedDead = {} /\ RecordedActs = <<>>
  BY <1>6 DEF RecordedDead, RecordedActs
<1>11. Recorded!TreeInit
  BY <1>9, <1>10 DEF Recorded!TreeInit, Recorded!Nodes, RecordedDead, RecordedActs
<1> QED
  BY <1>1, <1>11

\* A ledger read alone, from its root entry to its last, is the history of a
\* tree of grants in which each grant and each act stood within the whole live
\* line above it, whichever of the guard's writes failed: the verifier, which
\* asks about one parent and one node at a time, misses nothing.
THEOREM LedgerRefinesTree ==
    ASSUME Readable, KeysMeanOneThing(Given)
    PROVE  SinkSpec => LedgerImplementsTree
<1>1. SinkInit => RecordedInv /\ Recorded!TreeInit
  BY RecordedInit
<1>2. RecordedInv /\ [SinkNext]_<<allVars, sinkVars>> => RecordedInv'
  BY RecordedNext
<1>3. RecordedInv => LiveInv /\ LedgerTells
  BY TreeIsTold DEF RecordedInv
<1>4. RecordedInv /\ LiveInv' /\ LedgerTells /\ LedgerTells' /\ [SinkNext]_<<allVars, sinkVars>>
          => [Recorded!TreeNext]_Recorded!treeVars
  BY RecordedSteps
<1> QED
  BY <1>1, <1>2, <1>3, <1>4, PTL DEF SinkSpec, LedgerImplementsTree, Recorded!TreeSpec

-----------------------------------------------------------------------------
(* Wrapped tools *)

\* The calls that were allowed and are not reported, and those that are.
Open == {i \in Invocations : callId[i] # NoCall /\ body[i] = "none"}
Told == {i \in Invocations : callId[i] # NoCall /\ body[i] # "none"}

\* A wrapper's record of its call, in each phase.
PhasesFit ==
    /\ phase \in [Invocations -> {"idle", "body", "over"}]
    /\ DOMAIN wraps = Invocations /\ DOMAIN callId = Invocations
    /\ DOMAIN snapshot = Invocations /\ DOMAIN body = Invocations
    /\ \A i \in Invocations :
          /\ phase[i] = "idle" => callId[i] = NoCall
          /\ phase[i] = "body" => callId[i] # NoCall
          /\ phase[i] # "over" => body[i] = "none"

\* Each allowed call has an id of its own, and the guard awaits those not reported.
CallsFit ==
    /\ issued \in Nat
    /\ \A i \in Invocations : callId[i] \in 0 .. issued
    /\ \A i, j \in Invocations : callId[i] = callId[j] /\ callId[i] # NoCall => i = j
    /\ pending = {<<wraps[i], callId[i]>> : i \in Open}
    /\ \A i \in Open : wraps[i] \notin complete

\* Entry k is the allow of the wrapped call i; or its outcome.
AllowsWrapped(k, i) ==
    /\ ledger[k].event = "allow" /\ ledger[k].capture = Wrapper
    /\ ledger[k].call = callId[i] /\ ledger[k].node = wraps[i] /\ ledger[k].params = snapshot[i]
TellsWrapped(k, i) ==
    /\ ledger[k].event = "outcome"
    /\ ledger[k].call = callId[i] /\ ledger[k].node = wraps[i] /\ ledger[k].params = snapshot[i]

\* The ledger's calls are the wrapped ones.
EntriesFit ==
    /\ \E T : ledger \in Seq(T)
    /\ \A k \in Decisions(ledger) : ledger[k].call \in 1 .. issued
    /\ \A k, l \in Decisions(ledger) : ledger[k].call = ledger[l].call => k = l
    /\ \A k \in Entries(ledger, "allow") : \E i \in Open \cup Told : AllowsWrapped(k, i)
    /\ \A i \in Open \cup Told : \E k \in DOMAIN ledger : AllowsWrapped(k, i)
    /\ \A k \in Entries(ledger, "outcome") :
          \E i \in Told : TellsWrapped(k, i) /\ \E a \in DOMAIN ledger : a < k /\ AllowsWrapped(a, i)
    /\ \A i \in Told : \E k \in DOMAIN ledger : TellsWrapped(k, i)
    /\ \A k, l \in Entries(ledger, "outcome") : ledger[k].call = ledger[l].call => k = l
    /\ Finalized(ledger) \subseteq complete

WrappedInv == PhasesFit /\ CallsFit /\ EntriesFit

\* It is what the two properties ask for.
LEMMA WrappedTypes ==
    ASSUME WrappedInv
    PROVE  AdapterTypeOK
<1>1. SUFFICES ASSUME NEW i \in Running
               PROVE  /\ wraps[i] \notin complete
                      /\ {p \in pending : p[2] = callId[i]} = {<<wraps[i], callId[i]>>}
                      /\ OutcomesOf(ledger, callId[i]) = {}
  BY DEF WrappedInv, PhasesFit, AdapterTypeOK
<1>2. i \in Open /\ i \in Invocations /\ i \notin Told
  BY <1>1 DEF Running, WrappedInv, PhasesFit, Open, Told
<1>3. wraps[i] \notin complete
  BY <1>2 DEF WrappedInv, CallsFit
<1>4. \A j \in Open \cup Told : callId[j] = callId[i] => j = i
  BY <1>2 DEF WrappedInv, CallsFit, Open, Told
<1>5. {p \in pending : p[2] = callId[i]} = {<<wraps[i], callId[i]>>}
  <2>1. pending = {<<wraps[j], callId[j]>> : j \in Open}
    BY DEF WrappedInv, CallsFit
  <2>2. ASSUME NEW p \in pending, p[2] = callId[i]
        PROVE  p = <<wraps[i], callId[i]>>
    BY <2>1, <2>2, <1>4
  <2>3. <<wraps[i], callId[i]>> \in pending
    BY <2>1, <1>2
  <2> QED
    BY <2>2, <2>3
<1>6. OutcomesOf(ledger, callId[i]) = {}
  <2>1. ASSUME NEW k \in Entries(ledger, "outcome"), ledger[k].call = callId[i]
        PROVE  FALSE
    <3>1. PICK j \in Told : TellsWrapped(k, j)
      BY <2>1 DEF WrappedInv, EntriesFit
    <3> QED
      BY <2>1, <3>1, <1>2, <1>4 DEF TellsWrapped
  <2> QED
    BY <2>1 DEF OutcomesOf
<1> QED
  BY <1>3, <1>5, <1>6

\* No decision or outcome repeats, and each outcome is of its allow.
LEMMA WrappedBind ==
    ASSUME WrappedInv
    PROVE  WrappedCallsBind
<1> DEFINE Allowing == Entries(ledger, "allow")
           Telling == Entries(ledger, "outcome")
<1>1. PICK T : ledger \in Seq(T)
  BY DEF WrappedInv, EntriesFit
<1>2. DOMAIN ledger \subseteq Nat
  BY <1>1
<1>3. \A k, l \in Allowing : ledger[k].call = ledger[l].call => k = l
  BY DEF WrappedInv, EntriesFit, Decisions
<1>4. \A k, l \in Telling : ledger[k].call = ledger[l].call => k = l
  BY DEF WrappedInv, EntriesFit
<1>5. ~DuplicateCallId(ledger) /\ ~DuplicateOutcome(ledger)
  BY <1>4 DEF WrappedInv, EntriesFit, DuplicateCallId, DuplicateOutcome
<1>6. ASSUME NEW k \in Telling
      PROVE  \E a \in Allowing : /\ a < k /\ ledger[a].call = ledger[k].call
                                 /\ ledger[a].node = ledger[k].node
                                 /\ ledger[a].params = ledger[k].params
  BY <1>6 DEF WrappedInv, EntriesFit, TellsWrapped, AllowsWrapped, Entries
<1>7. ~OutcomeWithoutAllow(ledger)
  BY <1>6 DEF OutcomeWithoutAllow, Calls
<1>8. ASSUME NEW a \in Allowing
      PROVE  AllowOf(ledger, ledger[a].call) = a
  <2> DEFINE named == {k \in Allowing : ledger[k].call = ledger[a].call}
  <2>1. named = {a}
    BY <1>3, <1>8
  <2>2. a <= a
    BY <1>2 DEF Entries
  <2>3. AllowOf(ledger, ledger[a].call) = CHOOSE x \in {a} : \A y \in {a} : y <= x
    BY <2>1 DEF AllowOf
  <2> QED
    BY <2>2, <2>3
<1>9. ASSUME NEW k \in Telling
      PROVE  FirstOutcomeOf(ledger, ledger[k].call) = k
  <2> DEFINE named == {l \in Telling : ledger[l].call = ledger[k].call}
  <2>1. named = {k}
    BY <1>4, <1>9
  <2>2. k <= k
    BY <1>2 DEF Entries
  <2>3. FirstOutcomeOf(ledger, ledger[k].call) = CHOOSE x \in {k} : \A y \in {k} : x <= y
    BY <2>1 DEF FirstOutcomeOf, OutcomesOf
  <2> QED
    BY <2>2, <2>3
<1>10. ASSUME NEW call \in Reported(ledger)
       PROVE  SameNode(ledger, call) /\ InOrder(ledger, call) /\ ~ParamsMismatch(ledger, call)
  <2>1. PICK k \in Telling : ledger[k].call = call
    BY <1>10 DEF Reported, OutcomesOf
  <2>2. PICK a \in Allowing : /\ a < k /\ ledger[a].call = ledger[k].call
                              /\ ledger[a].node = ledger[k].node
                              /\ ledger[a].params = ledger[k].params
    BY <1>6
  <2>3. AllowOf(ledger, call) = a /\ FirstOutcomeOf(ledger, call) = k
    BY <1>8, <1>9, <2>1, <2>2
  <2>4. k > a
    BY <1>2, <2>2 DEF Entries
  <2> QED
    BY <2>2, <2>3, <2>4 DEF SameNode, InOrder, ParamsMismatch
<1>11. ~BindingFailure(ledger)
  BY <1>5, <1>7, <1>10 DEF BindingFailure
<1>12. ASSUME NEW node \in Finalized(ledger), NEW call \in UnaccountedAt(ledger, node)
       PROVE  FALSE
  <2>2. PICK a \in Allowing : ledger[a].call = call
    BY <1>12 DEF UnaccountedAt, Unaccounted, Calls
  <2>3. AllowOf(ledger, call) = a
    BY <1>8, <2>2
  <2>4. PICK i \in Open \cup Told : AllowsWrapped(a, i)
    BY DEF WrappedInv, EntriesFit
  <2>5. wraps[i] = node /\ callId[i] = call
    BY <1>12, <2>2, <2>3, <2>4 DEF UnaccountedAt, AllowsWrapped
  <2>6. i \in Told
    BY <2>4, <2>5, <1>12 DEF WrappedInv, CallsFit, EntriesFit
  <2>7. PICK k \in DOMAIN ledger : TellsWrapped(k, i)
    BY <2>6 DEF WrappedInv, EntriesFit
  <2>8. k \in Telling /\ ledger[k].call = call
    BY <2>5, <2>7 DEF TellsWrapped, Entries
  <2>9. call \in Calls(ledger) /\ call \in Reported(ledger)
    BY <2>2, <2>8 DEF Calls, Reported, OutcomesOf
  <2>10. call \in Observed(ledger)
    BY <1>10, <2>9 DEF Observed
  <2> QED
    BY <2>10, <1>12 DEF UnaccountedAt, Unaccounted
<1> QED
  BY <1>11, <1>12 DEF BindingFailed, WrappedCallsBind

\* What the steps do to the wrapped calls, by kind.  The ledger grows at its end.
Grows == Extends /\ \E T : ledger' \in Seq(T)
WrappersSame == UNCHANGED <<phase, wraps, callId, snapshot, body>>

\* Nothing that is about calls.
PassesBy ==
    /\ Grows /\ WrappersSame /\ UNCHANGED bindingVars
    /\ \A k \in Fresh : ledger'[k].event \notin {"allow", "deny", "outcome", "done"}

\* A call that is refused, with an entry of its own or without.
RefusesWrapped(i) ==
    /\ Grows /\ i \in Invocations /\ phase[i] = "idle"
    /\ \A k \in Fresh : ledger'[k].event \in {"deny", "kill"}
    /\ \A k \in Fresh : ledger'[k].event = "deny" =>
          ledger'[k].call = issued + 1 /\ issued' = issued + 1
    /\ \A k, l \in Fresh : ledger'[k].event = "deny" /\ ledger'[l].event = "deny" => k = l
    /\ issued' \in {issued, issued + 1}
    /\ phase' = [phase EXCEPT ![i] = "over"] /\ \E n : wraps' = [wraps EXCEPT ![i] = n]
    /\ UNCHANGED <<callId, snapshot, body, complete, pending, outcomed>>

AllowsWrappedNow(i, n, taken) ==
    /\ Grows /\ i \in Invocations /\ phase[i] = "idle" /\ n \notin complete
    /\ \E k \in Nat :
          /\ Fresh = {k} /\ ledger'[k].event = "allow" /\ ledger'[k].capture = Wrapper
          /\ ledger'[k].call = issued + 1 /\ ledger'[k].node = n /\ ledger'[k].params = taken
    /\ issued' = issued + 1 /\ pending' = pending \cup {<<n, issued + 1>>}
    /\ \E p \in {"body", "over"} : phase' = [phase EXCEPT ![i] = p]
    /\ wraps' = [wraps EXCEPT ![i] = n] /\ callId' = [callId EXCEPT ![i] = issued + 1]
    /\ snapshot' = [snapshot EXCEPT ![i] = taken]
    /\ UNCHANGED <<body, complete>>

TellsWrappedNow(i, ending) ==
    /\ Grows /\ i \in Invocations /\ phase[i] = "body" /\ ending # "none"
    /\ \E k \in Nat :
          /\ Fresh = {k} /\ ledger'[k].event = "outcome"
          /\ ledger'[k].call = callId[i] /\ ledger'[k].node = wraps[i]
          /\ ledger'[k].params = snapshot[i]
    /\ pending' = {p \in pending : p[2] # callId[i]}
    /\ phase' = [phase EXCEPT ![i] = "over"] /\ body' = [body EXCEPT ![i] = ending]
    /\ UNCHANGED <<wraps, callId, snapshot, complete, issued>>

FinishesWrapped(n) ==
    /\ Grows /\ WrappersSame /\ PendingFor(n) = {}
    /\ \E k \in Nat : Fresh = {k} /\ ledger'[k].event = "done" /\ ledger'[k].node = n
    /\ complete' = complete \cup {n}
    /\ UNCHANGED <<issued, pending>>

WrapperStep ==
    \/ PassesBy
    \/ \E i : RefusesWrapped(i)
    \/ \E i, n, taken : AllowsWrappedNow(i, n, taken)
    \/ \E i, ending : TellsWrappedNow(i, ending)
    \/ \E n : FinishesWrapped(n)

\* Writing one entry, or a denial and its kill.
LEMMA WriteGrows ==
    ASSUME NEW T, ledger \in Seq(T)
    PROVE  /\ \A e : Write(<<e>>) => Grows /\ \E k \in Nat : Fresh = {k} /\ ledger'[k] = e
           /\ \A d, e : Write(<<d, e>>) =>
                 Grows /\ \E k, l \in Nat : Fresh = {k, l} /\ ledger'[k] = d /\ ledger'[l] = e
           /\ UNCHANGED ledger => Grows /\ Fresh = {}
<1>1. ASSUME NEW e, Write(<<e>>)
      PROVE  Grows /\ \E k \in Nat : Fresh = {k} /\ ledger'[k] = e
  <2>1. ledger' = Append(ledger, e) /\ ledger' \in Seq(T \cup {e})
    BY <1>1 DEF Write
  <2> QED
    BY <2>1, WritesExtend DEF Writes, Grows
<1>2. ASSUME NEW d, NEW e, Write(<<d, e>>)
      PROVE  Grows /\ \E k, l \in Nat : Fresh = {k, l} /\ ledger'[k] = d /\ ledger'[l] = e
  <2>1. ledger' = Append(Append(ledger, d), e) /\ ledger' \in Seq(T \cup {d, e})
    BY <1>2 DEF Write
  <2>2. WritesBoth(d, e)
    BY <2>1 DEF WritesBoth
  <2>3. Extends /\ \E k, l \in Nat : Fresh = {k, l} /\ k < l /\ ledger'[k] = d /\ ledger'[l] = e
    BY <2>2, WritesExtend
  <2> QED
    BY <2>1, <2>3 DEF Grows
<1>3. UNCHANGED ledger => Grows /\ Fresh = {}
  BY WritesExtend DEF Grows
<1> QED
  BY <1>1, <1>2, <1>3

\* A refused invocation, in each of its forms.
LEMMA RefusedWrapped ==
    ASSUME WrappedInv, NEW i \in Invocations, NEW n, NEW scope, NEW ctx,
           InvokeRefused(i, n, scope, ctx)
    PROVE  RefusesWrapped(i)
<1>1. PICK T : ledger \in Seq(T)
  BY DEF WrappedInv, EntriesFit
<1>2. IsV2 /\ NextCall = issued + 1
  BY AdapterAssumption DEF IsV2, NextCall
<1>3. /\ phase[i] = "idle" /\ phase' = [phase EXCEPT ![i] = "over"]
      /\ wraps' = [wraps EXCEPT ![i] = n] /\ UNCHANGED <<callId, snapshot, body>>
  BY DEF InvokeRefused, Starts
<1>4. \/ CheckDenied(n, scope, ctx, FALSE) \/ CheckStruck(n, scope, ctx, FALSE)
      \/ CheckStruckOut(n, scope, ctx, FALSE) \/ CheckDeniedUnpersisted(n, scope, ctx, FALSE)
      \/ CheckUnrepresentable(n, scope, ctx, FALSE) \/ CheckNotCommitted(n, scope, ctx, FALSE)
  BY DEF InvokeRefused
<1>5. ASSUME NEW reason, Write(<<DenyEntry(n, scope, NextCall, reason)>>), DrawCall,
             UNCHANGED <<complete, pending, outcomed>>
      PROVE  RefusesWrapped(i)
  <2>1. PICK k \in Nat : Fresh = {k} /\ ledger'[k] = DenyEntry(n, scope, NextCall, reason)
    BY <1>1, <1>5, WriteGrows
  <2>2. Grows
    BY <1>1, <1>5, WriteGrows
  <2>3. ledger'[k].event = "deny" /\ ledger'[k].call = issued + 1
    BY <2>1, <1>2 DEF DenyEntry
  <2> QED
    BY <1>2, <1>3, <1>5, <2>1, <2>2, <2>3 DEF RefusesWrapped, DrawCall
<1>6. CASE CheckDenied(n, scope, ctx, FALSE)
  BY <1>5, <1>6 DEF CheckDenied
<1>7. CASE CheckStruck(n, scope, ctx, FALSE)
  BY <1>5, <1>7 DEF CheckStruck
<1>8. CASE CheckStruckOut(n, scope, ctx, FALSE)
  <2> DEFINE d == DenyEntry(n, scope, NextCall, Policy)
             e == KillEntry(n, Cascade({n}), PendingAtKill(Cascade({n})))
  <2>1. Write(<<d, e>>) /\ DrawCall /\ UNCHANGED <<complete, pending, outcomed>>
    BY <1>8 DEF CheckStruckOut
  <2>2. d.event = "deny" /\ d.call = issued + 1 /\ e.event = "kill"
    BY <1>2 DEF DenyEntry, KillEntry
  <2> HIDE DEF d, e
  <2>3. Grows /\ \E k, l \in Nat : Fresh = {k, l} /\ ledger'[k] = d /\ ledger'[l] = e
    BY <1>1, <2>1, WriteGrows
  <2>4. PICK k, l \in Nat : Fresh = {k, l} /\ ledger'[k] = d /\ ledger'[l] = e
    BY <2>3
  <2> QED
    BY <1>2, <1>3, <2>1, <2>2, <2>3, <2>4 DEF RefusesWrapped, DrawCall
<1>9. CASE CheckDeniedUnpersisted(n, scope, ctx, FALSE)
  BY <1>5, <1>9 DEF CheckDeniedUnpersisted
<1>10. CASE CheckUnrepresentable(n, scope, ctx, FALSE)
  BY <1>5, <1>10 DEF CheckUnrepresentable
<1>11. CASE CheckNotCommitted(n, scope, ctx, FALSE)
  <2>1. Grows /\ Fresh = {}
    BY <1>1, <1>11, WriteGrows DEF CheckNotCommitted
  <2> QED
    BY <1>3, <1>11, <2>1 DEF RefusesWrapped, CheckNotCommitted, bindingVars
<1> QED
  BY <1>4, <1>6, <1>7, <1>8, <1>9, <1>10, <1>11

\* An allowed one, whether its body starts or not.
LEMMA AllowedWrapped ==
    ASSUME WrappedInv, NEW i \in Invocations, NEW n, NEW scope, NEW ctx,
           Invoke(i, n, scope, ctx) \/ InvokeUnpersisted(i, n, scope, ctx)
    PROVE  AllowsWrappedNow(i, n, Freeze(heap, Root))
<1> DEFINE taken == Freeze(heap, Root)
           e == AllowEntry(n, scope, FillMeters(n, scope, ctx), NextCall, Wrapper, taken,
                           NoPolicy, Counted(n, scope, ctx))
<1>1. PICK T : ledger \in Seq(T)
  BY DEF WrappedInv, EntriesFit
<1>2. IsV2 /\ NextCall = issued + 1 /\ AwaitsOutcome(Wrapper)
  BY AdapterAssumption DEF IsV2, NextCall, AwaitsOutcome, Wrapper, PreHookOnly
<1>3. /\ Starts(i, n) /\ Allows(i, n, scope, ctx)
      /\ \E p \in {"body", "over"} : phase' = [phase EXCEPT ![i] = p]
  BY DEF Invoke, InvokeUnpersisted
<1>4. CommitAllow(n, scope, ctx, FALSE, Wrapper, taken) /\ RegisterPending(n, NextCall)
  BY <1>2, <1>3 DEF Allows, CheckAllowed
<1>5. Write(<<e>>) /\ issued' = issued + 1 /\ n \notin complete /\ UNCHANGED complete
  BY <1>2, <1>4 DEF CommitAllow, DrawCall, Decide
<1>6. /\ e.event = "allow" /\ e.capture = Wrapper /\ e.call = issued + 1 /\ e.node = n
      /\ e.params = taken
  BY <1>2 DEF AllowEntry
<1>7. /\ phase[i] = "idle" /\ wraps' = [wraps EXCEPT ![i] = n] /\ UNCHANGED body
      /\ callId' = [callId EXCEPT ![i] = issued + 1]
      /\ snapshot' = [snapshot EXCEPT ![i] = taken]
  BY <1>2, <1>3 DEF Starts, Allows
<1>8. pending' = pending \cup {<<n, issued + 1>>}
  BY <1>2, <1>4 DEF RegisterPending
<1> HIDE DEF e, taken
<1>9. Grows /\ \E k \in Nat : Fresh = {k} /\ ledger'[k] = e
  BY <1>1, <1>5, WriteGrows
<1>10. AllowsWrappedNow(i, n, taken)
  BY <1>3, <1>5, <1>6, <1>7, <1>8, <1>9 DEF AllowsWrappedNow
<1> QED
  BY <1>10 DEF taken

\* What the body's end records.
LEMMA ToldWrapped ==
    ASSUME WrappedInv, NEW i \in Invocations, NEW ending \in Endings, Report(i, ending)
    PROVE  TellsWrappedNow(i, ending)
<1> DEFINE e == OutcomeEntry(wraps[i], callId[i], snapshot[i])
<1>1. PICK T : ledger \in Seq(T)
  BY DEF WrappedInv, EntriesFit
<1>2. /\ CommitOutcome(wraps[i], callId[i], snapshot[i]) /\ ResolveCall(callId[i])
      /\ phase[i] = "body" /\ phase' = [phase EXCEPT ![i] = "over"]
      /\ body' = [body EXCEPT ![i] = ending] /\ UNCHANGED <<wraps, callId, snapshot>>
  BY DEF Report, RecordOutcome, InvokedParams
<1>3. Write(<<e>>) /\ UNCHANGED <<complete, issued>>
      /\ pending' = {p \in pending : p[2] # callId[i]}
  BY <1>2 DEF CommitOutcome, ResolveCall
<1>4. /\ e.event = "outcome" /\ e.call = callId[i] /\ e.node = wraps[i]
      /\ e.params = snapshot[i]
  BY DEF OutcomeEntry
<1>5. ending # "none"
  BY AdapterAssumption DEF BodyStates
<1> HIDE DEF e
<1>6. Grows /\ \E k \in Nat : Fresh = {k} /\ ledger'[k] = e
  BY <1>1, <1>3, WriteGrows
<1> QED
  BY <1>2, <1>3, <1>4, <1>5, <1>6 DEF TellsWrappedNow

\* The application finishes, revokes and delegates.
LEMMA AppliedWrapped ==
    ASSUME WrappedInv, NEW n, ApplicationStep(n)
    PROVE  PassesBy \/ FinishesWrapped(n)
<1>1. PICK T : ledger \in Seq(T)
  BY DEF WrappedInv, EntriesFit
<1>2. WrappersSame
  BY DEF ApplicationStep, Finish, adapterVars, WrappersSame
<1>3. CASE Complete(n)
  <2>1. Write(<<DoneEntry(n)>>) /\ PendingFor(n) = {} /\ complete' = complete \cup {n}
        /\ UNCHANGED <<issued, pending>>
    BY <1>3, AdapterAssumption DEF Complete, IsV2
  <2>2. Grows /\ \E k \in Nat : Fresh = {k} /\ ledger'[k] = DoneEntry(n)
    BY <1>1, <2>1, WriteGrows
  <2> QED
    BY <1>2, <2>1, <2>2 DEF FinishesWrapped, DoneEntry
<1>4. CASE \E target \in NodeIds \ revoked : Revoke(n, target)
  <2>1. PICK target : Revoke(n, target)
    BY <1>4
  <2> DEFINE e == KillEntry(target, Cascade({target}), PendingAtKill(Cascade({target})))
  <2>2. Write(<<e>>) /\ UNCHANGED bindingVars /\ e.event = "kill"
    BY <2>1 DEF Revoke, KillEntry
  <2> HIDE DEF e
  <2>3. Grows /\ \E k \in Nat : Fresh = {k} /\ ledger'[k] = e
    BY <1>1, <2>2, WriteGrows
  <2> QED
    BY <1>2, <2>2, <2>3 DEF PassesBy
<1>5. CASE \E agent \in Agents, request \in Requests : Delegate(n, agent, request)
  <2> DEFINE e == SpawnOf(n)
  <2>1. Write(<<e>>) /\ UNCHANGED bindingVars /\ e.event = "spawn"
    BY <1>5 DEF Delegate, SpawnOf, SpawnEntry
  <2> HIDE DEF e
  <2>2. Grows /\ \E k \in Nat : Fresh = {k} /\ ledger'[k] = e
    BY <1>1, <2>1, WriteGrows
  <2> QED
    BY <1>2, <2>1, <2>2 DEF PassesBy
<1> QED
  BY <1>3, <1>4, <1>5 DEF ApplicationStep, Finish

\* Every step of the adapter is of one of these kinds.
LEMMA WrapperSteps ==
    ASSUME WrappedInv, [AdapterNext]_adapterAllVars
    PROVE  WrapperStep
<1>1. PICK T : ledger \in Seq(T)
  BY DEF WrappedInv, EntriesFit
<1>2. ASSUME UNCHANGED <<ledger, bindingVars>>, WrappersSame
      PROVE  PassesBy
  BY <1>1, <1>2, WriteGrows DEF PassesBy
<1>3. CASE UNCHANGED adapterAllVars
  BY <1>2, <1>3
  DEF WrapperStep, adapterAllVars, adapterVars, allVars, guardVars, WrappersSame
<1>4. ASSUME NEW i \in Invocations, InvokeStep(i)
      PROVE  WrapperStep
  <2>1. PICK n \in held, scope \in CheckedScopes, ctx \in Contexts :
            \/ Invoke(i, n, scope, ctx) \/ InvokeUnpersisted(i, n, scope, ctx)
            \/ InvokeRefused(i, n, scope, ctx)
    BY <1>4 DEF InvokeStep
  <2> QED
    BY <2>1, RefusedWrapped, AllowedWrapped DEF WrapperStep
<1>5. ASSUME NEW i \in Invocations, EndStep(i)
      PROVE  WrapperStep
  BY <1>5, ToldWrapped DEF WrapperStep, EndStep, BodyEnds, BodyEndsUnpersisted
<1>6. ASSUME NEW o \in DOMAIN heap, ChangeArguments(o)
      PROVE  WrapperStep
  BY <1>2, <1>6 DEF WrapperStep, ChangeArguments, allVars, guardVars, WrappersSame
<1>7. ASSUME NEW n \in held, ApplicationStep(n)
      PROVE  WrapperStep
  BY <1>7, AppliedWrapped DEF WrapperStep
<1> QED
  BY <1>3, <1>4, <1>5, <1>6, <1>7 DEF AdapterNext

\* A refusal touches a wrapped call that has no id, and draws one for no call.
LEMMA PassesKeep ==
    ASSUME WrappedInv, PassesBy \/ \E i : RefusesWrapped(i)
    PROVE  PhasesFit' /\ CallsFit' /\ Open' = Open /\ Told' = Told
<1>1. /\ UNCHANGED <<callId, snapshot, body, complete, pending>>
      /\ \A i \in Open \cup Told : wraps'[i] = wraps[i]
      /\ issued' \in {issued, issued + 1}
  BY DEF PassesBy, RefusesWrapped, WrappersSame, bindingVars, WrappedInv, PhasesFit, Open, Told
<1>2. PhasesFit'
  BY DEF PassesBy, RefusesWrapped, WrappersSame, WrappedInv, PhasesFit
<1>3. Open' = Open /\ Told' = Told
  BY <1>1 DEF Open, Told
<1>4. CallsFit'
  <2>1. issued' \in Nat /\ \A i \in Invocations : callId'[i] \in 0 .. issued'
    BY <1>1 DEF WrappedInv, CallsFit
  <2>2. pending' = {<<wraps'[i], callId'[i]>> : i \in Open}
    BY <1>1 DEF WrappedInv, CallsFit
  <2> QED
    BY <1>1, <1>3, <2>1, <2>2 DEF WrappedInv, CallsFit
<1> QED
  BY <1>2, <1>3, <1>4

\* Entries that say nothing of a wrapped call keep what the others say.
LEMMA OtherEntriesKeep ==
    ASSUME WrappedInv, PassesBy \/ \E i : RefusesWrapped(i)
    PROVE  EntriesFit'
<1>1. /\ Extends /\ \E T : ledger' \in Seq(T)
      /\ \A k \in Fresh : ledger'[k].event \notin {"allow", "outcome", "done"}
      /\ \A k \in Fresh : ledger'[k].event = "deny" => ledger'[k].call = issued + 1
                                                       /\ issued' = issued + 1
      /\ \A k, l \in Fresh : ledger'[k].event = "deny" /\ ledger'[l].event = "deny" => k = l
      /\ issued' \in {issued, issued + 1} /\ UNCHANGED <<callId, snapshot, body, complete>>
      /\ \A i \in Open \cup Told : wraps'[i] = wraps[i]
  BY DEF PassesBy, RefusesWrapped, Grows, WrappersSame, bindingVars, WrappedInv, PhasesFit, Open,
         Told
<1>2. Open' = Open /\ Told' = Told
  BY <1>1 DEF Open, Told
<1>3. DOMAIN ledger' = DOMAIN ledger \cup Fresh /\ \A k \in DOMAIN ledger : ledger'[k] = ledger[k]
  BY <1>1 DEF Extends, Fresh
<1>4. \A k \in DOMAIN ledger, i \in Open \cup Told :
          /\ AllowsWrapped(k, i)' <=> AllowsWrapped(k, i)
          /\ TellsWrapped(k, i)' <=> TellsWrapped(k, i)
  BY <1>1, <1>3 DEF AllowsWrapped, TellsWrapped
<1>5. /\ Entries(ledger', "allow") = Entries(ledger, "allow")
      /\ Entries(ledger', "outcome") = Entries(ledger, "outcome")
      /\ Finalized(ledger') = Finalized(ledger)
  BY <1>1, <1>3 DEF Entries, Finalized
<1>6. issued \in Nat
  BY DEF WrappedInv, CallsFit
<1>7. \A k \in Decisions(ledger') : IF k \in Decisions(ledger) THEN ledger'[k].call = ledger[k].call
                                    ELSE /\ k \in Fresh /\ ledger'[k].event = "deny"
                                         /\ ledger'[k].call = issued + 1 /\ issued' = issued + 1
  BY <1>1, <1>3, <1>5 DEF Decisions, Entries
<1>8. \A k \in Decisions(ledger) : ledger[k].call \in 1 .. issued
  BY DEF WrappedInv, EntriesFit
<1>9. \A k \in Decisions(ledger') : ledger'[k].call \in 1 .. issued'
  BY <1>1, <1>6, <1>7, <1>8
<1>10. \A k, l \in Decisions(ledger') : ledger'[k].call = ledger'[l].call => k = l
  <2> SUFFICES ASSUME NEW k \in Decisions(ledger'), NEW l \in Decisions(ledger'),
                      ledger'[k].call = ledger'[l].call
               PROVE  k = l
    OBVIOUS
  <2>1. CASE k \in Decisions(ledger) /\ l \in Decisions(ledger)
    BY <1>7, <2>1 DEF WrappedInv, EntriesFit
  <2>2. CASE k \notin Decisions(ledger) /\ l \notin Decisions(ledger)
    BY <1>1, <1>7, <2>2
  <2> QED
    BY <1>6, <1>7, <1>8, <2>1, <2>2
<1>11. \A k \in Entries(ledger', "allow") : \E i \in Open' \cup Told' : AllowsWrapped(k, i)'
  BY <1>2, <1>4, <1>5 DEF WrappedInv, EntriesFit, Entries
<1>12. \A i \in Open' \cup Told' : \E k \in DOMAIN ledger' : AllowsWrapped(k, i)'
  BY <1>2, <1>3, <1>4 DEF WrappedInv, EntriesFit
<1>13. \A k \in Entries(ledger', "outcome") :
          \E i \in Told' : TellsWrapped(k, i)'
                           /\ \E a \in DOMAIN ledger' : a < k /\ AllowsWrapped(a, i)'
  <2> SUFFICES ASSUME NEW k \in Entries(ledger, "outcome")
               PROVE  \E i \in Told : TellsWrapped(k, i)'
                                      /\ \E a \in DOMAIN ledger' : a < k /\ AllowsWrapped(a, i)'
    BY <1>2, <1>5
  <2>1. PICK i \in Told : TellsWrapped(k, i) /\ \E a \in DOMAIN ledger : a < k /\ AllowsWrapped(a, i)
    BY DEF WrappedInv, EntriesFit
  <2> QED
    BY <1>3, <1>4, <2>1 DEF Entries
<1>14. \A i \in Told' : \E k \in DOMAIN ledger' : TellsWrapped(k, i)'
  BY <1>2, <1>3, <1>4 DEF WrappedInv, EntriesFit
<1>15. \A k, l \in Entries(ledger', "outcome") : ledger'[k].call = ledger'[l].call => k = l
  BY <1>3, <1>5 DEF WrappedInv, EntriesFit, Entries
<1> QED
  BY <1>1, <1>5, <1>9, <1>10, <1>11, <1>12, <1>13, <1>14, <1>15 DEF WrappedInv, EntriesFit

\* An allowed call is one more that is open, under an id drawn for it.
LEMMA AllowKeeps ==
    ASSUME WrappedInv, NEW i, NEW n, NEW taken, AllowsWrappedNow(i, n, taken)
    PROVE  WrappedInv'
<1>0. /\ i \in Invocations /\ phase[i] = "idle" /\ n \notin complete /\ callId[i] = NoCall
      /\ body[i] = "none" /\ issued \in Nat /\ issued' = issued + 1 /\ issued' \in Nat
      /\ i \notin Open /\ i \notin Told /\ NoCall = 0
  BY DEF AllowsWrappedNow, WrappedInv, PhasesFit, CallsFit, Open, Told, NoCall
<1>1. /\ pending' = pending \cup {<<n, issued'>>}
      /\ wraps' = [wraps EXCEPT ![i] = n] /\ callId' = [callId EXCEPT ![i] = issued']
      /\ snapshot' = [snapshot EXCEPT ![i] = taken] /\ UNCHANGED <<body, complete>>
      /\ \E p \in {"body", "over"} : phase' = [phase EXCEPT ![i] = p]
      /\ Extends /\ \E T : ledger' \in Seq(T)
  BY <1>0 DEF AllowsWrappedNow, Grows
<1>2. PICK k \in Nat :
          /\ Fresh = {k} /\ ledger'[k].event = "allow" /\ ledger'[k].capture = Wrapper
          /\ ledger'[k].call = issued' /\ ledger'[k].node = n /\ ledger'[k].params = taken
  BY <1>0 DEF AllowsWrappedNow
<1>3. \A j \in Invocations : j # i => /\ wraps'[j] = wraps[j] /\ callId'[j] = callId[j]
                                      /\ snapshot'[j] = snapshot[j]
  BY <1>1 DEF WrappedInv, PhasesFit
<1>4. wraps'[i] = n /\ callId'[i] = issued' /\ snapshot'[i] = taken
  BY <1>0, <1>1 DEF WrappedInv, PhasesFit
<1>5. Open' = Open \cup {i} /\ Told' = Told
  BY <1>0, <1>1, <1>3, <1>4 DEF Open, Told
<1>6. PhasesFit'
  BY <1>0, <1>1, <1>4 DEF WrappedInv, PhasesFit
<1>7. CallsFit'
  <2>1. \A j \in Invocations : callId'[j] \in 0 .. issued' /\ (j # i => callId'[j] # issued')
    BY <1>0, <1>3, <1>4 DEF WrappedInv, CallsFit
  <2>2. \A j, l \in Invocations : callId'[j] = callId'[l] /\ callId'[j] # NoCall => j = l
    BY <1>3, <1>4, <2>1 DEF WrappedInv, CallsFit
  <2>3. {<<wraps'[j], callId'[j]>> : j \in Open'}
            = {<<wraps[j], callId[j]>> : j \in Open} \cup {<<n, issued'>>}
    BY <1>0, <1>3, <1>4, <1>5 DEF Open
  <2>4. \A j \in Open' : wraps'[j] \notin complete'
    BY <1>0, <1>1, <1>3, <1>4, <1>5 DEF WrappedInv, CallsFit, Open
  <2> QED
    BY <1>0, <1>1, <2>1, <2>2, <2>3, <2>4 DEF WrappedInv, CallsFit
<1>8. /\ DOMAIN ledger' = DOMAIN ledger \cup {k} /\ k \notin DOMAIN ledger
      /\ \A l \in DOMAIN ledger : ledger'[l] = ledger[l]
  BY <1>1, <1>2 DEF Extends, Fresh
<1>9. \A l \in DOMAIN ledger, j \in Open \cup Told :
          /\ AllowsWrapped(l, j)' <=> AllowsWrapped(l, j)
          /\ TellsWrapped(l, j)' <=> TellsWrapped(l, j)
  BY <1>0, <1>3, <1>8 DEF AllowsWrapped, TellsWrapped, Open, Told
<1>10. AllowsWrapped(k, i)'
  BY <1>2, <1>4 DEF AllowsWrapped
<1>11. /\ Entries(ledger', "allow") = Entries(ledger, "allow") \cup {k}
       /\ Entries(ledger', "outcome") = Entries(ledger, "outcome")
       /\ Entries(ledger', "deny") = Entries(ledger, "deny")
       /\ Finalized(ledger') = Finalized(ledger)
  BY <1>2, <1>8 DEF Entries, Finalized
<1>12. EntriesFit'
  <2>1. \A l \in Decisions(ledger) : ledger'[l].call \in 1 .. issued
    BY <1>8 DEF WrappedInv, EntriesFit, Decisions, Entries
  <2>2. Decisions(ledger') = Decisions(ledger) \cup {k}
    BY <1>11 DEF Decisions
  <2>3. \A l \in Decisions(ledger') : ledger'[l].call \in 1 .. issued'
    BY <1>0, <1>2, <2>1, <2>2
  <2>4. \A l, m \in Decisions(ledger) : ledger'[l].call = ledger'[m].call => l = m
    BY <1>8 DEF WrappedInv, EntriesFit, Decisions, Entries
  <2>5. \A l \in Decisions(ledger) : ledger'[l].call # issued'
    BY <1>0, <2>1
  <2>6. \A l, m \in Decisions(ledger') : ledger'[l].call = ledger'[m].call => l = m
    BY <1>2, <2>2, <2>4, <2>5
  <2>7. \A l \in Entries(ledger', "allow") : \E j \in Open' \cup Told' : AllowsWrapped(l, j)'
    BY <1>5, <1>9, <1>10, <1>11 DEF WrappedInv, EntriesFit, Entries
  <2>8. \A j \in Open' \cup Told' : \E l \in DOMAIN ledger' : AllowsWrapped(l, j)'
    BY <1>5, <1>8, <1>9, <1>10 DEF WrappedInv, EntriesFit
  <2>9. ASSUME NEW l \in Entries(ledger', "outcome")
        PROVE  \E j \in Told' : TellsWrapped(l, j)'
                                /\ \E a \in DOMAIN ledger' : a < l /\ AllowsWrapped(a, j)'
    <3>1. PICK j \in Told : TellsWrapped(l, j) /\ \E a \in DOMAIN ledger : a < l /\ AllowsWrapped(a, j)
      BY <1>11, <2>9 DEF WrappedInv, EntriesFit
    <3>2. l \in DOMAIN ledger
      BY <1>11, <2>9 DEF Entries
    <3> QED
      BY <1>5, <1>8, <1>9, <3>1, <3>2
  <2>10. \A j \in Told' : \E l \in DOMAIN ledger' : TellsWrapped(l, j)'
    BY <1>5, <1>8, <1>9 DEF WrappedInv, EntriesFit
  <2>11. \A l, m \in Entries(ledger', "outcome") : ledger'[l].call = ledger'[m].call => l = m
    BY <1>8, <1>11 DEF WrappedInv, EntriesFit, Entries
  <2> QED
    BY <1>1, <1>11, <2>3, <2>6, <2>7, <2>8, <2>9, <2>10, <2>11 DEF WrappedInv, EntriesFit
<1> QED
  BY <1>6, <1>7, <1>12 DEF WrappedInv

\* A reported call is open no more, and has the one outcome that is its own.
LEMMA TellKeeps ==
    ASSUME WrappedInv, NEW i, NEW ending, TellsWrappedNow(i, ending)
    PROVE  WrappedInv'
<1>0. /\ i \in Invocations /\ phase[i] = "body" /\ callId[i] # NoCall /\ body[i] = "none"
      /\ i \in Open /\ i \notin Told /\ ending # "none"
  BY DEF TellsWrappedNow, WrappedInv, PhasesFit, Open, Told
<1>1. /\ pending' = {p \in pending : p[2] # callId[i]}
      /\ phase' = [phase EXCEPT ![i] = "over"] /\ body' = [body EXCEPT ![i] = ending]
      /\ UNCHANGED <<wraps, callId, snapshot, complete, issued>>
      /\ Extends /\ \E T : ledger' \in Seq(T)
  BY DEF TellsWrappedNow, Grows
<1>2. PICK k \in Nat :
          /\ Fresh = {k} /\ ledger'[k].event = "outcome" /\ ledger'[k].call = callId[i]
          /\ ledger'[k].node = wraps[i] /\ ledger'[k].params = snapshot[i]
  BY DEF TellsWrappedNow
<1>3. Open' = Open \ {i} /\ Told' = Told \cup {i}
  BY <1>0, <1>1 DEF Open, Told, WrappedInv, PhasesFit
<1>4. PhasesFit'
  BY <1>0, <1>1 DEF WrappedInv, PhasesFit
<1>5. CallsFit'
  <2>1. pending = {<<wraps[j], callId[j]>> : j \in Open}
    BY DEF WrappedInv, CallsFit
  <2>2. \A j \in Open : callId[j] = callId[i] => j = i
    BY <1>0 DEF WrappedInv, CallsFit, Open
  <2>3. pending' = {<<wraps[j], callId[j]>> : j \in Open \ {i}}
    BY <1>1, <2>1, <2>2
  <2> QED
    BY <1>1, <1>3, <2>3 DEF WrappedInv, CallsFit
<1>6. /\ DOMAIN ledger' = DOMAIN ledger \cup {k} /\ k \notin DOMAIN ledger
      /\ \A l \in DOMAIN ledger : ledger'[l] = ledger[l] /\ l < k
  BY <1>1, <1>2 DEF Extends, Fresh
<1>7. \A l \in DOMAIN ledger, j \in Invocations :
          /\ AllowsWrapped(l, j)' <=> AllowsWrapped(l, j)
          /\ TellsWrapped(l, j)' <=> TellsWrapped(l, j)
  BY <1>1, <1>6 DEF AllowsWrapped, TellsWrapped
<1>8. TellsWrapped(k, i)'
  BY <1>1, <1>2 DEF TellsWrapped
<1>9. /\ Entries(ledger', "allow") = Entries(ledger, "allow")
      /\ Entries(ledger', "deny") = Entries(ledger, "deny")
      /\ Entries(ledger', "outcome") = Entries(ledger, "outcome") \cup {k}
      /\ Finalized(ledger') = Finalized(ledger)
  BY <1>2, <1>6 DEF Entries, Finalized
<1>10. Open' \cup Told' = Open \cup Told /\ Told \subseteq Invocations /\ Open \subseteq Invocations
  BY <1>0, <1>3 DEF Open, Told
<1>11. EntriesFit'
  <2>1. Decisions(ledger') = Decisions(ledger)
    BY <1>9 DEF Decisions
  <2>2. \A l \in Decisions(ledger) : ledger'[l] = ledger[l]
    BY <1>6 DEF Decisions, Entries
  <2>3. \A l \in Decisions(ledger') : ledger'[l].call \in 1 .. issued'
    BY <1>1, <2>1, <2>2 DEF WrappedInv, EntriesFit
  <2>4. \A l, m \in Decisions(ledger') : ledger'[l].call = ledger'[m].call => l = m
    BY <2>1, <2>2 DEF WrappedInv, EntriesFit
  <2>5. \A l \in Entries(ledger', "allow") : \E j \in Open' \cup Told' : AllowsWrapped(l, j)'
    BY <1>7, <1>9, <1>10 DEF WrappedInv, EntriesFit, Entries
  <2>6. \A j \in Open' \cup Told' : \E l \in DOMAIN ledger' : AllowsWrapped(l, j)'
    BY <1>6, <1>7, <1>10 DEF WrappedInv, EntriesFit
  <2>7. ASSUME NEW l \in Entries(ledger', "outcome")
        PROVE  \E j \in Told' : TellsWrapped(l, j)'
                                /\ \E a \in DOMAIN ledger' : a < l /\ AllowsWrapped(a, j)'
    <3>1. CASE l = k
      <4>1. PICK a \in DOMAIN ledger : AllowsWrapped(a, i)
        BY <1>0 DEF WrappedInv, EntriesFit
      <4> QED
        BY <1>0, <1>3, <1>6, <1>7, <1>8, <3>1, <4>1
    <3>2. CASE l \in Entries(ledger, "outcome")
      <4>1. PICK j \in Told : TellsWrapped(l, j)
                              /\ \E a \in DOMAIN ledger : a < l /\ AllowsWrapped(a, j)
        BY <3>2 DEF WrappedInv, EntriesFit
      <4> QED
        BY <1>3, <1>6, <1>7, <1>10, <3>2, <4>1 DEF Entries
    <3> QED
      BY <1>9, <2>7, <3>1, <3>2
  <2>8. \A j \in Told' : \E l \in DOMAIN ledger' : TellsWrapped(l, j)'
    BY <1>3, <1>6, <1>7, <1>8, <1>10 DEF WrappedInv, EntriesFit
  <2>9. ASSUME NEW l \in Entries(ledger, "outcome")
        PROVE  ledger'[l].call # callId[i] /\ ledger'[l] = ledger[l]
    <3>1. PICK j \in Told : TellsWrapped(l, j)
      BY <2>9 DEF WrappedInv, EntriesFit
    <3>2. callId[j] # callId[i]
      BY <1>0, <1>10, <3>1 DEF WrappedInv, CallsFit
    <3> QED
      BY <1>6, <2>9, <3>1, <3>2 DEF TellsWrapped, Entries
  <2>10. \A l, m \in Entries(ledger', "outcome") : ledger'[l].call = ledger'[m].call => l = m
    BY <1>2, <1>9, <2>9 DEF WrappedInv, EntriesFit
  <2> QED
    BY <1>1, <1>9, <2>3, <2>4, <2>5, <2>6, <2>7, <2>8, <2>10 DEF WrappedInv, EntriesFit
<1> QED
  BY <1>4, <1>5, <1>11 DEF WrappedInv

\* A node is finished when nothing is open on it.
LEMMA FinishKeeps ==
    ASSUME WrappedInv, NEW n, FinishesWrapped(n)
    PROVE  WrappedInv'
<1>1. /\ UNCHANGED <<phase, wraps, callId, snapshot, body, issued, pending>>
      /\ complete' = complete \cup {n} /\ PendingFor(n) = {}
      /\ Extends /\ \E T : ledger' \in Seq(T)
  BY DEF FinishesWrapped, Grows, WrappersSame
<1>2. PICK k \in Nat : Fresh = {k} /\ ledger'[k].event = "done" /\ ledger'[k].node = n
  BY DEF FinishesWrapped
<1>3. Open' = Open /\ Told' = Told
  BY <1>1 DEF Open, Told
<1>4. PhasesFit'
  BY <1>1 DEF WrappedInv, PhasesFit
<1>5. \A i \in Open : wraps[i] # n
  <2> SUFFICES ASSUME NEW i \in Open, wraps[i] = n
               PROVE  FALSE
    OBVIOUS
  <2>1. <<n, callId[i]>> \in {q \in pending : q[1] = n}
    BY DEF WrappedInv, CallsFit
  <2>2. <<n, callId[i]>>[2] \in PendingFor(n)
    BY <2>1 DEF PendingFor
  <2> QED
    BY <1>1, <2>2
<1>6. CallsFit'
  BY <1>1, <1>3, <1>5 DEF WrappedInv, CallsFit
<1>7. /\ DOMAIN ledger' = DOMAIN ledger \cup {k} /\ k \notin DOMAIN ledger
      /\ \A l \in DOMAIN ledger : ledger'[l] = ledger[l]
  BY <1>1, <1>2 DEF Extends, Fresh
<1>8. \A l \in DOMAIN ledger, j \in Invocations :
          /\ AllowsWrapped(l, j)' <=> AllowsWrapped(l, j)
          /\ TellsWrapped(l, j)' <=> TellsWrapped(l, j)
  BY <1>1, <1>7 DEF AllowsWrapped, TellsWrapped
<1>9. /\ Entries(ledger', "allow") = Entries(ledger, "allow")
      /\ Entries(ledger', "deny") = Entries(ledger, "deny")
      /\ Entries(ledger', "outcome") = Entries(ledger, "outcome")
      /\ Finalized(ledger') = Finalized(ledger) \cup {n}
  BY <1>2, <1>7 DEF Entries, Finalized
<1>10. Told \subseteq Invocations /\ Open \subseteq Invocations
  BY DEF Open, Told
<1>11. EntriesFit'
  <2>1. Decisions(ledger') = Decisions(ledger)
    BY <1>9 DEF Decisions
  <2>2. \A l \in Decisions(ledger) \cup Entries(ledger, "outcome") :
            ledger'[l] = ledger[l] /\ l \in DOMAIN ledger
    BY <1>7 DEF Decisions, Entries
  <2>3. \A l \in Decisions(ledger') : ledger'[l].call \in 1 .. issued'
    BY <1>1, <2>1, <2>2 DEF WrappedInv, EntriesFit
  <2>4. \A l, m \in Decisions(ledger') : ledger'[l].call = ledger'[m].call => l = m
    BY <2>1, <2>2 DEF WrappedInv, EntriesFit
  <2>5. \A l \in Entries(ledger', "allow") : \E j \in Open' \cup Told' : AllowsWrapped(l, j)'
    BY <1>3, <1>8, <1>9, <1>10 DEF WrappedInv, EntriesFit, Entries
  <2>6. \A j \in Open' \cup Told' : \E l \in DOMAIN ledger' : AllowsWrapped(l, j)'
    BY <1>3, <1>7, <1>8, <1>10 DEF WrappedInv, EntriesFit
  <2>7. ASSUME NEW l \in Entries(ledger, "outcome")
        PROVE  \E j \in Told' : TellsWrapped(l, j)'
                                /\ \E a \in DOMAIN ledger' : a < l /\ AllowsWrapped(a, j)'
    <3>1. PICK j \in Told : TellsWrapped(l, j)
                            /\ \E a \in DOMAIN ledger : a < l /\ AllowsWrapped(a, j)
      BY <2>7 DEF WrappedInv, EntriesFit
    <3> QED
      BY <1>3, <1>7, <1>8, <1>10, <2>2, <3>1
  <2>8. \A j \in Told' : \E l \in DOMAIN ledger' : TellsWrapped(l, j)'
    BY <1>3, <1>7, <1>8, <1>10 DEF WrappedInv, EntriesFit
  <2>9. \A l, m \in Entries(ledger', "outcome") : ledger'[l].call = ledger'[m].call => l = m
    BY <1>9, <2>2 DEF WrappedInv, EntriesFit
  <2> QED
    BY <1>1, <1>9, <2>3, <2>4, <2>5, <2>6, <2>7, <2>8, <2>9 DEF WrappedInv, EntriesFit
<1> QED
  BY <1>4, <1>6, <1>11 DEF WrappedInv

\* Each kind of step keeps the invariant.
LEMMA WrappedNext ==
    ASSUME WrappedInv, [AdapterNext]_adapterAllVars
    PROVE  WrappedInv'
<1>1. CASE PassesBy \/ \E i : RefusesWrapped(i)
  BY <1>1, PassesKeep, OtherEntriesKeep DEF WrappedInv
<1> QED
  BY <1>1, WrapperSteps, AllowKeeps, TellKeeps, FinishKeeps DEF WrapperStep

\* No call has been made yet.
LEMMA WrappedInit ==
    ASSUME AdapterInit
    PROVE  WrappedInv
<1> DEFINE e == RootEntry(1, nodes[1].agent, nodes[1].auth)
<1>1. /\ ledger = <<e>> /\ complete = {} /\ issued = 0 /\ pending = {}
      /\ e.event = "root"
  BY DEF AdapterInit, GuardInit, RootEntry
<1> HIDE DEF e
<1>2. ledger \in Seq({e}) /\ DOMAIN ledger = {1} /\ ledger[1] = e
  BY <1>1
<1>3. PhasesFit /\ Open = {} /\ Told = {}
  BY DEF AdapterInit, PhasesFit, Open, Told, NoCall
<1>4. CallsFit
  BY <1>1, <1>3 DEF CallsFit, AdapterInit, NoCall
<1>5. Decisions(ledger) = {} /\ Entries(ledger, "outcome") = {} /\ Finalized(ledger) = {}
      /\ Entries(ledger, "allow") = {}
  BY <1>1, <1>2 DEF Decisions, Entries, Finalized
<1>6. EntriesFit
  BY <1>1, <1>2, <1>3, <1>5 DEF EntriesFit
<1> QED
  BY <1>3, <1>4, <1>6 DEF WrappedInv

\* The invariant of the adapter, in all its states.
LEMMA WrappedAlways == AdapterSpec => []WrappedInv
  BY WrappedInit, WrappedNext, PTL DEF AdapterSpec

\* A running body's call is open on its node alone and has no outcome yet, and
\* its node is not finished: in whatever order wrapped calls start and end, and
\* whatever the application revokes, finishes and changes meanwhile.
THEOREM RunningCallsAreOpen == AdapterSpec => []AdapterTypeOK
  BY WrappedAlways, WrappedTypes, PTL

\* The wrappers report each call once, on the node that allowed it and with the
\* commitment that was allowed, so a chain of wrapped calls never fails execution
\* binding, though arguments change under way and writes fail.
THEOREM WrappedChainsBind == AdapterSpec => []WrappedCallsBind
  BY WrappedAlways, WrappedBind, PTL

-----------------------------------------------------------------------------
(* Snapshots *)

\* An argument is a finite graph of objects: each member is a leaf, an object
\* of the graph, or something that freeze cannot rebuild.
Cells(D) == [kind : {"leaf"}, of : Nat \ {0}] \cup [kind : {"object"}, of : D] \cup {Opaque}
IsHeap(h, D) ==
    IsFiniteSet(D) /\ h \in [D -> [a : Cells(D), b : Cells(D)]] /\ Root \in D

\* freeze, given what it makes of the objects below.
Unfold(f, h, o, active) ==
    IF o \in active THEN Unsupported
    ELSE Pair(Member(f, h[o].a, active \cup {o}), Member(f, h[o].b, active \cup {o}))
IsFreezing(f, h, D, S) == f = [at \in D \X S |-> Unfold(f, h, at[1], at[2])]

\* What a cell is; and a pair of codes is a code.
LEMMA CellKinds ==
    ASSUME NEW D, NEW c \in Cells(D)
    PROVE  \/ c.kind = "leaf" /\ c.of \in Nat /\ c.of # 0 /\ c # Opaque
           \/ c.kind = "object" /\ c.of \in D /\ c = Ref(c.of) /\ c # Opaque
           \/ c.kind = "opaque" /\ c = Opaque
  BY DEF Cells, Opaque, Ref

\* Cantor's pairing of natural numbers is one.
LEMMA PairCodes ==
    ASSUME NEW x \in Nat, NEW y \in Nat
    PROVE  /\ Pair(x, y) \in Nat
           /\ Pair(x, y) # Unsupported <=> x # Unsupported /\ y # Unsupported
<1>1. PICK m \in Nat : m = x + y
  OBVIOUS
<1>2. m * (m + 1) \in Nat
  OBVIOUS
<1>3. PICK p \in Nat : p = m * (m + 1)
  BY <1>2
<1>4. p \div 2 \in Nat
  OBVIOUS
<1>5. PICK q \in Nat : q = p \div 2
  BY <1>4
<1>6. Pair(x, y) = IF x = Unsupported \/ y = Unsupported THEN Unsupported ELSE q + y + 3
  BY <1>1, <1>3, <1>5 DEF Pair
<1> QED
  BY <1>6 DEF Unsupported

\* The paths that leave at most k objects to visit.
Short(D, k) == {S \in SUBSET D : Cardinality(D \ S) <= k}

\* How many objects are left to visit.
LEMMA LeftToVisit ==
    ASSUME NEW D, IsFiniteSet(D)
    PROVE  \A S \in SUBSET D : IsFiniteSet(D \ S) /\ Cardinality(D \ S) \in Nat
<1> SUFFICES ASSUME NEW S \in SUBSET D
             PROVE  IsFiniteSet(D \ S) /\ Cardinality(D \ S) \in Nat
  OBVIOUS
<1>1. D \ S \in SUBSET D
  OBVIOUS
<1>2. IsFiniteSet(D \ S)
  BY <1>1, FS_Subset
<1> QED
  BY <1>2, FS_CardinalityType

\* One object more on the path leaves one less.
LEMMA ShortStep ==
    ASSUME NEW D, IsFiniteSet(D), NEW k \in Nat, NEW S \in Short(D, k), NEW o \in D, o \notin S
    PROVE  /\ k # 0 /\ S \cup {o} \in Short(D, k - 1)
           /\ Cardinality(D \ (S \cup {o})) < Cardinality(D \ S)
<1>1. S \subseteq D /\ IsFiniteSet(D \ S) /\ Cardinality(D \ S) <= k
  BY FS_Subset DEF Short
<1>2. o \in D \ S /\ D \ (S \cup {o}) = (D \ S) \ {o}
  OBVIOUS
<1>3. Cardinality((D \ S) \ {o}) = Cardinality(D \ S) - 1
  BY <1>1, <1>2, FS_RemoveElement
<1>4. Cardinality(D \ S) \in Nat /\ Cardinality((D \ S) \ {o}) \in Nat
  BY <1>1, <1>2, FS_CardinalityType, FS_RemoveElement
<1>5. k # 0 /\ Cardinality((D \ S) \ {o}) <= k - 1
        /\ Cardinality((D \ S) \ {o}) < Cardinality(D \ S)
  BY <1>1, <1>3, <1>4
<1> QED
  BY <1>1, <1>2, <1>5 DEF Short

Freezes(f, h, D) == \A o \in D, S \in SUBSET D : f[<<o, S>>] = Unfold(f, h, o, S)

\* What is made of a pair depends on the pairs below only.
LEMMA UnfoldAgrees ==
    ASSUME NEW h, NEW D, IsHeap(h, D), NEW f, NEW g, NEW o \in D, NEW active,
           o \notin active => \A p \in D : f[<<p, active \cup {o}>>] = g[<<p, active \cup {o}>>]
    PROVE  Unfold(f, h, o, active) = Unfold(g, h, o, active)
<1>1. h[o].a \in Cells(D) /\ h[o].b \in Cells(D)
  BY DEF IsHeap
<1>2. ASSUME NEW c \in Cells(D), o \notin active
      PROVE  Member(f, c, active \cup {o}) = Member(g, c, active \cup {o})
  BY <1>2, CellKinds DEF Member
<1> QED
  BY <1>1, <1>2 DEF Unfold

\* The recursion of freeze ends: the path only grows, and has no object twice.
LEMMA FreezingExists ==
    ASSUME NEW h, NEW D, IsHeap(h, D), NEW n \in Nat
    PROVE  \E f : IsFreezing(f, h, D, Short(D, n))
<1> DEFINE Bad == {k \in 0 .. n : ~ \E f : IsFreezing(f, h, D, Short(D, k))}
<1>0. IsFiniteSet(D)
  BY DEF IsHeap
<1> SUFFICES ASSUME n \in Bad PROVE FALSE
  OBVIOUS
<1>1. PICK d \in Bad : \A k \in Bad : d <= k
  <2>1. Bad \in SUBSET Nat /\ Bad # {}
    OBVIOUS
  <2> HIDE DEF Bad
  <2> QED
    BY <2>1, Least
<1>2. PICK f : d # 0 => IsFreezing(f, h, D, Short(D, d - 1))
  <2>1. CASE d = 0
    BY <2>1
  <2>2. CASE d # 0
    <3>1. d - 1 \in 0 .. n /\ d - 1 \notin Bad
      BY <1>1, <2>2
    <3> QED
      BY <3>1
  <2> QED
    BY <2>1, <2>2
<1> DEFINE g == [at \in D \X Short(D, d) |-> Unfold(f, h, at[1], at[2])]
<1>3. d \in Nat
  BY <1>1
<1>4. ASSUME NEW o \in D, NEW S \in Short(D, d)
      PROVE  g[<<o, S>>] = Unfold(g, h, o, S)
  <2>1. g[<<o, S>>] = Unfold(f, h, o, S)
    BY DEF Unfold
  <2>2. ASSUME NEW p \in D, o \notin S
        PROVE  f[<<p, S \cup {o}>>] = g[<<p, S \cup {o}>>]
    <3>1. d # 0 /\ S \cup {o} \in Short(D, d - 1)
      BY <1>0, <1>3, <2>2, ShortStep
    <3>2. f[<<p, S \cup {o}>>] = Unfold(f, h, p, S \cup {o})
      BY <1>2, <3>1 DEF IsFreezing
    <3>3. S \cup {o} \in Short(D, d)
      <4>1. S \cup {o} \in SUBSET D /\ Cardinality(D \ (S \cup {o})) <= d - 1
        BY <3>1 DEF Short
      <4>2. Cardinality(D \ (S \cup {o})) \in Nat
        BY <1>0, FS_Subset, FS_CardinalityType
      <4> QED
        BY <1>3, <4>1, <4>2 DEF Short
    <3>4. g[<<p, S \cup {o}>>] = Unfold(f, h, p, S \cup {o})
      BY <3>3
    <3> QED
      BY <3>2, <3>4
  <2> HIDE DEF g
  <2>3. o \notin S => (\A p \in D : f[<<p, S \cup {o}>>] = g[<<p, S \cup {o}>>])
    BY <2>2
  <2>4. Unfold(f, h, o, S) = Unfold(g, h, o, S)
    BY <2>3, UnfoldAgrees
  <2> QED
    BY <2>1, <2>4
<1>5. IsFreezing(g, h, D, Short(D, d))
  <2>1. ASSUME NEW at \in D \X Short(D, d)
        PROVE  g[at] = Unfold(g, h, at[1], at[2])
    <3>1. PICK o \in D, S \in Short(D, d) : at = <<o, S>>
      OBVIOUS
    <3> QED
      BY <1>4, <3>1
  <2>2. g = [at \in D \X Short(D, d) |-> Unfold(g, h, at[1], at[2])]
    BY <2>1
  <2> QED
    BY <2>2 DEF IsFreezing
<1> QED
  BY <1>1, <1>5

\* What freeze computes.
LEMMA FreezeUnfolds ==
    ASSUME NEW h, NEW D, IsHeap(h, D)
    PROVE  \E f : Freeze(h, Root) = f[<<Root, {}>>] /\ Freezes(f, h, D)
<1>0. DOMAIN h = D
  BY DEF IsHeap
<1>1. PICK n \in Nat : n = Cardinality(D)
  BY FS_CardinalityType DEF IsHeap
<1>2. Short(D, n) = SUBSET D
  <2>1. ASSUME NEW S \in SUBSET D
        PROVE  Cardinality(D \ S) <= n
    BY <1>1, FS_Subset DEF IsHeap
  <2> QED
    BY <2>1 DEF Short
<1>3. \E g : IsFreezing(g, h, D, SUBSET D)
  <2>1. \E g : IsFreezing(g, h, D, Short(D, n))
    BY FreezingExists
  <2> QED
    BY <1>2, <2>1
<1>4. PICK f : f = CHOOSE g : IsFreezing(g, h, DOMAIN h, SUBSET DOMAIN h)
  OBVIOUS
<1>5. IsFreezing(f, h, D, SUBSET D)
  BY <1>0, <1>3, <1>4
<1>6. Freeze(h, Root) = f[<<Root, {}>>]
  BY <1>4 DEF Freeze, IsFreezing, Unfold
<1>7. Freezes(f, h, D)
  BY <1>5 DEF IsFreezing, Freezes
<1> QED
  BY <1>6, <1>7

\* Reach is the least set that has its roots and is closed under members.
LEMMA ReachLeast ==
    ASSUME NEW h, NEW D, IsHeap(h, D), NEW roots \in SUBSET D
    PROVE  /\ Reach(h, roots) \subseteq D /\ roots \subseteq Reach(h, roots)
           /\ \A o \in Reach(h, roots), p \in D : Ref(p) \in Members(h, o) => p \in Reach(h, roots)
           /\ \A T \in SUBSET D :
                 roots \subseteq T /\ (\A o \in T, p \in D : Ref(p) \in Members(h, o) => p \in T)
                 => Reach(h, roots) \subseteq T
<1> DEFINE Closed(T) == roots \subseteq T /\ Successors(h, T) \subseteq T
           Least1 == {x \in D : \A T \in SUBSET D : Closed(T) => x \in T}
           IsLeast(S) == Closed(S) /\ \A T \in SUBSET D : Closed(T) => S \subseteq T
<1>0. DOMAIN h = D
  BY DEF IsHeap
<1>1. \A T \in SUBSET D :
          Closed(T) <=> /\ roots \subseteq T
                        /\ \A o \in T, p \in D : Ref(p) \in Members(h, o) => p \in T
  BY <1>0 DEF Successors
<1>2. Least1 \in SUBSET D /\ IsLeast(Least1)
  <2>1. Least1 \in SUBSET D /\ roots \subseteq Least1
    OBVIOUS
  <2>2. ASSUME NEW o \in Least1, NEW p \in D, Ref(p) \in Members(h, o), NEW T \in SUBSET D, Closed(T)
        PROVE  p \in T
    <3>1. o \in T
      BY <2>2
    <3> HIDE DEF Closed
    <3> QED
      BY <1>1, <2>2, <3>1
  <2>3. Closed(Least1)
    <3>1. \A o \in Least1, p \in D : Ref(p) \in Members(h, o) => p \in Least1
      BY <2>2
    <3> HIDE DEF Least1, Closed
    <3> QED
      BY <1>1, <2>1, <3>1
  <2>4. \A T \in SUBSET D : Closed(T) => Least1 \subseteq T
    OBVIOUS
  <2> QED
    BY <2>1, <2>3, <2>4
<1>3. Reach(h, roots) = CHOOSE S \in SUBSET D : IsLeast(S)
  BY <1>0 DEF Reach
<1> HIDE DEF Least1, IsLeast
<1>4. Reach(h, roots) \in SUBSET D /\ IsLeast(Reach(h, roots))
  BY <1>2, <1>3
<1>5. /\ Closed(Reach(h, roots)) /\ \A T \in SUBSET D : Closed(T) => Reach(h, roots) \subseteq T
  BY <1>4 DEF IsLeast
<1> HIDE DEF Closed
<1> QED
  BY <1>1, <1>4, <1>5

\* Codes are natural numbers, as there is a path with no code only where there
\* is a longer one.
LEMMA FrozenCodes ==
    ASSUME NEW h, NEW D, IsHeap(h, D), NEW f, Freezes(f, h, D)
    PROVE  \A o \in D, S \in SUBSET D : f[<<o, S>>] \in Nat
<1> DEFINE Bad == {Cardinality(D \ S) : S \in {R \in SUBSET D : \E o \in D : f[<<o, R>>] \notin Nat}}
<1> SUFFICES ASSUME Bad # {} PROVE FALSE
  OBVIOUS
<1>0. IsFiniteSet(D)
  BY DEF IsHeap
<1>1. PICK d \in Bad : \A k \in Bad : d <= k
  <2>1. Bad \in SUBSET Nat
    BY <1>0, LeftToVisit
  <2> HIDE DEF Bad
  <2> QED
    BY <2>1, Least
<1>2. PICK S \in SUBSET D, o \in D : d = Cardinality(D \ S) /\ f[<<o, S>>] \notin Nat
  BY <1>1
<1>3. d \in Nat
  BY <1>0, <1>2, LeftToVisit
<1>4. f[<<o, S>>] = Unfold(f, h, o, S)
  BY DEF Freezes
<1>5. o \notin S
  BY <1>2, <1>4 DEF Unfold, Unsupported
<1>6. S \in Short(D, d)
  BY <1>2, <1>3 DEF Short
<1>7. Cardinality(D \ (S \cup {o})) < d /\ Cardinality(D \ (S \cup {o})) \in Nat
  <2>1. Cardinality(D \ (S \cup {o})) < Cardinality(D \ S)
    BY <1>0, <1>3, <1>5, <1>6, ShortStep
  <2>2. S \cup {o} \in SUBSET D
    OBVIOUS
  <2>3. Cardinality(D \ (S \cup {o})) \in Nat
    BY <1>0, <2>2, LeftToVisit
  <2> QED
    BY <1>2, <2>1, <2>3
<1>8. ASSUME NEW p \in D
      PROVE  f[<<p, S \cup {o}>>] \in Nat
  <2>1. ASSUME Cardinality(D \ (S \cup {o})) \in Bad
        PROVE  FALSE
    <3> DEFINE m == Cardinality(D \ (S \cup {o}))
    <3>1. m \in Bad /\ m \in Nat /\ m < d
      BY <1>7, <2>1
    <3> HIDE DEF Bad, m
    <3>2. d <= m
      BY <1>1, <3>1
    <3> QED
      BY <1>3, <3>1, <3>2
  <2>2. S \cup {o} \in SUBSET D
    OBVIOUS
  <2> QED
    BY <2>1, <2>2
<1>9. h[o].a \in Cells(D) /\ h[o].b \in Cells(D)
  BY DEF IsHeap
<1>10. ASSUME NEW c \in Cells(D)
       PROVE  Member(f, c, S \cup {o}) \in Nat
  BY <1>8, CellKinds DEF Member, Unsupported
<1>11. Unfold(f, h, o, S) \in Nat
  BY <1>5, <1>9, <1>10, PairCodes DEF Unfold
<1> QED
  BY <1>2, <1>4, <1>11

\* A code for a whole is a code for each part.
CodesOfParts(f, h, D) ==
    \A o \in D, S \in SUBSET D :
        f[<<o, S>>] # Unsupported <=>
            /\ o \notin S /\ Opaque \notin Members(h, o)
            /\ \A p \in D : Ref(p) \in Members(h, o) => f[<<p, S \cup {o}>>] # Unsupported

\* What freeze makes of its objects is such.
LEMMA FrozenParts ==
    ASSUME NEW h, NEW D, IsHeap(h, D), NEW f, Freezes(f, h, D)
    PROVE  CodesOfParts(f, h, D)
<1>0. \A o \in D, S \in SUBSET D : f[<<o, S>>] \in Nat
  BY FrozenCodes
<1> SUFFICES ASSUME NEW o \in D, NEW S \in SUBSET D
    PROVE  f[<<o, S>>] # Unsupported <=>
               /\ o \notin S /\ Opaque \notin Members(h, o)
               /\ \A p \in D : Ref(p) \in Members(h, o) => f[<<p, S \cup {o}>>] # Unsupported
  BY DEF CodesOfParts
<1>1. h[o].a \in Cells(D) /\ h[o].b \in Cells(D)
  BY DEF IsHeap
<1>2. S \cup {o} \in SUBSET D
  OBVIOUS
<1>3. ASSUME NEW c \in Cells(D)
      PROVE  /\ Member(f, c, S \cup {o}) \in Nat
             /\ Member(f, c, S \cup {o}) # Unsupported <=>
                    c # Opaque /\ \A p \in D : Ref(p) = c => f[<<p, S \cup {o}>>] # Unsupported
  <2>1. CASE c.kind = "leaf" /\ c.of \in Nat /\ c.of # 0 /\ c # Opaque
    BY <2>1 DEF Member, Unsupported, Ref
  <2>2. CASE c.kind = "object" /\ c.of \in D /\ c = Ref(c.of) /\ c # Opaque
    <3>1. \A p \in D : Ref(p) = c => p = c.of
      BY <2>2 DEF Ref
    <3> QED
      BY <1>0, <1>2, <2>2, <3>1 DEF Member
  <2>3. CASE c.kind = "opaque" /\ c = Opaque
    BY <2>3 DEF Member, Unsupported
  <2> QED
    BY <2>1, <2>2, <2>3, CellKinds
<1>4. f[<<o, S>>] = Unfold(f, h, o, S)
  BY DEF Freezes
<1> DEFINE x == Member(f, h[o].a, S \cup {o})
           y == Member(f, h[o].b, S \cup {o})
<1>5. f[<<o, S>>] # Unsupported <=> o \notin S /\ x # Unsupported /\ y # Unsupported
  <2>1. x \in Nat /\ y \in Nat
    BY <1>1, <1>3
  <2>2. Unfold(f, h, o, S) = IF o \in S THEN Unsupported ELSE Pair(x, y)
    BY DEF Unfold
  <2> HIDE DEF x, y
  <2>3. Pair(x, y) # Unsupported <=> x # Unsupported /\ y # Unsupported
    BY <2>1, PairCodes
  <2> QED
    BY <1>4, <2>2, <2>3
<1>6. x # Unsupported <=> /\ h[o].a # Opaque
                         /\ \A p \in D : Ref(p) = h[o].a => f[<<p, S \cup {o}>>] # Unsupported
  BY <1>1, <1>3
<1>7. y # Unsupported <=> /\ h[o].b # Opaque
                         /\ \A p \in D : Ref(p) = h[o].b => f[<<p, S \cup {o}>>] # Unsupported
  BY <1>1, <1>3
<1>8. \A c : c \in Members(h, o) <=> c = h[o].a \/ c = h[o].b
  BY DEF Members
<1> HIDE DEF x, y
<1> QED
  BY <1>5, <1>6, <1>7, <1>8

\* A commitment is made of trees: if there is a code, no object is reached from
\* its own members, as it would be met on its own path.
LEMMA CommittedIsTree ==
    ASSUME NEW h, NEW D, IsHeap(h, D), Freeze(h, Root) # Unsupported
    PROVE  IsTree(h, Root)
<1>1. PICK f : Freeze(h, Root) = f[<<Root, {}>>] /\ Freezes(f, h, D)
  BY FreezeUnfolds
<1>3. CodesOfParts(f, h, D)
  BY <1>1, FrozenParts
<1>4. Root \in D /\ {Root} \in SUBSET D /\ DOMAIN h = D
  BY DEF IsHeap
<1> DEFINE V == {o \in D : \E S \in SUBSET D : f[<<o, S>>] # Unsupported}
<1>5. Reach(h, {Root}) \subseteq V
  <2>1. {Root} \subseteq V
    BY <1>1, <1>4
  <2>2. ASSUME NEW o \in V, NEW p \in D, Ref(p) \in Members(h, o)
        PROVE  p \in V
    <3>1. PICK S \in SUBSET D : f[<<o, S>>] # Unsupported
      OBVIOUS
    <3>2. f[<<p, S \cup {o}>>] # Unsupported /\ S \cup {o} \in SUBSET D
      BY <1>3, <2>2, <3>1 DEF CodesOfParts
    <3> QED
      BY <3>2
  <2> HIDE DEF V
  <2>3. V \in SUBSET D
    BY DEF V
  <2>4. \A o \in V, p \in D : Ref(p) \in Members(h, o) => p \in V
    BY <2>2
  <2>5. \A T \in SUBSET D :
            {Root} \subseteq T /\ (\A o \in T, p \in D : Ref(p) \in Members(h, o) => p \in T)
            => Reach(h, {Root}) \subseteq T
    BY <1>4, ReachLeast
  <2> QED
    BY <2>1, <2>3, <2>4, <2>5
<1>6. ASSUME NEW o \in V
      PROVE  Opaque \notin Members(h, o) /\ o \notin Reach(h, Successors(h, {o}))
  <2>1. PICK S \in SUBSET D : f[<<o, S>>] # Unsupported
    BY <1>6
  <2>2. Successors(h, {o}) = {p \in D : Ref(p) \in Members(h, o)}
    BY <1>4 DEF Successors
  <2> DEFINE W == {p \in D : \E R \in SUBSET D : o \in R /\ f[<<p, R>>] # Unsupported}
  <2>3. Successors(h, {o}) \subseteq W
    <3>1. ASSUME NEW p \in D, Ref(p) \in Members(h, o)
          PROVE  p \in W
      <4>1. f[<<p, S \cup {o}>>] # Unsupported /\ S \cup {o} \in SUBSET D
        BY <1>3, <1>6, <2>1, <3>1 DEF CodesOfParts
      <4> QED
        BY <4>1
    <3> QED
      BY <2>2, <3>1
  <2>4. ASSUME NEW q \in W, NEW p \in D, Ref(p) \in Members(h, q)
        PROVE  p \in W
    <3>1. PICK R \in SUBSET D : o \in R /\ f[<<q, R>>] # Unsupported
      OBVIOUS
    <3>2. f[<<p, R \cup {q}>>] # Unsupported /\ R \cup {q} \in SUBSET D /\ o \in R \cup {q}
      BY <1>3, <2>4, <3>1 DEF CodesOfParts
    <3> QED
      BY <3>2
  <2>5. o \notin W
    BY <1>3, <1>6 DEF CodesOfParts
  <2>6. W \in SUBSET D /\ Successors(h, {o}) \in SUBSET D
    BY <2>2
  <2> HIDE DEF W
  <2>7. Reach(h, Successors(h, {o})) \subseteq W
    <3>1. \A q \in W, p \in D : Ref(p) \in Members(h, q) => p \in W
      BY <2>4
    <3> DEFINE roots == Successors(h, {o})
    <3>2. roots \in SUBSET D /\ roots \subseteq W
      BY <2>3, <2>6
    <3> HIDE DEF roots
    <3>3. \A T \in SUBSET D :
              roots \subseteq T /\ (\A q \in T, p \in D : Ref(p) \in Members(h, q) => p \in T)
              => Reach(h, roots) \subseteq T
      BY <3>2, ReachLeast
    <3>4. Reach(h, roots) \subseteq W
      BY <2>6, <3>1, <3>2, <3>3
    <3> QED
      BY <3>4 DEF roots
  <2> QED
    BY <1>3, <1>6, <2>1, <2>5, <2>7 DEF CodesOfParts
<1> QED
  BY <1>5, <1>6 DEF IsTree

\* Every tree is committed to: where a part had no code, its path would come
\* back to an object, which is then within reach of its own members.
LEMMA TreeIsCommitted ==
    ASSUME NEW h, NEW D, IsHeap(h, D), IsTree(h, Root)
    PROVE  Freeze(h, Root) # Unsupported
<1>1. PICK f : Freeze(h, Root) = f[<<Root, {}>>] /\ Freezes(f, h, D)
  BY FreezeUnfolds
<1>3. CodesOfParts(f, h, D)
  BY <1>1, FrozenParts
<1>4. Root \in D /\ {Root} \in SUBSET D /\ DOMAIN h = D /\ IsFiniteSet(D)
  BY DEF IsHeap
<1> DEFINE Above(S, o) == \A x \in S : o \in Reach(h, Successors(h, {x}))
           Reached == Reach(h, {Root})
           Bad == {Cardinality(D \ S) : S \in {R \in SUBSET D :
                        \E o \in Reached : Above(R, o) /\ f[<<o, R>>] = Unsupported}}
<1>5. SUFFICES ASSUME Freeze(h, Root) = Unsupported PROVE FALSE
  OBVIOUS
<1>6. Reached \subseteq D /\ Root \in Reached
      /\ \A o \in Reached, p \in D : Ref(p) \in Members(h, o) => p \in Reached
  BY <1>4, ReachLeast
<1>7. Bad # {}
  <2>1. {} \in SUBSET D /\ Above({}, Root)
    OBVIOUS
  <2> HIDE DEF Above, Reached
  <2> QED
    BY <1>1, <1>5, <1>6, <2>1
<1>8. PICK d \in Bad : \A k \in Bad : d <= k
  <2> HIDE DEF Above, Reached
  <2>1. Bad \in SUBSET Nat
    <3>1. \A S \in SUBSET D : Cardinality(D \ S) \in Nat
      BY <1>4, LeftToVisit
    <3> QED
      BY <3>1
  <2> HIDE DEF Bad
  <2> QED
    BY <1>7, <2>1, Least
<1>9. PICK S \in SUBSET D, o \in Reached :
          d = Cardinality(D \ S) /\ Above(S, o) /\ f[<<o, S>>] = Unsupported
  BY <1>8
<1>10. o \in D /\ Opaque \notin Members(h, o) /\ o \notin Reach(h, Successors(h, {o}))
  BY <1>6, <1>9 DEF IsTree
<1>11. o \notin S
  BY <1>9, <1>10
<1>12. PICK p \in D : Ref(p) \in Members(h, o) /\ f[<<p, S \cup {o}>>] = Unsupported
  BY <1>3, <1>9, <1>10, <1>11 DEF CodesOfParts
<1>13. \A x \in D : Successors(h, {x}) = {q \in D : Ref(q) \in Members(h, x)}
  BY <1>4 DEF Successors
<1>14. Above(S \cup {o}, p)
  <2>1. ASSUME NEW x \in S
        PROVE  p \in Reach(h, Successors(h, {x}))
    <3> DEFINE roots == Successors(h, {x})
    <3>1. roots \in SUBSET D
      BY <1>13
    <3>2. o \in Reach(h, roots)
      BY <1>9, <2>1
    <3> HIDE DEF roots
    <3>3. \A y \in Reach(h, roots), q \in D : Ref(q) \in Members(h, y) => q \in Reach(h, roots)
      BY <3>1, ReachLeast
    <3>4. p \in Reach(h, roots)
      BY <1>12, <3>2, <3>3
    <3> QED
      BY <3>4 DEF roots
  <2>2. p \in Reach(h, Successors(h, {o}))
    <3>1. p \in Successors(h, {o}) /\ Successors(h, {o}) \in SUBSET D
      BY <1>10, <1>12, <1>13
    <3> QED
      BY <3>1, ReachLeast
  <2> QED
    BY <2>1, <2>2
<1>15. p \in Reached
  BY <1>6, <1>9, <1>12
<1> HIDE DEF Above, Reached
<1>16. Cardinality(D \ (S \cup {o})) \in Bad
  BY <1>10, <1>12, <1>14, <1>15
<1>17. d \in Nat /\ S \in Short(D, d)
  BY <1>4, <1>9, LeftToVisit DEF Short
<1>18. Cardinality(D \ (S \cup {o})) < d /\ Cardinality(D \ (S \cup {o})) \in Nat
  <2>1. Cardinality(D \ (S \cup {o})) < Cardinality(D \ S)
    BY <1>4, <1>10, <1>11, <1>17, ShortStep
  <2>2. S \cup {o} \in SUBSET D
    BY <1>10
  <2> QED
    BY <1>4, <1>9, <2>1, <2>2, LeftToVisit
<1> HIDE DEF Bad
<1> QED
  BY <1>8, <1>16, <1>17, <1>18

\* What the wrapped calls are given are such graphs.
HeapsRead == \A h \in Heaps : \E D : IsHeap(h, D)

\* Arguments change in one place only, and stay one.
LEMMA HeapNext ==
    ASSUME \E D : IsHeap(heap, D), [AdapterNext]_adapterAllVars
    PROVE  (\E D : IsHeap(heap, D))'
<1>1. PICK D : IsHeap(heap, D)
  OBVIOUS
<1>2. heap' = heap \/ \E o \in DOMAIN heap : heap' = [heap EXCEPT ![o].a = Leaf(2)]
  <2>1. CASE \E o \in DOMAIN heap : ChangeArguments(o)
    BY <2>1 DEF ChangeArguments
  <2>2. CASE \E i \in Invocations : InvokeStep(i)
    <3>1. PICK i \in Invocations, n \in held : Starts(i, n)
      BY <2>2 DEF InvokeStep, Invoke, InvokeUnpersisted, InvokeRefused
    <3>2. heap' = heap
      BY <3>1 DEF Starts
    <3> QED
      BY <3>2
  <2>3. CASE \E i \in Invocations : EndStep(i)
    BY <2>3 DEF EndStep, BodyEnds, BodyEndsUnpersisted, Report
  <2>4. CASE \E n \in held : ApplicationStep(n)
    BY <2>4 DEF ApplicationStep, Finish, adapterVars
  <2>5. CASE UNCHANGED adapterAllVars
    BY <2>5 DEF adapterAllVars, adapterVars
  <2> QED
    BY <2>1, <2>2, <2>3, <2>4, <2>5 DEF AdapterNext
<1>3. ASSUME NEW o \in DOMAIN heap, heap' = [heap EXCEPT ![o].a = Leaf(2)]
      PROVE  IsHeap(heap', D)
  <2>1. o \in D /\ heap \in [D -> [a : Cells(D), b : Cells(D)]]
    BY <1>1, <1>3 DEF IsHeap
  <2>2. Leaf(2) \in Cells(D)
    BY DEF Leaf, Cells
  <2>3. [heap[o] EXCEPT !.a = Leaf(2)] \in [a : Cells(D), b : Cells(D)]
    BY <2>1, <2>2
  <2>4. PICK c : c = [heap[o] EXCEPT !.a = Leaf(2)]
    OBVIOUS
  <2>5. heap' = [heap EXCEPT ![o] = c] /\ c \in [a : Cells(D), b : Cells(D)]
    BY <1>3, <2>3, <2>4
  <2>6. heap' \in [D -> [a : Cells(D), b : Cells(D)]]
    BY <2>1, <2>5
  <2> QED
    BY <1>1, <2>6 DEF IsHeap
<1>4. IsHeap(heap', D)
  BY <1>1, <1>2, <1>3
<1> QED
  BY <1>4

\* A snapshot commits to the arguments exactly if they have a JSON form, whatever
\* the objects are and however bodies change them: a shared object is no cycle,
\* a cycle has no commitment, and freeze comes to an end on each of them.
THEOREM SnapshotsCommitToTrees ==
    ASSUME HeapsRead
    PROVE  AdapterSpec => []CommitsExactlyToTrees
<1>1. AdapterInit => \E D : IsHeap(heap, D)
  BY DEF AdapterInit, HeapsRead
<1>2. (\E D : IsHeap(heap, D)) => CommitsExactlyToTrees
  BY CommittedIsTree, TreeIsCommitted DEF CommitsExactlyToTrees
<1> QED
  BY <1>1, <1>2, HeapNext, PTL DEF AdapterSpec
=============================================================================
