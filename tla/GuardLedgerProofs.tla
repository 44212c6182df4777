-------------------------- MODULE GuardLedgerProofs --------------------------
(***************************************************************************)
(* The ledger a guard writes, and the verifier that reads it alone.        *)
(*                                                                         *)
(* First what the offline verifier's checks amount to, for every ledger    *)
(* there is; then that the guard implements the delegation chain, so that  *)
(* what was proved of the chain holds under everything the guard's callers, *)
(* its strike policy and its failing writes can do; then that the ledger   *)
(* verifies, because what it says of a node agrees with the node; then     *)
(* the same while the sinks of an operation call back, to any depth; and   *)
(* last what a step may do to the guard's own state, by kind, and from the *)
(* kinds that the state is well typed, that meters count allows, and that  *)
(* limits hold.                                                            *)
(***************************************************************************)
EXTENDS GuardSinks, DelegationChainProofs

-----------------------------------------------------------------------------
(***************************************************************************)
(* The offline verifier compares a spawn with its parent and an allow with *)
(* its node, and accepts nothing that is outside any authority above it.   *)
(***************************************************************************)

\* What the shape checks leave: readable authorities, whose ceiling keys mean
\* one thing throughout the ledger, and acts with a readable scope and context.
IsReadable(L) ==
    /\ DOMAIN L \subseteq Nat
    /\ \A i \in Definitions(L) : IsAuthority(L[i].authority)
    /\ \A i, j \in Definitions(L) : ReadAlike(L[i].authority, L[j].authority)

IsReadableAct(act) ==
    act.scope \in Scope /\ \A f \in DOMAIN act.ctx : act.ctx[f] \in JsonValue

\* A node's only definition is the one that is read.
LEMMA OnlyDefinition ==
    ASSUME NEW L, NEW n, NEW i \in Definitions(L), i \in Nat, L[i].node = n,
           \A j \in Definitions(L) : L[j].node = n => j = i
    PROVE  DefinitionOf(L, n) = i
<1>1. L[i].node = n /\ \A j \in Definitions(L) : L[j].node = n => i <= j
  OBVIOUS
<1>2. \A k \in Definitions(L) :
          L[k].node = n /\ (\A j \in Definitions(L) : L[j].node = n => k <= j) => k = i
  OBVIOUS
<1> QED
  BY <1>1, <1>2 DEF DefinitionOf

\* A ledger that is monotone defines each node once, so what a check reads of a
\* node is what its one entry says.
LEMMA DefinedOnce ==
    ASSUME NEW L, DOMAIN L \subseteq Nat, Monotonicity(L), NEW i \in Definitions(L)
    PROVE  /\ DefinitionOf(L, L[i].node) = i
           /\ \A j \in Definitions(L) : L[j].node = L[i].node => j = i
<1>1. ASSUME NEW j \in Definitions(L), L[j].node = L[i].node
      PROVE  j = i
  <2>1. i \in Nat /\ j \in Nat
    BY DEF Definitions, Entries
  <2>2. ~(i < j)
    BY <1>1 DEF Monotonicity, DefinedBefore
  <2>3. ~(j < i)
    BY <1>1 DEF Monotonicity, DefinedBefore
  <2> QED
    BY <2>1, <2>2, <2>3
<1>2. i \in Nat
  BY DEF Definitions, Entries
<1> QED
  BY <1>1, <1>2, OnlyDefinition

\* What is read of a node on the ledger: its authority, and, of a node that was
\* spawned, a parent on the ledger that it is within.
LEMMA NodeOnLedger ==
    ASSUME NEW L, IsReadable(L), Monotonicity(L), NEW n \in NodesOn(L)
    PROVE  /\ DefinitionOf(L, n) \in Definitions(L)
           /\ L[DefinitionOf(L, n)].node = n
           /\ IsAuthority(AuthorityOn(L, n))
           /\ L[DefinitionOf(L, n)].event = "spawn" =>
                 /\ L[DefinitionOf(L, n)].parent \in NodesOn(L)
                 /\ IsNarrowerThan(AuthorityOn(L, n),
                                   AuthorityOn(L, L[DefinitionOf(L, n)].parent))
<1>1. PICK i \in Definitions(L) : L[i].node = n
  BY DEF NodesOn
<1>2. DefinitionOf(L, n) = i
  BY <1>1, DefinedOnce DEF IsReadable
<1>3. AuthorityOn(L, n) = L[i].authority /\ IsAuthority(L[i].authority)
  BY <1>2 DEF AuthorityOn, IsReadable
<1>4. ASSUME L[i].event = "spawn"
      PROVE  L[i].parent \in NodesOn(L) /\ IsNarrowerThan(L[i].authority, AuthorityOn(L, L[i].parent))
  <2>1. SpawnIsMonotone(L, i)
    BY <1>4 DEF Monotonicity
  <2> QED
    BY <2>1 DEF SpawnIsMonotone, DefinedBefore, NodesOn
<1> QED
  BY <1>1, <1>2, <1>3, <1>4

\* One parent at a time is the whole line.
LEMMA WithinTheLine ==
    ASSUME NEW L, IsReadable(L), Monotonicity(L), NEW n \in NodesOn(L), NEW a \in LineOn(L, n)
    PROVE  a \in NodesOn(L) /\ IsNarrowerThan(AuthorityOn(L, n), AuthorityOn(L, a))
<1> DEFINE S == {b \in NodesOn(L) : IsNarrowerThan(AuthorityOn(L, n), AuthorityOn(L, b))}
<1>1. S \in SUBSET NodesOn(L) /\ n \in S
  BY NodeOnLedger, NarrowerReflexive
<1>2. ParentsWithin(L, S)
  <2>1. SUFFICES ASSUME NEW i \in Entries(L, "spawn"), L[i].node \in S
                 PROVE  L[i].parent \in S
    BY DEF ParentsWithin
  <2> DEFINE b == L[i].node
             p == L[i].parent
  <2>2. i \in Definitions(L) /\ L[i].event = "spawn"
    BY DEF Definitions, Entries
  <2>3. DefinitionOf(L, b) = i
    BY <2>2, DefinedOnce DEF IsReadable
  <2>4. p \in NodesOn(L) /\ IsNarrowerThan(AuthorityOn(L, b), AuthorityOn(L, p))
    BY <2>1, <2>2, <2>3, NodeOnLedger
  <2>5. /\ IsAuthority(AuthorityOn(L, n)) /\ IsAuthority(AuthorityOn(L, b))
        /\ IsAuthority(AuthorityOn(L, p))
    BY <2>1, <2>4, NodeOnLedger
  <2>6. IsNarrowerThan(AuthorityOn(L, n), AuthorityOn(L, p))
    BY <2>1, <2>4, <2>5, NarrowerTransitive
  <2> QED
    BY <2>4, <2>6
<1>3. a \in S
  BY <1>1, <1>2 DEF LineOn
<1> QED
  BY <1>3

\* An accepted ledger, whoever wrote it: every entry is within the whole line
\* above its node, though the verifier looks at one parent only.
THEOREM AcceptedLedgersStayInLine ==
    ASSUME NEW L, IsReadable(L), Verifies(L), NEW i \in DOMAIN L,
           i \in Gated(L) => IsReadableAct(L[i])
    PROVE  EntryInLine(L, i)
<1>1. Monotonicity(L) /\ Containment(L)
  BY DEF Verifies
<1>2. ASSUME i \in Definitions(L), NEW a \in LineOn(L, L[i].node)
      PROVE  IsNarrowerThan(L[i].authority, AuthorityOn(L, a))
  <2>1. L[i].node \in NodesOn(L) /\ AuthorityOn(L, L[i].node) = L[i].authority
    BY <1>1, <1>2, DefinedOnce DEF NodesOn, AuthorityOn, IsReadable
  <2> QED
    BY <1>1, <1>2, <2>1, WithinTheLine
<1>3. ASSUME i \in Gated(L), NEW a \in LineOn(L, L[i].node)
      PROVE  Permits(AuthorityOn(L, a), L[i].scope, L[i].ctx)
  <2> DEFINE n == L[i].node
  <2>1. n \in NodesOn(L) /\ Permits(AuthorityOn(L, n), L[i].scope, L[i].ctx)
    BY <1>1, <1>3 DEF Containment, DefinedBefore, NodesOn
  <2>2. a \in NodesOn(L) /\ IsNarrowerThan(AuthorityOn(L, n), AuthorityOn(L, a))
    BY <1>1, <1>3, <2>1, WithinTheLine
  <2>3. ReadAlike(AuthorityOn(L, n), AuthorityOn(L, a))
    BY <1>1, <2>1, <2>2, NodeOnLedger DEF IsReadable, AuthorityOn
  <2>4. IsAuthority(AuthorityOn(L, n)) /\ IsAuthority(AuthorityOn(L, a))
    BY <1>1, <2>1, <2>2, NodeOnLedger
  <2>5. L[i].scope \in Scope /\ \A f \in DOMAIN L[i].ctx : L[i].ctx[f] \in JsonValue
    BY <1>3 DEF IsReadableAct
  <2> HIDE DEF n
  <2> QED
    BY <2>1, <2>2, <2>3, <2>4, <2>5, NarrowerSound
<1> QED
  BY <1>2, <1>3 DEF EntryInLine

-----------------------------------------------------------------------------
(* One more entry *)

\* M is L with the entry e after it, at k.
IsExtension(M, L, e, k) ==
    /\ DOMAIN L \subseteq Nat /\ k \in Nat
    /\ DOMAIN M = DOMAIN L \cup {k}
    /\ \A i \in DOMAIN L : i < k /\ M[i] = L[i]
    /\ M[k] = e

\* What an entry has to be for the verifier to go on accepting.
FitsOn(L, e) ==
    /\ e.event # "root"
    /\ e.event = "spawn" =>
          /\ e.node \notin NodesOn(L)
          /\ e.parent \in NodesOn(L) \ KilledOn(L)
          /\ IsNarrowerThan(e.authority, AuthorityOn(L, e.parent))
    /\ e.event = "allow" /\ e.policy = NoPolicy =>
          /\ e.node \in NodesOn(L) \ KilledOn(L)
          /\ Permits(AuthorityOn(L, e.node), e.scope, e.ctx)

\* Appending is the extension by one entry.
LEMMA AppendExtends ==
    ASSUME NEW T, NEW L \in Seq(T), NEW e
    PROVE  /\ Append(L, e) \in Seq(T \cup {e})
           /\ IsExtension(Append(L, e), L, e, Len(L) + 1)
<1>1. L \in Seq(T \cup {e}) /\ e \in T \cup {e}
  OBVIOUS
<1>2. Append(L, e) \in Seq(T \cup {e})
  BY <1>1
<1>3. /\ Len(L) \in Nat /\ DOMAIN L = 1 .. Len(L)
      /\ DOMAIN Append(L, e) = 1 .. Len(L) + 1
      /\ \A i \in 1 .. Len(L) : Append(L, e)[i] = L[i]
      /\ Append(L, e)[Len(L) + 1] = e
  BY <1>1
<1> QED
  BY <1>2, <1>3 DEF IsExtension

\* The entries of an extension, event by event.
LEMMA ExtensionEntries ==
    ASSUME NEW L, NEW M, NEW e, NEW k, IsExtension(M, L, e, k), NEW event
    PROVE  /\ Entries(M, event) = Entries(L, event) \cup {j \in {k} : e.event = event}
           /\ k \notin Entries(L, event)
  BY DEF IsExtension, Entries

\* What an extension says of nodes: a kill adds to the killed, and a definition,
\* of a node that had none, to the nodes.
LEMMA ExtensionNodes ==
    ASSUME NEW L, NEW M, NEW e, NEW k, IsExtension(M, L, e, k), Monotonicity(L),
           e.event \in {"root", "spawn"} => e.node \notin NodesOn(L)
    PROVE  /\ Definitions(M) = Definitions(L) \cup {j \in {k} : e.event \in {"root", "spawn"}}
           /\ NodesOn(M) = NodesOn(L) \cup {x \in {e.node} : e.event \in {"root", "spawn"}}
           /\ KilledOn(M) = KilledOn(L) \cup {x \in e.revoked : e.event = "kill"}
           /\ \A n \in NodesOn(L) : AuthorityOn(M, n) = AuthorityOn(L, n)
           /\ e.event \in {"root", "spawn"} => AuthorityOn(M, e.node) = e.authority
           /\ \A i \in DOMAIN L :
                 DefinedBefore(M, i) = DefinedBefore(L, i) /\ KilledBefore(M, i) = KilledBefore(L, i)
           /\ DefinedBefore(M, k) = NodesOn(L) /\ KilledBefore(M, k) = KilledOn(L)
<1>0. /\ DOMAIN L \subseteq Nat /\ k \in Nat /\ k \notin DOMAIN L
      /\ \A i \in DOMAIN L : i < k /\ M[i] = L[i]
      /\ M[k] = e
  BY DEF IsExtension
<1>1. Definitions(M) = Definitions(L) \cup {j \in {k} : e.event \in {"root", "spawn"}}
  BY DEF IsExtension, Definitions
<1>2. Definitions(L) \subseteq DOMAIN L /\ Entries(L, "kill") \subseteq DOMAIN L
  BY DEF Definitions, Entries
<1>3. NodesOn(M) = NodesOn(L) \cup {x \in {e.node} : e.event \in {"root", "spawn"}}
  BY <1>0, <1>1, <1>2 DEF NodesOn
<1>4. Entries(M, "kill") = Entries(L, "kill") \cup {j \in {k} : e.event = "kill"}
  BY ExtensionEntries
<1>5. KilledOn(M) = KilledOn(L) \cup {x \in e.revoked : e.event = "kill"}
  BY <1>0, <1>2, <1>4 DEF KilledOn
<1>6. ASSUME NEW n \in NodesOn(L)
      PROVE  AuthorityOn(M, n) = AuthorityOn(L, n)
  <2>1. PICK i \in Definitions(L) : L[i].node = n
    BY DEF NodesOn
  <2>2. DefinitionOf(L, n) = i
    BY <1>0, <2>1, DefinedOnce
  <2>3. \A j \in Definitions(L) : L[j].node = n => j = i
    BY <1>0, <2>1, DefinedOnce
  <2>4. \A j \in Definitions(M) : M[j].node = n => j = i
    BY <1>0, <1>1, <1>2, <2>3, <1>6
  <2>5. i \in Definitions(M) /\ M[i].node = n /\ i \in Nat
    BY <1>0, <1>1, <1>2, <2>1
  <2>6. DefinitionOf(M, n) = i
    BY <2>4, <2>5, OnlyDefinition
  <2> QED
    BY <1>0, <1>2, <2>1, <2>2, <2>6 DEF AuthorityOn
<1>7. ASSUME e.event \in {"root", "spawn"}
      PROVE  AuthorityOn(M, e.node) = e.authority
  <2>1. \A j \in Definitions(M) : M[j].node = e.node => j = k
    BY <1>0, <1>1, <1>2, <1>7 DEF NodesOn
  <2>2. k \in Definitions(M) /\ M[k].node = e.node
    BY <1>0, <1>1, <1>7
  <2>3. DefinitionOf(M, e.node) = k
    BY <1>0, <2>1, <2>2, OnlyDefinition
  <2> QED
    BY <1>0, <2>3 DEF AuthorityOn
<1>8. ASSUME NEW i \in DOMAIN L
      PROVE  DefinedBefore(M, i) = DefinedBefore(L, i) /\ KilledBefore(M, i) = KilledBefore(L, i)
  <2>1. {j \in Definitions(M) : j < i} = {j \in Definitions(L) : j < i}
    BY <1>0, <1>1
  <2>2. {j \in Entries(M, "kill") : j < i} = {j \in Entries(L, "kill") : j < i}
    BY <1>0, <1>4
  <2> QED
    BY <1>0, <1>2, <2>1, <2>2 DEF DefinedBefore, KilledBefore
<1>9. DefinedBefore(M, k) = NodesOn(L) /\ KilledBefore(M, k) = KilledOn(L)
  <2>1. {j \in Definitions(M) : j < k} = Definitions(L)
    BY <1>0, <1>1, <1>2
  <2>2. {j \in Entries(M, "kill") : j < k} = Entries(L, "kill")
    BY <1>0, <1>2, <1>4
  <2> QED
    BY <1>0, <1>2, <2>1, <2>2 DEF DefinedBefore, KilledBefore, NodesOn, KilledOn
<1> QED
  BY <1>1, <1>3, <1>5, <1>6, <1>7, <1>8, <1>9

\* The verifier goes on accepting a ledger whose entries fit one by one.
THEOREM FittingEntriesVerify ==
    ASSUME NEW L, NEW M, NEW e, NEW k, IsExtension(M, L, e, k), Verifies(L), FitsOn(L, e)
    PROVE  Verifies(M)
<1>0. /\ k \notin DOMAIN L /\ DOMAIN M = DOMAIN L \cup {k}
      /\ \A i \in DOMAIN L : M[i] = L[i]
      /\ M[k] = e
      /\ OneRoot(L) /\ Monotonicity(L) /\ Containment(L)
  BY DEF IsExtension, Verifies
<1>1. /\ Definitions(M) = Definitions(L) \cup {j \in {k} : e.event = "spawn"}
      /\ \A n \in NodesOn(L) : AuthorityOn(M, n) = AuthorityOn(L, n)
      /\ \A i \in DOMAIN L :
            DefinedBefore(M, i) = DefinedBefore(L, i) /\ KilledBefore(M, i) = KilledBefore(L, i)
      /\ DefinedBefore(M, k) = NodesOn(L) /\ KilledBefore(M, k) = KilledOn(L)
  BY <1>0, ExtensionNodes DEF FitsOn
<1>2. \A i \in DOMAIN L : DefinedBefore(L, i) \subseteq NodesOn(L)
  BY DEF DefinedBefore, NodesOn
<1>3. OneRoot(M)
  BY <1>0, ExtensionEntries DEF OneRoot, FitsOn
<1>4. Monotonicity(M)
  <2>1. ASSUME NEW i \in Definitions(L)
        PROVE  M[i].node \notin DefinedBefore(M, i) /\ (M[i].event = "spawn" => SpawnIsMonotone(M, i))
    <3>1. i \in DOMAIN L
      BY DEF Definitions, Entries
    <3>2. L[i].node \notin DefinedBefore(L, i) /\ (L[i].event = "spawn" => SpawnIsMonotone(L, i))
      BY <1>0 DEF Monotonicity
    <3> QED
      BY <1>0, <1>1, <1>2, <3>1, <3>2 DEF SpawnIsMonotone
  <2>2. ASSUME e.event = "spawn"
        PROVE  M[k].node \notin DefinedBefore(M, k) /\ SpawnIsMonotone(M, k)
    BY <1>0, <1>1, <2>2 DEF FitsOn, SpawnIsMonotone
  <2> QED
    BY <1>0, <1>1, <2>1, <2>2 DEF Monotonicity
<1>5. Containment(M)
  <2>1. Gated(M) = Gated(L) \cup {j \in {k} : e.event = "allow" /\ e.policy = NoPolicy}
    <3>1. Entries(M, "allow") = Entries(L, "allow") \cup {j \in {k} : e.event = "allow"}
      BY ExtensionEntries
    <3>2. Entries(L, "allow") \subseteq DOMAIN L
      BY DEF Entries
    <3> QED
      BY <1>0, <3>1, <3>2 DEF Gated
  <2>2. ASSUME NEW i \in Gated(L)
        PROVE  /\ M[i].node \in DefinedBefore(M, i) /\ M[i].node \notin KilledBefore(M, i)
               /\ Permits(AuthorityOn(M, M[i].node), M[i].scope, M[i].ctx)
    <3>1. i \in DOMAIN L
      BY DEF Gated, Entries
    <3>2. /\ L[i].node \in DefinedBefore(L, i) /\ L[i].node \notin KilledBefore(L, i)
          /\ Permits(AuthorityOn(L, L[i].node), L[i].scope, L[i].ctx)
      BY <1>0 DEF Containment
    <3> QED
      BY <1>0, <1>1, <1>2, <3>1, <3>2
  <2>3. ASSUME e.event = "allow" /\ e.policy = NoPolicy
        PROVE  /\ M[k].node \in DefinedBefore(M, k) /\ M[k].node \notin KilledBefore(M, k)
               /\ Permits(AuthorityOn(M, M[k].node), M[k].scope, M[k].ctx)
    BY <1>0, <1>1, <2>3 DEF FitsOn
  <2> QED
    BY <2>1, <2>2, <2>3 DEF Containment
<1> QED
  BY <1>3, <1>4, <1>5 DEF Verifies

-----------------------------------------------------------------------------
(***************************************************************************)
(* The guard implements the delegation chain: every step it takes moves the *)
(* chain by one of the chain's own steps, or not at all.                   *)
(***************************************************************************)

\* A refused, denied, recorded or reported operation leaves the chain alone;
\* the others are one step of it.
LEMMA DelegationStepsChain ==
    ASSUME NEW n \in NodeIds, DelegationStep(n)
    PROVE  [Next]_chainVars
<1> PICK agent \in Agents, request \in Requests :
        \/ Delegate(n, agent, request)
        \/ DelegateUnpersisted(n, agent, request)
        \/ DelegateUnhashable(n, agent, request)
        \/ DelegateRefused(n, agent, request)
  BY DEF DelegationStep
<1>1. CASE AddChild(n, agent, request)
  BY <1>1 DEF Next
<1>2. CASE DelegateRefused(n, agent, request)
  BY <1>2 DEF DelegateRefused
<1> QED
  BY <1>1, <1>2 DEF Delegate, DelegateUnpersisted, DelegateUnhashable

\* A check leaves the chain alone, unless it is the strike that revokes.
LEMMA CheckStepsChain ==
    ASSUME NEW n \in NodeIds, CheckStep(n)
    PROVE  [Next]_chainVars
<1> PICK scope \in CheckedScopes, ctx \in Contexts, metered \in {FALSE, StrictMetering} :
        \/ \E capture \in Captures, params \in Params :
              CheckAllowed(n, scope, ctx, metered, capture, params)
        \/ CheckDenied(n, scope, ctx, metered)
        \/ CheckStruck(n, scope, ctx, metered)
        \/ CheckStruckOut(n, scope, ctx, metered)
        \/ CheckDeniedUnpersisted(n, scope, ctx, metered)
        \/ CheckNotCommitted(n, scope, ctx, metered)
        \/ CheckUnrepresentable(n, scope, ctx, metered)
        \/ RecordPassthrough(n, scope, ctx)
  BY DEF CheckStep
<1>1. CASE RevokeNode(n)
  BY <1>1 DEF Next
<1>2. CASE UNCHANGED chainVars
  BY <1>2
<1> QED
  BY <1>1, <1>2
  DEF CheckAllowed, CommitAllow, CheckDenied, CheckStruck, CheckStruckOut,
      CheckDeniedUnpersisted, CheckNotCommitted, CheckUnrepresentable, RecordPassthrough

\* Of the reports and controls, only the two revocations move the chain.
LEMMA LifecycleStepsChain ==
    ASSUME NEW n \in NodeIds, LifecycleStep(n)
    PROVE  [Next]_chainVars
<1>1. ASSUME NEW scope \in CheckedScopes, RecordDenial(n, scope)
      PROVE  [Next]_chainVars
  BY <1>1 DEF RecordDenial
<1>2. ASSUME NEW call \in 1 .. issued, NEW params \in Params,
             RecordOutcome(n, call, params)
      PROVE  [Next]_chainVars
  BY <1>2 DEF RecordOutcome, CommitOutcome
<1>3. CASE Complete(n)
  BY <1>3 DEF Complete
<1>4. ASSUME NEW target \in NodeIds, Revoke(n, target)
      PROVE  [Next]_chainVars
  BY <1>4 DEF Revoke, Next
<1>5. ASSUME NEW agent \in Agents, RevokeByName(n, agent) \/ RevokeByNameUnhashable(agent)
      PROVE  [Next]_chainVars
  BY <1>5 DEF RevokeByName, RevokeByNameUnhashable, Next
<1> QED
  BY <1>1, <1>2, <1>3, <1>4, <1>5 DEF LifecycleStep

\* Time and stray mutations are the chain's own steps.
LEMMA EnvironmentStepsChain ==
    ASSUME EnvironmentStep
    PROVE  [Next]_chainVars
  BY DEF EnvironmentStep, Next

-----------------------------------------------------------------------------
(* The guards an application holds are for nodes of the chain.             *)

HeldAreNodes == held \subseteq NodeIds
GInv == IInv /\ HeldAreNodes

\* The guard of a fresh root is for a node of the chain.
LEMMA GuardInitInv ==
    ASSUME GuardInit
    PROVE  GInv
<1>1. Init /\ held = {1}
  BY DEF GuardInit
<1>2. IInv
  BY <1>1, InitInv
<1>3. 1 \in NodeIds
  BY <1>2, NodeFacts DEF IInv, NodeIds
<1> QED
  BY <1>1, <1>2, <1>3 DEF GInv, HeldAreNodes

\* The chain never forgets a node.
LEMMA NodesStay ==
    ASSUME IInv, [Next]_chainVars
    PROVE  NodeIds \subseteq NodeIds'
<1>1. ASSUME NEW p \in NodeIds, NEW agent \in Agents, NEW request \in Requests,
             AddChild(p, agent, request)
      PROVE  NodeIds \subseteq NodeIds'
  BY <1>1, AddChildFacts, NodeFacts DEF IInv, NodeIds
<1>2. ASSUME NEW n \in NodeIds, NEW a \in StrayAuthorities, StrayMutation(n, a)
      PROVE  NodeIds \subseteq NodeIds'
  BY <1>2, StrayMutationFacts DEF IInv
<1>3. CASE UNCHANGED nodes
  BY <1>3 DEF NodeIds
<1> QED
  BY <1>1, <1>2, <1>3 DEF Next, RevokeNode, RevokeAgent, Tick, chainVars

\* Every step of the guard is a step of the chain or leaves it alone.
LEMMA GuardStepsChain ==
    ASSUME HeldAreNodes, [GuardNext]_allVars
    PROVE  [Next]_chainVars
<1>1. CASE UNCHANGED allVars
  BY <1>1 DEF allVars
<1>2. ASSUME NEW n \in held, DelegationStep(n) \/ CheckStep(n) \/ LifecycleStep(n)
      PROVE  [Next]_chainVars
  <2>1. n \in NodeIds
    BY DEF HeldAreNodes
  <2> QED
    BY <1>2, <2>1, DelegationStepsChain, CheckStepsChain, LifecycleStepsChain
<1>3. CASE EnvironmentStep
  BY <1>3, EnvironmentStepsChain
<1> QED
  BY <1>1, <1>2, <1>3 DEF GuardNext

\* Only a delegation hands out a Guard, for the node it has just made.
LEMMA HeldGrows ==
    ASSUME [GuardNext]_allVars
    PROVE  \/ held' = held
           \/ held' = held \cup {Len(nodes')} /\
              \E n \in held, agent \in Agents, request \in Requests :
                  AddChild(n, agent, request)
<1>1. ASSUME NEW n \in held, DelegationStep(n)
      PROVE  \/ held' = held
             \/ held' = held \cup {Len(nodes')} /\
                \E agent \in Agents, request \in Requests : AddChild(n, agent, request)
  BY <1>1
  DEF DelegationStep, Delegate, DelegateUnpersisted, DelegateUnhashable,
      DelegateRefused, guardVars
<1>2. ASSUME NEW n \in held, CheckStep(n)
      PROVE  held' = held
  <2> PICK scope \in CheckedScopes, ctx \in Contexts, metered \in {FALSE, StrictMetering} :
          \/ \E capture \in Captures, params \in Params :
                CheckAllowed(n, scope, ctx, metered, capture, params)
          \/ CheckDenied(n, scope, ctx, metered)
          \/ CheckStruck(n, scope, ctx, metered)
          \/ CheckStruckOut(n, scope, ctx, metered)
          \/ CheckDeniedUnpersisted(n, scope, ctx, metered)
          \/ CheckNotCommitted(n, scope, ctx, metered)
          \/ CheckUnrepresentable(n, scope, ctx, metered)
          \/ RecordPassthrough(n, scope, ctx)
    BY <1>2 DEF CheckStep
  <2> QED
    BY DEF CheckAllowed, CommitAllow, CheckDenied, CheckStruck, CheckStruckOut,
           CheckDeniedUnpersisted, CheckNotCommitted, CheckUnrepresentable,
           RecordPassthrough
<1>3. ASSUME NEW n \in held, LifecycleStep(n)
      PROVE  held' = held
  BY <1>3
  DEF LifecycleStep, RecordDenial, RecordOutcome, CommitOutcome, Complete, Revoke, RevokeByName,
      RevokeByNameUnhashable, guardVars
<1>4. CASE EnvironmentStep \/ UNCHANGED allVars
  BY <1>4 DEF EnvironmentStep, guardVars, allVars
<1> QED
  BY <1>1, <1>2, <1>3, <1>4 DEF GuardNext

\* Every step of the guard preserves the chain's invariant.
LEMMA GuardNextInv ==
    ASSUME GInv, [GuardNext]_allVars
    PROVE  GInv'
<1>1. IInv /\ HeldAreNodes
  BY DEF GInv
<1>2. [Next]_chainVars
  BY <1>1, GuardStepsChain
<1>3. IInv'
  BY <1>1, <1>2, NextInv
<1>4. NodeIds \subseteq NodeIds'
  BY <1>1, <1>2, NodesStay
<1>5. ASSUME NEW n \in held, NEW agent \in Agents, NEW request \in Requests,
             AddChild(n, agent, request)
      PROVE  Len(nodes') \in NodeIds'
  <2>1. n \in NodeIds
    BY <1>1 DEF HeldAreNodes
  <2>2. Len(nodes') = Len(nodes) + 1 /\ Len(nodes) \in Nat
    BY <1>1, <1>5, <2>1, AddChildFacts, NodeFacts DEF IInv
  <2> QED
    BY <2>2 DEF NodeIds
<1>6. held' \subseteq NodeIds'
  BY <1>1, <1>4, <1>5, HeldGrows DEF HeldAreNodes
<1> QED
  BY <1>3, <1>6 DEF GInv, HeldAreNodes

\* Every behaviour of the guard, with its strikes, its failing writes and its
\* outcomes, is one of the chain: it implements the specification of the
\* delegation graph.
THEOREM GuardImplementsChain == GuardSpec => Spec
<1>1. GuardInit => GInv /\ Init
  BY GuardInitInv DEF GuardInit
<1>2. GInv /\ [GuardNext]_allVars => GInv'
  BY GuardNextInv
<1>3. GInv /\ [GuardNext]_allVars => [Next]_chainVars
  BY GuardStepsChain DEF GInv
<1> QED
  BY <1>1, <1>2, <1>3, PTL DEF GuardSpec, Spec

\* Under the guard, whatever its callers do, a revoked node has no live
\* descendant, an agent revoked by name holds nothing, and no node was issued
\* more than any of its ancestors.
THEOREM GuardKeepsChainSafe ==
    GuardSpec => [](RevocationReachesSubtree /\ BannedAgentsHoldNothing /\ AncestorAttenuation)
  BY GuardImplementsChain, RevocationIsTransitive, BannedAgentsStayOut,
     AttenuationIsMonotonic, PTL

\* And so the guard, too, lets nothing be issued or go on living against the
\* line above.
THEOREM GuardRefinesTree == GuardSpec => ChainImplementsTree
  BY GuardImplementsChain, ChainRefinesTree, PTL

-----------------------------------------------------------------------------
(***************************************************************************)
(* The ledger verifies, whatever the guard's callers do and whichever writes *)
(* fail: each entry that is appended is one the verifier, which sees no more *)
(* than the entries before it, accepts.  From the same agreement, an entry *)
(* that somebody else adds is accepted only within the line above it.      *)
(***************************************************************************)

\* The ledger L says nothing of a tree that is not so: its nodes are in it,
\* with the authority they were sealed with, and those it calls killed are dead.
\* Some nodes may be missing, but none of H.
Agrees(L, tree, dead, H) ==
    /\ \E T : L \in Seq(T)
    /\ Verifies(L)
    /\ NodesOn(L) \subseteq 1 .. Len(tree)
    /\ \A n \in NodesOn(L) : AuthorityOn(L, n) = tree[n].seal
    /\ KilledOn(L) \subseteq dead
    /\ H \subseteq NodesOn(L)

LedgerInv == GInv /\ Agrees(ledger, nodes, revoked, held)

\* One entry more.
LEMMA AgreesWithEntry ==
    ASSUME NEW L, NEW tree, NEW dead, NEW H, Agrees(L, tree, dead, H),
           NEW e, FitsOn(L, e),
           e.event = "spawn" => e.node \in 1 .. Len(tree) /\ tree[e.node].seal = e.authority,
           e.event = "kill" => e.revoked \subseteq dead
    PROVE  Agrees(Append(L, e), tree, dead, H \cup {x \in {e.node} : e.event = "spawn"})
<1>1. PICK T : L \in Seq(T)
  BY DEF Agrees
<1>2. PICK M, k : /\ M = Append(L, e) /\ M \in Seq(T \cup {e})
                  /\ IsExtension(M, L, e, k)
  BY <1>1, AppendExtends
<1>3. Verifies(L) /\ Monotonicity(L) /\ e.event # "root"
  BY DEF Agrees, Verifies, FitsOn
<1>4. /\ NodesOn(M) = NodesOn(L) \cup {x \in {e.node} : e.event = "spawn"}
      /\ KilledOn(M) = KilledOn(L) \cup {x \in e.revoked : e.event = "kill"}
      /\ \A n \in NodesOn(L) : AuthorityOn(M, n) = AuthorityOn(L, n)
      /\ e.event = "spawn" => AuthorityOn(M, e.node) = e.authority
  BY <1>2, <1>3, ExtensionNodes DEF FitsOn
<1>5. Verifies(M)
  BY <1>2, <1>3, FittingEntriesVerify
<1>6. NodesOn(M) \subseteq 1 .. Len(tree) /\ \A n \in NodesOn(M) : AuthorityOn(M, n) = tree[n].seal
  BY <1>4 DEF Agrees
<1>7. KilledOn(M) \subseteq dead /\ H \cup {x \in {e.node} : e.event = "spawn"} \subseteq NodesOn(M)
  BY <1>4 DEF Agrees
<1> QED
  BY <1>2, <1>5, <1>6, <1>7 DEF Agrees

\* A tree that only grows, and dies, agrees with what it agreed with.
LEMMA AgreesAfterward ==
    ASSUME NEW L, NEW H, NEW t, NEW d, Agrees(L, nodes, revoked, H), revoked \subseteq d,
           \A n \in NodeIds : n \in 1 .. Len(t) /\ t[n].seal = nodes[n].seal
    PROVE  Agrees(L, t, d, H)
  BY DEF Agrees, NodeIds

\* A step of the chain moves no seal and revives no node.
LEMMA SealsStay ==
    ASSUME IInv, [Next]_chainVars
    PROVE  /\ \A n \in NodeIds : n \in 1 .. Len(nodes') /\ nodes'[n].seal = nodes[n].seal
           /\ revoked \subseteq revoked'
<1>0. TypeOK /\ TreeWithinCeilings
  BY DEF IInv
<1>1. ASSUME NEW p \in NodeIds, NEW agent \in Agents, NEW request \in Requests,
             AddChild(p, agent, request)
      PROVE  /\ \A n \in NodeIds : n \in 1 .. Len(nodes') /\ nodes'[n].seal = nodes[n].seal
             /\ revoked \subseteq revoked'
  <2>1. NodeIds \subseteq NodeIds' /\ \A n \in NodeIds : nodes'[n] = nodes[n]
    BY <1>0, <1>1, AddChildFacts
  <2> QED
    BY <1>0, <1>1, <2>1, AddChildFacts DEF NodeIds
<1>2. ASSUME NEW m \in NodeIds, NEW a \in StrayAuthorities, StrayMutation(m, a)
      PROVE  /\ \A n \in NodeIds : n \in 1 .. Len(nodes') /\ nodes'[n].seal = nodes[n].seal
             /\ revoked \subseteq revoked'
  BY <1>0, <1>2, StrayMutationFacts DEF NodeIds
<1>3. CASE UNCHANGED nodes /\ revoked \subseteq revoked'
  BY <1>3 DEF NodeIds
<1> QED
  BY <1>1, <1>2, <1>3 DEF Next, RevokeNode, RevokeAgent, Tick, chainVars

\* Writing one entry, or two, is appending them.
LEMMA WriteOne ==
    ASSUME NEW T, ledger \in Seq(T), NEW e, Write(<<e>>)
    PROVE  ledger' = Append(ledger, e)
  BY DEF Write

\* A strike's denial and its kill are appended one after the other.
LEMMA WriteTwo ==
    ASSUME NEW T, ledger \in Seq(T), NEW d, NEW e, Write(<<d, e>>)
    PROVE  ledger' = Append(Append(ledger, d), e)
  BY DEF Write

-----------------------------------------------------------------------------
(* The steps, by what they write *)

\* Nothing is written.
LEMMA SilentStep ==
    ASSUME LedgerInv, [Next]_chainVars, UNCHANGED <<ledger, held>>
    PROVE  Agrees(ledger, nodes, revoked, held)'
<1>1. Agrees(ledger, nodes', revoked', held)
  BY SealsStay, AgreesAfterward DEF LedgerInv, GInv
<1> QED
  BY <1>1

\* An entry the verifier's checks read no authority in, or only the nodes a
\* kill revoked.
LEMMA PlainStep ==
    ASSUME LedgerInv, [Next]_chainVars, held' = held, NEW e, Write(<<e>>),
           e.event \notin {"root", "spawn"}, e.event = "allow" => e.policy # NoPolicy,
           e.event = "kill" => e.revoked \subseteq revoked'
    PROVE  Agrees(ledger, nodes, revoked, held)'
<1>1. PICK T : ledger \in Seq(T)
  BY DEF LedgerInv, Agrees
<1>2. Agrees(ledger, nodes', revoked', held)
  BY SealsStay, AgreesAfterward DEF LedgerInv, GInv
<1>3. FitsOn(ledger, e)
  BY DEF FitsOn
<1>4. Agrees(Append(ledger, e), nodes', revoked', held \cup {x \in {e.node} : e.event = "spawn"})
  BY <1>2, <1>3, AgreesWithEntry
<1>5. held \cup {x \in {e.node} : e.event = "spawn"} = held' /\ ledger' = Append(ledger, e)
  BY <1>1, WriteOne
<1> QED
  BY <1>4, <1>5

\* The spawn of the node just added, which its parent's entry precedes.
LEMMA SpawnStep ==
    ASSUME LedgerInv, NEW n \in held, NEW agent \in Agents, NEW request \in Requests,
           AddChild(n, agent, request), Write(<<SpawnOf(n)>>),
           held' \subseteq held \cup {Len(nodes')}
    PROVE  Agrees(ledger, nodes, revoked, held)'
<1>0. IInv /\ TypeOK /\ TreeWithinCeilings /\ n \in NodeIds /\ Agrees(ledger, nodes, revoked, held)
  BY DEF LedgerInv, GInv, IInv, HeldAreNodes
<1>1. PICK T : ledger \in Seq(T)
  BY <1>0 DEF Agrees
<1>2. PICK e : e = SpawnOf(n)
  OBVIOUS
<1>3. PICK c : c = Len(nodes) + 1
  OBVIOUS
<1>4. /\ nodes'[c] = NewNode(n, agent, nodes[n].depth + 1, now, Meet(nodes[n].auth, request))
      /\ IsNarrowerThan(Meet(nodes[n].auth, request), nodes[n].auth)
      /\ nodes[n].auth = nodes[n].seal /\ n \notin revoked
      /\ Len(nodes') = c
  BY <1>0, <1>3, AddChildFacts
<1>5. Len(nodes) \in Nat /\ c \notin NodeIds /\ c \in 1 .. Len(nodes')
  BY <1>0, <1>3, <1>4, NodeFacts DEF NodeIds
<1>6. /\ e.event = "spawn" /\ e.parent = n /\ e.node = c
      /\ e.authority = nodes'[c].auth /\ nodes'[c].auth = Meet(nodes[n].auth, request)
      /\ nodes'[c].seal = e.authority
  BY <1>2, <1>3, <1>4 DEF SpawnOf, SpawnEntry, NewNode
<1>7. [Next]_chainVars
  BY <1>0 DEF Next
<1>8. Agrees(ledger, nodes', revoked', held)
  BY <1>0, <1>7, SealsStay, AgreesAfterward
<1>9. FitsOn(ledger, e)
  <2>1. n \in NodesOn(ledger) \ KilledOn(ledger) /\ AuthorityOn(ledger, n) = nodes[n].seal
    BY <1>0, <1>4 DEF Agrees
  <2>2. c \notin NodesOn(ledger)
    BY <1>0, <1>5 DEF Agrees, NodeIds
  <2> QED
    BY <1>4, <1>6, <2>1, <2>2 DEF FitsOn
<1>10. Agrees(Append(ledger, e), nodes', revoked', held \cup {x \in {e.node} : e.event = "spawn"})
  BY <1>5, <1>6, <1>8, <1>9, AgreesWithEntry
<1>11. held' \subseteq held \cup {x \in {e.node} : e.event = "spawn"} /\ ledger' = Append(ledger, e)
  BY <1>1, <1>2, <1>4, <1>6, WriteOne
<1> QED
  BY <1>10, <1>11 DEF Agrees

\* An allow of the node whose Guard is asked, decided by the authority the
\* ledger shows.
LEMMA AllowStep ==
    ASSUME LedgerInv, NEW n \in held, NEW scope, NEW ctx, NEW metered, NEW capture, NEW params,
           CommitAllow(n, scope, ctx, metered, capture, params)
    PROVE  Agrees(ledger, nodes, revoked, held)'
<1>0. Agrees(ledger, nodes, revoked, held)
  BY DEF LedgerInv
<1>1. PICK T : ledger \in Seq(T)
  BY <1>0 DEF Agrees
<1>2. PICK e : e = AllowEntry(n, scope, FillMeters(n, scope, ctx), NextCall, capture,
                              params, NoPolicy, Counted(n, scope, ctx))
  OBVIOUS
<1>3. /\ Write(<<e>>) /\ UNCHANGED <<chainVars, held>>
      /\ Evaluate(n, scope, FillMeters(n, scope, ctx), metered)
  BY <1>2 DEF CommitAllow, Decide
<1>4. /\ n \notin revoked /\ nodes[n].auth = nodes[n].seal
      /\ Permits(nodes[n].auth, scope, FillMeters(n, scope, ctx))
  BY <1>3 DEF Evaluate, VerifyIntegrity
<1>5. /\ e.event = "allow" /\ e.node = n /\ e.scope = scope
      /\ e.ctx = FillMeters(n, scope, ctx)
  BY <1>2 DEF AllowEntry
<1>6. n \in NodesOn(ledger) \ KilledOn(ledger) /\ AuthorityOn(ledger, n) = nodes[n].seal
  BY <1>0, <1>4 DEF Agrees
<1>7. FitsOn(ledger, e)
  BY <1>4, <1>5, <1>6 DEF FitsOn
<1>8. Agrees(Append(ledger, e), nodes, revoked, held \cup {x \in {e.node} : e.event = "spawn"})
  BY <1>0, <1>5, <1>7, AgreesWithEntry
<1>9. /\ held \cup {x \in {e.node} : e.event = "spawn"} = held /\ ledger' = Append(ledger, e)
      /\ UNCHANGED <<nodes, revoked, held>>
  BY <1>1, <1>3, <1>5, WriteOne DEF chainVars
<1> QED
  BY <1>8, <1>9

\* A denial and the kill it brings about.
LEMMA StruckOutStep ==
    ASSUME LedgerInv, NEW n \in held, NEW scope, NEW ctx, NEW metered,
           CheckStruckOut(n, scope, ctx, metered)
    PROVE  Agrees(ledger, nodes, revoked, held)'
<1>0. IInv /\ n \in NodeIds /\ Agrees(ledger, nodes, revoked, held)
  BY DEF LedgerInv, GInv, HeldAreNodes
<1>1. PICK T : ledger \in Seq(T)
  BY <1>0 DEF Agrees
<1>2. PICK d, e : /\ d = DenyEntry(n, scope, NextCall, Policy)
                  /\ e = KillEntry(n, Cascade({n}), PendingAtKill(Cascade({n})))
  OBVIOUS
<1>3. Write(<<d, e>>) /\ RevokeNode(n) /\ held' = held
  BY <1>2 DEF CheckStruckOut
<1>4. d.event = "deny" /\ e.event = "kill" /\ e.revoked = Cascade({n})
  BY <1>2 DEF DenyEntry, KillEntry
<1>5. [Next]_chainVars /\ e.revoked \subseteq revoked'
  BY <1>0, <1>3, <1>4 DEF Next, RevokeNode
<1>6. Agrees(ledger, nodes', revoked', held)
  BY <1>0, <1>5, SealsStay, AgreesAfterward
<1>7. FitsOn(ledger, d) /\ FitsOn(Append(ledger, d), e)
  BY <1>4 DEF FitsOn
<1>8. Agrees(Append(ledger, d), nodes', revoked', held \cup {x \in {d.node} : d.event = "spawn"})
  BY <1>4, <1>6, <1>7, AgreesWithEntry
<1>9. held \cup {x \in {d.node} : d.event = "spawn"} = held
  BY <1>4
<1>10. PICK L : L = Append(ledger, d) /\ Agrees(L, nodes', revoked', held) /\ FitsOn(L, e)
  BY <1>7, <1>8, <1>9
<1>11. Agrees(Append(L, e), nodes', revoked', held \cup {x \in {e.node} : e.event = "spawn"})
  <2>1. e.event # "spawn" /\ e.revoked \subseteq revoked'
    BY <1>4, <1>5
  <2> QED
    BY <1>10, <2>1, AgreesWithEntry
<1>12. held \cup {x \in {e.node} : e.event = "spawn"} = held' /\ ledger' = Append(L, e)
  BY <1>1, <1>3, <1>4, <1>10, WriteTwo
<1> QED
  BY <1>11, <1>12

-----------------------------------------------------------------------------
(* The invariant *)

\* A root alone verifies.
LEMMA RootAgrees ==
    ASSUME GuardInit
    PROVE  Agrees(ledger, nodes, revoked, held)
<1>1. PICK r : r = RootEntry(1, nodes[1].agent, nodes[1].auth)
  OBVIOUS
<1>2. /\ ledger = <<r>> /\ held = {1}
      /\ r.event = "root" /\ r.node = 1 /\ r.authority = nodes[1].auth
  BY <1>1 DEF GuardInit, RootEntry
<1>3. DOMAIN ledger = {1} /\ ledger[1] = r /\ ledger \in Seq({r})
  BY <1>2
<1>4. nodes[1].auth = nodes[1].seal /\ 1 \in 1 .. Len(nodes)
  BY DEF GuardInit, Init, NewNode
<1>5. /\ Definitions(ledger) = {1} /\ Entries(ledger, "root") = {1}
      /\ Entries(ledger, "kill") = {} /\ Entries(ledger, "allow") = {}
  BY <1>2, <1>3 DEF Definitions, Entries
<1>6. /\ NodesOn(ledger) = {1} /\ KilledOn(ledger) = {} /\ Gated(ledger) = {}
      /\ DefinedBefore(ledger, 1) = {}
  BY <1>2, <1>3, <1>5 DEF NodesOn, KilledOn, Gated, DefinedBefore
<1>7. Verifies(ledger)
  BY <1>2, <1>3, <1>5, <1>6 DEF Verifies, OneRoot, Monotonicity, Containment
<1>8. AuthorityOn(ledger, 1) = nodes[1].seal
  <2>1. DefinitionOf(ledger, 1) = 1
    BY <1>2, <1>3, <1>5, OnlyDefinition
  <2> QED
    BY <1>2, <1>3, <1>4, <2>1 DEF AuthorityOn
<1> QED
  BY <1>2, <1>3, <1>4, <1>6, <1>7, <1>8 DEF Agrees

\* delegate, however it ends.
LEMMA DelegationAgrees ==
    ASSUME LedgerInv, NEW n \in held, DelegationStep(n)
    PROVE  Agrees(ledger, nodes, revoked, held)'
<1>0. n \in NodeIds
  BY DEF LedgerInv, GInv, HeldAreNodes
<1>1. PICK agent \in Agents, request \in Requests :
        \/ Delegate(n, agent, request)
        \/ DelegateUnpersisted(n, agent, request)
        \/ DelegateUnhashable(n, agent, request)
        \/ DelegateRefused(n, agent, request)
  BY DEF DelegationStep
<1>2. CASE Delegate(n, agent, request) \/ DelegateUnpersisted(n, agent, request)
  <2>1. /\ AddChild(n, agent, request) /\ Write(<<SpawnOf(n)>>)
        /\ held' \subseteq held \cup {Len(nodes')}
    BY <1>2 DEF Delegate, DelegateUnpersisted, guardVars
  <2> QED
    BY <2>1, SpawnStep
<1>3. CASE DelegateUnhashable(n, agent, request)
  <2>1. [Next]_chainVars /\ UNCHANGED <<ledger, held>>
    BY <1>0, <1>3 DEF DelegateUnhashable, guardVars, Next
  <2> QED
    BY <2>1, SilentStep
<1>4. CASE DelegateRefused(n, agent, request)
  <2>1. PICK e : e = SpawnDeniedEntry(n, agent)
    OBVIOUS
  <2>2. [Next]_chainVars /\ held' = held /\ Write(<<e>>) /\ e.event = "spawn_denied"
    BY <1>4, <2>1 DEF DelegateRefused, SpawnDeniedEntry
  <2> QED
    BY <2>2, PlainStep
<1> QED
  BY <1>1, <1>2, <1>3, <1>4

\* check and its relatives.
LEMMA CheckAgrees ==
    ASSUME LedgerInv, NEW n \in held, CheckStep(n)
    PROVE  Agrees(ledger, nodes, revoked, held)'
<1>1. PICK scope \in CheckedScopes, ctx \in Contexts, metered \in {FALSE, StrictMetering} :
        \/ \E capture \in Captures, params \in Params :
              CheckAllowed(n, scope, ctx, metered, capture, params)
        \/ CheckDenied(n, scope, ctx, metered)
        \/ CheckStruck(n, scope, ctx, metered)
        \/ CheckStruckOut(n, scope, ctx, metered)
        \/ CheckDeniedUnpersisted(n, scope, ctx, metered)
        \/ CheckNotCommitted(n, scope, ctx, metered)
        \/ CheckUnrepresentable(n, scope, ctx, metered)
        \/ RecordPassthrough(n, scope, ctx)
  BY DEF CheckStep
<1>2. ASSUME NEW reason, UNCHANGED <<chainVars, held>>, Write(<<DenyEntry(n, scope, NextCall, reason)>>)
      PROVE  Agrees(ledger, nodes, revoked, held)'
  <2>1. PICK e : e = DenyEntry(n, scope, NextCall, reason)
    OBVIOUS
  <2>2. Write(<<e>>) /\ e.event = "deny"
    BY <1>2, <2>1 DEF DenyEntry
  <2> QED
    BY <1>2, <2>2, PlainStep
<1>3. CASE \/ CheckDenied(n, scope, ctx, metered) \/ CheckStruck(n, scope, ctx, metered)
           \/ CheckDeniedUnpersisted(n, scope, ctx, metered)
           \/ CheckUnrepresentable(n, scope, ctx, metered)
  BY <1>2, <1>3 DEF CheckDenied, CheckStruck, CheckDeniedUnpersisted, CheckUnrepresentable
<1>4. CASE CheckNotCommitted(n, scope, ctx, metered)
  <2>1. [Next]_chainVars /\ UNCHANGED <<ledger, held>>
    BY <1>4 DEF CheckNotCommitted
  <2> QED
    BY <2>1, SilentStep
<1>5. CASE RecordPassthrough(n, scope, ctx)
  <2>1. PICK e : e = AllowEntry(n, scope, ctx, NextCall, PreHookOnly, NoParams, Unlisted, {})
    OBVIOUS
  <2>2. /\ [Next]_chainVars /\ held' = held /\ Write(<<e>>)
        /\ e.event = "allow" /\ e.policy = Unlisted /\ Unlisted # NoPolicy
    BY <1>5, <2>1 DEF RecordPassthrough, AllowEntry, Unlisted, NoPolicy
  <2> QED
    BY <2>2, PlainStep
<1> QED
  BY <1>1, <1>3, <1>4, <1>5, AllowStep, StruckOutStep DEF CheckAllowed

\* Reports, completion and revocation.
LEMMA LifecycleAgrees ==
    ASSUME LedgerInv, NEW n \in held, LifecycleStep(n)
    PROVE  Agrees(ledger, nodes, revoked, held)'
<1>1. ASSUME NEW e, [Next]_chainVars, held' = held, Write(<<e>>),
             e.event \in {"deny", "outcome", "done"}
      PROVE  Agrees(ledger, nodes, revoked, held)'
  BY <1>1, PlainStep
<1>2. ASSUME NEW scope \in CheckedScopes, RecordDenial(n, scope)
      PROVE  Agrees(ledger, nodes, revoked, held)'
  BY <1>1, <1>2 DEF RecordDenial, DenyEntry
<1>3. ASSUME NEW call \in 1 .. issued, NEW params \in Params, RecordOutcome(n, call, params)
      PROVE  Agrees(ledger, nodes, revoked, held)'
  BY <1>1, <1>3 DEF RecordOutcome, CommitOutcome, OutcomeEntry
<1>4. CASE Complete(n)
  BY <1>1, <1>4 DEF Complete, DoneEntry
<1>5. ASSUME NEW node, NEW killed, [Next]_chainVars, held' = held,
             Write(<<KillEntry(node, killed, PendingAtKill(killed))>>), killed \subseteq revoked'
      PROVE  Agrees(ledger, nodes, revoked, held)'
  <2>1. PICK e : e = KillEntry(node, killed, PendingAtKill(killed))
    OBVIOUS
  <2>2. Write(<<e>>) /\ e.event = "kill" /\ e.revoked = killed
    BY <1>5, <2>1 DEF KillEntry
  <2> QED
    BY <1>5, <2>2, PlainStep
<1>6. ASSUME NEW target \in NodeIds, Revoke(n, target)
      PROVE  Agrees(ledger, nodes, revoked, held)'
  BY <1>5, <1>6 DEF Revoke, RevokeNode, Next
<1>7. ASSUME NEW agent \in Agents, RevokeByName(n, agent)
      PROVE  Agrees(ledger, nodes, revoked, held)'
  BY <1>5, <1>7 DEF RevokeByName, RevokeAgent, Next
<1>8. ASSUME NEW agent \in Agents, RevokeByNameUnhashable(agent)
      PROVE  Agrees(ledger, nodes, revoked, held)'
  <2>1. [Next]_chainVars /\ UNCHANGED <<ledger, held>>
    BY <1>8 DEF RevokeByNameUnhashable, guardVars, Next
  <2> QED
    BY <2>1, SilentStep
<1> QED
  BY <1>2, <1>3, <1>4, <1>6, <1>7, <1>8 DEF LifecycleStep

\* Every step of the guard leaves the ledger in agreement with the chain.
LEMMA LedgerNextInv ==
    ASSUME LedgerInv, [GuardNext]_allVars
    PROVE  LedgerInv'
<1>1. GInv'
  BY GuardNextInv DEF LedgerInv
<1>2. CASE EnvironmentStep \/ UNCHANGED allVars
  <2>1. [Next]_chainVars /\ UNCHANGED <<ledger, held>>
    BY <1>2, EnvironmentStepsChain DEF EnvironmentStep, guardVars, allVars
  <2> QED
    BY <1>1, <2>1, SilentStep DEF LedgerInv
<1>3. ASSUME NEW n \in held, DelegationStep(n) \/ CheckStep(n) \/ LifecycleStep(n)
      PROVE  Agrees(ledger, nodes, revoked, held)'
  BY <1>3, DelegationAgrees, CheckAgrees, LifecycleAgrees
<1> QED
  BY <1>1, <1>2, <1>3 DEF GuardNext, LedgerInv

\* What the theorems below are read off.
THEOREM LedgerInvariance == GuardSpec => []LedgerInv
<1>1. GuardInit => LedgerInv
  BY GuardInitInv, RootAgrees DEF LedgerInv
<1>2. LedgerInv /\ [GuardNext]_allVars => LedgerInv'
  BY LedgerNextInv
<1> QED
  BY <1>1, <1>2, PTL DEF GuardSpec

-----------------------------------------------------------------------------
(* Added entries *)

\* What an application hands to the chain, in time.
Given == RootAuthorities \cup Requests \cup StrayAuthorities
OneMeaning == KeysMeanOneThing(Given \cup AuthoritiesIn(nodes))

\* A meet gives no key a second meaning.
LEMMA OneMeaningNext ==
    ASSUME IInv, OneMeaning, [Next]_chainVars
    PROVE  OneMeaning'
<1>0. TypeOK /\ TreeWithinCeilings
  BY DEF IInv
<1>1. ASSUME NEW p \in NodeIds, NEW agent \in Agents, NEW request \in Requests,
             AddChild(p, agent, request)
      PROVE  OneMeaning'
  <2>1. PICK c, m : c = Len(nodes) + 1 /\ m = Meet(nodes[p].auth, request)
    OBVIOUS
  <2>2. /\ NodeIds' = NodeIds \cup {c} /\ \A n \in NodeIds : nodes'[n] = nodes[n]
        /\ nodes'[c] = NewNode(p, agent, nodes[p].depth + 1, now, m)
    BY <1>0, <1>1, <2>1, AddChildFacts
  <2>3. nodes'[c].auth = m /\ nodes'[c].seal = m
    BY <2>2 DEF NewNode
  <2>4. ~MeetRefused(nodes[p].auth, request)
    BY <1>1 DEF AddChild
  <2>5. AuthoritiesIn(nodes') \subseteq AuthoritiesIn(nodes) \cup {m}
    BY <2>2, <2>3 DEF AuthoritiesIn, NodeIds
  <2>6. PICK S : S = Given \cup AuthoritiesIn(nodes)
    OBVIOUS
  <2>7. /\ \A x \in S : IsAuthority(x)
        /\ nodes[p].auth \in S /\ request \in S
    BY <1>0, <2>6, AuthoritiesAssumption DEF TypeOK, Given, AuthoritiesIn, NodeIds
  <2>8. KeysMeanOneThing(S \cup {m})
    BY <2>1, <2>4, <2>6, <2>7, MeetReadsAlike DEF OneMeaning
  <2> QED
    BY <2>5, <2>6, <2>8 DEF OneMeaning, KeysMeanOneThing
<1>2. ASSUME NEW n \in NodeIds, NEW a \in StrayAuthorities, StrayMutation(n, a)
      PROVE  OneMeaning'
  <2>1. nodes' = [nodes EXCEPT ![n].auth = a] /\ nodes \in Seq(NodeType(AuthoritiesIn(nodes)))
    BY <1>0, <1>2 DEF StrayMutation, TypeOK
  <2>2. AuthoritiesIn(nodes') \subseteq AuthoritiesIn(nodes) \cup {a}
    <3>1. /\ Len(nodes') = Len(nodes)
          /\ \A m \in 1 .. Len(nodes) : nodes'[m].seal = nodes[m].seal
      BY <1>0, <1>2, StrayMutationFacts DEF NodeIds
    <3>2. \A m \in 1 .. Len(nodes) : nodes'[m].auth \in {nodes[m].auth, a}
      BY <1>0, <2>1, NodeFacts DEF NodeIds, NodeType
    <3> QED
      BY <3>1, <3>2 DEF AuthoritiesIn
  <2> QED
    BY <2>2 DEF OneMeaning, KeysMeanOneThing, Given
<1>3. CASE UNCHANGED nodes
  BY <1>3 DEF OneMeaning
<1> QED
  BY <1>1, <1>2, <1>3 DEF Next, RevokeNode, RevokeAgent, Tick, chainVars

\* The root authority is one of those given.
LEMMA OneMeaningInit ==
    ASSUME Init, KeysMeanOneThing(Given)
    PROVE  OneMeaning
<1>1. PICK agent \in Agents, a \in RootAuthorities : nodes = <<NewNode(NoParent, agent, 0, 0, a)>>
  BY DEF Init
<1>2. AuthoritiesIn(nodes) = {a}
  BY <1>1 DEF AuthoritiesIn, NewNode
<1> QED
  BY <1>2 DEF OneMeaning, KeysMeanOneThing, Given

\* Contexts and scopes are such as a ledger can hold.
Readable ==
    /\ CheckedScopes \subseteq Scope
    /\ \A ctx \in Contexts : \A f \in DOMAIN ctx : ctx[f] \in JsonValue

\* Whatever entry is added to a guard's ledger, an acceptance keeps it in line.
LEMMA AdditionsInLine ==
    ASSUME LedgerInv, OneMeaning, Readable
    PROVE  AcceptedAdditionsStayInLine
<1>0. TypeOK /\ Agrees(ledger, nodes, revoked, held)
  BY DEF LedgerInv, GInv, IInv
<1>1. PICK T : ledger \in Seq(T)
  BY <1>0 DEF Agrees
<1>2. SUFFICES ASSUME NEW entry \in Additions, Verifies(Append(ledger, entry))
               PROVE  EntryInLine(Append(ledger, entry), Len(Append(ledger, entry)))
  BY DEF AcceptedAdditionsStayInLine
<1>3. PICK M, k : /\ M = Append(ledger, entry) /\ k = Len(M)
                  /\ IsExtension(M, ledger, entry, k)
  <2>1. Len(Append(ledger, entry)) = Len(ledger) + 1
    BY <1>1
  <2> QED
    BY <1>1, <2>1, AppendExtends
<1>4. /\ DOMAIN M \subseteq Nat /\ k \in DOMAIN M /\ M[k] = entry
      /\ \A i \in DOMAIN ledger : M[i] = ledger[i]
  BY <1>3 DEF IsExtension
<1>5. \/ entry.event = "spawn" /\ entry.authority \in RootAuthorities \cup Requests
      \/ entry.event = "allow" /\ IsReadableAct(entry)
  BY DEF Additions, SpawnEntry, AllowEntry, Readable, IsReadableAct
<1>6. PICK S : S = Given \cup AuthoritiesIn(nodes)
  OBVIOUS
<1>7. \A x \in S : IsAuthority(x)
  BY <1>0, <1>6, AuthoritiesAssumption DEF TypeOK, Given
<1>8. ASSUME NEW i \in Definitions(M)
      PROVE  M[i].authority \in S
  <2>1. CASE i \in Definitions(ledger)
    <3>1. i \in DOMAIN ledger /\ Monotonicity(ledger) /\ DOMAIN ledger \subseteq Nat
      BY <1>0, <1>1, <2>1 DEF Agrees, Verifies, Definitions, Entries
    <3>2. DefinitionOf(ledger, ledger[i].node) = i
      BY <2>1, <3>1, DefinedOnce
    <3>3. ledger[i].node \in NodesOn(ledger) /\ AuthorityOn(ledger, ledger[i].node) = ledger[i].authority
      BY <2>1, <3>2 DEF NodesOn, AuthorityOn
    <3>4. ledger[i].node \in 1 .. Len(nodes) /\ nodes[ledger[i].node].seal = ledger[i].authority
      BY <1>0, <3>3 DEF Agrees
    <3>5. ledger[i].authority \in AuthoritiesIn(nodes)
      BY <3>4 DEF AuthoritiesIn
    <3> QED
      BY <1>4, <1>6, <3>1, <3>5
  <2>2. CASE i = k /\ entry.event = "spawn"
    BY <1>4, <1>5, <1>6, <2>2 DEF Given
  <2>3. Definitions(M) = Definitions(ledger) \cup {j \in {k} : entry.event \in {"root", "spawn"}}
    BY <1>3 DEF IsExtension, Definitions
  <2> QED
    BY <1>5, <2>1, <2>2, <2>3
<1>9. IsReadable(M)
  BY <1>4, <1>6, <1>7, <1>8 DEF IsReadable, OneMeaning, KeysMeanOneThing
<1>10. k \in Gated(M) => IsReadableAct(M[k])
  BY <1>4, <1>5 DEF Gated, Entries
<1>11. EntryInLine(M, k)
  BY <1>2, <1>3, <1>4, <1>9, <1>10, AcceptedLedgersStayInLine
<1> QED
  BY <1>3, <1>11

-----------------------------------------------------------------------------
(* Theorems *)

\* No honest chain is refused: any number of agents, nodes, checks, denials,
\* kills and failed writes leave a ledger that verifies offline.
THEOREM HonestLedgersVerify == GuardSpec => []LedgerVerifies
<1>1. LedgerInv => LedgerVerifies
  BY DEF LedgerInv, Agrees, LedgerVerifies
<1> QED
  BY <1>1, LedgerInvariance, PTL

\* Whoever adds a spawn or an allow to a guard's ledger stays within the whole
\* line above it, or is refused, if a ceiling key means one thing throughout.
THEOREM AdditionsStayInLine ==
    ASSUME Readable, KeysMeanOneThing(Given)
    PROVE  GuardSpec => []AcceptedAdditionsStayInLine
<1>1. GuardInit => OneMeaning
  BY OneMeaningInit DEF GuardInit
<1>2. LedgerInv /\ OneMeaning /\ [GuardNext]_allVars => OneMeaning'
  BY GuardStepsChain, OneMeaningNext DEF LedgerInv, GInv
<1>3. LedgerInv /\ OneMeaning => AcceptedAdditionsStayInLine
  BY AdditionsInLine
<1> QED
  BY <1>1, <1>2, <1>3, LedgerInvariance, PTL DEF GuardSpec

-----------------------------------------------------------------------------
(***************************************************************************)
(* Sinks that call back, in any number and to any depth: a half of an      *)
(* operation is a step of the delegation chain, or none, and writes an entry *)
(* that fits on the ledger as it then is.                                  *)
(***************************************************************************)

\* An operation under way is one of a Guard that the application holds.
OfHeld ==
    /\ \E T : inside \in Seq(T)
    /\ \A k \in DOMAIN inside : inside[k].node \in held

SinkInv == LedgerInv /\ OfHeld

\* A step of the chain that hands out no Guard, and leaves a ledger that agrees.
LEMMA LedgerInvAfter ==
    ASSUME LedgerInv, [Next]_chainVars, held' = held, Agrees(ledger, nodes, revoked, held)'
    PROVE  LedgerInv'
<1>1. IInv /\ HeldAreNodes
  BY DEF LedgerInv, GInv
<1>2. IInv' /\ NodeIds \subseteq NodeIds'
  BY <1>1, NextInv, NodesStay
<1> QED
  BY <1>1, <1>2 DEF LedgerInv, GInv, HeldAreNodes

\* The first half of an operation moves the chain no more than all of it.
LEMMA SeenStepInv ==
    ASSUME LedgerInv, NEW n \in held, SeenStep(n)
    PROVE  UNCHANGED <<chainVars, held>> /\ LedgerInv'
<1>1. ASSUME NEW scope \in CheckedScopes, NEW ctx \in Contexts,
             NEW metered \in {FALSE, StrictMetering}, NEW capture \in Captures,
             NEW params \in Params, AllowSeen(n, scope, ctx, metered, capture, params)
      PROVE  UNCHANGED <<chainVars, held>> /\ LedgerInv'
  <2>1. CommitAllow(n, scope, ctx, metered, capture, params)
    BY <1>1 DEF AllowSeen
  <2>2. UNCHANGED <<chainVars, held>>
    BY <2>1 DEF CommitAllow
  <2>3. Agrees(ledger, nodes, revoked, held)'
    BY <2>1, AllowStep
  <2> QED
    BY <2>2, <2>3, LedgerInvAfter
<1>2. ASSUME NEW scope \in CheckedScopes, NEW ctx \in Contexts,
             NEW metered \in {FALSE, StrictMetering}, DenialSeen(n, scope, ctx, metered)
      PROVE  UNCHANGED <<chainVars, held>> /\ LedgerInv'
  <2>1. PICK e : e = DenyEntry(n, scope, NextCall, Policy)
    OBVIOUS
  <2>2. UNCHANGED <<chainVars, held>> /\ Write(<<e>>) /\ e.event = "deny"
    BY <1>2, <2>1 DEF DenialSeen, DenyEntry
  <2> QED
    BY <2>2, PlainStep, LedgerInvAfter
<1>3. ASSUME NEW call \in 1 .. issued, NEW params \in Params, OutcomeSeen(n, call, params)
      PROVE  UNCHANGED <<chainVars, held>> /\ LedgerInv'
  <2>1. PICK e : e = OutcomeEntry(n, call, params)
    OBVIOUS
  <2>2. UNCHANGED <<chainVars, held>> /\ Write(<<e>>) /\ e.event = "outcome"
    BY <1>3, <2>1 DEF OutcomeSeen, CommitOutcome, OutcomeEntry
  <2> QED
    BY <2>2, PlainStep, LedgerInvAfter
<1> QED
  BY <1>1, <1>2, <1>3 DEF SeenStep

\* The second half writes nothing, or the kill that a strike brings about.
LEMMA ReturnsInv ==
    ASSUME SinkInv, AllowReturns \/ DenialReturns \/ OutcomeReturns
    PROVE  [Next]_chainVars /\ held' = held /\ LedgerInv'
<1>1. PICK n : n = Top.node
  OBVIOUS
<1>2. inside # <<>> => n \in held /\ n \in NodeIds
  BY <1>1 DEF SinkInv, OfHeld, Top, LedgerInv, GInv, HeldAreNodes
<1>3. ASSUME UNCHANGED <<chainVars, ledger, held>>
      PROVE  [Next]_chainVars /\ held' = held /\ LedgerInv'
  BY <1>3, SilentStep, LedgerInvAfter DEF SinkInv
<1>4. ASSUME NEW killed, killed = Cascade({n}), inside # <<>>, held' = held,
             RevokeNode(n), Write(<<KillEntry(n, killed, PendingAtKill(killed))>>)
      PROVE  [Next]_chainVars /\ held' = held /\ LedgerInv'
  <2>1. PICK e : e = KillEntry(n, killed, PendingAtKill(killed))
    OBVIOUS
  <2>2. Write(<<e>>) /\ e.event = "kill" /\ e.revoked = killed
    BY <1>4, <2>1 DEF KillEntry
  <2>3. [Next]_chainVars /\ e.revoked \subseteq revoked'
    BY <1>2, <1>4, <2>2 DEF Next, RevokeNode
  <2> QED
    BY <1>4, <2>2, <2>3, PlainStep, LedgerInvAfter DEF SinkInv
<1>5. CASE AllowReturns \/ OutcomeReturns
  BY <1>3, <1>5 DEF AllowReturns, OutcomeReturns, RegisterPending, ResolveCall
<1>6. CASE DenialReturns
  BY <1>1, <1>3, <1>4, <1>6 DEF DenialReturns, Innermost
<1> QED
  BY <1>5, <1>6

\* Every step, whole or half, preserves the invariant.
LEMMA SinkNextInv ==
    ASSUME SinkInv, [SinkNext]_<<allVars, sinkVars>>
    PROVE  [Next]_chainVars /\ SinkInv'
<1>0. LedgerInv /\ GInv /\ HeldAreNodes /\ IInv
  BY DEF SinkInv, LedgerInv, GInv
<1>1. PICK T : inside \in Seq(T)
  BY DEF SinkInv, OfHeld
<1>2. CASE [GuardNext]_allVars /\ UNCHANGED inside
  <2>1. [Next]_chainVars /\ LedgerInv'
    BY <1>0, <1>2, GuardStepsChain, LedgerNextInv
  <2>2. held \subseteq held'
    BY <1>2, HeldGrows DEF allVars, guardVars
  <2> QED
    BY <1>2, <2>1, <2>2 DEF SinkInv, OfHeld
<1>3. ASSUME NEW n \in held, SeenStep(n)
      PROVE  [Next]_chainVars /\ SinkInv'
  <2>1. UNCHANGED <<chainVars, held>> /\ LedgerInv'
    BY <1>0, <1>3, SeenStepInv
  <2>2. PICK op, scope, call : Enter(Underway(op, n, scope, call))
    BY <1>3 DEF SeenStep, AllowSeen, DenialSeen, OutcomeSeen
  <2>3. PICK u : u.node = n /\ inside' = Append(inside, u)
    BY <2>2 DEF Enter, Underway
  <2>4. inside' \in Seq(T \cup {u})
    BY <1>1, <2>3
  <2>5. \A k \in DOMAIN inside' : inside'[k].node \in held
    BY <1>1, <2>3 DEF SinkInv, OfHeld
  <2> QED
    BY <2>1, <2>4, <2>5 DEF SinkInv, OfHeld
<1>4. CASE Returns
  <2>1. inside # <<>> /\ inside' = SubSeq(inside, 1, Len(inside) - 1)
    BY <1>4 DEF Returns, AllowReturns, DenialReturns, OutcomeReturns, Innermost
  <2>2. inside' \in Seq(T) /\ \A k \in DOMAIN inside' : k \in DOMAIN inside /\ inside'[k] = inside[k]
    BY <1>1, <2>1
  <2>3. [Next]_chainVars /\ held' = held /\ LedgerInv'
    BY <1>4, ReturnsInv DEF Returns
  <2> QED
    BY <2>2, <2>3 DEF SinkInv, OfHeld
<1> QED
  BY <1>2, <1>3, <1>4 DEF SinkNext, sinkVars

\* What the theorems below are read off.
THEOREM SinkInvariance == SinkSpec => []SinkInv
<1>1. SinkInit => SinkInv
  <2> SUFFICES ASSUME SinkInit PROVE SinkInv
    OBVIOUS
  <2>1. LedgerInv
    BY GuardInitInv, RootAgrees DEF SinkInit, LedgerInv
  <2>2. inside \in Seq({}) /\ DOMAIN inside = {}
    BY DEF SinkInit
  <2> QED
    BY <2>1, <2>2 DEF SinkInv, OfHeld
<1>2. SinkInv /\ [SinkNext]_<<allVars, sinkVars>> => SinkInv'
  BY SinkNextInv
<1> QED
  BY <1>1, <1>2, PTL DEF SinkSpec

-----------------------------------------------------------------------------
(* Theorems *)

\* No ledger is refused for what its sinks did while it was written.
THEOREM SinksLeaveLedgersHonest == SinkSpec => []LedgerVerifies
<1>1. SinkInv => LedgerVerifies
  BY DEF SinkInv, LedgerInv, Agrees, LedgerVerifies
<1> QED
  BY <1>1, SinkInvariance, PTL

\* An entry added to such a ledger is within the line above it, or refused.
THEOREM SinksKeepAdditionsInLine ==
    ASSUME Readable, KeysMeanOneThing(Given)
    PROVE  SinkSpec => []AcceptedAdditionsStayInLine
<1>1. SinkInit => OneMeaning
  BY OneMeaningInit DEF SinkInit, GuardInit
<1>2. SinkInv /\ OneMeaning /\ [SinkNext]_<<allVars, sinkVars>> => OneMeaning'
  BY SinkNextInv, OneMeaningNext DEF SinkInv, LedgerInv, GInv
<1>3. SinkInv /\ OneMeaning => AcceptedAdditionsStayInLine
  BY AdditionsInLine DEF SinkInv
<1> QED
  BY <1>1, <1>2, <1>3, SinkInvariance, PTL DEF SinkSpec

\* With sinks that delegate, revoke and strike out from within, the chain is
\* still a delegation tree: nothing is issued, and nothing lives on, against the
\* line above.
THEOREM SinksKeepTree == SinkSpec => ChainImplementsTree
<1>1. SinkInit => Init
  BY DEF SinkInit, GuardInit
<1>2. SinkInv /\ [SinkNext]_<<allVars, sinkVars>> => [Next]_chainVars
  BY SinkNextInv
<1>3. SinkSpec => Spec
  BY <1>1, <1>2, SinkInvariance, PTL DEF SinkSpec, Spec
<1> QED
  BY <1>3, ChainRefinesTree, PTL

-----------------------------------------------------------------------------
(* The kinds of steps *)

\* An entry is written after the others.
Writes(e) == ledger' = Append(ledger, e)
WritesBoth(d, e) == ledger' = Append(Append(ledger, d), e)

\* Nothing is written, and nothing counted.
Silent == UNCHANGED <<ledger, calls, strikes, bindingVars>>

\* A delegation, made or refused.
Delegates(e) ==
    /\ Writes(e) /\ e.event \in {"spawn", "spawn_denied"}
    /\ UNCHANGED <<calls, strikes, bindingVars>>

IsKill(e) == e.event = "kill" /\ e.pending = PendingAtKill(e.revoked)
Kills(e) == Writes(e) /\ IsKill(e) /\ UNCHANGED <<calls, strikes, bindingVars>>

\* A denial under a call id of its own; a strike, if it is one, is counted at once,
\* or later.
IsDenial(e) ==
    /\ e.event = "deny" /\ e.node \in held /\ e.call = NextCall /\ e.scope \in CheckedScopes
    /\ DrawCall
    /\ UNCHANGED <<calls, complete, pending, outcomed>>
IsStrike(e) ==
    IsDenial(e) /\ e.reason = Policy /\ StrikesOn /\ e.node \notin revoked
Denies(e) ==
    /\ Writes(e) /\ IsDenial(e) /\ UNCHANGED strikes
    /\ e.reason = Policy => ~StrikesOn \/ e.node \in revoked
Strikes(e) ==
    Writes(e) /\ IsStrike(e) /\ AddStrike(e.node, e.scope) /\ ~StrikesOut(e.node, e.scope)
StrikesDown(d, e) ==
    /\ WritesBoth(d, e)
    /\ IsStrike(d) /\ AddStrike(d.node, d.scope) /\ d.node \in revoked'
    /\ IsKill(e)

\* The calls counted are of a request that the node's authority permits with
\* them in it.
CountsWithin(n, keys) ==
    \E scope \in CheckedScopes, ctx \in Contexts :
        keys = Counted(n, scope, ctx) /\ Permits(nodes[n].auth, scope, FillMeters(n, scope, ctx))

\* What is allowed was asked, but for the limits that the meter filled in.
IsRequest(e) ==
    e.scope \in CheckedScopes /\ \E ctx \in Contexts : e.ctx = FillMeters(e.node, e.scope, ctx)

\* An allow, its call counted, but not yet pending.
AllowsCall(e) ==
    /\ Writes(e)
    /\ e.event = "allow" /\ e.node \in held /\ e.call = NextCall /\ e.policy = NoPolicy
    /\ IsV2 => e.node \notin complete
    /\ IsV2 \/ e.capture = PreHookOnly
    /\ e.counted \subseteq CallKeys /\ calls' = Count(calls, e.node, e.counted)
    /\ VerifyIntegrity(e.node) /\ CountsWithin(e.node, e.counted)
    /\ IsRequest(e)
    /\ DrawCall
    /\ UNCHANGED <<strikes, complete, outcomed>>
Registers(e) ==
    IF AwaitsOutcome(e.capture) THEN RegisterPending(e.node, e.call) ELSE UNCHANGED pending

PassesThrough(e) ==
    /\ Writes(e)
    /\ e.event = "allow" /\ e.node \in held /\ e.call = NextCall
    /\ e.capture = PreHookOnly /\ e.counted = {} /\ e.policy # NoPolicy
    /\ DrawCall
    /\ UNCHANGED <<calls, strikes, complete, pending, outcomed>>

Reports(e) ==
    /\ Writes(e)
    /\ e.event = "outcome" /\ IsV2 /\ e.call \in 1 .. issued /\ e.call \notin outcomed
    /\ UNCHANGED <<calls, strikes, complete, issued>>

Finishes(e) ==
    /\ Writes(e)
    /\ e.event = "done" /\ e.node \in held \ complete
    /\ IsV2 => PendingFor(e.node) = {}
    /\ complete' = complete \cup {e.node}
    /\ UNCHANGED <<calls, strikes, issued, pending, outcomed>>

\* All that a Guard does.
Step ==
    \/ Silent
    \/ \E e : Delegates(e) \/ Kills(e) \/ Denies(e) \/ Strikes(e)
    \/ \E d, e : StrikesDown(d, e)
    \/ \E e : AllowsCall(e) /\ Registers(e)
    \/ \E e : PassesThrough(e)
    \/ \E e : Reports(e) /\ ResolveCall(e.call)
    \/ \E e : Finishes(e)

\* What the proofs need of the types: the meters, and the bound on nodes.
MetersTyped == calls \in [1 .. MaxNodes -> [CallKeys -> Nat]]
NodesFit == NodeIds \subseteq 1 .. MaxNodes

\* Functions that agree are the same.
LEMMA SameFunction ==
    ASSUME NEW S, NEW R, NEW f \in [S -> R], NEW g \in [S -> R], \A x \in S : f[x] = g[x]
    PROVE  f = g
  OBVIOUS

\* What a check added and took back again.
LEMMA MetersRestored ==
    ASSUME MetersTyped, NEW n \in 1 .. MaxNodes, NEW keys
    PROVE  Uncount(Count(calls, n, keys), n, keys) = calls
<1>1. PICK c : c = Count(calls, n, keys)
  OBVIOUS
<1>2. /\ c \in [1 .. MaxNodes -> [CallKeys -> Nat]]
      /\ \A m \in 1 .. MaxNodes : m # n => c[m] = calls[m]
      /\ \A k \in CallKeys : c[n][k] = calls[n][k] + (IF k \in keys THEN 1 ELSE 0)
  BY <1>1 DEF MetersTyped, Count
<1>3. PICK u : u = Uncount(c, n, keys)
  OBVIOUS
<1>4. /\ u \in [1 .. MaxNodes -> [CallKeys -> Nat]]
      /\ \A m \in 1 .. MaxNodes : m # n => u[m] = calls[m]
  BY <1>2, <1>3 DEF Uncount
<1>5. ASSUME NEW k \in CallKeys PROVE u[n][k] = calls[n][k]
  <2>1. u[n][k] = IF k \in keys /\ c[n][k] > 0 THEN c[n][k] - 1 ELSE c[n][k]
    BY <1>2, <1>3 DEF Uncount
  <2>2. calls[n][k] \in Nat /\ c[n][k] = calls[n][k] + (IF k \in keys THEN 1 ELSE 0)
    BY <1>2 DEF MetersTyped
  <2> QED
    BY <2>1, <2>2
<1>6. u[n] \in [CallKeys -> Nat] /\ calls[n] \in [CallKeys -> Nat]
  BY <1>4 DEF MetersTyped
<1>7. u[n] = calls[n]
  BY <1>5, <1>6, SameFunction
<1>8. \A m \in 1 .. MaxNodes : u[m] = calls[m]
  BY <1>4, <1>7
<1>9. u = calls
  <2>1. u \in [1 .. MaxNodes -> [CallKeys -> Nat]] /\ calls \in [1 .. MaxNodes -> [CallKeys -> Nat]]
    BY <1>4 DEF MetersTyped
  <2>2. PICK S, R : S = 1 .. MaxNodes /\ R = [CallKeys -> Nat]
    OBVIOUS
  <2>3. u \in [S -> R] /\ calls \in [S -> R] /\ \A m \in S : u[m] = calls[m]
    BY <1>8, <2>1, <2>2
  <2> QED
    BY <2>3, SameFunction
<1> QED
  BY <1>1, <1>3, <1>9

\* A delegation is written, refused, or leaves nothing behind in the ledger.
LEMMA DelegationKinds ==
    ASSUME NEW T, ledger \in Seq(T), NEW n \in held, DelegationStep(n)
    PROVE  Step
<1>1. PICK agent \in Agents, request \in Requests :
        \/ Delegate(n, agent, request)
        \/ DelegateUnpersisted(n, agent, request)
        \/ DelegateUnhashable(n, agent, request)
        \/ DelegateRefused(n, agent, request)
  BY DEF DelegationStep
<1>2. CASE Delegate(n, agent, request) \/ DelegateUnpersisted(n, agent, request)
  <2>1. PICK e : e = SpawnOf(n)
    OBVIOUS
  <2>2. e.event = "spawn" /\ Write(<<e>>) /\ UNCHANGED <<calls, strikes, bindingVars>>
    BY <1>2, <2>1 DEF SpawnOf, SpawnEntry, Delegate, DelegateUnpersisted
  <2> QED
    BY <2>2, WriteOne DEF Step, Delegates, Writes
<1>3. CASE DelegateUnhashable(n, agent, request)
  BY <1>3 DEF DelegateUnhashable, guardVars, Step, Silent
<1>4. CASE DelegateRefused(n, agent, request)
  <2>1. PICK e : e = SpawnDeniedEntry(n, agent)
    OBVIOUS
  <2>2. e.event = "spawn_denied" /\ Write(<<e>>) /\ UNCHANGED <<calls, strikes, bindingVars>>
    BY <1>4, <2>1 DEF SpawnDeniedEntry, DelegateRefused
  <2> QED
    BY <2>2, WriteOne DEF Step, Delegates, Writes
<1> QED
  BY <1>1, <1>2, <1>3, <1>4

\* The entry of a denial.
LEMMA DenialEntry ==
    ASSUME NEW T, ledger \in Seq(T), NEW n \in held, NEW scope \in CheckedScopes, NEW reason,
           Write(<<DenyEntry(n, scope, NextCall, reason)>>), DrawCall,
           UNCHANGED <<calls, complete, pending, outcomed>>
    PROVE  \E e : /\ Writes(e) /\ IsDenial(e)
                  /\ e.node = n /\ e.scope = scope /\ e.reason = reason
<1>1. PICK e : e = DenyEntry(n, scope, NextCall, reason)
  OBVIOUS
<1>2. /\ e.event = "deny" /\ e.node = n /\ e.scope = scope /\ e.call = NextCall
      /\ e.reason = reason
  BY <1>1 DEF DenyEntry
<1> QED
  BY <1>1, <1>2, WriteOne DEF IsDenial, Writes

\* An allow is written, counted, and under a call id of its own.
LEMMA AllowEntryKind ==
    ASSUME NEW T, ledger \in Seq(T), NEW n \in held, NEW scope \in CheckedScopes,
           NEW ctx \in Contexts, NEW metered, NEW capture, NEW params, CommitAllow(n, scope, ctx, metered, capture, params)
    PROVE  \E e : AllowsCall(e) /\ e.node = n /\ e.capture = capture
<1>1. PICK e : e = AllowEntry(n, scope, FillMeters(n, scope, ctx), NextCall, capture,
                              params, NoPolicy, Counted(n, scope, ctx))
  OBVIOUS
<1>2. /\ e.event = "allow" /\ e.node = n /\ e.call = NextCall /\ e.policy = NoPolicy
      /\ e.capture = capture /\ e.counted = Counted(n, scope, ctx)
      /\ e.scope = scope /\ e.ctx = FillMeters(n, scope, ctx)
  BY <1>1 DEF AllowEntry
<1>3. Counted(n, scope, ctx) \subseteq CallKeys
  BY DEF Counted, AutoMetered, CallLimits
<1>4. IsV2 => n \notin complete
  BY DEF CommitAllow, Decide
<1>5. Write(<<e>>)
  BY <1>1 DEF CommitAllow
<1>6. VerifyIntegrity(n) /\ CountsWithin(n, e.counted)
  BY <1>2 DEF CommitAllow, Decide, Evaluate, CountsWithin
<1>7. IsRequest(e)
  BY <1>2 DEF IsRequest
<1>8. AllowsCall(e)
  BY <1>2, <1>3, <1>4, <1>5, <1>6, <1>7, WriteOne DEF CommitAllow, AllowsCall, Writes
<1> QED
  BY <1>2, <1>8

\* check and its relatives.
LEMMA CheckKinds ==
    ASSUME NEW T, ledger \in Seq(T), MetersTyped, NEW n \in held, n \in 1 .. MaxNodes,
           n \in NodeIds, IInv, CheckStep(n)
    PROVE  Step
<1>1. PICK scope \in CheckedScopes, ctx \in Contexts, metered \in {FALSE, StrictMetering} :
        \/ \E capture \in Captures, params \in Params :
              CheckAllowed(n, scope, ctx, metered, capture, params)
        \/ CheckDenied(n, scope, ctx, metered)
        \/ CheckStruck(n, scope, ctx, metered)
        \/ CheckStruckOut(n, scope, ctx, metered)
        \/ CheckDeniedUnpersisted(n, scope, ctx, metered)
        \/ CheckNotCommitted(n, scope, ctx, metered)
        \/ CheckUnrepresentable(n, scope, ctx, metered)
        \/ RecordPassthrough(n, scope, ctx)
  BY DEF CheckStep
<1>2. ASSUME NEW capture \in Captures, NEW params \in Params,
             CheckAllowed(n, scope, ctx, metered, capture, params)
      PROVE  Step
  <2>1. CommitAllow(n, scope, ctx, metered, capture, params)
    BY <1>2 DEF CheckAllowed
  <2>2. PICK e : AllowsCall(e) /\ e.node = n /\ e.capture = capture
    BY <2>1, AllowEntryKind
  <2>3. Registers(e)
    BY <1>2, <2>2 DEF CheckAllowed, Registers, AllowsCall
  <2> QED
    BY <2>2, <2>3 DEF Step
<1>3. RestoreMeters(n, scope, ctx, metered) => calls' = calls
  BY MetersRestored DEF RestoreMeters
<1>4. CASE \/ CheckDenied(n, scope, ctx, metered)
           \/ CheckDeniedUnpersisted(n, scope, ctx, metered)
           \/ CheckUnrepresentable(n, scope, ctx, metered)
  <2>1. PICK reason \in {Policy, PolicyUnwritten, Unrepresentable} :
            /\ Write(<<DenyEntry(n, scope, NextCall, reason)>>)
            /\ reason = Policy => ~StrikesOn \/ n \in revoked
    BY <1>4 DEF CheckDenied, CheckDeniedUnpersisted, CheckUnrepresentable, Policy,
                PolicyUnwritten, Unrepresentable
  <2>2. DrawCall /\ UNCHANGED <<calls, strikes, complete, pending, outcomed>>
    BY <1>3, <1>4 DEF CheckDenied, CheckDeniedUnpersisted, CheckUnrepresentable
  <2>3. PICK e : /\ Writes(e) /\ IsDenial(e)
                 /\ e.node = n /\ e.scope = scope /\ e.reason = reason
    BY <2>1, <2>2, DenialEntry
  <2> QED
    BY <2>1, <2>2, <2>3 DEF Step, Denies
<1>5. CASE CheckStruck(n, scope, ctx, metered)
  <2>1. PICK e : /\ Writes(e) /\ IsDenial(e)
                 /\ e.node = n /\ e.scope = scope /\ e.reason = Policy
    BY <1>5, DenialEntry DEF CheckStruck
  <2> QED
    BY <1>5, <2>1 DEF CheckStruck, Step, Strikes, IsStrike
<1>6. CASE CheckStruckOut(n, scope, ctx, metered)
  <2>1. PICK d, e : /\ d = DenyEntry(n, scope, NextCall, Policy)
                    /\ e = KillEntry(n, Cascade({n}), PendingAtKill(Cascade({n})))
    OBVIOUS
  <2>2. /\ d.event = "deny" /\ d.node = n /\ d.scope = scope /\ d.call = NextCall
        /\ d.reason = Policy /\ IsKill(e)
    BY <2>1 DEF DenyEntry, KillEntry, IsKill
  <2>3. Write(<<d, e>>)
    BY <1>6, <2>1 DEF CheckStruckOut
  <2>4. n \in revoked'
    BY <1>6, CascadeFacts DEF IInv, CheckStruckOut, RevokeNode
  <2> QED
    BY <1>6, <2>2, <2>3, <2>4, WriteTwo DEF CheckStruckOut, Step, StrikesDown, IsStrike, IsDenial,
                                            WritesBoth
<1>7. CASE CheckNotCommitted(n, scope, ctx, metered)
  BY <1>3, <1>7 DEF CheckNotCommitted, Step, Silent
<1>8. CASE RecordPassthrough(n, scope, ctx)
  <2>1. PICK e : e = AllowEntry(n, scope, ctx, NextCall, PreHookOnly, NoParams, Unlisted, {})
    OBVIOUS
  <2>2. /\ e.event = "allow" /\ e.node = n /\ e.call = NextCall
        /\ e.capture = PreHookOnly /\ e.counted = {} /\ e.policy # NoPolicy
    BY <2>1 DEF AllowEntry, Unlisted, NoPolicy
  <2>3. Write(<<e>>)
    BY <1>8, <2>1 DEF RecordPassthrough
  <2> QED
    BY <1>8, <2>2, <2>3, WriteOne DEF RecordPassthrough, Step, PassesThrough, Writes
<1> QED
  BY <1>1, <1>2, <1>4, <1>5, <1>6, <1>7, <1>8

\* The reports, and the controls.
LEMMA LifecycleKinds ==
    ASSUME NEW T, ledger \in Seq(T), NEW n \in held, LifecycleStep(n)
    PROVE  Step
<1>1. ASSUME NEW scope \in CheckedScopes, RecordDenial(n, scope)
      PROVE  Step
  <2>1. PICK e : /\ Writes(e) /\ IsDenial(e)
                 /\ e.node = n /\ e.scope = scope /\ e.reason = AdapterSays
    BY <1>1, DenialEntry DEF RecordDenial
  <2> QED
    BY <1>1, <2>1 DEF RecordDenial, Step, Denies, AdapterSays, Policy
<1>2. ASSUME NEW call \in 1 .. issued, NEW params \in Params,
             RecordOutcome(n, call, params)
      PROVE  Step
  <2>1. PICK e : e = OutcomeEntry(n, call, params)
    OBVIOUS
  <2>2. e.event = "outcome" /\ e.node = n /\ e.call = call
    BY <2>1 DEF OutcomeEntry
  <2>3. Write(<<e>>)
    BY <1>2, <2>1 DEF RecordOutcome, CommitOutcome
  <2> QED
    BY <1>2, <2>2, <2>3, WriteOne
    DEF RecordOutcome, CommitOutcome, Step, Reports, Writes
<1>3. CASE Complete(n)
  <2>1. PICK e : e = DoneEntry(n)
    OBVIOUS
  <2>2. e.event = "done" /\ e.node = n
    BY <2>1 DEF DoneEntry
  <2>3. Write(<<e>>)
    BY <1>3, <2>1 DEF Complete
  <2> QED
    BY <1>3, <2>2, <2>3, WriteOne DEF Complete, Step, Finishes, Writes
<1>4. ASSUME NEW target, NEW killed,
             Write(<<KillEntry(target, killed, PendingAtKill(killed))>>),
             UNCHANGED <<calls, strikes, bindingVars>>
      PROVE  Step
  <2>1. PICK e : e = KillEntry(target, killed, PendingAtKill(killed))
    OBVIOUS
  <2>2. IsKill(e) /\ Write(<<e>>)
    BY <1>4, <2>1 DEF KillEntry, IsKill
  <2> QED
    BY <1>4, <2>2, WriteOne DEF Step, Kills, Writes
<1>5. ASSUME NEW target \in NodeIds, Revoke(n, target)
      PROVE  Step
  BY <1>4, <1>5 DEF Revoke
<1>6. ASSUME NEW agent \in Agents, RevokeByName(n, agent) \/ RevokeByNameUnhashable(agent)
      PROVE  Step
  BY <1>4, <1>6 DEF RevokeByName, RevokeByNameUnhashable, guardVars, Step, Silent
<1> QED
  BY <1>1, <1>2, <1>3, <1>5, <1>6 DEF LifecycleStep

\* Whatever the Guard does is one of these.
LEMMA GuardStepKinds ==
    ASSUME LedgerInv, MetersTyped, NodesFit, [GuardNext]_allVars
    PROVE  Step
<1>0. IInv /\ held \subseteq NodeIds /\ \E T : ledger \in Seq(T)
  BY DEF LedgerInv, GInv, HeldAreNodes, Agrees
<1>1. PICK T : ledger \in Seq(T)
  BY <1>0
<1>2. ASSUME NEW n \in held, DelegationStep(n) \/ CheckStep(n) \/ LifecycleStep(n)
      PROVE  Step
  <2>1. n \in NodeIds /\ n \in 1 .. MaxNodes
    BY <1>0 DEF NodesFit
  <2> QED
    BY <1>0, <1>1, <1>2, <2>1, DelegationKinds, CheckKinds, LifecycleKinds
<1>3. CASE EnvironmentStep \/ UNCHANGED allVars
  BY <1>3 DEF EnvironmentStep, allVars, guardVars, Step, Silent
<1> QED
  BY <1>2, <1>3 DEF GuardNext

-----------------------------------------------------------------------------
(* What a step of the Guard with its sinks may do *)

\* An operation enters its sink, or goes on after it.
Pushes(u) ==
    \E k \in Nat \ DOMAIN inside :
        /\ DOMAIN inside' = DOMAIN inside \cup {k} /\ inside'[k] = u
        /\ \A l \in DOMAIN inside : inside'[l] = inside[l]
Pops(u) ==
    \E k \in DOMAIN inside :
        /\ DOMAIN inside' = DOMAIN inside \ {k} /\ inside[k] = u
        /\ \A l \in DOMAIN inside' : inside'[l] = inside[l]

SeesAllow(e, u) ==
    /\ AllowsCall(e) /\ AwaitsOutcome(e.capture) /\ UNCHANGED pending
    /\ Pushes(u) /\ u.op = "register" /\ u.node = e.node /\ u.call = e.call
SeesDenial(e, u) ==
    /\ Writes(e) /\ IsStrike(e) /\ UNCHANGED strikes
    /\ Pushes(u) /\ u.op = "strike" /\ u.node = e.node /\ u.scope = e.scope
SeesOutcome(e, u) ==
    /\ Reports(e) /\ UNCHANGED <<pending, outcomed>>
    /\ Pushes(u) /\ u.op = "resolve" /\ u.node \in held /\ u.call = e.call

AllowGoesOn(u) ==
    /\ Pops(u) /\ u.op = "register" /\ RegisterPending(u.node, u.call)
    /\ UNCHANGED <<ledger, calls, strikes, complete, issued, outcomed>>
OutcomeGoesOn(u) ==
    /\ Pops(u) /\ u.op = "resolve" /\ ResolveCall(u.call)
    /\ UNCHANGED <<ledger, calls, strikes, complete, issued>>
DenialGoesOn(u) ==
    /\ Pops(u) /\ u.op = "strike" /\ UNCHANGED <<calls, bindingVars>>
    /\ \/ u.node \in revoked /\ UNCHANGED <<ledger, strikes>>
       \/ u.node \notin revoked /\ AddStrike(u.node, u.scope)
          /\ ~StrikesOut(u.node, u.scope) /\ UNCHANGED ledger
       \/ u.node \in revoked' /\ AddStrike(u.node, u.scope)
          /\ \E e : Writes(e) /\ IsKill(e)

\* All that a Guard does while sinks call back.
SinkStep ==
    \/ Step /\ UNCHANGED inside
    \/ \E e, u : SeesAllow(e, u) \/ SeesDenial(e, u) \/ SeesOutcome(e, u)
    \/ \E u : AllowGoesOn(u) \/ OutcomeGoesOn(u) \/ DenialGoesOn(u)

\* Entering is to be one more, the innermost.
LEMMA EntersPushes ==
    ASSUME NEW T, inside \in Seq(T), NEW u, inside' = Append(inside, u)
    PROVE  Pushes(u)
<1>1. Len(inside) + 1 \in Nat \ DOMAIN inside
  OBVIOUS
<1> QED
  BY <1>1 DEF Pushes

\* The first half of an operation, up to its entry.
LEMMA SeenKinds ==
    ASSUME SinkInv, NEW n \in held, SeenStep(n)
    PROVE  SinkStep
<1>1. PICK T : ledger \in Seq(T)
  BY DEF SinkInv, LedgerInv, Agrees
<1>2. PICK U : inside \in Seq(U)
  BY DEF SinkInv, OfHeld
<1>3. ASSUME NEW scope \in CheckedScopes, NEW ctx \in Contexts,
             NEW metered \in {FALSE, StrictMetering}, NEW capture \in Captures,
             NEW params \in Params, AllowSeen(n, scope, ctx, metered, capture, params)
      PROVE  SinkStep
  <2>1. PICK e : AllowsCall(e) /\ e.node = n /\ e.capture = capture
    BY <1>1, <1>3, AllowEntryKind DEF AllowSeen
  <2>2. PICK u : u = Underway("register", n, scope, NextCall)
    OBVIOUS
  <2>3. u.op = "register" /\ u.node = n /\ u.call = NextCall /\ Pushes(u)
    BY <1>2, <1>3, <2>2, EntersPushes DEF AllowSeen, Underway, Enter
  <2>4. SeesAllow(e, u)
    BY <1>3, <2>1, <2>3 DEF AllowSeen, SeesAllow, AllowsCall
  <2> QED
    BY <2>4 DEF SinkStep
<1>4. ASSUME NEW scope \in CheckedScopes, NEW ctx \in Contexts,
             NEW metered \in {FALSE, StrictMetering}, DenialSeen(n, scope, ctx, metered)
      PROVE  SinkStep
  <2>1. PICK e : /\ Writes(e) /\ IsDenial(e)
                 /\ e.node = n /\ e.scope = scope /\ e.reason = Policy
    BY <1>1, <1>4, DenialEntry DEF DenialSeen
  <2>2. PICK u : u = Underway("strike", n, scope, NoCall)
    OBVIOUS
  <2>3. u.op = "strike" /\ u.node = n /\ u.scope = scope /\ Pushes(u)
    BY <1>2, <1>4, <2>2, EntersPushes DEF DenialSeen, Underway, Enter
  <2>4. SeesDenial(e, u)
    BY <1>4, <2>1, <2>3 DEF DenialSeen, SeesDenial, IsStrike
  <2> QED
    BY <2>4 DEF SinkStep
<1>5. ASSUME NEW call \in 1 .. issued, NEW params \in Params, OutcomeSeen(n, call, params)
      PROVE  SinkStep
  <2>1. PICK e : e = OutcomeEntry(n, call, params)
    OBVIOUS
  <2>2. e.event = "outcome" /\ e.call = call
    BY <2>1 DEF OutcomeEntry
  <2>3. Write(<<e>>)
    BY <1>5, <2>1 DEF OutcomeSeen, CommitOutcome
  <2>4. PICK u : u = Underway("resolve", n, AnyScope, call)
    OBVIOUS
  <2>5. u.op = "resolve" /\ u.node = n /\ u.call = call /\ Pushes(u)
    BY <1>2, <1>5, <2>4, EntersPushes DEF OutcomeSeen, Underway, Enter
  <2>6. Reports(e)
    BY <1>1, <1>5, <2>2, <2>3, WriteOne DEF OutcomeSeen, CommitOutcome, Reports, Writes
  <2>7. SeesOutcome(e, u)
    BY <1>5, <2>2, <2>5, <2>6 DEF OutcomeSeen, SeesOutcome
  <2> QED
    BY <2>7 DEF SinkStep
<1> QED
  BY <1>3, <1>4, <1>5 DEF SeenStep

\* The second half, with what the operation finds then.
LEMMA ReturnKinds ==
    ASSUME SinkInv, Returns
    PROVE  SinkStep
<1>0. IInv /\ HeldAreNodes
  BY DEF SinkInv, LedgerInv, GInv
<1>1. PICK T : ledger \in Seq(T)
  BY DEF SinkInv, LedgerInv, Agrees
<1>2. PICK U : inside \in Seq(U)
  BY DEF SinkInv, OfHeld
<1>3. PICK u : u = Top
  OBVIOUS
<1>4. inside # <<>> /\ inside' = SubSeq(inside, 1, Len(inside) - 1)
  BY DEF Returns, AllowReturns, DenialReturns, OutcomeReturns, Innermost
<1>5. Pops(u) /\ u.node \in held
  <2>1. Len(inside) \in DOMAIN inside /\ inside[Len(inside)] = u
    BY <1>2, <1>3, <1>4 DEF Top
  <2>2. DOMAIN inside' = DOMAIN inside \ {Len(inside)}
    BY <1>2, <1>4
  <2>3. \A l \in DOMAIN inside' : inside'[l] = inside[l]
    BY <1>2, <1>4
  <2> QED
    BY <2>1, <2>2, <2>3 DEF Pops, SinkInv, OfHeld
<1>6. CASE AllowReturns
  BY <1>3, <1>5, <1>6 DEF AllowReturns, AllowGoesOn, SinkStep, Innermost
<1>7. CASE OutcomeReturns
  BY <1>3, <1>5, <1>7 DEF OutcomeReturns, OutcomeGoesOn, SinkStep, Innermost
<1>8. CASE DenialReturns
  <2>1. u.op = "strike" /\ UNCHANGED <<calls, bindingVars>>
    BY <1>3, <1>8 DEF DenialReturns, Innermost
  <2>2. CASE u.node \in revoked
    BY <1>3, <1>5, <1>8, <2>1, <2>2 DEF DenialReturns, DenialGoesOn, SinkStep
  <2>3. CASE u.node \notin revoked /\ ~StrikesOut(u.node, u.scope)
    BY <1>3, <1>5, <1>8, <2>1, <2>3 DEF DenialReturns, DenialGoesOn, SinkStep
  <2>4. CASE u.node \notin revoked /\ StrikesOut(u.node, u.scope)
    <3>1. PICK n, killed : n = u.node /\ killed = Cascade({n})
      OBVIOUS
    <3>2. /\ AddStrike(n, u.scope) /\ RevokeNode(n)
          /\ Write(<<KillEntry(n, killed, PendingAtKill(killed))>>)
      BY <1>3, <1>8, <2>4, <3>1 DEF DenialReturns
    <3>3. PICK e : e = KillEntry(n, killed, PendingAtKill(killed))
      OBVIOUS
    <3>4. IsKill(e) /\ Writes(e)
      BY <1>1, <3>2, <3>3, WriteOne DEF KillEntry, IsKill, Writes
    <3>5. n \in revoked'
      BY <1>0, <1>5, <3>1, <3>2, CascadeFacts DEF HeldAreNodes, RevokeNode
    <3> QED
      BY <1>5, <2>1, <3>1, <3>2, <3>4, <3>5 DEF DenialGoesOn, SinkStep
  <2> QED
    BY <2>2, <2>3, <2>4
<1> QED
  BY <1>6, <1>7, <1>8 DEF Returns

\* Every step of the Guard with its sinks is of one of these kinds.
LEMMA SinkStepKinds ==
    ASSUME SinkInv, MetersTyped, NodesFit, [SinkNext]_<<allVars, sinkVars>>
    PROVE  SinkStep
<1>1. CASE [GuardNext]_allVars /\ UNCHANGED inside
  BY <1>1, GuardStepKinds DEF SinkInv, SinkStep
<1>2. ASSUME NEW n \in held, SeenStep(n) PROVE SinkStep
  BY <1>2, SeenKinds
<1>3. CASE Returns
  BY <1>3, ReturnKinds
<1> QED
  BY <1>1, <1>2, <1>3 DEF SinkNext, sinkVars

\* What a step writes comes after all that was written.
Fresh == DOMAIN ledger' \ DOMAIN ledger
Extends ==
    /\ DOMAIN ledger \subseteq DOMAIN ledger' /\ DOMAIN ledger' \subseteq Nat
    /\ \A i \in DOMAIN ledger : ledger'[i] = ledger[i] /\ \A j \in Fresh : i < j

\* An append leaves the entries that are there, and adds its own after them.
LEMMA WritesExtend ==
    ASSUME NEW T, ledger \in Seq(T)
    PROVE  /\ \A e : Writes(e) => Extends /\ \E k \in Nat : Fresh = {k} /\ ledger'[k] = e
           /\ \A d, e : WritesBoth(d, e) =>
                 Extends /\ \E k, l \in Nat :
                     Fresh = {k, l} /\ k < l /\ ledger'[k] = d /\ ledger'[l] = e
           /\ UNCHANGED ledger => Extends /\ Fresh = {}
<1>1. ASSUME NEW e, Writes(e)
      PROVE  Extends /\ \E k \in Nat : Fresh = {k} /\ ledger'[k] = e
  <2>1. PICK k \in Nat : k = Len(ledger) + 1
    OBVIOUS
  <2>2. /\ DOMAIN ledger = 1 .. (k - 1) /\ DOMAIN ledger' = 1 .. k /\ ledger'[k] = e
        /\ \A i \in DOMAIN ledger : ledger'[i] = ledger[i]
    BY <1>1, <2>1 DEF Writes
  <2>3. Fresh = {k}
    BY <2>1, <2>2 DEF Fresh
  <2> QED
    BY <2>1, <2>2, <2>3 DEF Extends
<1>2. ASSUME NEW d, NEW e, WritesBoth(d, e)
      PROVE  Extends /\ \E k, l \in Nat :
                 Fresh = {k, l} /\ k < l /\ ledger'[k] = d /\ ledger'[l] = e
  <2>1. PICK k, l \in Nat : k = Len(ledger) + 1 /\ l = k + 1
    OBVIOUS
  <2>2. PICK M : M = Append(ledger, d)
    OBVIOUS
  <2>3. M \in Seq(T \cup {d}) /\ Len(M) = k /\ M[k] = d /\ \A i \in DOMAIN ledger : M[i] = ledger[i]
    BY <2>1, <2>2
  <2>4. /\ DOMAIN ledger = 1 .. (k - 1) /\ DOMAIN ledger' = 1 .. l /\ ledger'[l] = e
        /\ ledger'[k] = d /\ \A i \in DOMAIN ledger : ledger'[i] = ledger[i]
    BY <1>2, <2>1, <2>2, <2>3 DEF WritesBoth
  <2>5. Fresh = {k, l}
    BY <2>1, <2>4 DEF Fresh
  <2> QED
    BY <2>1, <2>4, <2>5 DEF Extends
<1>3. UNCHANGED ledger => Extends /\ Fresh = {}
  BY DEF Extends, Fresh
<1> QED
  BY <1>1, <1>2, <1>3

-----------------------------------------------------------------------------
(* Types *)

\* An operation under way knows whose it is and what it is about.
OperationTyped(u, H, drawn) ==
    /\ u.node \in H
    /\ u.op \in {"register", "strike", "resolve"}
    /\ u.op = "register" => IsV2 /\ u.call \in 1 .. drawn
    /\ u.op = "resolve" => u.call \in 1 .. drawn
    /\ u.op = "strike" => StrikesOn /\ u.scope \in CheckedScopes
OperationsTyped == \A k \in DOMAIN inside : OperationTyped(inside[k], held, issued)

\* The types, with what is proved of the ledger.
TypedInv == SinkInv /\ GuardTypeOK /\ OperationsTyped

\* What may happen to each variable.
LEMMA SinkEffects ==
    ASSUME TypedInv, SinkStep, held \subseteq held'
    PROVE  /\ calls' = calls \/ \E e : AllowsCall(e)
           /\ strikes' = strikes \/ \E n \in held, s \in CheckedScopes : AddStrike(n, s)
           /\ issued' = issued \/ DrawCall
           /\ complete' \subseteq complete \cup held
           /\ pending' \subseteq pending \cup (held \X (1 .. issued'))
           /\ outcomed' \subseteq outcomed \cup 1 .. issued
           /\ \A i \in Fresh : ledger'[i].event \in EventNames
           /\ Extends
           /\ \A k \in DOMAIN inside' :
                 (k \in DOMAIN inside /\ inside'[k] = inside[k]) \/ OperationTyped(inside'[k], held', issued')
<1>0. PICK T : ledger \in Seq(T)
  BY DEF TypedInv, SinkInv, LedgerInv, Agrees
<1>1. /\ issued \in Nat /\ pending \subseteq held \X (1 .. issued) /\ outcomed \subseteq 1 .. issued
      /\ \A k \in DOMAIN inside : OperationTyped(inside[k], held, issued)
  BY DEF TypedInv, GuardTypeOK, OperationsTyped
<1>2. calls' = calls \/ \E e : AllowsCall(e)
  BY DEF SinkStep, Step, Silent, Delegates, Kills, IsDenial, IsStrike, Denies, Strikes,
         StrikesDown, PassesThrough, Reports, Finishes, SeesAllow, SeesDenial, SeesOutcome,
         AllowGoesOn, OutcomeGoesOn, DenialGoesOn
<1>3. \A u : Pops(u) => OperationTyped(u, held, issued)
  BY <1>1 DEF Pops
<1>4. strikes' = strikes \/ \E n \in held, s \in CheckedScopes : AddStrike(n, s)
  BY <1>3
  DEF SinkStep, Step, Silent, Delegates, Kills, IsDenial, IsStrike, Denies, Strikes,
      StrikesDown, PassesThrough, Reports, Finishes, SeesAllow, SeesDenial, SeesOutcome,
      AllowsCall, AllowGoesOn, OutcomeGoesOn, DenialGoesOn, OperationTyped
<1>5. issued' = issued \/ DrawCall
  BY DEF SinkStep, Step, Silent, Delegates, Kills, IsDenial, IsStrike, Denies, Strikes,
         StrikesDown, PassesThrough, Reports, Finishes, SeesAllow, SeesDenial, SeesOutcome,
         AllowsCall, AllowGoesOn, OutcomeGoesOn, DenialGoesOn, bindingVars
<1>6. complete' \subseteq complete \cup held
  BY DEF SinkStep, Step, Silent, Delegates, Kills, IsDenial, IsStrike, Denies, Strikes,
         StrikesDown, PassesThrough, Reports, Finishes, SeesAllow, SeesDenial, SeesOutcome,
         AllowsCall, AllowGoesOn, OutcomeGoesOn, DenialGoesOn, bindingVars
<1>7. issued' \in Nat /\ issued <= issued' /\ (DrawCall /\ IsV2 => NextCall \in 1 .. issued')
  BY <1>1, <1>5 DEF DrawCall, NextCall
<1>8. pending' \subseteq pending \cup (held \X (1 .. issued'))
  <2>1. \A e : AllowsCall(e) /\ AwaitsOutcome(e.capture) =>
                  e.node \in held /\ e.call \in 1 .. issued'
    BY <1>7 DEF AllowsCall, AwaitsOutcome
  <2>2. \A u : AllowGoesOn(u) => u.node \in held /\ u.call \in 1 .. issued'
    BY <1>3, <1>7 DEF AllowGoesOn, OperationTyped
  <2>3. \/ pending' \subseteq pending
        \/ \E e : AllowsCall(e) /\ AwaitsOutcome(e.capture) /\ RegisterPending(e.node, e.call)
        \/ \E u : AllowGoesOn(u) /\ RegisterPending(u.node, u.call)
    BY DEF SinkStep, Step, Silent, Delegates, Kills, IsDenial, IsStrike, Denies, Strikes,
           StrikesDown, PassesThrough, Reports, Finishes, SeesAllow, SeesDenial, SeesOutcome,
           Registers, ResolveCall, AllowGoesOn, OutcomeGoesOn, DenialGoesOn, bindingVars
  <2> QED
    BY <2>1, <2>2, <2>3 DEF RegisterPending
<1>9. outcomed' \subseteq outcomed \cup 1 .. issued
  BY <1>3
  DEF SinkStep, Step, Silent, Delegates, Kills, IsDenial, IsStrike, Denies, Strikes,
      StrikesDown, PassesThrough, Reports, Finishes, SeesAllow, SeesDenial, SeesOutcome,
      AllowsCall, ResolveCall, AllowGoesOn, OutcomeGoesOn, DenialGoesOn, bindingVars,
      OperationTyped
<1>10. Extends /\ \A i \in Fresh : ledger'[i].event \in EventNames
  <2>1. \/ UNCHANGED ledger
        \/ \E e : Writes(e) /\ e.event \in EventNames
        \/ \E d, e : /\ WritesBoth(d, e)
                     /\ d.event \in EventNames /\ e.event \in EventNames
    BY DEF SinkStep, Step, Silent, Delegates, Kills, IsDenial, IsStrike, Denies, Strikes,
           StrikesDown, PassesThrough, Reports, Finishes, SeesAllow, SeesDenial, SeesOutcome,
           AllowsCall, AllowGoesOn, OutcomeGoesOn, DenialGoesOn, IsKill, EventNames
  <2>2. CASE UNCHANGED ledger
    BY <1>0, <2>2, WritesExtend
  <2>3. ASSUME NEW e, Writes(e), e.event \in EventNames
        PROVE  Extends /\ \A i \in Fresh : ledger'[i].event \in EventNames
    BY <1>0, <2>3, WritesExtend
  <2>4. ASSUME NEW d, NEW e, WritesBoth(d, e),
               d.event \in EventNames, e.event \in EventNames
        PROVE  Extends /\ \A i \in Fresh : ledger'[i].event \in EventNames
    BY <1>0, <2>4, WritesExtend
  <2> QED
    BY <2>1, <2>2, <2>3, <2>4
<1>11. ASSUME NEW k \in DOMAIN inside', ~(k \in DOMAIN inside /\ inside'[k] = inside[k])
       PROVE  OperationTyped(inside'[k], held', issued')
  <2>1. PICK e, u : (SeesAllow(e, u) \/ SeesDenial(e, u) \/ SeesOutcome(e, u)) /\ inside'[k] = u
    BY <1>11 DEF SinkStep, AllowGoesOn, OutcomeGoesOn, DenialGoesOn, Pops, Pushes,
                 SeesAllow, SeesDenial, SeesOutcome
  <2>2. u.node \in held'
    BY <2>1 DEF SeesAllow, SeesDenial, SeesOutcome, AllowsCall, IsStrike, IsDenial
  <2>3. CASE SeesAllow(e, u)
    <3>1. u.op = "register" /\ IsV2 /\ u.call \in 1 .. issued'
      BY <1>7, <2>3 DEF SeesAllow, AllowsCall, AwaitsOutcome
    <3> QED
      BY <2>1, <2>2, <3>1 DEF OperationTyped
  <2>4. CASE SeesDenial(e, u)
    <3>1. u.op = "strike" /\ StrikesOn /\ u.scope \in CheckedScopes
      BY <2>4 DEF SeesDenial, IsStrike, IsDenial
    <3> QED
      BY <2>1, <2>2, <3>1 DEF OperationTyped
  <2>5. CASE SeesOutcome(e, u)
    <3>1. u.op = "resolve" /\ u.call \in 1 .. issued'
      BY <1>1, <1>7, <2>5 DEF SeesOutcome, Reports
    <3> QED
      BY <2>1, <2>2, <3>1 DEF OperationTyped
  <2> QED
    BY <2>1, <2>3, <2>4, <2>5
<1> QED
  BY <1>2, <1>4, <1>5, <1>6, <1>8, <1>9, <1>10, <1>11

\* Counting keeps the meters naturals.
LEMMA CountKeepsMeters ==
    ASSUME MetersTyped, held \subseteq 1 .. MaxNodes, NEW e, AllowsCall(e)
    PROVE  MetersTyped'
<1>1. PICK f : f = [k \in CallKeys |-> calls[e.node][k] + (IF k \in e.counted THEN 1 ELSE 0)]
  OBVIOUS
<1>2. e.node \in 1 .. MaxNodes /\ calls' = [calls EXCEPT ![e.node] = f]
  BY <1>1 DEF AllowsCall, Count
<1>3. calls[e.node] \in [CallKeys -> Nat]
  BY <1>2 DEF MetersTyped
<1>4. f \in [CallKeys -> Nat]
  BY <1>1, <1>3
<1> QED
  BY <1>2, <1>4 DEF MetersTyped

\* The bound on nodes is kept.
LEMMA NodesFitNext ==
    ASSUME IInv, NodesFit, [Next]_chainVars
    PROVE  NodesFit'
<1>1. ASSUME NEW p \in NodeIds, NEW agent \in Agents, NEW request \in Requests,
             AddChild(p, agent, request)
      PROVE  NodesFit'
  <2>1. Len(nodes') = Len(nodes) + 1 /\ Len(nodes) \in Nat /\ Len(nodes) < MaxNodes
    BY <1>1, AddChildFacts, NodeFacts DEF IInv, AddChild
  <2> QED
    BY <2>1, BoundsAssumption DEF NodesFit, NodeIds
<1>2. ASSUME NEW n \in NodeIds, NEW a \in StrayAuthorities, StrayMutation(n, a)
      PROVE  NodesFit'
  BY <1>2, StrayMutationFacts DEF IInv, NodesFit
<1>3. CASE UNCHANGED nodes
  BY <1>3 DEF NodesFit, NodeIds
<1> QED
  BY <1>1, <1>2, <1>3 DEF Next, RevokeNode, RevokeAgent, Tick, chainVars

\* A Guard is never taken back.
LEMMA HeldStays ==
    ASSUME SinkInv, [SinkNext]_<<allVars, sinkVars>>
    PROVE  held \subseteq held'
<1>1. CASE [GuardNext]_allVars
  BY <1>1, HeldGrows
<1>2. ASSUME NEW n \in held, SeenStep(n) PROVE held \subseteq held'
  BY <1>2, SeenStepInv DEF SinkInv
<1>3. CASE Returns
  BY <1>3, ReturnsInv DEF Returns
<1> QED
  BY <1>1, <1>2, <1>3 DEF SinkNext, sinkVars

\* Every step keeps the types, and is of one of the kinds.
LEMMA TypedNext ==
    ASSUME TypedInv, [SinkNext]_<<allVars, sinkVars>>
    PROVE  TypedInv' /\ SinkStep /\ [Next]_chainVars /\ held \subseteq held'
<1>0. SinkInv /\ IInv /\ GuardTypeOK /\ MetersTyped /\ NodesFit
  BY DEF TypedInv, SinkInv, LedgerInv, GInv, GuardTypeOK, MetersTyped, NodesFit
<1>1. /\ [Next]_chainVars /\ SinkInv' /\ held' \subseteq NodeIds' /\ NodesFit'
      /\ held \subseteq held' /\ SinkStep
  BY <1>0, SinkNextInv, NodesFitNext, HeldStays, SinkStepKinds
  DEF SinkInv, LedgerInv, GInv, HeldAreNodes
<1>2. held \subseteq 1 .. MaxNodes
  BY <1>0 DEF GuardTypeOK
<1>3. MetersTyped'
  BY <1>0, <1>1, <1>2, SinkEffects, CountKeepsMeters DEF TypedInv, MetersTyped
<1>4. strikes' \in [1 .. MaxNodes -> [CheckedScopes \cup {AnyScope} -> Nat]]
  <2>1. strikes \in [1 .. MaxNodes -> [CheckedScopes \cup {AnyScope} -> Nat]]
    BY <1>0 DEF GuardTypeOK
  <2>2. ASSUME NEW n \in held, NEW s \in CheckedScopes, AddStrike(n, s)
        PROVE  strikes' \in [1 .. MaxNodes -> [CheckedScopes \cup {AnyScope} -> Nat]]
    <3>1. PICK t : t = StrikeKey(s) /\ t \in CheckedScopes \cup {AnyScope}
      BY DEF StrikeKey
    <3>2. strikes[n][t] \in Nat /\ n \in 1 .. MaxNodes
      BY <1>2, <2>1, <3>1
    <3>3. strikes[n] \in [CheckedScopes \cup {AnyScope} -> Nat]
      BY <2>1, <3>2
    <3>4. PICK f : f = [strikes[n] EXCEPT ![t] = @ + 1]
      OBVIOUS
    <3>5. f \in [CheckedScopes \cup {AnyScope} -> Nat] /\ strikes' = [strikes EXCEPT ![n] = f]
      BY <2>2, <3>1, <3>2, <3>3, <3>4 DEF AddStrike
    <3> QED
      BY <2>1, <3>2, <3>5
  <2> QED
    BY <1>1, <2>1, <2>2, SinkEffects
<1>5. issued \in Nat /\ issued' \in Nat /\ issued <= issued'
  BY <1>0, <1>1, SinkEffects DEF GuardTypeOK, DrawCall
<1>6. /\ complete' \subseteq held' /\ pending' \subseteq held' \X (1 .. issued')
      /\ outcomed' \subseteq 1 .. issued'
  <2>1. /\ complete' \subseteq complete \cup held
        /\ pending' \subseteq pending \cup (held \X (1 .. issued'))
        /\ outcomed' \subseteq outcomed \cup 1 .. issued
    BY <1>1, SinkEffects
  <2>2. 1 .. issued \subseteq 1 .. issued'
    BY <1>5
  <2> QED
    BY <1>0, <1>1, <2>1, <2>2 DEF GuardTypeOK
<1>7. \A i \in DOMAIN ledger' : ledger'[i].event \in EventNames
  BY <1>0, <1>1, SinkEffects DEF GuardTypeOK, Extends, Fresh
<1>8. GuardTypeOK'
  BY <1>1, <1>3, <1>4, <1>5, <1>6, <1>7 DEF GuardTypeOK, NodesFit, MetersTyped
<1>9. OperationsTyped'
  <2>1. \A k \in DOMAIN inside' : OperationTyped(inside'[k], held', issued')
    <3>1. \A k \in DOMAIN inside' :
             (k \in DOMAIN inside /\ inside'[k] = inside[k]) \/ OperationTyped(inside'[k], held', issued')
      BY <1>1, SinkEffects
    <3>2. \A u : OperationTyped(u, held, issued) => OperationTyped(u, held', issued')
      BY <1>1, <1>5 DEF OperationTyped
    <3> QED
      BY <3>1, <3>2 DEF TypedInv, OperationsTyped
  <2> QED
    BY <2>1 DEF OperationsTyped
<1> QED
  BY <1>1, <1>8, <1>9 DEF TypedInv

\* Nothing is counted, issued or under way at first.
LEMMA TypedInit ==
    ASSUME SinkInit
    PROVE  TypedInv
<1>1. SinkInv
  <2>1. LedgerInv
    BY GuardInitInv, RootAgrees DEF SinkInit, LedgerInv
  <2>2. inside \in Seq({}) /\ DOMAIN inside = {}
    BY DEF SinkInit
  <2> QED
    BY <2>1, <2>2 DEF SinkInv, OfHeld
<1>2. OperationsTyped
  BY DEF SinkInit, OperationsTyped
<1>3. NodeIds = {1}
  BY DEF SinkInit, GuardInit, Init, NodeIds
<1>4. ledger[1].event = "root" /\ DOMAIN ledger = {1}
  BY DEF SinkInit, GuardInit, RootEntry
<1>5. /\ calls \in [1 .. MaxNodes -> [CallKeys -> Nat]]
      /\ strikes \in [1 .. MaxNodes -> [CheckedScopes \cup {AnyScope} -> Nat]]
  BY DEF SinkInit, GuardInit
<1>6. GuardTypeOK
  BY <1>3, <1>4, <1>5, BoundsAssumption DEF SinkInit, GuardInit, GuardTypeOK, EventNames
<1> QED
  BY <1>1, <1>2, <1>6 DEF TypedInv

\* The guard's state is well formed in every state, its meters and its policy's
\* counts for every node the graph may come to have, however deep its sinks are.
THEOREM GuardTypes == SinkSpec => [](GuardTypeOK /\ OperationsTyped)
<1>1. TypedInv => GuardTypeOK /\ OperationsTyped
  BY DEF TypedInv
<1> QED
  BY <1>1, TypedInit, TypedNext, PTL DEF SinkSpec

-----------------------------------------------------------------------------
(* Meters *)

\* Also the meters of nodes that are still to come, or that nobody holds.
EveryMeterCounts ==
    \A n \in 1 .. MaxNodes, k \in CallKeys : calls[n][k] = Cardinality(CountedOn(n, k))
AllowsOfHeld == \A i \in Entries(ledger, "allow") : ledger[i].node \in held
MetersCount == EveryMeterCounts /\ AllowsOfHeld

\* A step counts one call, on the entry it writes, or none.
CountsOne(e, j) == AllowsCall(e) /\ Fresh = {j} /\ ledger'[j] = e
CountsNone ==
    /\ calls' = calls
    /\ \A i \in Fresh : ledger'[i].event = "allow" =>
            ledger'[i].node \in held /\ ledger'[i].counted = {}
MetersMove == Extends /\ (CountsNone \/ \E e : \E j \in Nat : CountsOne(e, j))

\* A whole operation counts on the entry that it writes.
LEMMA StepMovesMeters ==
    ASSUME NEW T, ledger \in Seq(T), Step
    PROVE  MetersMove
<1>1. CASE UNCHANGED <<ledger, calls>>
  BY <1>1, WritesExtend DEF MetersMove, CountsNone
<1>2. ASSUME NEW e, Writes(e), calls' = calls,
             e.event = "allow" => e.node \in held /\ e.counted = {}
      PROVE  MetersMove
  BY <1>2, WritesExtend DEF MetersMove, CountsNone
<1>3. ASSUME NEW e, AllowsCall(e) PROVE MetersMove
  <2>1. PICK j \in Nat : Extends /\ Fresh = {j} /\ ledger'[j] = e
    BY <1>3, WritesExtend DEF AllowsCall
  <2>2. CountsOne(e, j)
    BY <1>3, <2>1 DEF CountsOne
  <2> QED
    BY <2>1, <2>2 DEF MetersMove
<1>4. ASSUME NEW d, NEW e, StrikesDown(d, e) PROVE MetersMove
  <2>1. calls' = calls /\ d.event = "deny" /\ e.event = "kill" /\ WritesBoth(d, e)
    BY <1>4 DEF StrikesDown, IsStrike, IsDenial, IsKill
  <2>2. PICK j, l \in Nat : /\ Extends /\ Fresh = {j, l}
                            /\ ledger'[j] = d /\ ledger'[l] = e
    BY <2>1, WritesExtend
  <2> QED
    BY <2>1, <2>2 DEF MetersMove, CountsNone
<1>5. ASSUME NEW e, \/ Delegates(e) \/ Kills(e) \/ Denies(e) \/ Strikes(e)
                    \/ PassesThrough(e) \/ Reports(e) \/ Finishes(e)
      PROVE  MetersMove
  BY <1>2, <1>5 DEF Delegates, Kills, Denies, Strikes, PassesThrough, Reports, Finishes,
                    IsDenial, IsStrike, IsKill
<1> QED
  BY <1>1, <1>3, <1>4, <1>5 DEF Step, Silent

\* So does an operation's first half; its second half counts nothing.
LEMMA SinkStepMovesMeters ==
    ASSUME NEW T, ledger \in Seq(T), SinkStep
    PROVE  MetersMove
<1>1. CASE UNCHANGED <<ledger, calls>>
  BY <1>1, WritesExtend DEF MetersMove, CountsNone
<1>2. ASSUME NEW e, Writes(e), calls' = calls, e.event # "allow"
      PROVE  MetersMove
  BY <1>2, WritesExtend DEF MetersMove, CountsNone
<1>3. ASSUME NEW e, AllowsCall(e) PROVE MetersMove
  <2>1. PICK j \in Nat : Extends /\ Fresh = {j} /\ ledger'[j] = e
    BY <1>3, WritesExtend DEF AllowsCall
  <2>2. CountsOne(e, j)
    BY <1>3, <2>1 DEF CountsOne
  <2> QED
    BY <2>1, <2>2 DEF MetersMove
<1>4. ASSUME NEW e, NEW u, SeesDenial(e, u) \/ SeesOutcome(e, u) PROVE MetersMove
  BY <1>2, <1>4 DEF SeesDenial, SeesOutcome, IsStrike, IsDenial, Reports
<1>5. ASSUME NEW u, AllowGoesOn(u) \/ OutcomeGoesOn(u) \/ DenialGoesOn(u) PROVE MetersMove
  BY <1>1, <1>2, <1>5 DEF AllowGoesOn, OutcomeGoesOn, DenialGoesOn, IsKill
<1> QED
  BY <1>3, <1>4, <1>5, StepMovesMeters DEF SinkStep, SeesAllow

\* What was counted is finite, and a step that counts adds one to it.
LEMMA CountedMoves ==
    ASSUME NEW T, ledger \in Seq(T), MetersMove, NEW n, NEW k
    PROVE  /\ IsFiniteSet(CountedOn(n, k))
           /\ CountsNone => CountedOn(n, k)' = CountedOn(n, k)
           /\ \A e, j : CountsOne(e, j) =>
                 CountedOn(n, k)' = CountedOn(n, k) \cup {x \in {j} : n = e.node /\ k \in e.counted}
           /\ \A e, j : CountsOne(e, j) => j \notin CountedOn(n, k)
<1>1. IsFiniteSet(CountedOn(n, k))
  <2>1. IsFiniteSet(1 .. Len(ledger)) /\ CountedOn(n, k) \subseteq 1 .. Len(ledger)
    BY FS_Interval DEF CountedOn, Entries
  <2> QED
    BY <2>1, FS_Subset
<1>2. Extends
  BY DEF MetersMove
<1>3. CountsNone => CountedOn(n, k)' = CountedOn(n, k)
  BY <1>2 DEF CountsNone, CountedOn, Entries, Extends, Fresh
<1>4. ASSUME NEW e, NEW j, CountsOne(e, j)
      PROVE  /\ CountedOn(n, k)' = CountedOn(n, k) \cup {x \in {j} : n = e.node /\ k \in e.counted}
             /\ j \notin CountedOn(n, k)
  <2>1. /\ DOMAIN ledger' = DOMAIN ledger \cup {j} /\ j \notin DOMAIN ledger /\ ledger'[j] = e
        /\ \A i \in DOMAIN ledger : ledger'[i] = ledger[i]
        /\ e.event = "allow"
    BY <1>2, <1>4 DEF CountsOne, Extends, Fresh, AllowsCall
  <2> QED
    BY <2>1 DEF CountedOn, Entries
<1> QED
  BY <1>1, <1>3, <1>4

\* A meter and the number of entries it stands for move together.
LEMMA MetersNext ==
    ASSUME NEW T, ledger \in Seq(T), MetersTyped, MetersMove, held \subseteq held',
           held \subseteq 1 .. MaxNodes, MetersCount
    PROVE  MetersCount'
<1>1. ASSUME NEW n \in 1 .. MaxNodes, NEW k \in CallKeys
      PROVE  calls'[n][k] = Cardinality(CountedOn(n, k)')
  <2>1. calls[n][k] = Cardinality(CountedOn(n, k)) /\ calls[n][k] \in Nat
    BY DEF MetersCount, EveryMeterCounts, MetersTyped
  <2>2. CASE CountsNone
    BY <2>1, <2>2, CountedMoves DEF CountsNone
  <2>3. ASSUME NEW e, NEW j, CountsOne(e, j)
        PROVE  calls'[n][k] = Cardinality(CountedOn(n, k)')
    <3>1. /\ CountedOn(n, k)' = CountedOn(n, k) \cup {x \in {j} : n = e.node /\ k \in e.counted}
          /\ j \notin CountedOn(n, k) /\ IsFiniteSet(CountedOn(n, k))
      BY <2>3, CountedMoves
    <3>2. calls' = Count(calls, e.node, e.counted) /\ e.node \in 1 .. MaxNodes
      BY <2>3 DEF CountsOne, AllowsCall
    <3>3. CASE n = e.node /\ k \in e.counted
      <4>1. calls'[n][k] = calls[n][k] + 1
        BY <3>2, <3>3 DEF Count, MetersTyped
      <4>2. CountedOn(n, k)' = CountedOn(n, k) \cup {j}
        BY <3>1, <3>3
      <4> QED
        BY <2>1, <3>1, <4>1, <4>2, FS_AddElement
    <3>4. CASE ~(n = e.node /\ k \in e.counted)
      <4>1. calls'[n][k] = calls[n][k]
        BY <2>1, <3>2, <3>4 DEF Count, MetersTyped
      <4>2. CountedOn(n, k)' = CountedOn(n, k)
        BY <3>1, <3>4
      <4> QED
        BY <2>1, <4>1, <4>2
    <3> QED
      BY <3>3, <3>4
  <2> QED
    BY <2>2, <2>3 DEF MetersMove
<1>2. EveryMeterCounts'
  BY <1>1 DEF EveryMeterCounts
<1>3. AllowsOfHeld'
  BY DEF MetersMove, CountsNone, CountsOne, AllowsCall, MetersCount, AllowsOfHeld, Entries,
     Extends, Fresh
<1> QED
  BY <1>2, <1>3 DEF MetersCount

\* A new guard's meters are zero, and its ledger holds no allow.
LEMMA MetersInit ==
    ASSUME GuardInit
    PROVE  MetersCount /\ MetersTyped /\ NodesFit
<1>1. ledger[1].event = "root" /\ DOMAIN ledger = {1}
  BY DEF GuardInit, RootEntry
<1>2. Entries(ledger, "allow") = {}
  BY <1>1 DEF Entries
<1>3. \A n \in 1 .. MaxNodes, k \in CallKeys : calls[n][k] = 0
  BY DEF GuardInit
<1>4. \A n \in 1 .. MaxNodes, k \in CallKeys : CountedOn(n, k) = {}
  BY <1>2 DEF CountedOn
<1>5. MetersCount
  BY <1>2, <1>3, <1>4, FS_EmptySet DEF MetersCount, EveryMeterCounts, AllowsOfHeld
<1>6. MetersTyped
  BY DEF GuardInit, MetersTyped
<1>7. NodesFit
  BY BoundsAssumption DEF GuardInit, Init, NodesFit, NodeIds
<1> QED
  BY <1>5, <1>6, <1>7

\* What the meters and what they stand for rest on, for both guards.
MeteredInv == LedgerInv /\ MetersTyped /\ NodesFit /\ MetersCount

\* The invariant, through a step that moves the meters as it should.
LEMMA MeteredAfter ==
    ASSUME MeteredInv, LedgerInv', NodesFit', held \subseteq held', MetersMove
    PROVE  MeteredInv'
<1>1. PICK T : ledger \in Seq(T)
  BY DEF MeteredInv, LedgerInv, Agrees
<1>2. held \subseteq 1 .. MaxNodes
  BY DEF MeteredInv, LedgerInv, GInv, HeldAreNodes, NodesFit
<1>3. MetersCount'
  BY <1>1, <1>2, MetersNext DEF MeteredInv
<1>4. MetersTyped'
  BY <1>2, CountKeepsMeters DEF MetersMove, CountsNone, CountsOne, MeteredInv, MetersTyped
<1> QED
  BY <1>3, <1>4 DEF MeteredInv

\* Every step of the guard without re-entrant sinks is such a step.
LEMMA GuardMetered ==
    ASSUME MeteredInv, [GuardNext]_allVars
    PROVE  MeteredInv' /\ MetersMove /\ [Next]_chainVars
<1>1. LedgerInv /\ HeldAreNodes /\ IInv /\ NodesFit /\ \E T : ledger \in Seq(T)
  BY DEF MeteredInv, LedgerInv, GInv, Agrees
<1>2. LedgerInv' /\ [Next]_chainVars /\ held \subseteq held'
  BY <1>1, LedgerNextInv, GuardStepsChain, HeldGrows
<1>3. NodesFit'
  BY <1>1, <1>2, NodesFitNext
<1>4. MetersMove
  BY <1>1, GuardStepKinds, StepMovesMeters DEF MeteredInv
<1> QED
  BY <1>2, <1>3, <1>4, MeteredAfter

\* And every step of the guard with them.
LEMMA SinkMetered ==
    ASSUME SinkInv, MeteredInv, [SinkNext]_<<allVars, sinkVars>>
    PROVE  SinkInv' /\ MeteredInv' /\ MetersMove /\ [Next]_chainVars
<1>1. LedgerInv /\ IInv /\ NodesFit /\ \E T : ledger \in Seq(T)
  BY DEF MeteredInv, LedgerInv, GInv, Agrees
<1>2. SinkInv' /\ LedgerInv' /\ [Next]_chainVars /\ held \subseteq held'
  BY SinkNextInv, HeldStays DEF SinkInv
<1>3. NodesFit'
  BY <1>1, <1>2, NodesFitNext
<1>4. MetersMove
  BY <1>1, SinkStepKinds, SinkStepMovesMeters DEF MeteredInv
<1> QED
  BY <1>2, <1>3, <1>4, MeteredAfter

\* The meters are exact for every node there may come to be, in every state.
LEMMA GuardMeteredAlways == GuardSpec => []MeteredInv
<1>1. GuardInit => MeteredInv
  BY GuardInitInv, RootAgrees, MetersInit DEF LedgerInv, MeteredInv
<1> QED
  BY <1>1, GuardMetered, PTL DEF GuardSpec

\* Also while operations are under way.
LEMMA SinkMeteredAlways == SinkSpec => [](SinkInv /\ MeteredInv)
<1>1. SinkInit => SinkInv /\ MeteredInv
  BY TypedInit, MetersInit DEF SinkInit, TypedInv, SinkInv, MeteredInv
<1> QED
  BY <1>1, SinkMetered, PTL DEF SinkSpec

\* What is checked is the part of it that is about the nodes that are there.
LEMMA MeteredMeters ==
    ASSUME MeteredInv
    PROVE  MetersCountAllows
<1>1. held \subseteq 1 .. MaxNodes
  BY DEF MeteredInv, LedgerInv, GInv, HeldAreNodes, NodesFit
<1> QED
  BY <1>1 DEF MeteredInv, MetersCount, EveryMeterCounts, MetersCountAllows

\* The meter is the number of allows on the ledger that were counted, whichever
\* checks failed half way.
THEOREM MetersAreExact == GuardSpec => []MetersCountAllows
  BY GuardMeteredAlways, MeteredMeters, PTL

\* And so it is when checks run in the sinks of others.
THEOREM SinksKeepMetersExact == SinkSpec => []MetersCountAllows
  BY SinkMeteredAlways, MeteredMeters, PTL

-----------------------------------------------------------------------------
(* Call limits *)

\* A call limit is a maximum, of a natural number of calls, and the field it
\* bounds is its own: a limit's key and its field both carry its scope.
LimitsRead(S) ==
    /\ \A a \in S : \A k \in DOMAIN a.ceilings \cap CallKeys :
          a.ceilings[k].type = "Max" /\ a.ceilings[k].max \in Nat
    /\ \A a, b \in S : \A k \in DOMAIN a.ceilings \cap CallKeys :
          \A l \in DOMAIN b.ceilings \cap CallKeys :
              a.ceilings[k].field = b.ceilings[l].field => k = l

\* The limits that were given, and those that were sealed from them.
SealsIn(tree) == {tree[n].seal : n \in 1 .. Len(tree)}
Asked == RootAuthorities \cup Requests
LimitsSealed == LimitsRead(Asked \cup SealsIn(nodes))

\* The meet of two limits is a limit, of the same field.
LEMMA MeetLimits ==
    ASSUME NEW S, \A x \in S : IsAuthority(x), LimitsRead(S), NEW a \in S, NEW b \in S
    PROVE  LimitsRead(S \cup {Meet(a, b)})
<1>1. PICK m : m = Meet(a, b)
  OBVIOUS
<1>2. m.ceilings = MeetCeilings(a.ceilings, b.ceilings)
  BY <1>1 DEF Meet, AuthorityOf
<1>3. ASSUME NEW k \in DOMAIN m.ceilings \cap CallKeys
      PROVE  /\ m.ceilings[k].type = "Max" /\ m.ceilings[k].max \in Nat
             /\ \E y \in S : k \in DOMAIN y.ceilings /\ m.ceilings[k].field = y.ceilings[k].field
  <2>1. CASE k \notin DOMAIN b.ceilings
    BY <1>2, <1>3, <2>1 DEF MeetCeilings, LimitsRead
  <2>2. CASE k \notin DOMAIN a.ceilings
    BY <1>2, <1>3, <2>2 DEF MeetCeilings, LimitsRead
  <2>3. CASE k \in DOMAIN a.ceilings \cap DOMAIN b.ceilings
    <3>1. PICK c, d : c = a.ceilings[k] /\ d = b.ceilings[k]
      OBVIOUS
    <3>2. /\ c.type = "Max" /\ c.max \in Nat /\ d.max \in Nat /\ c \in MaxType
      BY <2>3, <3>1, CeilingClass DEF LimitsRead, IsAuthority
    <3>3. m.ceilings[k] = [c EXCEPT !.max = Min2(c.max, d.max)]
      BY <1>2, <1>3, <2>3, <3>1, <3>2 DEF MeetCeilings, Narrow
    <3>4. Min2(c.max, d.max) \in Nat
      BY <3>2 DEF Min2
    <3>5. m.ceilings[k].type = "Max" /\ m.ceilings[k].max \in Nat /\ m.ceilings[k].field = c.field
      BY <3>2, <3>3, <3>4 DEF MaxType
    <3> QED
      BY <2>3, <3>1, <3>5
  <2> QED
    BY <1>2, <1>3, <2>1, <2>2, <2>3 DEF MeetCeilings
<1>4. \A x \in S, y \in S : \A k \in DOMAIN x.ceilings \cap CallKeys :
          \A l \in DOMAIN y.ceilings \cap CallKeys :
              x.ceilings[k].field = y.ceilings[l].field => k = l
  BY DEF LimitsRead
<1>5. ASSUME NEW x \in S \cup {m}, NEW y \in S \cup {m},
             NEW k \in DOMAIN x.ceilings \cap CallKeys, NEW l \in DOMAIN y.ceilings \cap CallKeys,
             x.ceilings[k].field = y.ceilings[l].field
      PROVE  k = l
  <2>1. PICK v \in S : k \in DOMAIN v.ceilings /\ x.ceilings[k].field = v.ceilings[k].field
    BY <1>3, <1>5
  <2>2. PICK w \in S : l \in DOMAIN w.ceilings /\ y.ceilings[l].field = w.ceilings[l].field
    BY <1>3, <1>5
  <2> QED
    BY <1>4, <1>5, <2>1, <2>2
<1> QED
  BY <1>1, <1>3, <1>5 DEF LimitsRead

\* A delegation seals limits made of those given.
LEMMA LimitsSealedNext ==
    ASSUME IInv, LimitsSealed, [Next]_chainVars
    PROVE  LimitsSealed'
<1>0. TypeOK /\ TreeWithinCeilings
  BY DEF IInv
<1>1. ASSUME NEW p \in NodeIds, NEW agent \in Agents, NEW request \in Requests,
             AddChild(p, agent, request)
      PROVE  LimitsSealed'
  <2>1. PICK c, m : c = Len(nodes) + 1 /\ m = Meet(nodes[p].auth, request)
    OBVIOUS
  <2>2. /\ NodeIds' = NodeIds \cup {c} /\ \A n \in NodeIds : nodes'[n] = nodes[n]
        /\ nodes'[c] = NewNode(p, agent, nodes[p].depth + 1, now, m)
    BY <1>0, <1>1, <2>1, AddChildFacts
  <2>3. nodes'[c].seal = m /\ nodes[p].auth = nodes[p].seal
    <3>1. VerifyIntegrity(p)
      BY <1>1 DEF AddChild, MayDelegate
    <3> QED
      BY <2>2, <3>1 DEF NewNode, VerifyIntegrity
  <2>4. SealsIn(nodes') \subseteq SealsIn(nodes) \cup {m}
    BY <2>2, <2>3 DEF SealsIn, NodeIds
  <2>5. PICK S : S = Asked \cup SealsIn(nodes)
    OBVIOUS
  <2>6. /\ \A x \in S : IsAuthority(x)
        /\ nodes[p].auth \in S /\ request \in S
    BY <1>0, <2>3, <2>5, AuthoritiesAssumption DEF TypeOK, Asked, SealsIn, AuthoritiesIn, NodeIds
  <2>7. LimitsRead(S \cup {m})
    BY <2>1, <2>5, <2>6, MeetLimits DEF LimitsSealed
  <2> QED
    BY <2>4, <2>5, <2>7 DEF LimitsSealed, LimitsRead
<1>2. ASSUME NEW n \in NodeIds, NEW a \in StrayAuthorities, StrayMutation(n, a)
      PROVE  LimitsSealed'
  <2>1. SealsIn(nodes') = SealsIn(nodes)
    BY <1>0, <1>2, StrayMutationFacts DEF SealsIn, NodeIds
  <2> QED
    BY <2>1 DEF LimitsSealed
<1>3. CASE UNCHANGED nodes
  BY <1>3 DEF LimitsSealed
<1> QED
  BY <1>1, <1>2, <1>3 DEF Next, RevokeNode, RevokeAgent, Tick, chainVars

\* The root seals the limits it is given.
LEMMA LimitsSealedInit ==
    ASSUME Init, LimitsRead(Asked)
    PROVE  LimitsSealed
<1>1. PICK agent \in Agents, a \in RootAuthorities : nodes = <<NewNode(NoParent, agent, 0, 0, a)>>
  BY DEF Init
<1>2. SealsIn(nodes) = {a}
  BY <1>1 DEF SealsIn, NewNode
<1> QED
  BY <1>2 DEF LimitsSealed, LimitsRead, Asked

\* A request is permitted with its own call counted only while there is one left.
LEMMA CountsWithinLimit ==
    ASSUME LimitsSealed, NEW n \in NodeIds, VerifyIntegrity(n), NEW keys, CountsWithin(n, keys),
           NEW k \in keys, calls[n][k] \in Nat
    PROVE  /\ k \in DOMAIN nodes[n].seal.ceilings \cap CallKeys
           /\ calls[n][k] + 1 <= nodes[n].seal.ceilings[k].max
<1>1. PICK scope \in CheckedScopes, ctx \in Contexts :
          keys = Counted(n, scope, ctx) /\ Permits(nodes[n].auth, scope, FillMeters(n, scope, ctx))
  BY DEF CountsWithin
<1>2. PICK a : a = nodes[n].auth /\ a = nodes[n].seal /\ a \in SealsIn(nodes)
  BY DEF VerifyIntegrity, SealsIn, NodeIds
<1>3. PICK A : A = AutoMetered(n, ctx)
  OBVIOUS
<1>4. /\ A \subseteq DOMAIN a.ceilings \cap CallKeys
      /\ k \in A /\ AppliesToScope(a.ceilings[k], scope)
      /\ a.ceilings[k].field \notin DOMAIN ctx
  BY <1>1, <1>2, <1>3 DEF Counted, AutoMetered, CallLimits
<1>5. /\ a.ceilings[k].type = "Max"
      /\ \A l \in A : a.ceilings[l].field = a.ceilings[k].field => l = k
  BY <1>2, <1>4 DEF LimitsSealed, LimitsRead
<1>6. PICK f : f = a.ceilings[k].field
  OBVIOUS
<1>7. (CHOOSE l \in A : a.ceilings[l].field = f) = k
  BY <1>4, <1>5, <1>6
<1>8. PICK full : full = FillMeters(n, scope, ctx)
  OBVIOUS
<1>9. f \in DOMAIN full /\ full[f] = Number(calls[n][k] + 1)
  BY <1>1, <1>2, <1>3, <1>4, <1>6, <1>7, <1>8 DEF FillMeters
<1>10. Admits(a.ceilings[k], scope, full)
  BY <1>1, <1>2, <1>4, <1>8 DEF Permits
<1>11. AdmitsValue(a.ceilings[k], Number(calls[n][k] + 1))
  BY <1>4, <1>6, <1>9, <1>10 DEF Admits, Bounds
<1>12. calls[n][k] + 1 <= a.ceilings[k].max
  BY <1>5, <1>11 DEF AdmitsValue, Number
<1> QED
  BY <1>2, <1>4, <1>12

\* For every node, and so for one whose Guard is still to be handed out.
LimitsHold ==
    \A n \in NodeIds : \A k \in DOMAIN nodes[n].seal.ceilings \cap CallKeys :
        Cardinality(CountedOn(n, k)) <= nodes[n].seal.ceilings[k].max

LimitedInv == LimitsSealed /\ LimitsHold

\* A counted call was one the seal had left; a new node has none.
LEMMA LimitedNext ==
    ASSUME MeteredInv, MetersMove, [Next]_chainVars, LimitedInv
    PROVE  LimitedInv'
<1>0. /\ IInv /\ TypeOK /\ held \subseteq NodeIds /\ NodeIds \subseteq 1 .. MaxNodes
      /\ LimitsSealed /\ LimitsHold /\ MetersTyped /\ EveryMeterCounts /\ AllowsOfHeld
  BY DEF MeteredInv, LedgerInv, GInv, IInv, HeldAreNodes, NodesFit, LimitedInv, MetersCount
<1>1. PICK T : ledger \in Seq(T)
  BY DEF MeteredInv, LedgerInv, Agrees
<1>2. LimitsSealed'
  BY <1>0, LimitsSealedNext
<1>3. /\ \A n \in NodeIds : n \in NodeIds' /\ nodes'[n].seal = nodes[n].seal
  BY <1>0, SealsStay DEF NodeIds
<1>4. ASSUME NEW n \in NodeIds, NEW k \in DOMAIN nodes[n].seal.ceilings \cap CallKeys
      PROVE  Cardinality(CountedOn(n, k)') <= nodes[n].seal.ceilings[k].max
  <2>1. Cardinality(CountedOn(n, k)) <= nodes[n].seal.ceilings[k].max
    BY <1>0 DEF LimitsHold
  <2>2. CASE CountsNone
    BY <1>1, <2>1, <2>2, CountedMoves
  <2>3. ASSUME NEW e, NEW j, CountsOne(e, j)
        PROVE  Cardinality(CountedOn(n, k)') <= nodes[n].seal.ceilings[k].max
    <3>1. /\ CountedOn(n, k)' = CountedOn(n, k) \cup {x \in {j} : n = e.node /\ k \in e.counted}
          /\ j \notin CountedOn(n, k) /\ IsFiniteSet(CountedOn(n, k))
      BY <1>1, <2>3, CountedMoves
    <3>2. CASE n = e.node /\ k \in e.counted
      <4>1. /\ VerifyIntegrity(n) /\ CountsWithin(n, e.counted)
            /\ calls[n][k] \in Nat /\ calls[n][k] = Cardinality(CountedOn(n, k))
        BY <1>0, <2>3, <3>2 DEF CountsOne, AllowsCall, MetersTyped, EveryMeterCounts
      <4>2. calls[n][k] + 1 <= nodes[n].seal.ceilings[k].max
        BY <1>0, <3>2, <4>1, CountsWithinLimit
      <4>3. CountedOn(n, k)' = CountedOn(n, k) \cup {j}
        BY <3>1, <3>2
      <4>4. Cardinality(CountedOn(n, k)') = Cardinality(CountedOn(n, k)) + 1
        BY <3>1, <4>3, FS_AddElement
      <4> QED
        BY <4>1, <4>2, <4>4
    <3>3. CASE ~(n = e.node /\ k \in e.counted)
      <4>1. CountedOn(n, k)' = CountedOn(n, k)
        BY <3>1, <3>3
      <4> QED
        BY <2>1, <4>1
    <3> QED
      BY <3>2, <3>3
  <2> QED
    BY <2>2, <2>3 DEF MetersMove
<1>5. ASSUME NEW n \in NodeIds' \ NodeIds, NEW k \in DOMAIN nodes'[n].seal.ceilings \cap CallKeys
      PROVE  Cardinality(CountedOn(n, k)') <= nodes'[n].seal.ceilings[k].max
  <2>1. n \notin held
    BY <1>0
  <2>2. CountedOn(n, k) = {}
    BY <1>0, <2>1 DEF CountedOn, AllowsOfHeld
  <2>3. CountedOn(n, k)' = {}
    <3>1. CASE CountsNone
      BY <1>1, <2>2, <3>1, CountedMoves
    <3>2. ASSUME NEW e, NEW j, CountsOne(e, j)
          PROVE  CountedOn(n, k)' = {}
      <4>1. CountedOn(n, k)' = CountedOn(n, k) \cup {x \in {j} : n = e.node /\ k \in e.counted}
        BY <1>1, <3>2, CountedMoves
      <4>2. e.node \in held
        BY <3>2 DEF CountsOne, AllowsCall
      <4> QED
        BY <2>1, <2>2, <4>1, <4>2
    <3> QED
      BY <3>1, <3>2 DEF MetersMove
  <2>4. nodes'[n].seal.ceilings[k].max \in Nat
    BY <1>2, <1>5 DEF LimitsSealed, LimitsRead, SealsIn, NodeIds
  <2> QED
    BY <2>3, <2>4, FS_EmptySet
<1>6. LimitsHold'
  BY <1>3, <1>4, <1>5 DEF LimitsHold
<1> QED
  BY <1>2, <1>6 DEF LimitedInv

\* No call was counted yet.
LEMMA LimitedInit ==
    ASSUME GuardInit, LimitsRead(Asked)
    PROVE  LimitedInv
<1>1. LimitsSealed
  BY LimitsSealedInit DEF GuardInit
<1>2. ledger[1].event = "root" /\ DOMAIN ledger = {1}
  BY DEF GuardInit, RootEntry
<1>3. \A n, k : Cardinality(CountedOn(n, k)) = 0
  <2>1. \A n, k : CountedOn(n, k) = {}
    BY <1>2 DEF CountedOn, Entries
  <2> QED
    BY <2>1, FS_EmptySet
<1>4. \A n \in NodeIds : \A k \in DOMAIN nodes[n].seal.ceilings \cap CallKeys :
          nodes[n].seal.ceilings[k].max \in Nat
  BY <1>1 DEF LimitsSealed, LimitsRead, SealsIn, NodeIds
<1> QED
  BY <1>1, <1>3, <1>4 DEF LimitedInv, LimitsHold

\* What is checked is the part of it that is about nodes somebody holds.
LEMMA LimitedLimits ==
    ASSUME MeteredInv, LimitedInv
    PROVE  CallLimitHolds
  BY DEF MeteredInv, LedgerInv, GInv, HeldAreNodes, LimitedInv, LimitsHold, CallLimitHolds

\* No node is allowed more metered calls than the limit it was issued says,
\* though contexts leave out what they count, checks fail half way and authority
\* objects are written over, if each limit bounds a field of its own.
THEOREM CallLimitsHold ==
    ASSUME LimitsRead(Asked)
    PROVE  GuardSpec => []CallLimitHolds
<1>1. GuardInit => LimitedInv
  BY LimitedInit
<1>2. MeteredInv /\ LimitedInv /\ [GuardNext]_allVars => LimitedInv'
  BY GuardMetered, LimitedNext
<1> QED
  BY <1>1, <1>2, GuardMeteredAlways, LimitedLimits, PTL DEF GuardSpec

\* Nor when checks are nested in the sinks of others.
THEOREM SinksKeepCallLimits ==
    ASSUME LimitsRead(Asked)
    PROVE  SinkSpec => []CallLimitHolds
<1>1. SinkInit => LimitedInv
  BY LimitedInit DEF SinkInit
<1>2. SinkInv /\ MeteredInv /\ LimitedInv /\ [SinkNext]_<<allVars, sinkVars>> => LimitedInv'
  BY SinkMetered, LimitedNext
<1> QED
  BY <1>1, <1>2, SinkMeteredAlways, LimitedLimits, PTL DEF SinkSpec

=============================================================================
