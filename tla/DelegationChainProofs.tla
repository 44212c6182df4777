------------------------ MODULE DelegationChainProofs ------------------------
(***************************************************************************)
(* The chain's guarantees for every tree: any agents, authorities and      *)
(* requests, any depth, fanout and number of steps; and that the chain     *)
(* implements the delegation tree: a delegation that asks its parent alone *)
(* asks the whole line.                                                    *)
(***************************************************************************)
EXTENDS DelegationChain, AuthorityProofs, FiniteSetTheorems

\* A node's children are revoked with it; it is what a walk that stops at
\* revoked nodes relies on.
RevokedClosed ==
    \A n \in NodeIds : nodes[n].parent \in revoked => n \in revoked

\* Between a node and its parent, and so, by transitivity, along the path.
ParentAttenuation ==
    \A n \in NodeIds : nodes[n].parent # NoParent =>
        IsNarrowerThan(nodes[n].seal, nodes[nodes[n].parent].seal)

IInv ==
    /\ TypeOK
    /\ TreeWithinCeilings
    /\ RevokedClosed
    /\ BannedAgentsHoldNothing
    /\ ParentAttenuation
    /\ IssuedWithinParentLife

-----------------------------------------------------------------------------
(* Sequences of nodes *)

\* A sequence is over any set that holds its elements.
LEMMA SeqRetype ==
    ASSUME NEW T, NEW s \in Seq(T), NEW U, \A i \in 1 .. Len(s) : s[i] \in U
    PROVE  s \in Seq(U)
  OBVIOUS

\* What Append does, with the length and the elements as facts of their own.
LEMMA AppendFacts ==
    ASSUME NEW T, NEW s \in Seq(T), NEW x, NEW t, t = Append(s, x)
    PROVE  /\ t \in Seq(T \cup {x})
           /\ Len(t) = Len(s) + 1 /\ Len(s) \in Nat
           /\ \A i \in 1 .. Len(s) : t[i] = s[i]
           /\ t[Len(s) + 1] = x
  OBVIOUS

\* What TypeOK says of one node.
LEMMA NodeFacts ==
    ASSUME TypeOK
    PROVE  /\ Len(nodes) \in Nat \ {0}
           /\ \A n \in NodeIds :
                 /\ nodes[n] \in NodeType(AuthoritiesIn(nodes))
                 /\ nodes[n].parent \in Nat
                 /\ nodes[n].agent \in Agents
                 /\ nodes[n].depth \in Nat
                 /\ nodes[n].issuedAt \in Nat
                 /\ IsAuthority(nodes[n].auth)
                 /\ IsAuthority(nodes[n].seal)
<1>1. nodes \in Seq(NodeType(AuthoritiesIn(nodes))) /\ nodes # <<>>
  BY DEF TypeOK
<1>2. Len(nodes) \in Nat \ {0}
  BY <1>1
<1>3. ASSUME NEW n \in NodeIds
      PROVE  nodes[n] \in NodeType(AuthoritiesIn(nodes))
  BY <1>1, <1>2 DEF NodeIds
<1>4. ASSUME NEW n \in NodeIds
      PROVE  nodes[n].auth \in AuthoritiesIn(nodes) /\ nodes[n].seal \in AuthoritiesIn(nodes)
  BY DEF AuthoritiesIn, NodeIds
<1> QED
  BY <1>2, <1>3, <1>4 DEF TypeOK, NodeType

\* The same read backwards: a tree whose nodes are well formed one by one.
LEMMA TreeTyped ==
    ASSUME NEW T, NEW tree \in Seq(T), NEW A,
           \A n \in 1 .. Len(tree) :
              /\ tree[n] \in NodeType(A)
              /\ IsAuthority(tree[n].auth)
              /\ IsAuthority(tree[n].seal)
    PROVE  /\ tree \in Seq(NodeType(AuthoritiesIn(tree)))
           /\ \A a \in AuthoritiesIn(tree) : IsAuthority(a)
<1>1. ASSUME NEW n \in 1 .. Len(tree)
      PROVE  tree[n] \in NodeType(AuthoritiesIn(tree))
  <2>1. tree[n].auth \in AuthoritiesIn(tree) /\ tree[n].seal \in AuthoritiesIn(tree)
    BY DEF AuthoritiesIn
  <2>2. tree[n] \in NodeType(A)
    OBVIOUS
  <2> QED
    BY <2>1, <2>2 DEF NodeType
<1>2. tree \in Seq(NodeType(AuthoritiesIn(tree)))
  BY <1>1, SeqRetype
<1>3. \A a \in AuthoritiesIn(tree) : IsAuthority(a)
  BY DEF AuthoritiesIn
<1> QED
  BY <1>2, <1>3

\* The shape of the tree after addChild.
LEMMA AddChildFacts ==
    ASSUME TypeOK, TreeWithinCeilings,
           NEW p \in NodeIds, NEW agent \in Agents, NEW request \in Requests,
           AddChild(p, agent, request)
    PROVE  /\ Len(nodes') = Len(nodes) + 1
           /\ NodeIds' = NodeIds \cup {Len(nodes) + 1}
           /\ \A n \in NodeIds : nodes'[n] = nodes[n]
           /\ nodes'[Len(nodes) + 1] =
                  NewNode(p, agent, nodes[p].depth + 1, now, Meet(nodes[p].auth, request))
           /\ IsAuthority(Meet(nodes[p].auth, request))
           /\ IsNarrowerThan(Meet(nodes[p].auth, request), nodes[p].auth)
           /\ p \notin revoked /\ agent \notin banned
           /\ nodes[p].auth = nodes[p].seal /\ ~IsExpired(p)
           /\ nodes[p].depth + 1 <= MaxDepth
           /\ Cardinality(Children(p)) + 1 <= MaxFanout
           /\ UNCHANGED <<revoked, banned, now>>
           /\ nodes' \in Seq(NodeType(AuthoritiesIn(nodes)) \cup {nodes'[Len(nodes) + 1]})
<1> DEFINE granted == Meet(nodes[p].auth, request)
           x == NewNode(p, agent, nodes[p].depth + 1, now, granted)
<1>1. /\ MayDelegate(p, agent) /\ ~MeetRefused(nodes[p].auth, request)
      /\ nodes' = Append(nodes, x)
      /\ UNCHANGED <<revoked, banned, now>>
  BY DEF AddChild
<1>2. nodes \in Seq(NodeType(AuthoritiesIn(nodes)))
  BY DEF TypeOK
<1>3. IsAuthority(nodes[p].auth) /\ IsAuthority(request)
  BY NodeFacts, AuthoritiesAssumption
<1>4. IsAuthority(granted) /\ IsNarrowerThan(granted, nodes[p].auth)
  BY <1>1, <1>3, MeetNarrower
<1> HIDE DEF x, granted
<1>5. /\ nodes' \in Seq(NodeType(AuthoritiesIn(nodes)) \cup {x})
      /\ Len(nodes') = Len(nodes) + 1 /\ Len(nodes) \in Nat
      /\ \A i \in 1 .. Len(nodes) : nodes'[i] = nodes[i]
      /\ nodes'[Len(nodes) + 1] = x
  BY <1>1, <1>2, AppendFacts
<1>6. NodeIds' = NodeIds \cup {Len(nodes) + 1}
  BY <1>5 DEF NodeIds
<1>7. \A i \in NodeIds : nodes'[i] = nodes[i]
  BY <1>5 DEF NodeIds
<1> QED
  BY <1>1, <1>4, <1>5, <1>6, <1>7 DEF MayDelegate, VerifyIntegrity, x, granted

\* A stray mutation touches one node's authority and nothing else.
LEMMA StrayMutationFacts ==
    ASSUME TypeOK, NEW n \in NodeIds, NEW a \in StrayAuthorities, StrayMutation(n, a)
    PROVE  /\ Len(nodes') = Len(nodes)
           /\ NodeIds' = NodeIds
           /\ nodes' # <<>>
           /\ nodes' \in Seq(NodeType(AuthoritiesIn(nodes) \cup {a}))
           /\ \A m \in NodeIds :
                 /\ nodes'[m].parent = nodes[m].parent
                 /\ nodes'[m].agent = nodes[m].agent
                 /\ nodes'[m].depth = nodes[m].depth
                 /\ nodes'[m].issuedAt = nodes[m].issuedAt
                 /\ nodes'[m].seal = nodes[m].seal
                 /\ IsAuthority(nodes'[m].auth)
           /\ UNCHANGED <<revoked, banned, now>>
<1> DEFINE A == AuthoritiesIn(nodes)
<1>1. nodes' = [nodes EXCEPT ![n].auth = a] /\ UNCHANGED <<revoked, banned, now>>
  BY DEF StrayMutation
<1>2. nodes \in Seq(NodeType(A)) /\ Len(nodes) \in Nat \ {0}
  BY NodeFacts DEF TypeOK
<1>3. IsAuthority(a)
  BY AuthoritiesAssumption
<1>4. \A m \in NodeIds : nodes[m] \in NodeType(A) /\ IsAuthority(nodes[m].auth)
  BY NodeFacts
<1> HIDE DEF A
<1>5. nodes \in Seq(NodeType(A \cup {a}))
  <2>1. \A m \in 1 .. Len(nodes) : nodes[m] \in NodeType(A \cup {a})
    BY <1>4 DEF NodeType, NodeIds
  <2> QED
    BY <1>2, <2>1, SeqRetype
<1>6. [nodes[n] EXCEPT !.auth = a] \in NodeType(A \cup {a})
  BY <1>4 DEF NodeType
<1>7. /\ nodes' \in Seq(NodeType(A \cup {a})) /\ Len(nodes') = Len(nodes)
      /\ \A m \in NodeIds : nodes'[m] = IF m = n THEN [nodes[n] EXCEPT !.auth = a] ELSE nodes[m]
  BY <1>1, <1>2, <1>5, <1>6 DEF NodeIds
<1>8. NodeIds' = NodeIds /\ nodes' # <<>>
  BY <1>2, <1>7 DEF NodeIds
<1>9. ASSUME NEW m \in NodeIds
      PROVE  /\ nodes'[m].parent = nodes[m].parent
             /\ nodes'[m].agent = nodes[m].agent
             /\ nodes'[m].depth = nodes[m].depth
             /\ nodes'[m].issuedAt = nodes[m].issuedAt
             /\ nodes'[m].seal = nodes[m].seal
             /\ IsAuthority(nodes'[m].auth)
  BY <1>3, <1>4, <1>7 DEF NodeType
<1> QED
  BY <1>1, <1>7, <1>8, <1>9 DEF A

-----------------------------------------------------------------------------
(* Revocation *)

\* A cascade takes its targets and, below each node it takes, every child.
LEMMA CascadeFacts ==
    ASSUME NEW T \in SUBSET NodeIds
    PROVE  /\ Cascade(T) \subseteq NodeIds \ revoked
           /\ T \subseteq revoked \cup Cascade(T)
           /\ \A m \in NodeIds : nodes[m].parent \in Cascade(T) => m \in revoked \cup Cascade(T)
  BY DEF Cascade, ClosedDownwards

\* Revoking a cascade leaves no live child below a revoked node.
LEMMA CascadeCloses ==
    ASSUME RevokedClosed, NEW T \in SUBSET NodeIds, NEW r, r = revoked \cup Cascade(T)
    PROVE  \A n \in NodeIds : nodes[n].parent \in r => n \in r
  BY CascadeFacts DEF RevokedClosed

-----------------------------------------------------------------------------
(* The inductive invariant *)

\* A root alone satisfies the invariant.
LEMMA InitInv ==
    ASSUME Init
    PROVE  IInv
<1>1. PICK agent \in Agents, a \in RootAuthorities :
          nodes = <<NewNode(NoParent, agent, 0, 0, a)>>
  BY DEF Init
<1>2. IsAuthority(a)
  BY AuthoritiesAssumption
<1>3. NewNode(NoParent, agent, 0, 0, a) \in NodeType({a})
  BY DEF NewNode, NodeType, NoParent
<1>4. /\ nodes \in Seq(NodeType({a})) /\ nodes # <<>> /\ NodeIds = {1}
      /\ nodes[1] = NewNode(NoParent, agent, 0, 0, a)
  BY <1>1, <1>3 DEF NodeIds
<1>5. TypeOK
  <2>1. \A n \in 1 .. Len(nodes) :
            nodes[n] \in NodeType({a}) /\ IsAuthority(nodes[n].auth) /\ IsAuthority(nodes[n].seal)
    BY <1>2, <1>3, <1>4 DEF NewNode, NodeIds
  <2> QED
    BY <1>4, <2>1, TreeTyped DEF TypeOK, Init
<1>6. nodes[1].parent = NoParent /\ nodes[1].depth = 0
  BY <1>4 DEF NewNode
<1>7. TreeWithinCeilings
  <2>1. Children(1) = {}
    BY <1>4, <1>6 DEF Children, NoParent
  <2>2. Cardinality(Children(1)) = 0
    BY <2>1, FS_EmptySet
  <2> QED
    BY <1>4, <1>6, <2>2, LimitsAssumption DEF TreeWithinCeilings, NoParent
<1>8. RevokedClosed /\ BannedAgentsHoldNothing /\ ParentAttenuation /\ IssuedWithinParentLife
  BY <1>4, <1>6 DEF Init, RevokedClosed, BannedAgentsHoldNothing, ParentAttenuation,
                    IssuedWithinParentLife
<1> QED
  BY <1>5, <1>7, <1>8 DEF IInv

\* A delegation preserves it: the child is narrower than its parent's seal, in
\* time, not below a revoked node and not held by a banned agent.
LEMMA AddChildInv ==
    ASSUME IInv, NEW p \in NodeIds, NEW agent \in Agents, NEW request \in Requests,
           AddChild(p, agent, request)
    PROVE  IInv'
<1> DEFINE granted == Meet(nodes[p].auth, request)
<1> PICK new : new = Len(nodes) + 1
  OBVIOUS
<1>0. TypeOK /\ TreeWithinCeilings
  BY DEF IInv
<1>1. /\ Len(nodes') = new
      /\ NodeIds' = NodeIds \cup {new}
      /\ \A n \in NodeIds : nodes'[n] = nodes[n]
      /\ nodes'[new] = NewNode(p, agent, nodes[p].depth + 1, now, granted)
      /\ IsAuthority(granted) /\ IsNarrowerThan(granted, nodes[p].auth)
      /\ p \notin revoked /\ agent \notin banned
      /\ nodes[p].auth = nodes[p].seal /\ ~IsExpired(p)
      /\ nodes[p].depth + 1 <= MaxDepth
      /\ Cardinality(Children(p)) + 1 <= MaxFanout
      /\ UNCHANGED <<revoked, banned, now>>
      /\ nodes' \in Seq(NodeType(AuthoritiesIn(nodes)) \cup {nodes'[new]})
  BY <1>0, AddChildFacts
<1>2. Len(nodes) \in Nat \ {0} /\ new \notin NodeIds /\ NodeIds = 1 .. Len(nodes)
  BY <1>0, NodeFacts DEF NodeIds
<1>3. \A n \in NodeIds :
         /\ nodes[n] \in NodeType(AuthoritiesIn(nodes))
         /\ nodes[n].parent \in Nat /\ nodes[n].depth \in Nat /\ nodes[n].issuedAt \in Nat
         /\ IsAuthority(nodes[n].auth) /\ IsAuthority(nodes[n].seal)
  BY <1>0, NodeFacts
<1>4. /\ nodes'[new].parent = p /\ nodes'[new].agent = agent
      /\ nodes'[new].depth = nodes[p].depth + 1 /\ nodes'[new].issuedAt = now
      /\ nodes'[new].auth = granted /\ nodes'[new].seal = granted
  BY <1>1 DEF NewNode
<1>5. \A n \in NodeIds : nodes[n].parent # NoParent => nodes[n].parent \in NodeIds
  BY <1>0, <1>2, <1>3 DEF TreeWithinCeilings, NoParent
<1> HIDE DEF granted
<1>6. TypeOK'
  <2>1. now \in Nat /\ revoked \subseteq NodeIds /\ banned \subseteq Agents
    BY <1>0 DEF TypeOK
  <2>2. nodes'[new] \in NodeType(AuthoritiesIn(nodes) \cup {granted})
    <3>1. nodes[p].depth + 1 \in Nat /\ p \in Nat
      BY <1>2, <1>3
    <3> QED
      BY <1>1, <2>1, <3>1 DEF NewNode, NodeType
  <2>3. \A n \in NodeIds : nodes'[n] \in NodeType(AuthoritiesIn(nodes) \cup {granted})
    BY <1>1, <1>3 DEF NodeType
  <2>4. \A n \in 1 .. Len(nodes') :
           /\ nodes'[n] \in NodeType(AuthoritiesIn(nodes) \cup {granted})
           /\ IsAuthority(nodes'[n].auth) /\ IsAuthority(nodes'[n].seal)
    BY <1>1, <1>2, <1>3, <1>4, <2>2, <2>3 DEF NodeIds
  <2>5. /\ nodes' \in Seq(NodeType(AuthoritiesIn(nodes')))
        /\ \A a \in AuthoritiesIn(nodes') : IsAuthority(a)
    BY <1>1, <2>4, TreeTyped
  <2>6. nodes' # <<>>
    BY <1>1, <1>2
  <2> QED
    BY <1>1, <2>1, <2>5, <2>6 DEF TypeOK
<1>7. TreeWithinCeilings'
  <2> DEFINE kids(n) == {m \in NodeIds' : nodes'[m].parent = n}
  <2>0. \A n : Children(n)' = kids(n)
    BY DEF Children
  <2>1. kids(p) = Children(p) \cup {new}
    BY <1>1, <1>4 DEF Children
  <2>2. \A n \in NodeIds : n # p => kids(n) = Children(n)
    BY <1>1, <1>4 DEF Children
  <2>3. kids(new) = {}
    <3>1. \A m \in NodeIds : nodes'[m].parent # new
      BY <1>1, <1>2, <1>5 DEF NoParent
    <3> QED
      BY <1>1, <1>2, <1>4, <3>1
  <2>4. IsFiniteSet(Children(p)) /\ new \notin Children(p)
    <3>1. IsFiniteSet(1 .. Len(nodes)) /\ Children(p) \subseteq 1 .. Len(nodes)
      BY <1>2, FS_Interval DEF Children
    <3> QED
      BY <1>2, <3>1, FS_Subset
  <2> HIDE DEF kids
  <2>5. Cardinality(kids(p)) <= MaxFanout
    BY <1>1, <2>1, <2>4, FS_AddElement
  <2>6. Cardinality(kids(new)) <= MaxFanout
    <3>1. Cardinality({}) = 0
      BY FS_EmptySet
    <3>2. Cardinality(kids(new)) = 0
      BY <2>3, <3>1, Zenon
    <3> QED
      BY <3>2, LimitsAssumption
  <2>7. \A n \in NodeIds' : Cardinality(kids(n)) <= MaxFanout
    <3>1. \A n \in NodeIds : Cardinality(Children(n)) <= MaxFanout
      BY <1>0 DEF TreeWithinCeilings
    <3> QED
      BY <1>1, <2>2, <2>5, <2>6, <3>1
  <2>8. ASSUME NEW n \in NodeIds'
        PROVE  /\ nodes'[n].parent < n
               /\ nodes'[n].parent = NoParent <=> n = 1
               /\ nodes'[n].parent # NoParent =>
                      nodes'[n].depth = nodes'[nodes'[n].parent].depth + 1
               /\ nodes'[n].depth <= MaxDepth
    <3>1. CASE n \in NodeIds
      BY <1>0, <1>1, <1>5, <3>1 DEF TreeWithinCeilings
    <3>2. CASE n = new
      BY <1>1, <1>2, <1>4, <3>2 DEF NoParent
    <3> QED
      BY <1>1, <3>1, <3>2
  <2> QED
    BY <2>0, <2>7, <2>8 DEF TreeWithinCeilings
<1>8. RevokedClosed'
  <2>1. \A n \in NodeIds : nodes[n].parent \in revoked => n \in revoked
    BY DEF IInv, RevokedClosed
  <2> QED
    BY <1>1, <1>4, <2>1 DEF RevokedClosed
<1>9. BannedAgentsHoldNothing'
  <2>1. \A n \in NodeIds : nodes[n].agent \in banned => n \in revoked
    BY DEF IInv, BannedAgentsHoldNothing
  <2> QED
    BY <1>1, <1>4, <2>1 DEF BannedAgentsHoldNothing
<1>10. ParentAttenuation'
  <2>1. \A n \in NodeIds : nodes[n].parent # NoParent =>
            IsNarrowerThan(nodes[n].seal, nodes[nodes[n].parent].seal)
    BY DEF IInv, ParentAttenuation
  <2> QED
    BY <1>1, <1>4, <1>5, <2>1 DEF ParentAttenuation
<1>11. IssuedWithinParentLife'
  <2>1. \A n \in NodeIds \ {1} :
            nodes[nodes[n].parent].seal.ttl # NoTtl =>
                nodes[n].issuedAt - nodes[nodes[n].parent].issuedAt
                    <= nodes[nodes[n].parent].seal.ttl
    BY DEF IInv, IssuedWithinParentLife
  <2>2. \A n \in NodeIds \ {1} : nodes[n].parent \in NodeIds
    BY <1>0, <1>5 DEF TreeWithinCeilings
  <2>3. nodes[p].seal.ttl # NoTtl => now - nodes[p].issuedAt <= nodes[p].seal.ttl
    <3>1. now \in Nat /\ nodes[p].issuedAt \in Nat /\ nodes[p].seal.ttl \in Nat \cup {NoTtl}
      BY <1>0, <1>3 DEF TypeOK, IsAuthority
    <3>2. nodes[p].auth.ttl = nodes[p].seal.ttl
      BY <1>1
    <3> QED
      BY <1>1, <3>1, <3>2 DEF IsExpired, NoTtl
  <2>4. ASSUME NEW n \in NodeIds' \ {1}
        PROVE  nodes'[nodes'[n].parent].seal.ttl # NoTtl =>
                   nodes'[n].issuedAt - nodes'[nodes'[n].parent].issuedAt
                       <= nodes'[nodes'[n].parent].seal.ttl
    <3>1. CASE n \in NodeIds
      BY <1>1, <2>1, <2>2, <3>1
    <3>2. CASE n = new
      BY <1>1, <1>4, <2>3, <3>2
    <3> QED
      BY <1>1, <3>1, <3>2
  <2> QED
    BY <2>4 DEF IssuedWithinParentLife
<1> QED
  BY <1>6, <1>7, <1>8, <1>9, <1>10, <1>11 DEF IInv

\* Revoking a node and revoking an agent differ in their targets alone.
LEMMA RevokeInv ==
    ASSUME IInv, NEW T \in SUBSET NodeIds,
           revoked' = revoked \cup Cascade(T),
           banned' \subseteq Agents,
           \A agent \in banned' \ banned : HeldBy(agent) \subseteq T,
           UNCHANGED <<nodes, now>>
    PROVE  IInv'
<1>1. NodeIds' = NodeIds /\ nodes' = nodes /\ now' = now
  BY DEF NodeIds
<1>2. TypeOK'
  <2>1. revoked' \subseteq NodeIds'
    BY <1>1, CascadeFacts DEF IInv, TypeOK
  <2> QED
    BY <1>1, <2>1 DEF IInv, TypeOK
<1>3. TreeWithinCeilings'
  <2>1. \A n : Children(n)' = Children(n)
    BY <1>1 DEF Children
  <2> QED
    BY <1>1, <2>1 DEF IInv, TreeWithinCeilings
<1>4. RevokedClosed'
  <2>1. \A n \in NodeIds : nodes[n].parent \in revoked' => n \in revoked'
    BY CascadeCloses DEF IInv
  <2> QED
    BY <1>1, <2>1 DEF RevokedClosed
<1>5. BannedAgentsHoldNothing'
  <2>1. SUFFICES ASSUME NEW n \in NodeIds, nodes[n].agent \in banned'
                 PROVE  n \in revoked'
    BY <1>1 DEF BannedAgentsHoldNothing
  <2>2. CASE nodes[n].agent \in banned
    BY <2>2 DEF IInv, BannedAgentsHoldNothing
  <2>3. CASE nodes[n].agent \notin banned
    <3>1. n \in T
      BY <2>1, <2>3 DEF HeldBy
    <3> QED
      BY <3>1, CascadeFacts
  <2> QED
    BY <2>2, <2>3
<1>6. ParentAttenuation' /\ IssuedWithinParentLife'
  BY <1>1 DEF IInv, ParentAttenuation, IssuedWithinParentLife
<1> QED
  BY <1>2, <1>3, <1>4, <1>5, <1>6 DEF IInv

\* A stray write into a node's authority preserves it: nothing is said of that
\* authority once it differs from the seal.
LEMMA StrayMutationInv ==
    ASSUME IInv, NEW n \in NodeIds, NEW a \in StrayAuthorities, StrayMutation(n, a)
    PROVE  IInv'
<1>0. TypeOK
  BY DEF IInv
<1>1. /\ Len(nodes') = Len(nodes) /\ NodeIds' = NodeIds /\ nodes' # <<>>
      /\ nodes' \in Seq(NodeType(AuthoritiesIn(nodes) \cup {a}))
      /\ \A m \in NodeIds :
            /\ nodes'[m].parent = nodes[m].parent
            /\ nodes'[m].agent = nodes[m].agent
            /\ nodes'[m].depth = nodes[m].depth
            /\ nodes'[m].issuedAt = nodes[m].issuedAt
            /\ nodes'[m].seal = nodes[m].seal
            /\ IsAuthority(nodes'[m].auth)
      /\ UNCHANGED <<revoked, banned, now>>
  BY <1>0, StrayMutationFacts
<1>2. \A m \in NodeIds : nodes[m].parent # NoParent => nodes[m].parent \in NodeIds
  <2>1. \A m \in NodeIds : nodes[m].parent \in Nat /\ nodes[m].parent < m
    BY <1>0, NodeFacts DEF IInv, TreeWithinCeilings
  <2>2. NodeIds = 1 .. Len(nodes) /\ Len(nodes) \in Nat
    BY <1>0, NodeFacts DEF NodeIds
  <2> QED
    BY <2>1, <2>2 DEF NoParent
<1>3. TypeOK'
  <2>1. \A m \in 1 .. Len(nodes') :
           /\ nodes'[m] \in NodeType(AuthoritiesIn(nodes) \cup {a})
           /\ IsAuthority(nodes'[m].auth) /\ IsAuthority(nodes'[m].seal)
    BY <1>0, <1>1, NodeFacts DEF NodeIds
  <2>2. /\ nodes' \in Seq(NodeType(AuthoritiesIn(nodes')))
        /\ \A b \in AuthoritiesIn(nodes') : IsAuthority(b)
    BY <1>1, <2>1, TreeTyped
  <2> QED
    BY <1>0, <1>1, <2>2 DEF TypeOK
<1>4. TreeWithinCeilings'
  <2>1. \A m : Children(m)' = Children(m)
    BY <1>1 DEF Children
  <2> QED
    BY <1>1, <1>2, <2>1 DEF IInv, TreeWithinCeilings
<1>5. RevokedClosed' /\ BannedAgentsHoldNothing'
  BY <1>1 DEF IInv, RevokedClosed, BannedAgentsHoldNothing
<1>6. ParentAttenuation'
  BY <1>1, <1>2 DEF IInv, ParentAttenuation
<1>7. IssuedWithinParentLife'
  <2>1. \A m \in NodeIds \ {1} : nodes[m].parent \in NodeIds
    BY <1>2 DEF IInv, TreeWithinCeilings
  <2> QED
    BY <1>1, <2>1 DEF IInv, IssuedWithinParentLife
<1> QED
  BY <1>3, <1>4, <1>5, <1>6, <1>7 DEF IInv

\* The passing of time preserves it: only issue times are in it.
LEMMA UnchangedInv ==
    ASSUME IInv, UNCHANGED <<nodes, revoked, banned>>, now' \in Nat
    PROVE  IInv'
<1>1. NodeIds' = NodeIds /\ \A m : Children(m)' = Children(m)
  BY DEF NodeIds, Children
<1> QED
  BY <1>1 DEF IInv, TypeOK, TreeWithinCeilings, RevokedClosed, BannedAgentsHoldNothing,
             ParentAttenuation, IssuedWithinParentLife

\* Every step preserves the invariant.
LEMMA NextInv ==
    ASSUME IInv, [Next]_chainVars
    PROVE  IInv'
<1>1. ASSUME NEW p \in NodeIds, NEW agent \in Agents, NEW request \in Requests,
             AddChild(p, agent, request)
      PROVE  IInv'
  BY <1>1, AddChildInv
<1>2. ASSUME NEW n \in NodeIds, RevokeNode(n)
      PROVE  IInv'
  <2>1. banned' \subseteq Agents /\ banned' \ banned = {}
    BY <1>2 DEF RevokeNode, IInv, TypeOK
  <2> QED
    BY <1>2, <2>1, RevokeInv DEF RevokeNode
<1>3. ASSUME NEW agent \in Agents, RevokeAgent(agent)
      PROVE  IInv'
  <2>1. banned' \subseteq Agents /\ banned' \ banned \subseteq {agent}
    BY <1>3 DEF RevokeAgent, IInv, TypeOK
  <2>2. HeldBy(agent) \in SUBSET NodeIds
    BY DEF HeldBy
  <2>3. \A x \in banned' \ banned : HeldBy(x) \subseteq HeldBy(agent)
    BY <2>1
  <2> QED
    BY <1>3, <2>1, <2>2, <2>3, RevokeInv DEF RevokeAgent
<1>4. CASE Tick
  <2>1. now' \in Nat
    BY <1>4 DEF Tick, IInv, TypeOK
  <2> QED
    BY <1>4, <2>1, UnchangedInv DEF Tick
<1>5. ASSUME NEW n \in NodeIds, NEW a \in StrayAuthorities, StrayMutation(n, a)
      PROVE  IInv'
  BY <1>5, StrayMutationInv
<1>6. CASE UNCHANGED chainVars
  <2>1. now' \in Nat
    BY <1>6 DEF chainVars, IInv, TypeOK
  <2> QED
    BY <1>6, <2>1, UnchangedInv DEF chainVars
<1> QED
  BY <1>1, <1>2, <1>3, <1>4, <1>5, <1>6 DEF Next

\* The invariant the theorems below are read off.
THEOREM Invariance == Spec => []IInv
<1>1. Init => IInv
  BY InitInv
<1>2. IInv /\ [Next]_chainVars => IInv'
  BY NextInv
<1> QED
  BY <1>1, <1>2, PTL DEF Spec

-----------------------------------------------------------------------------
(* The path to the root.  Each fact about it takes the set of ancestors    *)
(* that have the property and finds it closed under parents.               *)

\* A node is on its own path.
LEMMA SelfIsOnPath ==
    ASSUME NEW n \in NodeIds
    PROVE  n \in AncestorsOrSelf(n)
  BY DEF AncestorsOrSelf

\* A node's path holds its parent's.
LEMMA ParentPathIsOnPath ==
    ASSUME NEW n \in NodeIds, nodes[n].parent # NoParent,
           NEW a \in AncestorsOrSelf(nodes[n].parent)
    PROVE  a \in AncestorsOrSelf(n)
  BY DEF AncestorsOrSelf, ClosedUpwards

\* The parent of a node is a node.
LEMMA ParentIsNode ==
    ASSUME TypeOK, TreeWithinCeilings, NEW n \in NodeIds, nodes[n].parent # NoParent
    PROVE  nodes[n].parent \in NodeIds
<1>1. nodes[n].parent \in Nat /\ nodes[n].parent < n
  BY NodeFacts DEF TreeWithinCeilings
<1>2. NodeIds = 1 .. Len(nodes) /\ Len(nodes) \in Nat
  BY NodeFacts DEF NodeIds
<1> QED
  BY <1>1, <1>2 DEF NoParent

\* Closed under children one level at a time, closed under descendants.
LEMMA ClosureReachesSubtree ==
    ASSUME IInv
    PROVE  RevocationReachesSubtree
<1>1. SUFFICES ASSUME NEW n \in NodeIds, NEW a \in AncestorsOrSelf(n), a \in revoked
               PROVE  n \in revoked
  BY DEF RevocationReachesSubtree
<1> DEFINE S == {b \in NodeIds : b \in revoked => n \in revoked}
<1>2. S \in SUBSET NodeIds /\ n \in S
  OBVIOUS
<1>3. ClosedUpwards(S)
  <2>1. SUFFICES ASSUME NEW b \in S, nodes[b].parent # NoParent
                 PROVE  nodes[b].parent \in S
    BY DEF ClosedUpwards
  <2>2. nodes[b].parent \in NodeIds
    <3>1. b \in NodeIds /\ nodes[b].parent # NoParent
      BY <2>1
    <3> QED
      BY <3>1, ParentIsNode DEF IInv
  <2>3. nodes[b].parent \in revoked => b \in revoked
    BY DEF IInv, RevokedClosed
  <2> QED
    BY <2>2, <2>3
<1>4. a \in S
  BY <1>2, <1>3 DEF AncestorsOrSelf
<1> QED
  BY <1>1, <1>4

\* Attenuation one level at a time is attenuation along the whole path.
LEMMA ParentsComposeToAncestors ==
    ASSUME IInv
    PROVE  AncestorAttenuation
<1>1. SUFFICES ASSUME NEW n \in NodeIds, NEW a \in AncestorsOrSelf(n)
               PROVE  IsNarrowerThan(nodes[n].seal, nodes[a].seal)
  BY DEF AncestorAttenuation
<1> DEFINE S == {b \in NodeIds : IsNarrowerThan(nodes[n].seal, nodes[b].seal)}
<1>2. \A b \in NodeIds : IsAuthority(nodes[b].seal)
  BY NodeFacts DEF IInv
<1>3. S \in SUBSET NodeIds /\ n \in S
  BY <1>2, NarrowerReflexive
<1>4. ClosedUpwards(S)
  <2>1. SUFFICES ASSUME NEW b \in S, nodes[b].parent # NoParent
                 PROVE  nodes[b].parent \in S
    BY DEF ClosedUpwards
  <2>2. nodes[b].parent \in NodeIds
    <3>1. b \in NodeIds /\ nodes[b].parent # NoParent
      BY <2>1
    <3> QED
      BY <3>1, ParentIsNode DEF IInv
  <2>3. IsNarrowerThan(nodes[b].seal, nodes[nodes[b].parent].seal)
    BY <2>1 DEF IInv, ParentAttenuation
  <2>4. IsNarrowerThan(nodes[n].seal, nodes[nodes[b].parent].seal)
    BY <1>2, <2>2, <2>3, NarrowerTransitive
  <2> QED
    BY <2>2, <2>4
<1>5. a \in S
  BY <1>3, <1>4 DEF AncestorsOrSelf
<1> QED
  BY <1>5

\* A cascade goes down from its targets and nowhere else.
LEMMA CascadeIsBelowTargets ==
    ASSUME TypeOK, TreeWithinCeilings, NEW T \in SUBSET NodeIds, NEW m \in Cascade(T)
    PROVE  \E target \in T \ revoked : target \in AncestorsOrSelf(m)
<1> DEFINE S == {k \in NodeIds : \E target \in T \ revoked : target \in AncestorsOrSelf(k)}
<1>1. T \ revoked \subseteq S
  BY SelfIsOnPath
<1>2. ClosedDownwards(S)
  <2>1. SUFFICES ASSUME NEW k \in NodeIds \ revoked, nodes[k].parent \in S
                 PROVE  k \in S
    BY DEF ClosedDownwards
  <2>2. nodes[k].parent # NoParent
    BY <2>1, NodeFacts DEF NodeIds, NoParent
  <2> QED
    BY <2>1, <2>2, ParentPathIsOnPath
<1>3. m \in S
  BY <1>1, <1>2 DEF Cascade
<1> QED
  BY <1>3

-----------------------------------------------------------------------------
(* Theorems *)

\* The chain's state stays well formed under every sequence of operations.
THEOREM TypeCorrect == Spec => []TypeOK
  BY Invariance, PTL DEF IInv

\* The tree never exceeds maxDepth or maxFanout.
THEOREM TreeStaysWithinCeilings == Spec => []TreeWithinCeilings
  BY Invariance, PTL DEF IInv

\* Cascade revocation: below a revoked node nothing is ever live.
THEOREM RevocationIsTransitive == Spec => []RevocationReachesSubtree
<1>1. IInv => RevocationReachesSubtree
  BY ClosureReachesSubtree
<1> QED
  BY <1>1, Invariance, PTL

\* A banned agent holds no live node, whatever the order of bans,
\* delegations and revocations.
THEOREM BannedAgentsStayOut == Spec => []BannedAgentsHoldNothing
  BY Invariance, PTL DEF IInv

\* Monotonic attenuation along every path, for every authority a root may be
\* issued and a delegation may request, with authorities written over.
THEOREM AttenuationIsMonotonic == Spec => []AncestorAttenuation
<1>1. IInv => AncestorAttenuation
  BY ParentsComposeToAncestors
<1> QED
  BY <1>1, Invariance, PTL

\* No delegation from an expired node, at whatever time it is attempted.
THEOREM IssuedInTime == Spec => []IssuedWithinParentLife
  BY Invariance, PTL DEF IInv

\* A revocation leaves every node outside its targets' subtrees as it was.
THEOREM RevocationIsConfined == Spec => NoCollateralRevocation
<1> DEFINE fresh == revoked' \ revoked
           Confined == \/ fresh = {}
                       \/ \E target \in fresh : \A m \in fresh : target \in AncestorsOrSelf(m)
                       \/ \E agent \in banned' : \A m \in fresh :
                              \E target \in AncestorsOrSelf(m) : nodes[target].agent = agent
<1>1. IInv /\ [Next]_chainVars => [Confined]_chainVars
  <2> SUFFICES ASSUME IInv, Next
               PROVE  Confined
    OBVIOUS
  <2>0. TypeOK /\ TreeWithinCeilings
    BY DEF IInv
  <2>1. ASSUME NEW n \in NodeIds, RevokeNode(n)
        PROVE  Confined
    <3>1. fresh = Cascade({n})
      BY <2>1, CascadeFacts DEF RevokeNode
    <3>2. \A m \in fresh : n \in fresh /\ n \in AncestorsOrSelf(m)
      <4>1. SUFFICES ASSUME NEW m \in Cascade({n})
                     PROVE  n \in Cascade({n}) /\ n \in AncestorsOrSelf(m)
        BY <3>1
      <4>2. n \notin revoked /\ n \in AncestorsOrSelf(m)
        BY <2>0, CascadeIsBelowTargets
      <4>3. n \in revoked \cup Cascade({n})
        BY CascadeFacts
      <4> QED
        BY <4>2, <4>3
    <3> QED
      BY <3>2
  <2>2. ASSUME NEW agent \in Agents, RevokeAgent(agent)
        PROVE  Confined
    <3>1. HeldBy(agent) \in SUBSET NodeIds /\ fresh \subseteq Cascade(HeldBy(agent))
      BY <2>2 DEF RevokeAgent, HeldBy
    <3>2. \A m \in fresh : \E target \in AncestorsOrSelf(m) : nodes[target].agent = agent
      BY <2>0, <3>1, CascadeIsBelowTargets DEF HeldBy
    <3>3. agent \in banned'
      BY <2>2 DEF RevokeAgent
    <3> QED
      BY <3>2, <3>3
  <2>3. CASE UNCHANGED revoked
    BY <2>3
  <2> QED
    BY <2>1, <2>2, <2>3 DEF Next, AddChild, Tick, StrayMutation
<1> QED
  BY <1>1, Invariance, PTL DEF Spec, NoCollateralRevocation

\* The re-assertion after the meet (addChild) never refuses a delegation.
THEOREM ReassertionNeverFires ==
    Spec => [](\A p \in NodeIds, request \in Requests :
                   ~MeetRefused(nodes[p].auth, request) =>
                       IsNarrowerThan(Meet(nodes[p].auth, request), nodes[p].auth))
<1>1. IInv => \A p \in NodeIds, request \in Requests :
                  ~MeetRefused(nodes[p].auth, request) =>
                      IsNarrowerThan(Meet(nodes[p].auth, request), nodes[p].auth)
  <2> SUFFICES ASSUME IInv, NEW p \in NodeIds, NEW request \in Requests,
                      ~MeetRefused(nodes[p].auth, request)
               PROVE  IsNarrowerThan(Meet(nodes[p].auth, request), nodes[p].auth)
    OBVIOUS
  <2>1. IsAuthority(nodes[p].auth) /\ IsAuthority(request)
    BY NodeFacts, AuthoritiesAssumption DEF IInv
  <2> QED
    BY <2>1, MeetNarrower
<1> QED
  BY <1>1, Invariance, PTL

-----------------------------------------------------------------------------
(***************************************************************************)
(* The chain implements the delegation tree.                               *)
(***************************************************************************)

\* A node's depth is the number of nodes above it; delegationError compares the
\* depth, and the delegation tree counts the line.
LinesFitDepth ==
    \A n \in NodeIds :
        /\ IsFiniteSet(AncestorsOrSelf(n))
        /\ Cardinality(AncestorsOrSelf(n)) = nodes[n].depth + 1

TreeInv == IInv /\ LinesFitDepth

-----------------------------------------------------------------------------
(* Lines *)

\* The line of the abstract tree is the path in the chain.
LEMMA LineIsPath ==
    ASSUME NEW n
    PROVE  Issued!Line(n) = AncestorsOrSelf(n)
  BY DEF Issued!Line, Issued!ClosedUp, Issued!Nodes, Issued!Top, IssuedTree,
         AncestorsOrSelf, ClosedUpwards, NoParent

\* A path goes on to the parent of each node on it.
LEMMA PathIsClosed ==
    ASSUME TypeOK, TreeWithinCeilings, NEW n \in NodeIds
    PROVE  ClosedUpwards(AncestorsOrSelf(n))
<1> SUFFICES ASSUME NEW b \in AncestorsOrSelf(n), nodes[b].parent # NoParent
             PROVE  nodes[b].parent \in AncestorsOrSelf(n)
  BY DEF ClosedUpwards
<1>1. nodes[b].parent \in NodeIds
  BY ParentIsNode DEF AncestorsOrSelf
<1> QED
  BY <1>1 DEF AncestorsOrSelf, ClosedUpwards

\* What is closed in a tree that has grown is closed in the tree it grew from.
LEMMA ClosedBeforeGrowth ==
    ASSUME TypeOK, TreeWithinCeilings, NodeIds \subseteq NodeIds',
           \A n \in NodeIds : nodes'[n].parent = nodes[n].parent,
           NEW S, ClosedUpwards(S)'
    PROVE  ClosedUpwards(S \cap NodeIds)
<1> SUFFICES ASSUME NEW b \in S \cap NodeIds, nodes[b].parent # NoParent
             PROVE  nodes[b].parent \in S \cap NodeIds
  BY DEF ClosedUpwards
<1>1. nodes[b].parent \in NodeIds
  BY ParentIsNode
<1>2. nodes'[b].parent \in S
  BY DEF ClosedUpwards
<1> QED
  BY <1>1, <1>2

\* A node that joins the tree leaves every path as it was.
LEMMA PathsStay ==
    ASSUME TypeOK, TreeWithinCeilings, NodeIds \subseteq NodeIds',
           \A n \in NodeIds : nodes'[n].parent = nodes[n].parent,
           NEW n \in NodeIds
    PROVE  AncestorsOrSelf(n)' = AncestorsOrSelf(n)
<1>1. ASSUME NEW a \in AncestorsOrSelf(n)
      PROVE  a \in AncestorsOrSelf(n)'
  <2>1. ASSUME NEW S \in SUBSET NodeIds', n \in S, ClosedUpwards(S)'
        PROVE  a \in S
    <3>1. ClosedUpwards(S \cap NodeIds)
      BY <2>1, ClosedBeforeGrowth
    <3> QED
      BY <1>1, <2>1, <3>1 DEF AncestorsOrSelf
  <2>2. a \in NodeIds'
    BY DEF AncestorsOrSelf
  <2> QED
    BY <2>1, <2>2 DEF AncestorsOrSelf
<1>2. ASSUME NEW a \in AncestorsOrSelf(n)'
      PROVE  a \in AncestorsOrSelf(n)
  <2>1. ASSUME NEW S \in SUBSET NodeIds, n \in S, ClosedUpwards(S)
        PROVE  a \in S
    <3>1. S \in SUBSET NodeIds' /\ ClosedUpwards(S)'
      BY <2>1 DEF ClosedUpwards
    <3> QED
      BY <1>2, <2>1, <3>1 DEF AncestorsOrSelf
  <2>2. NodeIds \in SUBSET NodeIds /\ ClosedUpwards(NodeIds)
    BY ParentIsNode DEF ClosedUpwards
  <2>3. a \in NodeIds
    BY <2>1, <2>2
  <2> QED
    BY <2>1, <2>3 DEF AncestorsOrSelf
<1> QED
  BY <1>1, <1>2

\* The path of a new child is its parent's, and itself.
LEMMA ChildPath ==
    ASSUME TypeOK, TreeWithinCeilings, NodeIds \subseteq NodeIds',
           \A n \in NodeIds : nodes'[n].parent = nodes[n].parent,
           NEW p \in NodeIds, NEW c \in NodeIds' \ NodeIds, nodes'[c].parent = p,
           NodeIds \subseteq Nat \ {NoParent}
    PROVE  AncestorsOrSelf(c)' = AncestorsOrSelf(p) \cup {c}
<1>0. p # NoParent
  OBVIOUS
<1>1. ASSUME NEW a \in AncestorsOrSelf(p) \cup {c}
      PROVE  a \in AncestorsOrSelf(c)'
  <2>1. a \in NodeIds'
    BY DEF AncestorsOrSelf
  <2>2. ASSUME NEW S \in SUBSET NodeIds', c \in S, ClosedUpwards(S)'
        PROVE  a \in S
    <3>1. p \in S
      BY <1>0, <2>2 DEF ClosedUpwards
    <3>2. ClosedUpwards(S \cap NodeIds)
      BY <2>2, ClosedBeforeGrowth
    <3> QED
      BY <2>2, <3>1, <3>2 DEF AncestorsOrSelf
  <2> QED
    BY <2>1, <2>2 DEF AncestorsOrSelf
<1>2. ASSUME NEW a \in AncestorsOrSelf(c)'
      PROVE  a \in AncestorsOrSelf(p) \cup {c}
  <2> DEFINE S == AncestorsOrSelf(p) \cup {c}
  <2>1. PICK P \in SUBSET NodeIds : P = AncestorsOrSelf(p) /\ p \in P /\ ClosedUpwards(P)
    BY SelfIsOnPath, PathIsClosed DEF AncestorsOrSelf
  <2>2. P \cup {c} \in SUBSET NodeIds' /\ ClosedUpwards(P \cup {c})'
    BY <2>1 DEF ClosedUpwards
  <2>3. a \in P \cup {c}
    BY <1>2, <2>2 DEF AncestorsOrSelf
  <2> QED
    BY <2>1, <2>3
<1> QED
  BY <1>1, <1>2

-----------------------------------------------------------------------------
(* The invariant *)

\* The root's line is the root, at depth 0.
LEMMA LinesFitInit ==
    ASSUME Init
    PROVE  LinesFitDepth
<1>1. NodeIds = {1} /\ nodes[1].depth = 0
  BY DEF Init, NodeIds, NewNode
<1>2. AncestorsOrSelf(1) = {1}
  BY <1>1, SelfIsOnPath DEF AncestorsOrSelf
<1>3. IsFiniteSet({1}) /\ Cardinality({1}) = 1
  BY FS_Singleton
<1> QED
  BY <1>1, <1>2, <1>3 DEF LinesFitDepth

\* A child's line is its parent's and itself; nothing else changes a line.
LEMMA LinesFitNext ==
    ASSUME TreeInv, [Next]_chainVars
    PROVE  LinesFitDepth'
<1>0. TypeOK /\ TreeWithinCeilings /\ LinesFitDepth
  BY DEF TreeInv, IInv
<1>1. ASSUME NEW p \in NodeIds, NEW agent \in Agents, NEW request \in Requests,
             AddChild(p, agent, request)
      PROVE  LinesFitDepth'
  <2>1. PICK c : c = Len(nodes) + 1
    OBVIOUS
  <2>2. /\ Len(nodes) \in Nat
        /\ NodeIds' = NodeIds \cup {c} /\ c \notin NodeIds
        /\ \A n \in NodeIds : nodes'[n] = nodes[n]
        /\ nodes'[c].parent = p /\ nodes'[c].depth = nodes[p].depth + 1
        /\ NodeIds \subseteq Nat \ {NoParent}
    <3>1. /\ NodeIds' = NodeIds \cup {c}
          /\ \A n \in NodeIds : nodes'[n] = nodes[n]
          /\ nodes'[c] = NewNode(p, agent, nodes[p].depth + 1, now, Meet(nodes[p].auth, request))
      BY <1>0, <1>1, <2>1, AddChildFacts
    <3>2. Len(nodes) \in Nat /\ c \notin NodeIds /\ NodeIds \subseteq Nat \ {NoParent}
      BY <1>0, <2>1, NodeFacts DEF NodeIds, NoParent
    <3> QED
      BY <3>1, <3>2 DEF NewNode
  <2>3. ASSUME NEW n \in NodeIds
        PROVE  AncestorsOrSelf(n)' = AncestorsOrSelf(n)
    BY <1>0, <2>2, PathsStay
  <2>4. AncestorsOrSelf(c)' = AncestorsOrSelf(p) \cup {c} /\ c \notin AncestorsOrSelf(p)
    BY <1>0, <2>2, ChildPath DEF AncestorsOrSelf
  <2>5. /\ IsFiniteSet(AncestorsOrSelf(p)) /\ nodes[p].depth \in Nat
        /\ Cardinality(AncestorsOrSelf(p)) = nodes[p].depth + 1
    BY <1>0, NodeFacts DEF LinesFitDepth
  <2>6. /\ IsFiniteSet(AncestorsOrSelf(p) \cup {c})
        /\ Cardinality(AncestorsOrSelf(p) \cup {c}) = Cardinality(AncestorsOrSelf(p)) + 1
    BY <2>4, <2>5, FS_AddElement
  <2> QED
    BY <1>0, <2>2, <2>3, <2>4, <2>5, <2>6 DEF LinesFitDepth
<1>2. ASSUME NodeIds' = NodeIds,
             \A n \in NodeIds : nodes'[n].parent = nodes[n].parent /\ nodes'[n].depth = nodes[n].depth
      PROVE  LinesFitDepth'
  <2>1. ASSUME NEW n \in NodeIds
        PROVE  AncestorsOrSelf(n)' = AncestorsOrSelf(n)
    BY <1>0, <1>2, PathsStay
  <2> QED
    BY <1>0, <1>2, <2>1 DEF LinesFitDepth
<1>3. ASSUME NEW n \in NodeIds, NEW a \in StrayAuthorities, StrayMutation(n, a)
      PROVE  LinesFitDepth'
  BY <1>0, <1>2, <1>3, StrayMutationFacts
<1>4. CASE UNCHANGED nodes
  BY <1>2, <1>4 DEF NodeIds
<1> QED
  BY <1>1, <1>3, <1>4 DEF Next, RevokeNode, RevokeAgent, Tick, chainVars

\* The invariant the refinement is read off.
LEMMA TreeInvariance ==
    /\ Init => TreeInv
    /\ TreeInv /\ [Next]_chainVars => TreeInv'
  BY InitInv, NextInv, LinesFitInit, LinesFitNext DEF TreeInv

-----------------------------------------------------------------------------
(* The refinement *)

\* A root alone is a tree of one node.
LEMMA InitIsTree ==
    ASSUME Init
    PROVE  Issued!TreeInit
<1>1. NodeIds = {1} /\ nodes[1].parent = NoParent /\ revoked = {}
  BY DEF Init, NodeIds, NewNode
<1>2. IssuedTree = [n \in {1} |-> [parent |-> Issued!Top, grant |-> IssuedTree[n].grant]]
  BY <1>1 DEF IssuedTree, Issued!Top, NoParent
<1>3. DOMAIN IssuedTree = {1}
  BY <1>1 DEF IssuedTree
<1> QED
  BY <1>1, <1>2, <1>3 DEF Issued!TreeInit, Issued!Nodes

\* What delegationError and the meet ask of the parent holds of the line: the
\* parent's sealed authority stands for the line's, the parent's life for the
\* line's, the parent's depth for the line's length.
LEMMA ChildFitsLine ==
    ASSUME TreeInv, NEW p \in NodeIds, NEW agent \in Agents, NEW request \in Requests,
           AddChild(p, agent, request), NEW c, c = Len(nodes) + 1
    PROVE  /\ NodeIds' = NodeIds \cup {c} /\ c \notin NodeIds
           /\ \A n \in NodeIds : nodes'[n] = nodes[n]
           /\ nodes'[c].parent = p /\ nodes'[c].seal = nodes'[c].auth
           /\ UNCHANGED revoked
           /\ AncestorsOrSelf(p) \cap revoked = {}
           /\ \A a \in AncestorsOrSelf(p) : IsNarrowerThan(nodes'[c].seal, nodes[a].seal)
           /\ Cardinality(AncestorsOrSelf(p)) <= MaxDepth
           /\ IsFiniteSet(Children(p)) /\ Cardinality(Children(p)) < MaxFanout
<1> DEFINE granted == Meet(nodes[p].auth, request)
<1>0. IInv /\ TypeOK /\ TreeWithinCeilings /\ LinesFitDepth
  BY DEF TreeInv, IInv
<1>1. /\ NodeIds' = NodeIds \cup {c}
      /\ \A n \in NodeIds : nodes'[n] = nodes[n]
      /\ nodes'[c] = NewNode(p, agent, nodes[p].depth + 1, now, granted)
      /\ IsAuthority(granted) /\ IsNarrowerThan(granted, nodes[p].auth)
      /\ p \notin revoked /\ nodes[p].auth = nodes[p].seal
      /\ nodes[p].depth + 1 <= MaxDepth
      /\ Cardinality(Children(p)) + 1 <= MaxFanout
      /\ UNCHANGED revoked
  BY <1>0, AddChildFacts
<1>2. Len(nodes) \in Nat /\ c \notin NodeIds
  BY <1>0, NodeFacts DEF NodeIds
<1> HIDE DEF granted
<1>3. nodes'[c].parent = p /\ nodes'[c].seal = granted /\ nodes'[c].auth = granted
  BY <1>1 DEF NewNode
<1>4. AncestorsOrSelf(p) \cap revoked = {}
  BY <1>0, <1>1, ClosureReachesSubtree DEF RevocationReachesSubtree
<1>5. ASSUME NEW a \in AncestorsOrSelf(p)
      PROVE  IsNarrowerThan(granted, nodes[a].seal)
  <2>1. a \in NodeIds
    BY DEF AncestorsOrSelf
  <2>2. IsNarrowerThan(nodes[p].seal, nodes[a].seal)
    BY <1>0, ParentsComposeToAncestors DEF AncestorAttenuation
  <2>3. IsAuthority(nodes[p].seal) /\ IsAuthority(nodes[a].seal)
    BY <1>0, <2>1, NodeFacts
  <2>4. IsNarrowerThan(granted, nodes[p].seal)
    BY <1>1
  <2> QED
    BY <1>1, <2>2, <2>3, <2>4, NarrowerTransitive
<1>6. Cardinality(AncestorsOrSelf(p)) <= MaxDepth
  BY <1>0, <1>1 DEF LinesFitDepth
<1>7. IsFiniteSet(Children(p)) /\ Cardinality(Children(p)) < MaxFanout
  <2>1. Children(p) \subseteq 1 .. Len(nodes)
    BY DEF Children, NodeIds
  <2>2. IsFiniteSet(Children(p))
    <3>1. IsFiniteSet(1 .. Len(nodes))
      BY <1>2, FS_Interval
    <3> QED
      BY <2>1, <3>1, FS_Subset
  <2>3. Cardinality(Children(p)) \in Nat
    BY <2>2, FS_CardinalityType
  <2> QED
    BY <1>1, <2>2, <2>3, LimitsAssumption
<1> QED
  BY <1>1, <1>2, <1>3, <1>4, <1>5, <1>6, <1>7

\* addChild grows the tree.
LEMMA AddChildGrows ==
    ASSUME TreeInv, NEW p \in NodeIds, NEW agent \in Agents, NEW request \in Requests,
           AddChild(p, agent, request)
    PROVE  Issued!TreeNext
<1>1. PICK c : c = Len(nodes) + 1
  OBVIOUS
<1>2. /\ NodeIds' = NodeIds \cup {c} /\ c \notin NodeIds
      /\ \A n \in NodeIds : nodes'[n] = nodes[n]
      /\ nodes'[c].parent = p /\ UNCHANGED revoked
      /\ AncestorsOrSelf(p) \cap revoked = {}
      /\ \A a \in AncestorsOrSelf(p) : IsNarrowerThan(nodes'[c].seal, nodes[a].seal)
      /\ Cardinality(AncestorsOrSelf(p)) <= MaxDepth
      /\ Cardinality(Children(p)) < MaxFanout
  BY <1>1, ChildFitsLine
<1>3. Issued!Line(p) = AncestorsOrSelf(p)
  BY LineIsPath
<1>4. Issued!Granted(p) = Children(p)
  BY DEF Issued!Granted, Issued!Nodes, IssuedTree, Children
<1>5. \A a \in AncestorsOrSelf(p) : IssuedTree[a].grant = nodes[a].seal
  BY DEF AncestorsOrSelf, IssuedTree
<1>6. /\ IssuedTree' = [m \in NodeIds \cup {c} |->
                            IF m = c THEN [parent |-> p, grant |-> nodes'[c].seal]
                            ELSE IssuedTree[m]]
      /\ DOMAIN IssuedTree = NodeIds /\ DOMAIN IssuedTree' = NodeIds \cup {c}
      /\ IssuedTree'[c].grant = nodes'[c].seal
  BY <1>2 DEF IssuedTree
<1>7. Issued!Grow(c, p, IssuedTree'[c].grant)
  <2>1. /\ Issued!Cardinality(Issued!Line(p)) <= MaxDepth
        /\ Issued!Cardinality(Issued!Granted(p)) < MaxFanout
    BY <1>2, <1>3, <1>4 DEF Issued!Cardinality, Cardinality
  <2>2. Issued!LineLives(p)
    BY <1>2, <1>3 DEF Issued!LineLives
  <2>3. \A a \in Issued!Line(p) : IsNarrowerThan(IssuedTree'[c].grant, IssuedTree[a].grant)
    BY <1>2, <1>3, <1>5, <1>6
  <2> QED
    BY <1>2, <1>6, <2>1, <2>2, <2>3 DEF Issued!Grow, Issued!Nodes
<1> QED
  BY <1>2, <1>6, <1>7 DEF Issued!TreeNext, Issued!Nodes

\* Revoking kills a set of nodes, and all below them with it.
LEMMA RevocationKills ==
    ASSUME IInv', revoked \subseteq revoked', revoked' \subseteq NodeIds,
           UNCHANGED nodes
    PROVE  [Issued!TreeNext]_Issued!treeVars
<1>1. PICK S \in SUBSET (NodeIds \ revoked) : revoked' = revoked \cup S
  <2>1. revoked' = revoked \cup (revoked' \ revoked)
    OBVIOUS
  <2> QED
    BY <2>1
<1>2. IssuedTree' = IssuedTree /\ DOMAIN IssuedTree = NodeIds
  BY DEF IssuedTree, NodeIds
<1>3. \A n \in NodeIds : IssuedTree[n].parent \in revoked' => n \in revoked'
  BY DEF IInv, RevokedClosed, IssuedTree, NodeIds
<1>4. Issued!Kill(S)
  BY <1>1, <1>2, <1>3 DEF Issued!Kill, Issued!Nodes
<1> QED
  BY <1>1, <1>2, <1>4 DEF Issued!TreeNext, Issued!Nodes

\* The other steps leave what was issued and what was revoked alone.
LEMMA ChainStepsTree ==
    ASSUME TreeInv, [Next]_chainVars
    PROVE  [Issued!TreeNext]_Issued!treeVars
<1>0. TypeOK /\ IInv'
  BY NextInv DEF TreeInv, IInv
<1>1. ASSUME NEW p \in NodeIds, NEW agent \in Agents, NEW request \in Requests,
             AddChild(p, agent, request)
      PROVE  Issued!TreeNext
  BY <1>1, AddChildGrows
<1>2. ASSUME NEW T \in SUBSET NodeIds, revoked' = revoked \cup Cascade(T), UNCHANGED nodes
      PROVE  [Issued!TreeNext]_Issued!treeVars
  <2>1. revoked \subseteq revoked' /\ revoked' \subseteq NodeIds
    BY <1>0, <1>2, CascadeFacts DEF TypeOK
  <2> QED
    BY <1>0, <1>2, <2>1, RevocationKills
<1>3. ASSUME NEW n \in NodeIds, NEW a \in StrayAuthorities, StrayMutation(n, a)
      PROVE  UNCHANGED Issued!treeVars
  <2>1. /\ NodeIds' = NodeIds /\ UNCHANGED revoked
        /\ \A m \in NodeIds : nodes'[m].parent = nodes[m].parent /\ nodes'[m].seal = nodes[m].seal
    BY <1>0, <1>3, StrayMutationFacts
  <2> QED
    BY <2>1 DEF Issued!treeVars, IssuedTree
<1>4. ASSUME UNCHANGED <<nodes, revoked>>
      PROVE  UNCHANGED Issued!treeVars
  BY <1>4 DEF Issued!treeVars, IssuedTree, NodeIds
<1>5. ASSUME NEW n \in NodeIds, RevokeNode(n)
      PROVE  [Issued!TreeNext]_Issued!treeVars
  BY <1>2, <1>5 DEF RevokeNode
<1>6. ASSUME NEW agent \in Agents, RevokeAgent(agent)
      PROVE  [Issued!TreeNext]_Issued!treeVars
  <2>1. HeldBy(agent) \in SUBSET NodeIds
    BY DEF HeldBy
  <2> QED
    BY <1>2, <1>6, <2>1 DEF RevokeAgent
<1> QED
  BY <1>1, <1>3, <1>4, <1>5, <1>6 DEF Next, Tick, chainVars

\* The chain is a delegation tree: nothing it issues exceeds any authority on
\* the line above, or is issued below a revoked node, though delegationError
\* and the meet look at the parent alone.
THEOREM ChainRefinesTree == Spec => ChainImplementsTree
<1>1. Init => TreeInv /\ Issued!TreeInit
  BY TreeInvariance, InitIsTree
<1>2. TreeInv /\ [Next]_chainVars => TreeInv'
  BY TreeInvariance
<1>3. TreeInv /\ [Next]_chainVars => [Issued!TreeNext]_Issued!treeVars
  BY ChainStepsTree
<1> QED
  BY <1>1, <1>2, <1>3, PTL DEF Spec, ChainImplementsTree, Issued!TreeSpec

=============================================================================
