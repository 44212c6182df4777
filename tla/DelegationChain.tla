--------------------------- MODULE DelegationChain ---------------------------
(***************************************************************************)
(* The live delegation graph (class Chain, src/src/chain.ts): a tree of    *)
(* nodes, the grow-only sets of revoked nodes and banned agents, and the   *)
(* clock that ages authorities.  Node ids are issued in order, so a node   *)
(* is its index in nodes.                                                  *)
(*                                                                         *)
(* A node's seal is the HMAC of the authority it was issued; it is         *)
(* modelled by that authority.  Children are read off the parent links:    *)
(* addChild writes both in one synchronous step.                           *)
(***************************************************************************)
EXTENDS Authority, FiniteSets

CONSTANTS
    Agents,             \* agent names
    RootAuthorities,    \* what a root may be issued
    Requests,           \* what a delegation may ask for
    StrayAuthorities,   \* what a stray in-process mutation may leave in a node
    MaxDepth,           \* Chain.maxDepth (6 by default)
    MaxFanout,          \* Chain.maxFanout (16 by default)
    MaxNodes,           \* bound: nodes in the tree
    MaxTime             \* bound: ticks of the clock

ASSUME AuthoritiesAssumption ==
    \A a \in RootAuthorities \cup Requests \cup StrayAuthorities : IsAuthority(a)
ASSUME LimitsAssumption == MaxDepth \in Nat /\ MaxFanout \in Nat
ASSUME BoundsAssumption == MaxNodes \in Nat \ {0}

VARIABLES
    nodes,      \* the sequence of nodes, the root first
    revoked,    \* revokedNodes: grow-only
    banned,     \* bannedAgents: grow-only
    now         \* the injectable clock, in whole seconds

chainVars == <<nodes, revoked, banned, now>>

NoParent == 0
NodeIds == 1 .. Len(nodes)

NewNode(parent, agent, depth, issuedAt, authority) ==
    [parent |-> parent, agent |-> agent, depth |-> depth,
     issuedAt |-> issuedAt, auth |-> authority, seal |-> authority]

Children(n) == {m \in NodeIds : nodes[m].parent = n}
HeldBy(agent) == {n \in NodeIds : nodes[n].agent = agent}

VerifyIntegrity(n) == nodes[n].auth = nodes[n].seal

\* isExpired: of the node itself.  A parent's age is not looked at.
IsExpired(n) ==
    /\ nodes[n].auth.ttl # NoTtl
    /\ now - nodes[n].issuedAt > nodes[n].auth.ttl

\* Mutants: one of the refusals is missing.
DelegatesToBanned(p, agent) == p \in NodeIds \ revoked /\ nodes[p].depth < MaxDepth
DelegatesExpired(p, agent) ==
    p \in NodeIds \ revoked /\ agent \notin banned /\ VerifyIntegrity(p)

\* delegationError(p, agent) = null.
MayDelegate(p, agent) ==
    /\ p \in NodeIds
    /\ p \notin revoked
    /\ agent \notin banned
    /\ VerifyIntegrity(p)
    /\ ~IsExpired(p)
    /\ nodes[p].depth + 1 <= MaxDepth
    /\ Cardinality(Children(p)) + 1 <= MaxFanout

\* Mutant: the walk takes the siblings of what it reaches.
ClosedSideways(S) ==
    \A m \in NodeIds \ revoked :
        nodes[m].parent \in S \cup {nodes[s].parent : s \in S} => m \in S

ClosedDownwards(S) ==
    \A m \in NodeIds \ revoked : nodes[m].parent \in S => m \in S

\* Mutant: only the direct children of a target.
CascadeOneLevel(targets) ==
    {m \in NodeIds \ revoked : m \in targets \/ nodes[m].parent \in targets}

\* What revoke reaches from a set of targets: it walks down from each and
\* stops at a node that is revoked already.  The least set that holds the
\* unrevoked targets and is closed under unrevoked children.
Cascade(targets) ==
    {m \in NodeIds \ revoked :
        \A S \in SUBSET NodeIds :
            targets \ revoked \subseteq S /\ ClosedDownwards(S) => m \in S}

-----------------------------------------------------------------------------

Init ==
    /\ \E agent \in Agents, a \in RootAuthorities :
          nodes = <<NewNode(NoParent, agent, 0, 0, a)>>
    /\ revoked = {}
    /\ banned = {}
    /\ now = 0

\* Mutant: depth counted down from the root's.
AddChildDepthDown(p, agent, request) ==
    /\ Len(nodes) < MaxNodes
    /\ MayDelegate(p, agent)
    /\ nodes' = Append(nodes, NewNode(p, agent, nodes[p].depth - 1, now,
                                      Meet(nodes[p].auth, request)))
    /\ UNCHANGED <<revoked, banned, now>>

\* The meet, and the re-assertion that it is narrower than the parent's.
AddChild(p, agent, request) ==
    LET granted == Meet(nodes[p].auth, request)
    IN  /\ Len(nodes) < MaxNodes
        /\ MayDelegate(p, agent)
        /\ ~MeetRefused(nodes[p].auth, request)
        /\ IsNarrowerThan(granted, nodes[p].auth)
        /\ nodes' = Append(nodes, NewNode(p, agent, nodes[p].depth + 1, now, granted))
        /\ UNCHANGED <<revoked, banned, now>>

RevokeNode(n) ==
    /\ revoked' = revoked \cup Cascade({n})
    /\ UNCHANGED <<nodes, banned, now>>

\* The loop over the agent's nodes revokes each that is not revoked yet; the
\* union of those walks is the cascade of all of them.
RevokeAgent(agent) ==
    /\ banned' = banned \cup {agent}
    /\ revoked' = revoked \cup Cascade(HeldBy(agent))
    /\ UNCHANGED <<nodes, now>>

Tick ==
    /\ now < MaxTime
    /\ now' = now + 1
    /\ UNCHANGED <<nodes, revoked, banned>>

\* A bug elsewhere in the process writes into a node's authority object.
StrayMutation(n, a) ==
    /\ nodes' = [nodes EXCEPT ![n].auth = a]
    /\ UNCHANGED <<revoked, banned, now>>

Next ==
    \/ \E p \in NodeIds, agent \in Agents, request \in Requests :
          AddChild(p, agent, request)
    \/ \E n \in NodeIds : RevokeNode(n)
    \/ \E agent \in Agents : RevokeAgent(agent)
    \/ Tick
    \/ \E n \in NodeIds, a \in StrayAuthorities : StrayMutation(n, a)

Spec == Init /\ [][Next]_chainVars

-----------------------------------------------------------------------------
(* Properties *)

\* The path from n to the root, n included.
ClosedUpwards(S) ==
    \A a \in S : nodes[a].parent # NoParent => nodes[a].parent \in S

AncestorsOrSelf(n) ==
    {a \in NodeIds : \A S \in SUBSET NodeIds : n \in S /\ ClosedUpwards(S) => a \in S}

AuthoritiesIn(tree) ==
    {tree[n].auth : n \in 1 .. Len(tree)} \cup {tree[n].seal : n \in 1 .. Len(tree)}

NodeType(authorities) ==
    [parent : Nat, agent : Agents, depth : Nat, issuedAt : Nat,
     auth : authorities, seal : authorities]

\* The chain's state is well formed, and every authority in it, granted or
\* written over, is one.
TypeOK ==
    /\ nodes \in Seq(NodeType(AuthoritiesIn(nodes))) /\ nodes # <<>>
    /\ \A a \in AuthoritiesIn(nodes) : IsAuthority(a)
    /\ revoked \subseteq NodeIds
    /\ banned \subseteq Agents
    /\ now \in Nat

\* The tree keeps to the ceilings that bound it: every node but the root has
\* an earlier node as parent, one level up; no path is longer than maxDepth
\* and no node has more than maxFanout children.
TreeWithinCeilings ==
    \A n \in NodeIds :
        /\ nodes[n].parent < n
        /\ nodes[n].parent = NoParent <=> n = 1
        /\ nodes[n].parent # NoParent => nodes[n].depth = nodes[nodes[n].parent].depth + 1
        /\ nodes[n].depth <= MaxDepth
        /\ Cardinality(Children(n)) <= MaxFanout

\* Revoking a node revokes its whole subtree, whatever was revoked or added
\* before and in whatever order: no node survives below a revoked one.
\* revoke relies on it when it stops at a node that is revoked already.
RevocationReachesSubtree ==
    \A n \in NodeIds : AncestorsOrSelf(n) \cap revoked # {} => n \in revoked

\* An agent revoked by name holds no live node, and never gets one again.
BannedAgentsHoldNothing ==
    \A n \in NodeIds : nodes[n].agent \in banned => n \in revoked

\* Monotonic attenuation: what a node was issued is narrower than what every
\* ancestor was issued, though a node's own authority may since have been
\* written over; such a node has delegated nothing it was not issued.
AncestorAttenuation ==
    \A n \in NodeIds : \A a \in AncestorsOrSelf(n) :
        IsNarrowerThan(nodes[n].seal, nodes[a].seal)

\* The chain is a delegation tree of the authorities it issued: each is
\* narrower than all above it, none is issued below a revoked node, lines and
\* branches keep to the ceilings, and a revocation is downward closed.
NeverActs(grant, act) == FALSE
IssuedTree == [n \in NodeIds |-> [parent |-> nodes[n].parent, grant |-> nodes[n].seal]]

Issued == INSTANCE DelegationTree
    WITH Narrower <- IsNarrowerThan, Allows <- NeverActs,
         MaxLine <- MaxDepth, MaxBranches <- MaxFanout,
         tree <- IssuedTree, dead <- revoked, acts <- <<>>

ChainImplementsTree == Issued!TreeSpec

\* A node is only ever issued within its parent's time to live.
IssuedWithinParentLife ==
    \A n \in NodeIds \ {1} :
        LET p == nodes[nodes[n].parent]
        IN  p.seal.ttl # NoTtl => nodes[n].issuedAt - p.issuedAt <= p.seal.ttl

\* A revocation takes the subtree of its target, or the subtrees of the nodes
\* its agent holds, and no other node.
NoCollateralRevocation ==
    [][LET fresh == revoked' \ revoked
       IN  \/ fresh = {}
           \/ \E target \in fresh : \A m \in fresh : target \in AncestorsOrSelf(m)
           \/ \E agent \in banned' : \A m \in fresh :
                  \E target \in AncestorsOrSelf(m) : nodes[target].agent = agent]_chainVars
=============================================================================
