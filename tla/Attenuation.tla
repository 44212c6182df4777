----------------------------- MODULE Attenuation -----------------------------
(***************************************************************************)
(* A delegation path: the authority of a root, and of each node below it,  *)
(* every one the meet of its parent's and of what was requested            *)
(* (Chain.addChild, src/src/chain.ts).  One branch of the tree is enough   *)
(* to state what the authority operators promise; DelegationChain has the  *)
(* tree.                                                                   *)
(***************************************************************************)
EXTENDS Authority

CONSTANTS
    Roots,          \* the authorities a root may be issued with
    Requests,       \* the authorities that may be requested in a delegation
    CheckedScopes,  \* the scopes actions are checked under
    Contexts,       \* the request contexts actions declare
    MaxPath         \* bound: the longest path explored

\* What the constructors of Authority and of the ceilings accept.
ASSUME AuthoritiesAssumption == \A a \in Roots \cup Requests : IsAuthority(a)

VARIABLES
    path,           \* the authorities from the root to the current node
    asked           \* asked[i] is the request path[i + 1] was cut from

vars == <<path, asked>>

Held == path[Len(path)]

Init ==
    /\ \E root \in Roots : path = <<root>>
    /\ asked = <<>>

\* addChild's attenuation, refused when a ceiling pair has no common narrowing.
\* Its structural refusals are DelegationChain's, and its re-assertion that the
\* child is narrower than its parent is the property below.
AddChild(request) ==
    /\ Len(path) < MaxPath
    /\ ~MeetRefused(Held, request)
    /\ path' = Append(path, Meet(Held, request))
    /\ asked' = Append(asked, request)

Next == \E request \in Requests : AddChild(request)

Spec == Init /\ [][Next]_vars

-----------------------------------------------------------------------------
(* Properties *)

PermittedBy(a) == {q \in CheckedScopes \X Contexts : Permits(a, q[1], q[2])}

\* addChild's re-assertion (chain.ts 201) never fires, and the relation an
\* offline verifier evaluates between a node and its parent also relates the
\* node to every ancestor: the checks along a path compose.
AttenuationComposes ==
    \A i, j \in 1 .. Len(path) : i < j => IsNarrowerThan(path[j], path[i])

\* No action a node is permitted lies outside what any ancestor is permitted,
\* or outside what was requested for it or for any node above it.
ContainedInAncestors ==
    \A i \in 1 .. Len(path) - 1 :
        PermittedBy(Held) \subseteq PermittedBy(path[i]) \cap PermittedBy(asked[i])

\* The meet gives away nothing it need not: a child is permitted whatever
\* both its parent and its request are permitted.  A request under a parent
\* whose constraint is unknown is denied everything, by design.
MeetIsGreatest ==
    Len(path) > 1 =>
        PermittedBy(path[Len(path) - 1]) \cap PermittedBy(asked[Len(asked)])
            \subseteq PermittedBy(Held)

\* The subsumption relation, which is all a verifier evaluates, implies
\* containment of what is permitted, also for an authority that was not cut
\* by a meet (one read from a token or from a ledger).
SubsumptionSound ==
    \A a \in Requests :
        IsNarrowerThan(a, Held) => PermittedBy(a) \subseteq PermittedBy(Held)

\* The contract of Ceiling.narrow (ceilings.ts 71-73): "the result's admitted
\* set is a subset of both inputs'".
NarrowAdmitsSubsetOfBoth ==
    Len(path) > 1 =>
        LET parent == path[Len(path) - 1].ceilings
            request == asked[Len(asked)].ceilings
        IN  \A k \in DOMAIN parent \cap DOMAIN request, s \in CheckedScopes,
               ctx \in Contexts :
                Admits(Held.ceilings[k], s, ctx) =>
                    Admits(parent[k], s, ctx) /\ Admits(request[k], s, ctx)
=============================================================================
