--------------------------- MODULE BundleVerifier ---------------------------
(***************************************************************************)
(* The ledger's entries (src/src/audit.ts, written by src/src/guard.ts)    *)
(* and what the offline verifier decides from them alone                   *)
(* (src/src/evidence.ts): one root, monotonicity, containment and, on a    *)
(* schema version 2 chain, execution binding.  A ledger L is a sequence;   *)
(* an entry's seq is its position.  Entries are well formed: the JSON      *)
(* shape checks are not modelled.                                          *)
(***************************************************************************)
EXTENDS Authority

NoCall == 0             \* no call_id: a schema version 1 chain
NoParams == 0           \* no params hash on the entry
Nobody == 0             \* the parent of a root
PreHookOnly == "pre_hook_only"
Wrapper == "wrapper_sync"   \* any capture that promises an observed outcome
NoPolicy == "none"
Unlisted == "unlisted"
\* Who refused: the evaluation, the ledger that cannot hold the context, or an
\* adapter before any evaluation.
Policy == "policy"
PolicyUnwritten == "unwritten"  \* the same entry, of a check that threw
Unrepresentable == "context"
AdapterSays == "adapter"

\* The entries.  A root's authority and a spawn's granted are one field here.
\* counted is what the call meter counted for an allow: it is not on the
\* ledger, and no check reads it.
RootEntry(node, agent, authority) ==
    [event |-> "root", node |-> node, agent |-> agent, authority |-> authority]
SpawnEntry(parent, node, agent, granted) ==
    [event |-> "spawn", parent |-> parent, node |-> node, agent |-> agent,
     authority |-> granted]
SpawnDeniedEntry(parent, agent) ==
    [event |-> "spawn_denied", parent |-> parent, agent |-> agent]
AllowEntry(node, scope, ctx, call, capture, params, policy, counted) ==
    [event |-> "allow", node |-> node, scope |-> scope, ctx |-> ctx, call |-> call,
     capture |-> capture, params |-> params, policy |-> policy, counted |-> counted]
DenyEntry(node, scope, call, reason) ==
    [event |-> "deny", node |-> node, scope |-> scope, call |-> call, reason |-> reason]
OutcomeEntry(node, call, params) ==
    [event |-> "outcome", node |-> node, call |-> call, params |-> params]
DoneEntry(node) == [event |-> "done", node |-> node]
KillEntry(target, revoked, pending) ==
    [event |-> "kill", target |-> target, revoked |-> revoked, pending |-> pending]

Entries(L, event) == {i \in DOMAIN L : L[i].event = event}

-----------------------------------------------------------------------------
(* The tree the ledger defines *)

Definitions(L) == {i \in DOMAIN L : L[i].event \in {"root", "spawn"}}
DefinedBefore(L, i) == {L[j].node : j \in {k \in Definitions(L) : k < i}}
NodesOn(L) == {L[j].node : j \in Definitions(L)}

\* A node is defined once: every check reads its first definition.
DefinitionOf(L, node) ==
    LET named == {i \in Definitions(L) : L[i].node = node}
    IN  CHOOSE i \in named : \A j \in named : i <= j
AuthorityOn(L, node) == L[DefinitionOf(L, node)].authority

\* noteRevoked: the nodes a kill lists, and no others.
KilledBefore(L, i) == UNION {L[j].revoked : j \in {k \in Entries(L, "kill") : k < i}}
KilledOn(L) == UNION {L[j].revoked : j \in Entries(L, "kill")}

\* delegationGraph, the view a reviewer renders, but for its counts of allows
\* and denials: what comes after a node's definition is told of it.
DelegationGraph(L) ==
    [n \in NodesOn(L) |->
        LET i == DefinitionOf(L, n)
            killed == UNION {L[j].revoked : j \in {k \in Entries(L, "kill") : i < k}}
            finished == {L[j].node : j \in {k \in Entries(L, "done") : i < k}}
        IN  [agent |-> L[i].agent,
             parent |-> IF L[i].event = "root" THEN Nobody ELSE L[i].parent,
             scopes |-> L[i].authority.scopes,
             revoked |-> n \in killed,
             complete |-> n \in finished]]

OneRoot(L) == \E i \in Entries(L, "root") : Entries(L, "root") = {i}

\* Mutant: a spawn is not compared with its parent's authority.
SpawnHasLiveParent(L, i) ==
    LET p == L[i].parent
    IN  p \in DefinedBefore(L, i) /\ p \notin KilledBefore(L, i)

\* Every spawn: a node not defined before, from a parent defined earlier and
\* not killed earlier, that is granted no more than the parent holds.
SpawnIsMonotone(L, i) ==
    LET p == L[i].parent
    IN  /\ p \in DefinedBefore(L, i)
        /\ p \notin KilledBefore(L, i)
        /\ IsNarrowerThan(L[i].authority, AuthorityOn(L, p))

Monotonicity(L) ==
    \A i \in Definitions(L) :
        /\ L[i].node \notin DefinedBefore(L, i)
        /\ L[i].event = "spawn" => SpawnIsMonotone(L, i)

\* Every allow the chain authorized: on a node defined earlier, not killed
\* earlier, whose authority permits it.  An allow under a policy is ungated.
Gated(L) == {i \in Entries(L, "allow") : L[i].policy = NoPolicy}

Containment(L) ==
    \A i \in Gated(L) :
        /\ L[i].node \in DefinedBefore(L, i)
        /\ L[i].node \notin KilledBefore(L, i)
        /\ Permits(AuthorityOn(L, L[i].node), L[i].scope, L[i].ctx)

Verifies(L) == OneRoot(L) /\ Monotonicity(L) /\ Containment(L)

\* What those checks are for, though they look at one spawn and its parent and
\* at one allow and its node: every node within all that stand above it, and
\* every authorized allow permitted by each of them.
ParentsWithin(L, S) ==
    \A i \in Entries(L, "spawn") : L[i].node \in S => L[i].parent \in S
LineOn(L, node) ==
    {a \in NodesOn(L) : \A S \in SUBSET NodesOn(L) : node \in S /\ ParentsWithin(L, S) => a \in S}

EntryInLine(L, i) ==
    /\ i \in Definitions(L) =>
          \A a \in LineOn(L, L[i].node) : IsNarrowerThan(L[i].authority, AuthorityOn(L, a))
    /\ i \in Gated(L) =>
          \A a \in LineOn(L, L[i].node) : Permits(AuthorityOn(L, a), L[i].scope, L[i].ctx)

-----------------------------------------------------------------------------
(* Execution binding *)

Decisions(L) == Entries(L, "allow") \cup Entries(L, "deny")
Calls(L) == {L[i].call : i \in Entries(L, "allow")}

\* A later allow under the same call id replaces the earlier one; a later
\* outcome is reported as a duplicate and left out.
AllowOf(L, call) ==
    LET named == {i \in Entries(L, "allow") : L[i].call = call}
    IN  CHOOSE i \in named : \A j \in named : j <= i
OutcomesOf(L, call) == {i \in Entries(L, "outcome") : L[i].call = call}
FirstOutcomeOf(L, call) ==
    LET named == OutcomesOf(L, call)
    IN  CHOOSE i \in named : \A j \in named : i <= j

DuplicateCallId(L) ==
    \E i, j \in Decisions(L) : i # j /\ L[i].call = L[j].call
DuplicateOutcome(L) ==
    \E i, j \in Entries(L, "outcome") : i # j /\ L[i].call = L[j].call
OutcomeWithoutAllow(L) ==
    \E i \in Entries(L, "outcome") : L[i].call \notin Calls(L)

\* The outcome a call is bound to: on the allow's node, after it.
SameNode(L, call) == L[FirstOutcomeOf(L, call)].node = L[AllowOf(L, call)].node
InOrder(L, call) == FirstOutcomeOf(L, call) > AllowOf(L, call)
ParamsMismatch(L, call) ==
    LET authorized == L[AllowOf(L, call)].params
        invoked == L[FirstOutcomeOf(L, call)].params
    IN  authorized # NoParams /\ invoked # NoParams /\ authorized # invoked

Reported(L) == {call \in Calls(L) : OutcomesOf(L, call) # {}}
Observed(L) == {call \in Reported(L) : SameNode(L, call) /\ InOrder(L, call)}

BindingFailure(L) ==
    \/ DuplicateCallId(L)
    \/ DuplicateOutcome(L)
    \/ OutcomeWithoutAllow(L)
    \/ \E call \in Reported(L) :
          ~SameNode(L, call) \/ ~InOrder(L, call) \/ ParamsMismatch(L, call)

\* Not observed: unobserved when none was promised, unaccounted otherwise.
Unobserved(L) ==
    {call \in Calls(L) \ Observed(L) : L[AllowOf(L, call)].capture = PreHookOnly}
Unaccounted(L) == Calls(L) \ (Observed(L) \cup Unobserved(L))
UnaccountedAt(L, node) == {call \in Unaccounted(L) : L[AllowOf(L, call)].node = node}

Finalized(L) == {L[i].node : i \in Entries(L, "done")}

Lifecycle(L, node) ==
    CASE node \in Finalized(L) -> "finalized"
      [] node \in KilledOn(L) \ Finalized(L) ->
            IF UnaccountedAt(L, node) = {} THEN "revoked" ELSE "revoked_with_pending"
      [] OTHER -> "in_progress"

BindingFailed(L) ==
    \/ BindingFailure(L)
    \/ \E node \in NodesOn(L) \cap Finalized(L) : UnaccountedAt(L, node) # {}

Aggregate(L) ==
    CASE BindingFailed(L) -> "failed"
      [] ~BindingFailed(L) /\
            ( \/ Unobserved(L) # {}
              \/ \E node \in NodesOn(L) :
                    Lifecycle(L, node) \in {"in_progress", "revoked_with_pending"} )
            -> "incomplete"
      [] OTHER -> "clean"
=============================================================================
