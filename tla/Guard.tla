-------------------------------- MODULE Guard --------------------------------
(***************************************************************************)
(* The runtime object an application holds (class Guard, src/src/guard.ts) *)
(* over one chain: it decides, meters, revokes, tracks open calls, and     *)
(* writes the ledger the offline verifier reads.                           *)
(*                                                                         *)
(* An operation runs to its end without interleaving: the library has no   *)
(* await (GuardSinks lets sinks call back into it).  What may go wrong     *)
(* inside it is modelled where it shows:                                   *)
(*   - the entry cannot be hashed (a value RFC 8785 cannot hold), or no    *)
(*     call id can be drawn: nothing is appended;                          *)
(*   - the entry is committed and the file or a sink then fails: the       *)
(*     operation throws CommittedAuditError after the commit.              *)
(* Operations whose state does not depend on the second are one action.    *)
(***************************************************************************)
EXTENDS DelegationChain, BundleVerifier

CONSTANTS
    SchemaVersion,      \* 1, or 2 for execution binding
    CheckedScopes,      \* scopes an application checks
    Contexts,           \* contexts it declares
    Captures,           \* how it observes the calls it makes
    Params,             \* hashes of call parameters
    CallKeys,           \* the ceiling keys that are call limits
    StrictMetering,     \* BOOLEAN
    StrikesOn,          \* an enabled StrikePolicy is attached
    StrikeLimit,        \* StrikePolicy.n
    StrikeMode,         \* "same_scope" or "total"
    Passthroughs,       \* BOOLEAN: an adapter lets unlisted tools through
    Unhashable,         \* the agent names no entry can hold (a lone surrogate)
    MaxLedger           \* bound: entries on the ledger

ASSUME GuardAssumption ==
    /\ SchemaVersion \in {1, 2}
    /\ StrictMetering \in BOOLEAN /\ StrikesOn \in BOOLEAN /\ Passthroughs \in BOOLEAN
    /\ StrikeLimit \in Nat \ {0}
    /\ StrikeMode \in {"same_scope", "total"}
    /\ Unhashable \subseteq Agents

VARIABLES
    ledger,     \* AuditLog.entries
    held,       \* the nodes whose Guard the application holds
    complete,   \* nodes marked finished
    calls,      \* the call meter, per node and key
    strikes,    \* denials counted, per node and scope
    issued,     \* call ids drawn so far
    pending,    \* <<node, call>>: allowed calls that await an outcome
    outcomed    \* call ids that have an outcome

bindingVars == <<complete, issued, pending, outcomed>>
guardVars == <<ledger, held, calls, strikes, bindingVars>>
allVars == <<chainVars, guardVars>>

IsV2 == SchemaVersion = 2
AnyScope == <<Wildcard>>    \* the "*" of StrikePolicy.key in mode total

\* AuditLog.append, while the bound leaves room for the entries.
Write(entries) ==
    /\ Len(ledger) + Len(entries) <= MaxLedger
    /\ ledger' = ledger \o entries

\* A fresh call id per decision on a version 2 chain: 16 random bytes.
NextCall == IF IsV2 THEN issued + 1 ELSE NoCall
\* Mutant: the next decision gets the same id.
DrawCallAgain == issued' = issued
DrawCall == issued' = IF IsV2 THEN issued + 1 ELSE issued

-----------------------------------------------------------------------------
(* Policy evaluation *)

CallLimits(n) == DOMAIN nodes[n].auth.ceilings \cap CallKeys

\* autoMeter: the limits the caller left undeclared are filled from the meter,
\* this call included when it is one they count.
AutoMetered(n, ctx) ==
    {k \in CallLimits(n) : nodes[n].auth.ceilings[k].field \notin DOMAIN ctx}
Counted(n, scope, ctx) ==
    {k \in AutoMetered(n, ctx) : AppliesToScope(nodes[n].auth.ceilings[k], scope)}

\* Mutant: the limit is asked about the calls made so far, not this one.
FillMetersSoFar(n, scope, ctx) ==
    LET fields == {nodes[n].auth.ceilings[k].field : k \in AutoMetered(n, ctx)}
        keyOf(f) == CHOOSE k \in AutoMetered(n, ctx) : nodes[n].auth.ceilings[k].field = f
    IN  [f \in DOMAIN ctx \cup fields |->
            IF f \in DOMAIN ctx THEN ctx[f] ELSE Number(calls[n][keyOf(f)])]

FillMeters(n, scope, ctx) ==
    LET fields == {nodes[n].auth.ceilings[k].field : k \in AutoMetered(n, ctx)}
        keyOf(f) == CHOOSE k \in AutoMetered(n, ctx) : nodes[n].auth.ceilings[k].field = f
        count(k) == calls[n][k] + (IF k \in Counted(n, scope, ctx) THEN 1 ELSE 0)
    IN  [f \in DOMAIN ctx \cup fields |->
            IF f \in DOMAIN ctx THEN ctx[f] ELSE Number(count(keyOf(f)))]

Count(meter, n, keys) ==
    [meter EXCEPT ![n] = [k \in CallKeys |-> @[k] + (IF k \in keys THEN 1 ELSE 0)]]
Uncount(meter, n, keys) ==
    [meter EXCEPT ![n] = [k \in CallKeys |-> IF k \in keys /\ @[k] > 0 THEN @[k] - 1 ELSE @[k]]]

\* Under strict metering a call flagged as metered declares every quantity the
\* node holds a metered ceiling on: one whose key starts with "max_", which is
\* how the three numeric classes are keyed.
DeclaresMetered(n, ctx) ==
    \A k \in DOMAIN nodes[n].auth.ceilings :
        nodes[n].auth.ceilings[k].type = "Max" => nodes[n].auth.ceilings[k].field \in DOMAIN ctx

\* Mutant: the seal is not checked.
EvaluateUnsealed(n, scope, ctx, metered) ==
    /\ n \notin revoked
    /\ ~IsExpired(n)
    /\ Permits(nodes[n].auth, scope, ctx)

Evaluate(n, scope, ctx, metered) ==
    /\ VerifyIntegrity(n)
    /\ n \notin revoked
    /\ ~IsExpired(n)
    /\ StrictMetering /\ metered => DeclaresMetered(n, ctx)
    /\ Permits(nodes[n].auth, scope, ctx)

\* check: a finished node of a version 2 chain is refused first.
Decide(n, scope, ctx, metered) ==
    /\ ~(IsV2 /\ n \in complete)
    /\ Evaluate(n, scope, FillMeters(n, scope, ctx), metered)

PendingFor(n) == {p[2] : p \in {q \in pending : q[1] = n}}
PendingAtKill(killed) == IF IsV2 THEN UNION {PendingFor(n) : n \in killed} ELSE {}

-----------------------------------------------------------------------------
(* issue, delegate *)

GuardInit ==
    /\ Init
    /\ nodes[1].agent \notin Unhashable
    /\ ledger = <<RootEntry(1, nodes[1].agent, nodes[1].auth)>>
    /\ held = {1}
    /\ complete = {}
    /\ calls = [n \in 1 .. MaxNodes |-> [k \in CallKeys |-> 0]]
    /\ strikes = [n \in 1 .. MaxNodes |-> [s \in CheckedScopes \cup {AnyScope} |-> 0]]
    /\ issued = 0
    /\ pending = {}
    /\ outcomed = {}

\* Mutant: the spawn records the parent's authority.
SpawnOfParent(n) ==
    SpawnEntry(n, Len(nodes) + 1, nodes'[Len(nodes) + 1].agent, nodes[n].auth)

\* The node the chain has just created, as the spawn entry tells it.
SpawnOf(n) ==
    LET child == Len(nodes) + 1
    IN  SpawnEntry(n, child, nodes'[child].agent, nodes'[child].auth)

Delegate(n, agent, request) ==
    /\ agent \notin Unhashable
    /\ AddChild(n, agent, request)
    /\ Write(<<SpawnOf(n)>>)
    /\ held' = held \cup {Len(nodes')}
    /\ UNCHANGED <<calls, strikes, bindingVars>>

\* The spawn is committed, its persistence fails, and delegate throws: the
\* node lives, and nobody holds its Guard.
DelegateUnpersisted(n, agent, request) ==
    /\ agent \notin Unhashable
    /\ AddChild(n, agent, request)
    /\ Write(<<SpawnOf(n)>>)
    /\ UNCHANGED <<held, calls, strikes, bindingVars>>

\* The spawn entry cannot be hashed (for the agent's name, or for the task's
\* text): addChild has run, and stays.
DelegateUnhashable(n, agent, request) ==
    /\ AddChild(n, agent, request)
    /\ UNCHANGED guardVars

\* addChild throws AuthorityError.
DelegateRefused(n, agent, request) ==
    /\ agent \notin Unhashable
    /\ ~MayDelegate(n, agent) \/ MeetRefused(nodes[n].auth, request)
    /\ Write(<<SpawnDeniedEntry(n, agent)>>)
    /\ UNCHANGED <<chainVars, held, calls, strikes, bindingVars>>

-----------------------------------------------------------------------------
(* check *)

AwaitsOutcome(capture) == IsV2 /\ capture # PreHookOnly
RegisterPending(n, call) == pending' = pending \cup {<<n, call>>}

\* As far as the append, whose sinks see the entry before the call is pending.
CommitAllow(n, scope, ctx, metered, capture, params) ==
    LET counted == Counted(n, scope, ctx)
    IN  /\ IsV2 \/ (capture = PreHookOnly /\ params = NoParams)
        /\ Decide(n, scope, ctx, metered)
        /\ calls' = Count(calls, n, counted)
        /\ Write(<<AllowEntry(n, scope, FillMeters(n, scope, ctx), NextCall, capture,
                              params, NoPolicy, counted)>>)
        /\ DrawCall
        /\ UNCHANGED <<chainVars, held, strikes, complete, outcomed>>

CheckAllowed(n, scope, ctx, metered, capture, params) ==
    /\ CommitAllow(n, scope, ctx, metered, capture, params)
    /\ IF AwaitsOutcome(capture) THEN RegisterPending(n, NextCall) ELSE UNCHANGED pending

\* A denial that is not counted: no policy, or the node is revoked already.
CheckDenied(n, scope, ctx, metered) ==
    /\ ~StrikesOn \/ n \in revoked
    /\ ~Decide(n, scope, ctx, metered)
    /\ Write(<<DenyEntry(n, scope, NextCall, Policy)>>)
    /\ DrawCall
    /\ UNCHANGED <<chainVars, held, calls, strikes, complete, pending, outcomed>>

StrikeKey(scope) == IF StrikeMode = "same_scope" THEN scope ELSE AnyScope
AddStrike(n, scope) == strikes' = [strikes EXCEPT ![n][StrikeKey(scope)] = @ + 1]

\* Mutant: revokes one denial late.
StrikesOutLate(n, scope) == strikes[n][StrikeKey(scope)] + 1 > StrikeLimit

StrikesOut(n, scope) == strikes[n][StrikeKey(scope)] + 1 >= StrikeLimit

CheckStruck(n, scope, ctx, metered) ==
    /\ StrikesOn /\ n \notin revoked
    /\ ~StrikesOut(n, scope)
    /\ ~Decide(n, scope, ctx, metered)
    /\ AddStrike(n, scope)
    /\ Write(<<DenyEntry(n, scope, NextCall, Policy)>>)
    /\ DrawCall
    /\ UNCHANGED <<chainVars, held, calls, complete, pending, outcomed>>

\* The strike that revokes the node.
CheckStruckOut(n, scope, ctx, metered) ==
    LET killed == Cascade({n})
    IN  /\ StrikesOn /\ n \notin revoked
        /\ StrikesOut(n, scope)
        /\ ~Decide(n, scope, ctx, metered)
        /\ AddStrike(n, scope)
        /\ RevokeNode(n)
        /\ Write(<<DenyEntry(n, scope, NextCall, Policy),
                   KillEntry(n, killed, PendingAtKill(killed))>>)
        /\ DrawCall
        /\ UNCHANGED <<held, calls, complete, pending, outcomed>>

\* The deny is committed, its persistence fails, and check throws before it
\* comes to the strikes; where none are counted nothing differs.
CheckDeniedUnpersisted(n, scope, ctx, metered) ==
    /\ StrikesOn /\ n \notin revoked
    /\ ~Decide(n, scope, ctx, metered)
    /\ Write(<<DenyEntry(n, scope, NextCall, PolicyUnwritten)>>)
    /\ DrawCall
    /\ UNCHANGED <<chainVars, held, calls, strikes, complete, pending, outcomed>>

\* Mutant: the meters keep what the check added.
KeepMeters(n, scope, ctx, metered) ==
    calls' = Count(calls, n, IF Decide(n, scope, ctx, metered)
                             THEN Counted(n, scope, ctx) ELSE {})

\* Nothing of the check is committed: the meters it moved are put back.
RestoreMeters(n, scope, ctx, metered) ==
    LET counted == IF Decide(n, scope, ctx, metered) THEN Counted(n, scope, ctx) ELSE {}
    IN  calls' = Uncount(Count(calls, n, counted), n, counted)

\* No call id can be drawn, or the tool's name cannot be hashed.
CheckNotCommitted(n, scope, ctx, metered) ==
    /\ RestoreMeters(n, scope, ctx, metered)
    /\ UNCHANGED <<chainVars, ledger, held, strikes, bindingVars>>

\* A context the ledger cannot hold is recorded as a denial, by recordDenial,
\* under a call id of its own; it is no strike.
CheckUnrepresentable(n, scope, ctx, metered) ==
    /\ RestoreMeters(n, scope, ctx, metered)
    /\ Write(<<DenyEntry(n, scope, NextCall, Unrepresentable)>>)
    /\ DrawCall
    /\ UNCHANGED <<chainVars, held, strikes, complete, pending, outcomed>>

\* recordDenial: an adapter's own refusal.
RecordDenial(n, scope) ==
    /\ Write(<<DenyEntry(n, scope, NextCall, AdapterSays)>>)
    /\ DrawCall
    /\ UNCHANGED <<chainVars, held, calls, strikes, complete, pending, outcomed>>

\* recordPassthrough: an ungated call; whether the node is revoked or finished
\* is not asked.
RecordPassthrough(n, scope, ctx) ==
    /\ Passthroughs
    /\ Write(<<AllowEntry(n, scope, ctx, NextCall, PreHookOnly, NoParams, Unlisted, {})>>)
    /\ DrawCall
    /\ UNCHANGED <<chainVars, held, calls, strikes, complete, pending, outcomed>>

-----------------------------------------------------------------------------
(* recordOutcome, complete, revoke *)

\* Mutants: an outcome that may be repeated, one that stays pending, and one
\* that is looked for on the reporting node only.
ReportAgain(n, call, params) ==
    /\ IsV2
    /\ Write(<<OutcomeEntry(n, call, params)>>)
    /\ UNCHANGED <<chainVars, held, calls, strikes, complete, issued>>
LeavePending(call) == outcomed' = outcomed \cup {call} /\ UNCHANGED pending
ResolveOwnNode(call) ==
    LET reported == ledger'[Len(ledger')].node
    IN  /\ outcomed' = outcomed \cup {call}
        /\ pending' = pending \ {<<reported, call>>}

\* Any Guard of the chain may report any call id, and each one once.
CommitOutcome(n, call, params) ==
    /\ IsV2
    /\ call \notin outcomed
    /\ Write(<<OutcomeEntry(n, call, params)>>)
    /\ UNCHANGED <<chainVars, held, calls, strikes, complete, issued>>

\* What follows the append: markOutcomed, resolvePending.
ResolveCall(call) ==
    /\ outcomed' = outcomed \cup {call}
    /\ pending' = {p \in pending : p[2] # call}

RecordOutcome(n, call, params) == CommitOutcome(n, call, params) /\ ResolveCall(call)

\* Mutant: a node finishes whatever is pending.
CompleteAnyway(n) ==
    /\ n \notin complete
    /\ complete' = complete \cup {n}
    /\ Write(<<DoneEntry(n)>>)
    /\ UNCHANGED <<chainVars, held, calls, strikes, issued, pending, outcomed>>

Complete(n) ==
    /\ n \notin complete
    /\ IsV2 => PendingFor(n) = {}
    /\ complete' = complete \cup {n}
    /\ Write(<<DoneEntry(n)>>)
    /\ UNCHANGED <<chainVars, held, calls, strikes, issued, pending, outcomed>>

\* Mutant: the kill lists its target only.
RevokeListsTarget(n, target) ==
    /\ RevokeNode(target)
    /\ Write(<<KillEntry(target, {target} \ revoked, {})>>)
    /\ UNCHANGED <<held, calls, strikes, bindingVars>>

Revoke(n, target) ==
    LET killed == Cascade({target})
    IN  /\ RevokeNode(target)
        /\ Write(<<KillEntry(target, killed, PendingAtKill(killed))>>)
        /\ UNCHANGED <<held, calls, strikes, bindingVars>>

RevokeByName(n, agent) ==
    LET killed == Cascade(HeldBy(agent))
    IN  /\ agent \notin Unhashable
        /\ RevokeAgent(agent)
        /\ Write(<<KillEntry(n, killed, PendingAtKill(killed))>>)
        /\ UNCHANGED <<held, calls, strikes, bindingVars>>

\* The kill cannot be hashed: the agent is banned and its nodes are revoked.
RevokeByNameUnhashable(agent) ==
    /\ agent \in Unhashable
    /\ RevokeAgent(agent)
    /\ UNCHANGED guardVars

-----------------------------------------------------------------------------

DelegationStep(n) ==
    \E agent \in Agents, request \in Requests :
        \/ Delegate(n, agent, request)
        \/ DelegateUnpersisted(n, agent, request)
        \/ DelegateUnhashable(n, agent, request)
        \/ DelegateRefused(n, agent, request)

CheckStep(n) ==
    \E scope \in CheckedScopes, ctx \in Contexts, metered \in {FALSE, StrictMetering} :
        \/ \E capture \in Captures, params \in Params :
              CheckAllowed(n, scope, ctx, metered, capture, params)
        \/ CheckDenied(n, scope, ctx, metered)
        \/ CheckStruck(n, scope, ctx, metered)
        \/ CheckStruckOut(n, scope, ctx, metered)
        \/ CheckDeniedUnpersisted(n, scope, ctx, metered)
        \/ CheckNotCommitted(n, scope, ctx, metered)
        \/ CheckUnrepresentable(n, scope, ctx, metered)
        \/ RecordPassthrough(n, scope, ctx)

LifecycleStep(n) ==
    \/ \E scope \in CheckedScopes : RecordDenial(n, scope)
    \/ \E call \in 1 .. issued, params \in Params : RecordOutcome(n, call, params)
    \/ Complete(n)
    \/ \E target \in NodeIds : Revoke(n, target)
    \/ \E agent \in Agents : RevokeByName(n, agent) \/ RevokeByNameUnhashable(agent)

EnvironmentStep ==
    /\ Tick \/ \E n \in NodeIds, a \in StrayAuthorities : StrayMutation(n, a)
    /\ UNCHANGED guardVars

GuardNext ==
    \/ \E n \in held : DelegationStep(n) \/ CheckStep(n) \/ LifecycleStep(n)
    \/ EnvironmentStep

GuardSpec == GuardInit /\ [][GuardNext]_allVars
-----------------------------------------------------------------------------
(* Properties *)

EventNames == {"root", "spawn", "spawn_denied", "allow", "deny", "outcome", "done", "kill"}

\* The guard's own state is well formed: ids name nodes of the graph, and the
\* counters are naturals.
GuardTypeOK ==
    /\ \A i \in DOMAIN ledger : ledger[i].event \in EventNames
    /\ held \subseteq NodeIds /\ complete \subseteq held
    /\ NodeIds \subseteq 1 .. MaxNodes
    /\ calls \in [1 .. MaxNodes -> [CallKeys -> Nat]]
    /\ strikes \in [1 .. MaxNodes -> [CheckedScopes \cup {AnyScope} -> Nat]]
    /\ issued \in Nat
    /\ pending \subseteq held \X (1 .. issued)
    /\ outcomed \subseteq 1 .. issued

\* Whatever the guard's callers do, in whatever order, and whichever writes
\* fail, the ledger it leaves verifies offline: one root, every spawn narrower
\* than a parent that was alive, every authorized allow within the authority
\* of a node that was alive.  No honest chain is refused.
LedgerVerifies == Verifies(ledger)

\* What the ledger's entries alone define, read back as a delegation tree with
\* the acts it authorized.  The verifier asks about a spawn's parent and about
\* an allow's node, and takes as killed what each kill lists; the tree asks
\* for the authority, and the life, of the whole line above.
ParentOn(node) == ledger[DefinitionOf(ledger, node)].parent
LedgerTree ==
    [n \in NodesOn(ledger) |->
        [parent |-> IF ledger[DefinitionOf(ledger, n)].event = "root" THEN NoParent
                    ELSE ParentOn(n),
         grant |-> AuthorityOn(ledger, n)]]
AllowsAct(authority, act) == Permits(authority, act.scope, act.ctx)

Recorded == INSTANCE DelegationTree
    WITH Narrower <- IsNarrowerThan, Allows <- AllowsAct,
         MaxLine <- MaxDepth, MaxBranches <- MaxFanout,
         tree <- LedgerTree, dead <- KilledOn(ledger) \cap NodesOn(ledger),
         acts <- [i \in Gated(ledger) |-> ledger[i]]

LedgerImplementsTree == Recorded!TreeSpec

\* Reading the ledger back gives the live chain: the same nodes, agents, parents
\* and authorities, the same revoked and the same finished ones.  A node whose
\* spawn could not be written is missing, and nobody can act for it.
Orphans == NodeIds \ NodesOn(ledger)

LedgerShowsLiveState ==
    LET view == DelegationGraph(ledger)
    IN  /\ \A n \in DOMAIN view :
              /\ n \in NodeIds
              /\ view[n] = [agent |-> nodes[n].agent, parent |-> nodes[n].parent,
                           scopes |-> nodes[n].seal.scopes,
                           revoked |-> n \in revoked, complete |-> n \in complete]
              /\ AuthorityOn(ledger, n) = nodes[n].seal
        /\ held \cap Orphans = {}
        /\ \A n \in Orphans : Children(n) = {}

\* The call meter is the number of allows on the ledger that were counted
\* against the limit, however many checks failed half way.
CountedOn(n, k) ==
    {i \in Entries(ledger, "allow") : ledger[i].node = n /\ k \in ledger[i].counted}

MetersCountAllows ==
    \A n \in held, k \in CallKeys : calls[n][k] = Cardinality(CountedOn(n, k))

\* No node is allowed more metered calls than its limit says.
CallLimitHolds ==
    \A n \in held : \A k \in DOMAIN nodes[n].seal.ceilings \cap CallKeys :
        Cardinality(CountedOn(n, k)) <= nodes[n].seal.ceilings[k].max

\* Whoever writes the ledger may add a spawn or an allow of his own: if the
\* ledger still verifies, what he added is within the whole line above it,
\* though no check looks further than one parent.
Additions ==
    {SpawnEntry(p, Len(nodes) + 1, nodes[1].agent, authority) :
        p \in NodesOn(ledger), authority \in RootAuthorities \cup Requests}
    \cup {AllowEntry(n, scope, ctx, NextCall, PreHookOnly, NoParams, NoPolicy, {}) :
            n \in NodesOn(ledger), scope \in CheckedScopes, ctx \in Contexts}

AcceptedAdditionsStayInLine ==
    \A entry \in Additions :
        LET L == Append(ledger, entry) IN Verifies(L) => EntryInLine(L, Len(L))

-----------------------------------------------------------------------------
(* Execution binding: version 2 chains *)

Promised(i) == ledger[i].event = "allow" /\ ledger[i].capture # PreHookOnly
OutcomeBefore(call, i) == \E j \in OutcomesOf(ledger, call) : j < i

\* An outcome the application reported wrongly: for a call that was never
\* allowed, through another node's Guard, or of other parameters.
Misreported ==
    \E i \in Entries(ledger, "outcome") :
        LET call == ledger[i].call
        IN  \/ call \notin Calls(ledger)
            \/ ledger[AllowOf(ledger, call)].node # ledger[i].node
            \/ ParamsMismatch(ledger, call)

\* What the running chain calls closed out: every node finished or revoked,
\* nothing pending, and every call that was only seen before it ran observed
\* after all.
ClosedOut ==
    /\ \A n \in NodesOn(ledger) : n \in complete \cup revoked /\ PendingFor(n) = {}
    /\ \A i \in Entries(ledger, "allow") : ~Promised(i) => ledger[i].call \in outcomed
=============================================================================
