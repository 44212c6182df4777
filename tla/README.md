# A TLA+ verification project for attenu-guard (TypeScript)

attenu-guard gives each agent of a delegation tree an *authority*: a set of
scopes, a set of typed ceilings, a time to live. A child's authority is the meet
of its parent's and of what was requested, so authority only shrinks. A `Guard`
checks every action against it, keeps meters, strikes and open calls, revokes
subtrees, and writes a hash-chained ledger. An offline verifier decides from the
ledger alone whether what happened stayed within what was granted; another one
verifies chains of signed delegation tokens.

This directory holds TLA+ modules translated from `src/src/*.ts`, TLC
configurations that check them, and theorems that TLAPS checks. Paths below are
those of the repository under `src/`, so the implementation is `src/src`.

## 1. Inventory

| component | source | state | operations | status |
|---|---|---|---|---|
| ceilings | `ceilings.ts` | none (values) | `permits`, `narrow`, `subsumes`, `fromWire`, `registerCeiling` | partly |
| authority | `authority.ts` | none (values) | `meet`, `isNarrowerThan`, `permits`, `toWire`/`fromWire`, totals of the -02 | partly |
| chain | `chain.ts` | nodes, revoked nodes, banned agents, clock, meters, strikes, pending and outcomed calls | `addRoot`, `addChild`, `revoke`, `revokeAgent`, meters, pending registry | partly |
| guard | `guard.ts`, `strikes.ts` | finished nodes, the sequence clock; the rest is the chain's and the ledger's | `issue`, `delegate`, `check`, `wouldAllow`, `wouldDelegate`, `recordDenial`, `recordPassthrough`, `recordOutcome`, `complete`, `revoke`, `revokeAgent` | partly |
| audit log | `audit.ts` | entries, previous hash, the file, the sinks | constructor, `append`, `anchor`, `verify`, `verifyAnchor` | partly |
| verifier | `evidence.ts` | none (a fold over a bundle) | `verifyBundle`, `executionBinding`, `integrityBreak`, `exportBundle`, `delegationGraph`, `denials` | partly |
| observer envelopes | `evidence.ts` 858-2000 | none | sign over an entry, carry, score against a trust set | partly |
| langgraph adapter | `adapters/langgraph.ts` | per call: the arguments frozen at authorisation, the call id | `guardNode`, `guardTool`, `guardTools`, `delegateTo` | partly |
| wire tokens | `wire.ts` | none | `load`, `VerifiedChain.permits`, signers | partly |
| -02 profile | `draft02.ts` | none | scope forms, `Min`, `Rank`, cumulative ceilings | partly |
| canonical JSON, parameter hashes | `canonical.ts`, `params.ts` | none | serialise, commit | partly (what `commit` refuses) |
| reasons | `reasons.ts` | none | captures, policies, codes | partly |
| command line, rendering, surface | `cli.ts`, `display.ts`, `index.ts`, `version.ts` | none | print | not modelled |

**How they interact.** A `Guard` is one node's handle on a `Chain` and an
`AuditLog` that all the chain's Guards share. `delegate` calls `addChild`, which
calls `meet` and re-asserts `isNarrowerThan`, and then appends a `spawn`.
`check` evaluates `Authority.permits`, moves the chain's meters, appends, and
registers the call as pending. `revoke` walks the chain and then appends a
`kill`. `AuditLog.append` commits in memory first; the file and the sinks
come after and may fail, which surfaces as `CommittedAuditError` after the
commit. A wrapper of the adapter calls `check`, awaits the tool's body, and calls
`recordOutcome`. The verifiers share `isNarrowerThan` and `permits` with the
running chain, and nothing else: one reads the ledger, the other the tokens.

**What is hard.** The library is synchronous, so its operations do not
interleave inside, with two exceptions: a sink may call back, into the log or
into a Guard, while the operation whose entry it was given has not finished; and
a wrapped call is suspended while its body runs. Callers hold many Guards of one
chain and call them in any order. The difficulty is in sequences (revoke,
delegate, revoke in every order), in operations that fail half way (a node that
was added and whose spawn could not be hashed; a meter that moved before the
commit; a write that failed after it, or was cut short), in reports that come
late, twice or from the wrong node, and in readings of one history having to
agree: the live chain, the ledger in memory, its file, an exported bundle, the
envelopes beside it, a chain of tokens. Everything asks about one node and its
parent, and stands for the whole line above. Time enters as a ttl in whole seconds from each node's own
issuance, and as the `exp` of a token.

**What makes each component correct.**

- ceilings, authority, -02 profile: the meet is below both of its inputs and no
  smaller than it must be; subsumption composes along a path and implies
  containment of what is permitted.
- chain: revocation reaches the whole subtree and nothing else; a banned agent
  stays out; the tree keeps to depth and fanout; attenuation holds along every
  path although an authority object may be overwritten in memory.
- guard: the ledger verifies; it reads back as the live state; meters count what
  the ledger shows; a limit is never exceeded; strikes revoke; open calls and
  completion exclude each other.
- verifier: it accepts every ledger an honest chain writes, and nothing added to
  one that leaves the line above it; its graph and its binding verdict are the live
  chain's; what an anchor accepts is what was signed.
- observer envelopes: an entry called witnessed was observed by the holder of a
  trusted key, as it stands; an envelope honestly made verifies.
- audit log: a file that verifies is a prefix of what was committed; what it
  lacks was reported; a restart never replaces it silently.
- adapter: outcomes commit to the arguments that were authorised; an open call
  is closed whatever the body does; nodes get finished.
- wire tokens: a leaf loads with one chain only; what the leaf is permitted was
  permitted to each token above it; an honest delegation path loads.

`PROJECT.json` lists the places where each of these could go wrong
("hazards"), with the property that would show it.

## 2. Modules

```
Ceilings <- Authority <- Attenuation                  <- MCAttenuation
               ^   ^
               |   `-- DelegationChain                <- MCDelegationChain
               |             ^
          BundleVerifier <- Guard <----- GuardSinks   <- MCGuardSinks  (with MCGuard)
                             ^
               Snapshot <- LangGraphAdapter           <- MCLangGraphAdapter (with MCGuard)

DelegationTree: instantiated by DelegationChain and by Guard

Authority <- Draft02 <- WireTokens                    <- MCWireTokens
LedgerIntegrity <- AuditLog
LedgerIntegrity <- EvidenceBundle <- ObserverEnvelopes <- MCObserverEnvelopes

AuthorityProofs <- AttenuationProofs                  (over Attenuation)
AuthorityProofs <- DelegationChainProofs              (over DelegationChain)
    <- GuardLedgerProofs                              (over Guard and GuardSinks)
    <- GuardCallProofs                                (and over LangGraphAdapter)
AuthorityProofs <- TokenProofs                        (over WireTokens)
AuditLogProofs                                        (over AuditLog)
EvidenceProofs                                        (over ObserverEnvelopes)
```

**Ceilings** (`ceilings.ts`; `scopeCovers` in `authority.ts`). A scope is the
sequence of its segments. A context maps the fields it declares to JSON values
tagged with their kind, since every class refuses a value of the wrong kind. The
three numeric classes differ in key and field only, so one record type `Max`
stands for them. A prefix is a sequence of chunks: the NUL that `Prefix.narrow`
puts between two incomparable prefixes is a chunk of its own.

**Authority** (`authority.ts`, default profile). `Meet`, `IsNarrowerThan` and
`Permits`, dimension by dimension. `MeetRefused` is the `not_narrower` error.

**Attenuation**. One path of the tree: `path[i+1]` is the meet of `path[i]` and
a request. It is the smallest system that says what the operators promise.

**DelegationChain** (`chain.ts`). Variables `nodes`, `revoked`, `banned`, `now`.
`AddChild` is `addChild` with every refusal of `delegationError` in `MayDelegate`
and the re-assertion. `RevokeNode` and `RevokeAgent` take `Cascade(targets)`:
the code's walk stops at nodes already revoked, and so does the least set closed
under *unrevoked* children. `StrayMutation` is the in-process write that the
seal exists to detect. A seal is modelled by the authority it was computed from.

**DelegationTree**: the abstract specification, with neither clock nor seal nor
entries. A tree of grants grows below live lines only and within every grant of the
line; what dies takes all below it along, and stays dead; an act needs the
authority and the life of the whole line. It is implemented twice:
`ChainImplementsTree` maps the chain's nodes and their seals onto it, and
`LedgerImplementsTree` maps the *ledger alone*, read as the verifier reads it, with
its allows as the acts. The code never walks a line when it delegates, checks or
verifies; that it need not is what the two refinements say.

**BundleVerifier** (`evidence.ts`). One constructor per ledger event, and
`Verifies` (root, monotonicity, containment) and `Aggregate` (execution binding)
as predicates of a ledger, a sequence whose positions are the entries' `seq`.
They read in ledger order as the code does: a spawn or an allow sees only the
definitions and kills before it. `DelegationGraph` is the view a reviewer renders
(without its counts). `EntryInLine` is what the verifier does not ask: whether an
entry is within all that stand above it. `AcceptedAdditionsStayInLine` lets
somebody else append any spawn or allow to an honest ledger, and asks that of each
one the verifier accepts.

**Guard** (`guard.ts`, `strikes.ts`, and the parts of `chain.ts` and `audit.ts`
it drives). It extends DelegationChain with the ledger, the Guards held, the
meters, strikes, finished nodes and open calls. One action per operation and way
to end:

| code | actions |
|---|---|
| `delegate` | `Delegate`, `DelegateRefused`, `DelegateUnpersisted`, `DelegateUnhashable` |
| `check` | `CheckAllowed`, `CheckDenied`, `CheckStruck`, `CheckStruckOut`, `CheckDeniedUnpersisted`, `CheckNotCommitted`, `CheckUnrepresentable` |
| `recordDenial`, `recordPassthrough` | `RecordDenial`, `RecordPassthrough` |
| `recordOutcome`, `complete` | `RecordOutcome`, `Complete` |
| `revoke`, `revokeAgent` | `Revoke`, `RevokeByName`, `RevokeByNameUnhashable` |

An allow, an outcome, a completion or a kill whose write fails after the
commit leaves the state of one whose write succeeds, so it has no action of its
own. The denials do differ (`CheckDeniedUnpersisted` never comes to the
strikes), and so does `DelegateUnpersisted` (no Guard is returned).

`CheckAllowed` is `CommitAllow` and `RegisterPending`, and `RecordOutcome` is
`CommitOutcome` and `ResolveCall`: as far as the append, and what comes after it.

**GuardSinks** (`guard.ts` over `audit.ts` 195) takes these halves apart. `append`
hands each entry to the sinks before it returns, and a sink is the application's
own code: it may call any Guard of the chain. Three operations do something after
their append, and each is split there: `AllowSeen` and `AllowReturns`, `DenialSeen`
and `DenialReturns`, `OutcomeSeen` and `OutcomeReturns`. `inside` is the stack of
the operations under way; between two halves any operation of Guard, or the first
half of another, may happen, and only the innermost returns. An operation that is
not split is one whose sinks do nothing, or whose sinks come last. A denied check
that throws after its sinks have acted is `CheckDeniedUnpersisted` followed by what
the sinks did. `early` names the calls that a sink settled while they were
being recorded: it reported the call whose outcome it was being shown, finished or killed
the node a call was about to be pending on, or killed while a call was about to
be pending no more. The binding properties say what holds with these, and that
nothing else goes wrong. `guard_tree` and `guard_binding` run this specification;
`guard_ledger` runs Guard, as nothing is split on a version 1 chain without a strike
policy.

**LangGraphAdapter** (`adapters/langgraph.ts`) extends Guard with wrapped calls.
A call has two halves that run without interleaving: `Invoke`, from the
invocation to the await of the body (the snapshot of the arguments, then `check`),
and `BodyEnds`, from the body's end to the caller (`recordOutcome`, then the
result or the error). `InvokeUnpersisted` and `BodyEndsUnpersisted` are the
halves whose entry is committed and whose write fails. Between the halves
anything may happen: other calls, `ChangeArguments`, `Finish`, revocations,
delegations. `InvokeRefused` is every way in which `check` does not allow.

**Snapshot** (`freeze` in `adapters/langgraph.ts`, `commit` in `params.ts`): the
arguments as a small heap of objects that may be shared or cyclic, `Freeze` as
the code's walk with its set of active objects, `IsTree` as the definition it
ought to agree with.

**LedgerIntegrity** (`audit.ts`; `integrityBreak` and `anchorFor` in
`evidence.ts`). The hash chain. SHA-256 is taken to be injective: a hash is the
tuple of what was hashed, so two hashes agree exactly when all that went into
them does. A signature cannot be forged: what has been signed is a set.

**AuditLog** (`audit.ts`). The log in memory, its file and its sinks. `append` is
not atomic here: `Commit`, then `WriteFile` or `FileFails`, then one
`SinkReturns` or `SinkThrows` per sink. A sink may append in turn, so the appends
in progress form a stack. A write that fails has put nothing on disk, or a part
of the line, or the line without its newline. The constructor is two steps
(`FindFree`, `Truncate`), and `Stop` ends the process anywhere. What memory and sinks
have is held against the lines of the file: `LossFollowsFailure` says which entries may be
missing there, `SinksFollowFile` which of those a sink may have been given. That is one
kind only: a line that was written, but glued to one that a
failed append before it had left without its newline.

**EvidenceBundle** (`exportBundle` and the integrity part of `verifyBundle`). Logs
grow, bundles are exported, redacted and exported again, anchors are published
apart, and the bundle's file is edited: a word changed, an entry dropped, two
swapped, positions and hashes recomputed, the anchor replaced by any other that
was signed. `ExportAgain` signs over edited entries, as a holder of the key can.

**ObserverEnvelopes** (`evidence.ts`, envelope v1) extends it with witnesses. A
witness signs the identity of one entry (chain, seq and the *recomputed* hash) of
a log or of a bundle it is shown; `exportBundle` carries envelopes, and refuses to
redact under them; the file's envelopes are added to and relabelled like its
entries. `Witnessed` and `EnvelopesVerify` are `verifyEnvelopes` against a trust
set, whose rows lapse, at a time the verifier takes: an envelope claims the entry
its subject names whether or not it is sound, the first claim is scored, and an
entry with two claims is not witnessed. A signer may use another's kid.

**Draft02** (`draft02.ts`, and `authority.ts` under profile "02"). The scope forms;
constraints by (key, type); floors, ranks and running totals.

**WireTokens** (`load` and `VerifiedChain.permits` in `wire.ts`). `Verdict` is
`load`, its steps in the draft's order, each a named predicate of a chain. What
may be presented is every sequence of the tokens in circulation: those minted as
the delegation path of a chain of Guards (`MintDelegate`: the meet of the parent's
authority and a request, then the wire), those minted with any claims and with or
without a `par_hash` (`MintChild`), and those edited on their way (`EditToken`). A
`par_hash` is the parent's signing input itself.

Deadlock is checked where the system can go on for ever: in the chain and the
guard a revocation of a revoked node is always possible. Paths, logs,
invocations and tokens end at their bounds, so those configurations switch it off.

## 3. Runs

| run | what it asks | instance | distinct states |
|---|---|---|---|
| `attenuation` | do meet, subsumption and evaluation agree along a path? | paths of 3 authorities; every ceiling class, 5 scopes with nested wildcards and a look-alike, 3 ttls, values of every kind | 27 026 |
| `attenuation_fields` | does `narrow` keep its contract when fields differ? | violation | |
| `delegation_chain` | is the chain a delegation tree, in every order of revocations, bans and delegations? | 4 nodes, depth 2, fanout 2, 2 agents, 2 requests (one widens), stray mutation, 3 instants | 340 804 |
| `guard_ledger` | does every ledger verify, and do the meters agree with it? | version 1, 2 nodes, strict metering, limits of 2 calls and (for the child) 1, a scoped one of 1, explicit counts, expiry, widening mutation, passthroughs, failing writes, 4 entries | 154 885 |
| `guard_tree` | is the ledger alone a delegation tree, and are strikes counted once each? | 3 levels, strikes, sinks that call back, every spawn and allow somebody may add, 5 entries | 171 820 |
| `guard_binding` | are the verifier's binding verdict and graph the live chain's? | version 2, 2 nodes, 2 captures, 2 parameter hashes, an agent name that cannot be hashed, sinks that call back, 5 entries | 453 448 |
| `audit_log` | what survives of a log, on file and in sinks? | 2 logs one after the other, 3 entries each, 2 sinks that may append | 600 023 |
| `audit_lines` | is every event one line of the file? | violation | |
| `evidence_bundle` | what do integrity, anchors and envelopes accept, and where is a break? | 2 chains, 3 entries, up to 2 anchors, 2 edits, 2 signers under one kid, keys that lapse; 3 signatures, and 4 signatures and edits, in all | 647 768 |
| `langgraph_adapter` | do wrapped calls bind, and do nodes get finished? | 2 calls, 2 nodes, 3 heaps of arguments, bodies that return or are abandoned, failing writes | 483 456 |
| `langgraph_errors` | what does the caller get when a record fails? | violation | |
| `wire_tokens` | which chains of tokens load, and what do they permit? | both drafts, 4 tokens, chains of up to 3, 5 payloads and 2 requests per draft, 3 instants | 223 653 |

**Why the bounds are enough.** A path of three authorities is the shortest on
which "narrower than the parent" and "narrower than every ancestor" differ; so is
a chain of three tokens. Four nodes at depth and fanout 2 give a chain of three, a
full top with a grandchild, and siblings on both sides of a revocation; both
limits are reached. The clock runs past every ttl of the instance, so that each is
met and passed. Ledgers of five entries hold a root and every ordering of spawn,
allow, outcome, done and kill that the properties relate, and for strikes a root,
a spawn, N = 2 denials and the kill. Both call limits are met, and a call
over each is denied, within four entries. One operation under way (`MaxInside = 1`)
lets every operation run inside each of the three that can be interrupted, to its
end and in any number that the ledger has room for; what nests deeper meets the same
two halves, and the theorems on GuardSinks hold at every depth. Three entries of a log give an append nested in an append nested in
an append, and a line before and after one that was cut. Two edits are a swap or a
rewording and the recomputation that hides it; with two envelopes beside them one
is the duplicate, the relabelled or the borrowed one of the other. Two wrapped calls are what it takes
for one to change, finish or revoke under the other. Among four tokens there are
two children of one root, a chain of three and an edited or unlinked stranger;
every verdict of `load` is reached on chains of two or more.
The bounds are the constants whose names begin with `Max`, except `MaxDepth` and
`MaxFanout`, which with `StrikeLimit` are the program's own parameters. The
agents of `delegation_chain`, the chains of `evidence_bundle` and the parameter
hashes of `guard_binding` are symmetric: the code compares them and looks at
nothing else of them, and none of these runs has a liveness property. The other instances are small without symmetry.

**Mutants.** For each property `PROJECT.json` names a definition and a mutated
form of it that sits next to it in the module (`CascadeOneLevel`,
`FillMetersSoFar`, `SpawnHasLiveParent`, `CommitAhead`, `BindsStored`,
`LinkedIfPresent`, ...). Each
is a bug one can imagine in the code; the property fails with it.

**Fairness.** Nothing in the library is obliged to happen: each operation is a
synchronous call that an application may or may not make. So every property is
one of safety, but for the adapter's `NodesGetFinished`. `AdapterFairness` assumes
weak fairness of two things: the second half of each wrapped call (a body that was
started settles, and the event loop then resumes its wrapper: JavaScript runs
every continuation of a settled promise), and the completion of each held node (an
application that asks `complete` again until it is not refused). Calls are
finitely many, so a node cannot be kept busy for ever by new ones. The property
excepts, by name, the nodes with a call whose allow was committed and whose
`check` threw: nothing reports those, and `complete` is refused for good. That is
how the code behaves, and the caller of such a `check` has to know.

### Findings

1. `Allow.narrow`, `Deny.narrow` and `Prefix.narrow` do not ask whether both
   ceilings read the same context field. With a parent `Prefix("area", "tmp",
   "path")` and a request `Prefix("area", "tmp/a", "region")` the child keeps the
   request's bound on `region` and loses the parent's on `path`. The contract in
   `ceilings.ts` 71-72 says the admitted set is a subset of both (`attenuation_fields`).
   The re-assertion in `addChild` and the verifier do not notice, as `subsumes`
   ignores the field too.
2. `append` does not look at how the file ends. After a write cut short, whose
   append threw, the next append succeeds and its line is glued to the rest of the
   one before: its entry has no line of its own, and nothing says so
   (`audit_lines`; `audit.ts` 4 says each event is one JSON line). What does hold
   is `LossFollowsFailure`: such an entry follows one that was reported.
3. In the adapter, `recordOutcome` of a body that returned is called inside the
   `try` whose `catch` records a body's error. When the entry is committed and its
   write fails, the second record is refused, and its `DuplicateOutcomeError`
   replaces both the tool's result and the write error (`langgraph_errors`;
   `langgraph.ts` 468-469 says the result is returned unchanged).

Four smaller differences between texts and code were met and are left at that.
`isNarrowerThan` relates two authorities without a ttl, its comment
(`authority.ts` 422) says `this.ttl` is not null. A child may be live when its
parent has expired, as its ttl counts from its own issuance (`chain.ts` 142;
`CHANGELOG.md` 196 speaks of a child that outlived its parent); what holds is
`IssuedWithinParentLife`. A denial whose write failed is on the ledger and is no
strike (`guard.ts` 755, `strikes.ts` 18): no property holds it against the code;
`RepeatedDenialsRevoke` counts without such denials, and says how the others are
counted. `wouldAllow` says yes for a finished node, which `check` refuses (`guard.ts` 827).

## 4. Theorems

All proofs are checked by TLAPS with SMT, Zenon and LS4. They are about the
specifications the runs check, for every value of the constants that satisfies the
assumptions of the modules: `AuthoritiesAssumption` (in Attenuation and in
DelegationChain: the authorities the constants offer are well formed),
`LimitsAssumption` (`MaxDepth` and `MaxFanout` are naturals), `BoundsAssumption` (a
chain has room for its root), `GuardAssumption` (the schema's version, the policy's
parameters), `SinksAssumption` (`MaxInside` is a natural), `AuditLogAssumption`,
`BundleAssumption` (the two words that stand for a missing chain id are no chain
ids) and `WireAssumption` (the drafts are the two there are, and claims expire no
earlier than they are issued). TLC evaluates each of them in the runs. Nothing bounds
the numbers of nodes, agents, scopes, ceilings, entries, logs, sinks, operations under way, signatures, edits,
wrapped calls, objects of an argument, tokens or links of a chain. Every invariant and
every action property of a passing run is proved, under the hypotheses below where it has
any; the liveness property `NodesGetFinished` is not.

Some theorems have hypotheses of their own, which the instances of the runs satisfy:

| hypothesis | what it says | why the code needs it |
|---|---|---|
| `KeysMeanOneThing` | in what an application hands in, a ceiling key stands for one class and one context field | finding 1: `narrow` and `subsumes` compare keys and not fields |
| `PlainRequests` | no string of a context contains NUL | `ceilings.ts` 886: `Prefix.narrow` keeps two incomparable prefixes joined by a NUL, which a value with a NUL in it could match |
| `Readable` | scopes are scopes, and values of contexts are JSON | what is not JSON cannot be hashed, so no entry holds it |
| `LimitsRead` | a call limit is a maximum of a natural, and the field it bounds is its own | `ceilings.ts` 546-570: the constructor of `CallLimit` derives key and field from the scope; an application may register otherwise |
| `IsV2` | the chain is of schema version 2 | version 1 records no outcomes, so nothing binds |
| `MaxAlive = 1` | one log at a time is over a path | the code has no lock (section 5) |
| `HeapsRead` | an argument is a finite graph of objects | a JavaScript heap is one; `Heaps` could be anything |
| `ClaimsDeclared` | claims have the members of a token, and in what minters and delegates write two constraints of one key and type read one field and count the same calls | on the -02 wire the key names the field (`draft02.ts` 630-635), and a call limit's key its scope (`ceilings.ts` 561-565); `subsumes` compares neither (finding 1) |
| `ChecksRead` | what an enforcement point asks is a scope, and values that are JSON | a value of no kind a ceiling compares is refused by all of them; it has no kind in the model |

**AuthorityProofs**: over all authorities. `MeetNarrower`: the meet is narrower
than the parent's side. `NarrowerTransitive`. `NarrowerSound`: narrower implies
permits no more. `MeetExact`: the meet permits what both sides permit and nothing
else, so a delegation adds nothing and loses nothing, however scopes overlap and
ceilings combine. It rests on `NarrowAdmits`, class by class, where a conjunction
of prefixes is one more class to argue about. `NarrowerSound` and `MeetExact` have
the hypothesis `ReadAlike` (a shared key names the same field), which finding 1
shows to be necessary.

**AttenuationProofs**: paths of any length. `PathInv` says that each authority is
the meet of the one before and of what was asked there, and that all are well
formed. The four theorems of the component follow: `AttenuationAlwaysComposes` by
transitivity, `NoActionOutsideAncestors`, `MeetLosesNothing` and
`SubsumptionIsSound` from `MeetExact` and `NarrowerSound`. `OneMeaning` carries the
hypothesis on keys from what is handed in to what is on the path: a meet reads no
field that its inputs did not.

**DelegationChainProofs**: the chain, for all parameters. The inductive invariant

    IInv == TypeOK /\ TreeWithinCeilings /\ RevokedClosed
            /\ BannedAgentsHoldNothing /\ ParentAttenuation /\ IssuedWithinParentLife

strengthens what is to be shown in two places. `RevocationReachesSubtree`
speaks of all ancestors and is not inductive by itself in a usable form:
`RevokedClosed` says that the child of a revoked node is revoked, which each
action keeps (a delegation needs an unrevoked parent, and the cascade is closed
downwards), and the statement on ancestors follows from it because the set of
unrevoked nodes is closed upwards. `AncestorAttenuation` likewise follows from
`ParentAttenuation`, link by link, by `NarrowerTransitive`; the step for
`AddChild` uses the seal: the authority the child is cut from is the one the
parent was issued, or the delegation is refused. `RevocationIsConfined` is the
action property, from the minimality of `Cascade`. `ReassertionNeverFires` shows
that `addChild`'s defensive re-assertion is redundant.

`ChainRefinesTree` is `Spec => ChainImplementsTree`. Its invariant `TreeInv` adds
`LinesFitDepth`: the line of a node is finite and one longer than its
depth, as the code compares depths and the tree counts lines. A delegation is a
`Grow` by transitivity along the line, a revocation a `Kill`, everything else a stutter.
`TreeWithinCeilings`, `RevocationReachesSubtree` and `AncestorAttenuation` are not
in a run of their own since `ChainImplementsTree` fails when any of them does.

**GuardLedgerProofs**: from the chain to the ledger, in four parts.

- Over ledgers, whoever wrote them. `AcceptedLedgersStayInLine`:
  in a ledger that verifies, every spawn and every authorized allow is within the
  whole line above it, given that a ceiling key means one thing in it. The line
  of a node is the least set closed under parents, and the nodes whose authority is
  above its own are closed under parents, so there is no induction over the ledger.
  `FittingEntriesVerify`: a ledger that verifies still does after an entry that fits
  what it says of nodes, authorities and kills.
- `GuardImplementsChain` is the refinement `GuardSpec => Spec`
  (the mapping is the identity on the chain's variables): each action of the guard
  is a step of the chain or leaves it alone. `GuardKeepsChainSafe` and
  `GuardRefinesTree` carry the chain's theorems over to the guard. The invariant adds
  to `IInv` that Guards are held for nodes of the chain only.
- `HonestLedgersVerify` is `GuardSpec => []LedgerVerifies`. That a
  ledger verifies is not inductive: the next entry must be accepted by a verifier
  that sees the ledger and not the chain. `LedgerInv` adds `Agrees`: a node the ledger
  defines is in the chain and has there the authority of its entry as its seal, what
  the ledger calls killed is revoked, and every node a Guard is held for is defined.
  The converse need not hold, which is how a node whose spawn was not written, or a
  revocation without a kill, does no harm. `AdditionsStayInLine` shows that an
  added entry is refused or in line.
- The same for GuardSinks, whatever `MaxInside`. A half of an
  operation is a step that writes an entry the ledger agrees with, or none;
  `SinkInv` adds that what is under way belongs to a held node.

- The types of the guard's state, the meters and the limits, whatever `MaxInside`:
  see below.

The two modules over the guard share one device. The actions of Guard and GuardSinks
are many, and what an invariant needs to know of each is little, so each action is
first shown to be a step of one of a few *kinds* (`Delegates`, `Kills`, `Denies`,
`Strikes`, `Allows`, ..., and what each does to the tree, to one
node's strikes, to one call after that). Each invariant is then shown
for the kinds.

*Types, meters and limits* (GuardLedgerProofs). `TypedInv` adds the types of the
guard's state and of what is under way to `SinkInv`. `MeteredInv` says of *every*
node and key, held or not, that the meter is the number of allows on the ledger that
counted it; each kind adds at most one such allow, and moves the meter if it does.
`CallLimitHolds` is not inductive: the authority that lets a call pass is the
one in memory, which may be overwritten, and the property speaks of the one issued.
`LimitedInv` says that no *seal's* limit is exceeded, and `LimitsSealed` that the
fields of limits stay apart in what is sealed; the step for an allow uses
that `check` verifies the seal first, and that the meter it fills in is
the context's own field for this limit and for no other.

**GuardCallProofs**: strikes and calls, whatever `MaxInside`. `StrikesRevoke`:
`LiveStrikesCount` counts, for every unrevoked node and strike key, the denials on
the ledger as those counted and those still to be counted by a check under way, and
bounds the first; the denial that reaches the limit revokes in the step that counts
it. For the execution binding

    BindingInv == TypedInv /\ AwaitInv /\ EntriesInv

`AwaitInv` follows a call from the allow that promises its outcome, through the
operation that has still to register it, the registry of pending calls and the
operation that has still to resolve it, to the outcome on the ledger: at each point
it is in one of these, unless a sink got ahead of it. `EntriesInv` says what
this leaves on the ledger: call ids drawn once, at most one outcome each, after its
allow; finished nodes are those with a `done`; before a `done` every promise of its
node is kept, after it none is made; a kill lists what was open. `GuardNeverFailsBinding`,
`FinishedNodesAreQuiet` and `KillsListOpenCalls` follow.

*The ledger and the live chain* (GuardCallProofs). `LiveInv` adds the converse
of `Agrees` as far as it goes: what is revoked and shown is shown as revoked, a node
without a definition has nothing below it, a definition comes before what ends its
node. `LedgerShowsChain` (the rendered graph is the running chain) follows, and with
`BindingInv` `CleanMeansClosedOut`, which is an equivalence: the verifier
says clean of no chain that has something open, and of every one that has not.
`LedgerRefinesTree` is `SinkSpec => LedgerImplementsTree`: under `RecordedInv` the tree read
off the ledger is the shown part of the chain (`TreeIsTold`), so a spawn on
the ledger is a `Grow`, a kill a `Kill`, an authorized allow an act within the line,
and every other entry and every step that writes none a stutter.

*Wrapped tools* (GuardCallProofs): any number of calls, on any number of nodes, of
any arguments.

    WrappedInv == PhasesFit /\ CallsFit /\ EntriesFit

A call is `Open` from its allow to its report, and `Told` after it, whatever its body
does in between. `CallsFit`: each has an id of its own, what the guard awaits is
exactly the open calls on the nodes that wrap them, and none of those nodes is complete.
`EntriesFit`: every allow of the ledger is of an open or told call and has the
snapshot that was taken then, every outcome is of a told one, after its allow, with
the same node and snapshot, and there is one at most. The steps of the adapter and of
the application fall into five kinds by what they do to the wrapped calls; a write that fails
after the commit is in the kind of the one that succeeds. `RunningCallsAreOpen` and
`WrappedChainsBind` follow: no binding failure, although any of the other operations may come
between the two halves of a call.

*Snapshots* (GuardCallProofs). `SnapshotsCommitToTrees` is about the walk of
`freeze`: it has a commitment exactly if the arguments have a JSON form. That the walk
ends is shown first (`FreezingExists`): each object it enters is added to the path
above it, and it turns back at one that is on the path, so what is left to visit
shrinks; the object and the path are what the recursion is over. If the walk meets
nothing unsupported then nothing opaque is within reach, and no object within its
own reach: else the walk from it would come back to it. The other way, where the walk
makes nothing of an object, the object is on the path and so within its own reach, or
the same holds of one of its members with fewer objects left to visit. A shared object
is on two paths and twice on none.

**TokenProofs**: any number of tokens, claims, requests and links, both revisions,
whoever minted or edited them.

- `LeafHasOneChain` needs no hypothesis. Two chains that load with one leaf are as long
  as its depth says, and each token is told by the `par_hash` of the one after it and by
  its signature, which verifies.
- `AcceptedChainsAttenuate`: from the leaf up, link by link. A step of `load` that
  finds one token narrower than another is sound only for a shared key that reads one
  field, so `TokensFit` carries what is declared of the claims to every token in
  circulation, the delegated ones with it: a meet reads no field that its inputs
  did not, and going over the wire keeps that. For the -02 the lattice is by (key,
  type) pairs: `SubsumesAdmits02` and `NarrowerSound02` do for its scope forms, floors,
  ranks and totals what `SubsumesAdmits` and `NarrowerSound` do for the default profile.
- `DelegationPathsLoad`: no path that a chain of Guards minted is ever refused but for its
  length or the time. `OnPath` says of each input of such a path that it is a proper
  root or descends from the one its `par_hash` is of: same key, principal, `iat` and
  `nbf`, no later `exp`, no bound on the depth, and an authority that passes the
  comparison of `load`. The last needs both halves of the wire: what is
  written and read back is the meet (`RoundTrip01`, `RoundTrip02`), and the meet is
  narrower in the sense of the verifier (`MeetKept01`, `MeetKept02`), where under the -01 a
  constraint that the build does not know goes through as it came. Then `Lineage` is
  the whole path (`LineageIsPath`), and the steps of `Verdict` are taken one by one.

**AuditLogProofs**: any number of logs, sinks and entries, appends nested to any
depth, and failures and stops anywhere.

    AuditInv == Shapes /\ (\A i \in Logs : Entered(i) /\ Nested(i) /\ Handed(i))
                /\ LinesAreEntries /\ LinesInOrder

`Entered` and `Nested` order the appends in progress (an outer one is in a
sink and of an earlier entry), `Handed` relates what each sink has to what is in
progress, `LinesAreEntries` says that a line that can be read is a committed
entry of its log which is no longer waiting to be written. `AuditTypes`
and `FileFollowsCommits` follow from it. `FileIsCommittedPrefix`
needs an argument that goes from a line to the one before: if the file were no
prefix of any log there would be a first line at which it differs, but the hash of that line
pins the one before. `SoleInv` is for one log at a time: an entry that is
missing was reported or follows one whose line was cut, and what was on the file
when the log opened is still there unless it was asked to overwrite it.
`LossesAreReported` and `TruncationIsAskedFor` follow (the second an action property).

    GivenInv == \A i \in Logs : Backed(i) /\ CutApart(i)

is what `SinksNeverLead` needs besides. `Backed` is the claim in terms of lines: an entry
that a sink was given is a line of the file, or it is not and the entry before was
reported and is none either. It is not inductive: a later write could take such a line
with it, or find the entry before it on some earlier line. `CutApart` says that
neither can be: a line that was cut is of no entry that a sink was given, and the entry
tried last is on no line before the cut one. With `Handed`, which orders the
sinks, the property follows.

**EvidenceProofs**: bundles and envelopes, any number of chains, entries, anchors,
witnesses, trust sets and edits. A hash is the tuple of what was hashed, so that two chains with
equal heads at equal seq are equal (`EqualHeads`) goes from the last position to the
first: at the greatest position at which the stored hashes differ, the next one pins
it. `AnchorsPinEntries` and `RetainedAnchorsPinEntries` are `EqualHeads` for what was
signed, and for what was kept.

    BundleInv == LogsInv /\ SignedInv /\ RetainedInv /\ BundleShape
                 /\ EditsKeepIds /\ UneditedBundlesVerify

`LogsInv` says of the logs that they verify and name one chain, `SignedInv` and
`RetainedInv` that an anchor was made of the entries it is over. `ExportedBundlesVerify`
needs it of what is exported again, where `honest` remembers whether an edit came between.
`EditsKeepIds` is for `BreaksAreFirstDifferences`: until hashes are recomputed an edited
entry has the seq, link and hash of some entry that was shipped, so the first
entry that differs cannot continue those before it. `EnvelopeInv` adds that an
observation is of a ledger up to the entry signed, that an envelope in the file has a
signature that was made, whatever its labels say, and that unedited ones still fit.
For `WitnessedWereObserved` the hashes are recomputed and not stored, and the two
ledgers may have different lengths: `WalksMeet` walks both back from the common hash
until one of them is at its start, where the other must be too, as nothing hashes to
the 64 zeros. In `FittingEnvelopesVerify` a seq of a ledger that verifies is its
position (`SeqIsPosition`), so two envelopes over one entry have one subject.

**Induction.** The induction theorems of the library take an operator, which none of the
provers can instantiate. Where an argument needs induction over positions it is made
by a least or greatest element, from the theorems on finite sets or from `<` being well
founded, or by a least set closed under a relation. That the recursive functions are
defined on every ledger, argument or path is shown this way (`WalkExists` in EvidenceProofs,
`FreezingExists`, `ClimbExists` for `Lineage`: there is no least length or set
without a walk). No module here declares a RECURSIVE operator: closures
are written as least sets, walks as recursive functions.

**Only model-checked**: `NodesGetFinished`, which is liveness under fairness and so out of
the prover's reach, as is `ENABLED`; and the three runs that expect a violation, where
a counterexample is the result.

## 5. What the models leave out

- Custom registered ceilings, and the construction errors of ceilings and
  authorities: authorities are well formed. In the tokens, membership and prefix
  constraints (they are in Ceilings) and payloads of a wrong shape. A -01 call limit of one
  scope is recognized by its type as in `ceilingFromWire`; that its key is spelled with
  its pattern is left to the instance, except that the build's own keys hold none.
- Bytes: SHA-256 is injective and signatures are not forged; base64, JSON,
  canonical form, and the list of accepted algorithms are not modelled.
- Two constructors over one path at once: they are in AuditLog as two steps each,
  but the instance has one live log. With `MaxAlive = 2` both find the file free
  and `NeverSilentlyTruncated` fails, as the code has no lock.
- An audit log without a path, and the verification of an empty ledger: its head
  is the word GENESIS in `anchorFor` and 64 zeros in `AuditLog.anchor`, so a
  retained anchor of an empty log does not match its bundle.
- In the adapter: the version 1 wrappers, `guardTools`, `delegateTo`, an outcome
  that cannot be hashed. A wrapper of a function that is not async has the same two
  halves and nests, which is one of the interleavings of the model.
- The guard's -02 totals; the dry runs `wouldAllow` and `wouldDelegate` and the
  accessors that describe a state; `Chain.consume`, which nothing calls.
- Of envelopes the bytes (canonical form as received, members, algorithms), the
  parsing of trust sets and times, and the observed result, which decides nothing.
- The `denials` fold and the counts of `delegationGraph`, parameter coverage and
  leaks, the JSON shape of entries and bundles; texts, rendering, exit codes.
- Sinks that throw and sinks that call back are in different modules (AuditLog and
  Guard for the first, GuardSinks for the second); the adapter runs over Guard.

## 6. Plan

The order was: the lattice, the chain and its proofs, the guard and the verifier
over one ledger, then what happens to a ledger (log, bundle), then the adapter and
the tokens; after that the abstract tree and its refinements, sinks that call back,
envelopes; and the proofs, from the lattice up to the ledger, its file, its bundles and
its two refinements, then the adapter, its snapshots and the tokens. All of these are
in place. What the models could still take in, in order of weight:

1. **The -02 totals of the guard**, which the meters of Guard stand next to.
2. **The version 1 wrappers and `guardTools`** of the adapter; the `denials` fold and
   parameter coverage of the verifier.
3. **Sinks that call back under the adapter**: it runs over Guard, and the proofs of
   GuardSinks suggest that `WrappedInv` would need the `early` calls excepted.

Runs of one component are merged as modules arrive, so that each run keeps one
question of its own.
