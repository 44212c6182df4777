----------------------------- MODULE WireTokens -----------------------------
(***************************************************************************)
(* Chains of delegation tokens, and their offline verification             *)
(* (src/src/wire.ts, load) under the draft -01 or the -02.  Holders of the *)
(* signing key mint tokens; tokens travel and are edited; and any sequence *)
(* of them may be presented to an enforcement point, as the clock goes on. *)
(*                                                                         *)
(* The input of a token is what its signature covers and what the par_hash *)
(* of a child commits to; SHA-256 is injective, so a par_hash is <<input>> *)
(* of the parent, and <<>> when there is none.  A token is                 *)
(*     [input |-> [claims, depth, par], signed |-> the signature verifies] *)
(* Base64, JSON and their canonical form are not modelled.  constraints is *)
(* a set of records [key, ceiling], the ceiling as the -02 reads it.       *)
(***************************************************************************)
EXTENDS Draft02, FiniteSets

CONSTANTS
    Drafts,         \* the revisions to verify under, of {"01", "02"}
    Claims,         \* revision -> what minters put in a token, beside its links
    Requests,       \* revision -> what delegates ask for: [scopes, constraints, extra], extra the
                    \* seconds beyond the parent's ttl
    TrustedRoots,   \* rootKeyIds
    Audiences,      \* what an enforcement point may answer to
    CheckedScopes, CheckedContexts, CheckedTotals,
    MaxTokens,      \* bound: tokens minted or edited
    MaxChain,       \* bound: tokens presented at once
    MaxTime         \* bound: the clock's last value

NoAudience == "none"
NoNbf == -1
NoBound == 0        \* del_max_depth of a token that carries none
Nobody == ""        \* no sub

ASSUME WireAssumption ==
    /\ Drafts \subseteq {"01", "02"}
    /\ \A d \in Drafts : \A c \in Claims[d] : c.iat <= c.exp
    /\ {MaxTokens, MaxChain, MaxTime} \subseteq Nat

VARIABLES
    draft,      \* the revision all parties follow
    issued,     \* the tokens in circulation
    proper,     \* the inputs minted for a delegation path of a chain of Guards
    now

wireVars == <<draft, issued, proper, now>>

-----------------------------------------------------------------------------
(* Reading a payload *)

\* A limit on the calls of one scope: its pattern is in its key, and under the
\* -01 it says its type, which the other ceilings modelled here do not.
ScopedCalls(ceiling) == ceiling.type = "Max" /\ ceiling.appliesTo # EverySc

\* ceilingFromWire routes on the type, else on the key, and what it does not
\* know stays whole.
Registered01 == {"max_rows", "max_spend", "max_calls", "egress"}
Read01(c) ==
    IF c.key \in Registered01 \/ ScopedCalls(c.ceiling) THEN c.ceiling ELSE Unknown(c.ceiling)

\* A -01 scope has the literal or the wildcard form, a key one constraint, and
\* a key the build knows the members of its class; a pattern under a key that
\* does not hold it would change what is bounded.
WellFormed01(claims) ==
    /\ \A s \in claims.scopes : Form(s) # "opaque"
    /\ \A c, d \in claims.constraints : c.key = d.key => c = d
    /\ \A c \in claims.constraints :
          c.key \in Registered01 =>
              /\ c.ceiling.type = IF c.key = "egress" THEN "EgressRank" ELSE "Max"
              /\ ~ScopedCalls(c.ceiling)

\* checkToken02.  A rank carries its order; a maximum on a count of calls bounds
\* nothing and is refused.
WellFormed02(claims) ==
    /\ claims.sub # Nobody
    /\ claims.aud # {}
    /\ \A c, d \in claims.constraints :
          c.key = d.key /\ c.ceiling.type = d.ceiling.type => c = d
    /\ \A c \in claims.constraints :
          /\ c.ceiling.type # "EgressRank"
          /\ ~(c.key = "max_calls" /\ c.ceiling.type = "Max") /\ ~ScopedCalls(c.ceiling)

WellFormed(claims) == IF draft = "01" THEN WellFormed01(claims) ELSE WellFormed02(claims)

Authority01(claims) ==
    LET Of(k) == CHOOSE c \in claims.constraints : c.key = k
    IN  AuthorityOf(claims.scopes,
                    [k \in {c.key : c \in claims.constraints} |-> Read01(Of(k))],
                    claims.exp - claims.iat)

PairOf(c) == <<c.key, c.ceiling.type>>
Authority02(claims) ==
    LET Of(p) == CHOOSE c \in claims.constraints : PairOf(c) = p
    IN  AuthorityOf(claims.scopes,
                    [p \in {PairOf(c) : c \in claims.constraints} |-> Of(p).ceiling],
                    claims.exp - claims.iat)

AuthorityOn(claims) == IF draft = "01" THEN Authority01(claims) ELSE Authority02(claims)
AuthorityIn(token) == AuthorityOn(token.input.claims)

-----------------------------------------------------------------------------
(* load, step by step over all the tokens of a chain *)

Leaf(chain) == chain[Len(chain)]
ClaimsOf(chain, i) == chain[i].input.claims
After1(chain) == 2 .. Len(chain)

AllWellFormed(chain) == \A i \in DOMAIN chain : WellFormed(ClaimsOf(chain, i))

SignaturesVerify(chain) ==
    ClaimsOf(chain, 1).kid \in TrustedRoots /\ \A i \in DOMAIN chain : chain[i].signed

RootIsUnlinked(chain) == chain[1].input.par = <<>>

\* Mutant: a token without a par_hash is not asked for one.
LinkedIfPresent(chain) ==
    \A i \in After1(chain) :
        chain[i].input.par # <<>> => chain[i].input.par = <<chain[i - 1].input>>

Linked(chain) == \A i \in After1(chain) : chain[i].input.par = <<chain[i - 1].input>>

DepthsCount(chain) ==
    /\ chain[1].input.depth = 0
    /\ ClaimsOf(chain, 1).maxDepth > 0
    /\ Len(chain) - 1 < ClaimsOf(chain, 1).maxDepth
    /\ \A i \in DOMAIN chain : chain[i].input.depth = i - 1

SamePrincipal(chain) == \A i \in DOMAIN chain : ClaimsOf(chain, i).sub = ClaimsOf(chain, 1).sub

\* del_max_depth may only come down; a token without one inherits the bound.
BoundBefore(chain, i) ==
    LET bounds == {ClaimsOf(chain, j).maxDepth : j \in 1 .. i - 1} \ {NoBound}
    IN  CHOOSE b \in bounds : \A other \in bounds : b <= other

Narrows(chain, i) ==
    IF draft = "01" THEN IsNarrowerThan(AuthorityIn(chain[i]), AuthorityIn(chain[i - 1]))
    ELSE /\ IsNarrowerThan02(WithoutTtl(AuthorityIn(chain[i])),
                             WithoutTtl(AuthorityIn(chain[i - 1])))
         /\ ClaimsOf(chain, i).maxDepth # NoBound =>
                ClaimsOf(chain, i).maxDepth <= BoundBefore(chain, i)

\* The -01 reads now <= exp, the -02 now < exp.
Before(t, exp) == IF draft = "01" THEN t <= exp ELSE t < exp

InTime(chain, t) ==
    /\ \A i \in DOMAIN chain : ClaimsOf(chain, i).nbf <= t /\ Before(t, ClaimsOf(chain, i).exp)
    /\ \A i \in After1(chain) : ClaimsOf(chain, i).exp <= ClaimsOf(chain, i - 1).exp

Names(chain, audience) == audience \in Leaf(chain).input.claims.aud

\* The first step that fails names the reason.
Verdict(chain, audience, t) ==
    IF chain = <<>> \/ (draft = "02" /\ ~AllWellFormed(chain)) THEN "malformed"
    ELSE IF ~SignaturesVerify(chain) THEN "signature_invalid"
    ELSE IF ~RootIsUnlinked(chain) THEN "malformed"
    ELSE IF ~Linked(chain) THEN "par_hash_mismatch"
    ELSE IF ~DepthsCount(chain) THEN "depth_invalid"
    ELSE IF draft = "02" /\ ~SamePrincipal(chain) THEN "principal_altered"
    ELSE IF draft = "01" /\ ~AllWellFormed(chain) THEN "malformed"
    ELSE IF \E i \in After1(chain) : ~Narrows(chain, i) THEN "not_narrower"
    ELSE IF ~InTime(chain, t) THEN "expired"
    ELSE IF draft = "02" /\ audience # NoAudience /\ ~Names(chain, audience)
    THEN "audience_mismatch"
    ELSE "ok"

\* VerifiedChain.permits: audience is the one given at this call, or else at load.
ChainPermits(chain, audience, scope, ctx, totals) ==
    LET leaf == AuthorityIn(Leaf(chain))
    IN  IF draft = "01" THEN DOMAIN totals = {} /\ Permits(leaf, scope, ctx)
        ELSE /\ audience # NoAudience /\ Names(chain, audience)
             /\ DOMAIN totals \subseteq TotalFields(leaf)
             /\ Permits02(leaf, scope, ctx, totals)

-----------------------------------------------------------------------------
(* The minters: any claims for a child of any token, or the path of a chain *)
(* of Guards, each authority the meet of its parent's and of a request      *)

WireInit ==
    /\ draft \in Drafts
    /\ issued = {}
    /\ proper = {}
    /\ now = 0

Circulates(input, signed) ==
    /\ Cardinality(issued) < MaxTokens
    /\ issued' = issued \cup {[input |-> input, signed |-> signed]}
    /\ UNCHANGED <<draft, now>>

MintRoot(claims) ==
    LET input == [claims |-> claims, depth |-> 0, par |-> <<>>]
    IN  /\ Circulates(input, TRUE)
        /\ proper' = IF WellFormed(claims) /\ claims.kid \in TrustedRoots /\ claims.maxDepth > 0
                     THEN proper \cup {input} ELSE proper

\* linked is FALSE for a minter that leaves the par_hash out.
MintChild(parent, claims, linked) ==
    /\ Circulates([claims |-> claims, depth |-> parent.input.depth + 1,
                   par |-> IF linked THEN <<parent.input>> ELSE <<>>], TRUE)
    /\ UNCHANGED proper

\* What Read01 kept whole goes out as it came.
Written01(c) == IF c.type = "Unknown" THEN c.raw ELSE c

ToWire(a) ==
    IF draft = "01"
    THEN {[key |-> k, ceiling |-> Written01(a.ceilings[k])] : k \in DOMAIN a.ceilings}
    ELSE {[key |-> p[1], ceiling |-> a.ceilings[p]] : p \in DOMAIN a.ceilings}

Asked(parent, request) ==
    [parent.input.claims EXCEPT !.scopes = request.scopes,
                                !.constraints = request.constraints,
                                !.exp = @ + request.extra]

MintDelegate(parent, request) ==
    LET mine == AuthorityIn(parent)
        asked == AuthorityOn(Asked(parent, request))
        a == IF draft = "01" THEN Meet(mine, asked) ELSE Meet02(mine, asked)
        claims == [parent.input.claims EXCEPT !.scopes = a.scopes,
                                              !.constraints = ToWire(a),
                                              !.exp = parent.input.claims.iat + a.ttl,
                                              !.maxDepth = NoBound]
        input == [claims |-> claims, depth |-> parent.input.depth + 1, par |-> <<parent.input>>]
    IN  /\ parent.signed /\ parent.input \in proper
        /\ WellFormed(Asked(parent, request)) /\ asked.ttl >= 0
        /\ IF draft = "01" THEN ~MeetRefused(mine, asked) ELSE ~MeetRefused02(mine, asked)
        /\ Circulates(input, TRUE)
        /\ proper' = proper \cup {input}

\* A token changed on its way.
EditToken(token, claims) ==
    /\ token.input.claims # claims
    /\ Circulates([token.input EXCEPT !.claims = claims], FALSE)
    /\ UNCHANGED proper

Tick ==
    /\ now < MaxTime
    /\ now' = now + 1
    /\ UNCHANGED <<draft, issued, proper>>

WireNext ==
    \/ \E claims \in Claims[draft] :
          \/ MintRoot(claims)
          \/ \E token \in issued :
                \/ \E linked \in BOOLEAN : MintChild(token, claims, linked)
                \/ EditToken(token, claims)
    \/ \E token \in issued, request \in Requests[draft] : MintDelegate(token, request)
    \/ Tick

WireSpec == WireInit /\ [][WireNext]_wireVars
-----------------------------------------------------------------------------
(* Properties, of every chain that could be presented in a state *)

Chains == UNION {[1 .. n -> issued] : n \in 0 .. MaxChain}

\* The first two conjuncts follow from the verdict, and are quicker to evaluate.
Loading(audience) ==
    {chain \in Chains :
        chain # <<>> /\ Linked(chain) /\ Verdict(chain, audience, now) = "ok"}

\* A leaf is accepted with one chain above it and no other: not with a token
\* left out, not under a broader parent, not as the root of its own chain.
LeafDeterminesChain ==
    \A c, d \in Loading(NoAudience) : Leaf(c).input = Leaf(d).input => c = d

\* What is permitted to the leaf of a loaded chain is permitted to every token
\* above it, with the totals that token reads, under either revision; only
\* the leaf is ever asked.
LoadedIsAttenuated ==
    \A audience \in Audiences : \A chain \in Loading(audience) :
        \A scope \in CheckedScopes, ctx \in CheckedContexts, totals \in CheckedTotals :
            ChainPermits(chain, audience, scope, ctx, totals) =>
                \A i \in DOMAIN chain :
                    LET a == AuthorityIn(chain[i])
                    IN  IF draft = "01" THEN Permits(a, scope, ctx)
                        ELSE Permits02(a, scope, ctx, totals)

\* The tokens from the root to an input, all signed.
Lineage(input) ==
    LET up[k \in 0 .. input.depth] ==
            IF k = 0 THEN <<[input |-> input, signed |-> TRUE]>>
            ELSE <<[input |-> up[k - 1][1].input.par[1], signed |-> TRUE]>> \o up[k - 1]
    IN  up[input.depth]

\* The tokens of a delegation path load, until its length exceeds what the root
\* allows and while the clock is between the root's nbf and the leaf's exp: no
\* other reason ever refuses them.  So the meet that made each authority agrees
\* with the relation that load asks for, after the wire.
ProperChainsLoad ==
    \A input \in proper :
        LET chain == Lineage(input)
            root == ClaimsOf(chain, 1)
        IN  Verdict(chain, NoAudience, now) =
                IF Len(chain) > root.maxDepth THEN "depth_invalid"
                ELSE IF root.nbf <= now /\ Before(now, input.claims.exp) THEN "ok"
                ELSE "expired"
=============================================================================
