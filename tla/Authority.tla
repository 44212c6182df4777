------------------------------ MODULE Authority ------------------------------
(***************************************************************************)
(* Authority (src/src/authority.ts): scopes, at most one ceiling per key,  *)
(* and a ttl; the meet that builds every child authority, the subsumption  *)
(* relation the chain and the offline verifier share, and the evaluation   *)
(* of a request.  Default profile ("01").  The wire form (toWire,          *)
(* fromWire) carries the three members without loss, so an authority in a  *)
(* ledger is the authority itself.                                         *)
(*                                                                         *)
(*   scopes    a set of scopes                                             *)
(*   ceilings  a function from the keys that are bounded to their ceiling  *)
(*   ttl       seconds from issuance, or NoTtl                             *)
(***************************************************************************)
EXTENDS Ceilings

NoTtl == -1

AuthorityOf(scopes, ceilings, ttl) ==
    [scopes |-> scopes, ceilings |-> ceilings, ttl |-> ttl]

IsAuthority(a) ==
    /\ a.scopes \subseteq Scope
    /\ \A k \in DOMAIN a.ceilings : a.ceilings[k] \in CeilingType
    /\ a.ttl \in Nat \cup {NoTtl}

CoversScope(scopes, requested) == \E held \in scopes : Covers(held, requested)

\* Mutant: one direction of the intersection.
MeetScopesOneWay(mine, theirs) == {s \in theirs : CoversScope(mine, s)}

\* The wildcard-aware intersection of two scope sets, without the scopes a
\* broader wildcard of the result already covers.
MeetScopes(mine, theirs) ==
    LET merged == {s \in theirs : CoversScope(mine, s)}
                  \cup {s \in mine : CoversScope(theirs, s)}
    IN  {s \in merged :
            ~\E w \in merged : IsWildcard(w) /\ w # s /\ Covers(w, s)}

\* Two ceiling types under one key have no common narrowing: the delegation
\* is refused (not_narrower), unless this side's is one the build does not
\* define, which denies everything and passes down.
MeetRefused(a, b) ==
    \E k \in DOMAIN a.ceilings \cap DOMAIN b.ceilings :
        /\ ~SameType(a.ceilings[k], b.ceilings[k])
        /\ a.ceilings[k].type # "Unknown"

\* Mutant: a ceiling the request leaves out is lost.
MeetCeilingsOfRequest(mine, theirs) ==
    [k \in DOMAIN theirs |->
        IF k \notin DOMAIN mine THEN theirs[k] ELSE Narrow(mine[k], theirs[k])]

MeetCeilings(mine, theirs) ==
    [k \in DOMAIN mine \cup DOMAIN theirs |->
        IF k \notin DOMAIN theirs THEN mine[k]
        ELSE IF k \notin DOMAIN mine THEN theirs[k]
        ELSE Narrow(mine[k], theirs[k])]

MeetTtl(t, u) ==
    IF t = NoTtl THEN u ELSE IF u = NoTtl THEN t ELSE Min2(t, u)

Meet(a, b) ==
    AuthorityOf(MeetScopes(a.scopes, b.scopes),
                MeetCeilings(a.ceilings, b.ceilings),
                MeetTtl(a.ttl, b.ttl))

\* isNarrowerThan: a <= b, in every dimension b bounds.
NarrowerScopes(mine, theirs) == \A s \in mine : CoversScope(theirs, s)
NarrowerCeilings(mine, theirs) ==
    \A k \in DOMAIN theirs : k \in DOMAIN mine /\ Subsumes(theirs[k], mine[k])
NarrowerTtl(t, u) == u = NoTtl \/ (t # NoTtl /\ t <= u)

IsNarrowerThan(a, b) ==
    /\ NarrowerScopes(a.scopes, b.scopes)
    /\ NarrowerCeilings(a.ceilings, b.ceilings)
    /\ NarrowerTtl(a.ttl, b.ttl)

\* permits(scope, ctx): the scope is covered and every ceiling admits.
Permits(a, scope, ctx) ==
    /\ CoversScope(a.scopes, scope)
    /\ \A k \in DOMAIN a.ceilings : Admits(a.ceilings[k], scope, ctx)
=============================================================================
