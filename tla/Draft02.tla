------------------------------- MODULE Draft02 -------------------------------
(***************************************************************************)
(* Authority under the draft -02 profile (src/src/draft02.ts, and the      *)
(* branches of src/src/authority.ts for profile "02").  What differs from  *)
(* the default profile: the scope grammar; constraints are held one per    *)
(* (key, type), so ceilings is a function of such pairs; four more types;  *)
(* and a cumulative constraint reads a running total that the component    *)
(* holding it supplies beside the context, and denies without one.         *)
(***************************************************************************)
EXTENDS Authority

CONSTANT OddSegments    \* the segments that are not [a-z][a-z0-9_-]*

\* classifyScope, of a scope that is valid: by its bytes alone.
Form(scope) ==
    IF Len(scope) = 1 \/ \E i \in DOMAIN scope : scope[i] \in OddSegments THEN "opaque"
    ELSE IF IsWildcard(scope) THEN "wildcard"
    ELSE "literal"

\* An opaque scope covers itself, and no wildcard covers it.
Covers02(held, requested) ==
    IF Form(held) = "wildcard"
    THEN Form(requested) # "opaque" /\ Covers(held, requested)
    ELSE held = requested

-----------------------------------------------------------------------------
(* The constraint types beside max, one_of, not_one_of, prefix and unknown, *)
(* which are as in Ceilings.  field is the context or totals field read.    *)

Floor(field, min) == [type |-> "Min", field |-> field, min |-> min]
Lifetime(field, max, appliesTo) ==
    [type |-> "MaxLifetime", field |-> field, max |-> max, appliesTo |-> appliesTo]
Subtree(field, max, appliesTo) ==
    [type |-> "MaxSubtree", field |-> field, max |-> max, appliesTo |-> appliesTo]
Ranked(field, rank, order) ==
    [type |-> "Rank", field |-> field, rank |-> rank, order |-> order]

IsCumulative(c) == c.type \in {"MaxLifetime", "MaxSubtree"}

MeasuresScope(c, scope) == c.appliesTo = EverySc \/ Covers02(c.appliesTo, scope)

\* A running total that is not held denies; a field left out of the context
\* asserts nothing.
AdmitsTotal(c, scope, totals) ==
    MeasuresScope(c, scope) =>
        /\ c.field \in DOMAIN totals
        /\ totals[c.field].kind = "number" /\ totals[c.field].num <= c.max

Admits02(c, scope, ctx, totals) ==
    CASE IsCumulative(c)  -> AdmitsTotal(c, scope, totals)
      [] c.type = "Min"   -> c.field \in DOMAIN ctx =>
                                ctx[c.field].kind = "number" /\ ctx[c.field].num >= c.min
      [] c.type = "Rank"  -> c.field \in DOMAIN ctx =>
                                \E i \in 1 .. c.rank : ctx[c.field] = String(<<c.order[i]>>)
      [] OTHER            -> Admits(c, scope, ctx)

\* Mutant: a floor comes down, as a maximum does.
NarrowDown(a, b) == IF a.type = "Min" THEN [a EXCEPT !.min = Min2(a.min, b.min)] ELSE b

\* Two constraints of one (key, type).
Narrow02(a, b) ==
    CASE IsCumulative(a)  -> [a EXCEPT !.max = Min2(a.max, b.max)]
      [] a.type = "Min"   -> [a EXCEPT !.min = IF a.min >= b.min THEN a.min ELSE b.min]
      [] a.type = "Rank"  -> [a EXCEPT !.rank = Min2(a.rank, b.rank)]
      [] OTHER            -> Narrow(a, b)

\* Mutant: a floor is compared as a maximum is.
SubsumesFloorReversed(a, b) ==
    IF a.type = "Min" THEN b.min <= a.min ELSE a = b

Subsumes02(a, b) ==
    CASE IsCumulative(a)  -> b.max <= a.max
      [] a.type = "Min"   -> a.min <= b.min
      [] a.type = "Rank"  -> a.order = b.order /\ b.rank <= a.rank
      [] OTHER            -> Subsumes(a, b)

-----------------------------------------------------------------------------
(* The lattice *)

CoversScope02(scopes, requested) == \E held \in scopes : Covers02(held, requested)

MeetScopes02(mine, theirs) ==
    LET merged == {s \in theirs : CoversScope02(mine, s)}
                  \cup {s \in mine : CoversScope02(theirs, s)}
    IN  {s \in merged : ~\E w \in merged : IsWildcard(w) /\ w # s /\ Covers02(w, s)}

\* Rank orderings that differ have no common narrowing.
MeetRefused02(a, b) ==
    \E p \in DOMAIN a.ceilings \cap DOMAIN b.ceilings :
        a.ceilings[p].type = "Rank" /\ a.ceilings[p].order # b.ceilings[p].order

MeetCeilings02(mine, theirs) ==
    [p \in DOMAIN mine \cup DOMAIN theirs |->
        IF p \notin DOMAIN theirs THEN mine[p]
        ELSE IF p \notin DOMAIN mine THEN theirs[p]
        ELSE Narrow02(mine[p], theirs[p])]

Meet02(a, b) ==
    AuthorityOf(MeetScopes02(a.scopes, b.scopes),
                MeetCeilings02(a.ceilings, b.ceilings),
                MeetTtl(a.ttl, b.ttl))

IsNarrowerThan02(a, b) ==
    /\ \A s \in a.scopes : CoversScope02(b.scopes, s)
    /\ \A p \in DOMAIN b.ceilings :
          p \in DOMAIN a.ceilings /\ Subsumes02(b.ceilings[p], a.ceilings[p])
    /\ NarrowerTtl(a.ttl, b.ttl)

WithoutTtl(a) == [a EXCEPT !.ttl = NoTtl]

\* totals name only fields that a cumulative constraint of a reads: anything
\* else is a misuse, and throws.
TotalFields(a) ==
    {a.ceilings[p].field : p \in {q \in DOMAIN a.ceilings : IsCumulative(a.ceilings[q])}}

Permits02(a, scope, ctx, totals) ==
    /\ CoversScope02(a.scopes, scope)
    /\ \A p \in DOMAIN a.ceilings : Admits02(a.ceilings[p], scope, ctx, totals)
=============================================================================
