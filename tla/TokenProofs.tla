------------------------------ MODULE TokenProofs ------------------------------
(***************************************************************************)
(* Which chains of tokens load, whoever minted, edited or left out what:   *)
(* a leaf has one chain above it; what is permitted to the leaf is         *)
(* permitted to every token of that chain; and the chain of a delegation   *)
(* path is refused for its length or for the time alone.                   *)
(***************************************************************************)
EXTENDS WireTokens, AuthorityProofs

-----------------------------------------------------------------------------
(* What load accepts *)

\* What every accepted chain has been found to be.
Accepted(chain, audience, t) ==
    /\ chain # <<>> /\ AllWellFormed(chain)
    /\ SignaturesVerify(chain) /\ RootIsUnlinked(chain) /\ Linked(chain) /\ DepthsCount(chain)
    /\ \A i \in After1(chain) : Narrows(chain, i)
    /\ InTime(chain, t)

\* No step of load can be left out.
LEMMA AcceptedPassesAll ==
    ASSUME draft \in Drafts, NEW chain, NEW audience, NEW t,
           Verdict(chain, audience, t) = "ok"
    PROVE  Accepted(chain, audience, t)
  BY WireAssumption DEF Verdict, Accepted

\* A chain of tokens is a function on an initial segment of the numbers.
LEMMA ChainLength ==
    ASSUME NEW chain \in Chains
    PROVE  /\ Len(chain) \in Nat /\ DOMAIN chain = 1 .. Len(chain)
           /\ chain \in [1 .. Len(chain) -> issued]
<1>1. PICK n \in 0 .. MaxChain : chain \in [1 .. n -> issued]
  BY DEF Chains
<1>2. n \in Nat
  BY WireAssumption
<1>3. chain \in Seq(issued) /\ DOMAIN chain = 1 .. n
  BY <1>1, <1>2
<1> QED
  BY <1>1, <1>2, <1>3

\* Each token is what its signature covers, and whether that verifies.
Minted ==
    /\ draft \in Drafts
    /\ \A t \in issued : t = [input |-> t.input, signed |-> t.signed] /\ t.signed \in BOOLEAN

\* Tokens are added one at a time.
LEMMA MintedNext ==
    ASSUME Minted, [WireNext]_wireVars
    PROVE  Minted'
<1>1. ASSUME NEW input, NEW signed \in BOOLEAN, Circulates(input, signed)
      PROVE  Minted'
  BY <1>1 DEF Minted, Circulates
<1>2. CASE UNCHANGED <<draft, issued>>
  BY <1>2 DEF Minted
<1>3. ASSUME NEW claims, MintRoot(claims)
      PROVE  Minted'
  BY <1>1, <1>3 DEF MintRoot
<1>4. ASSUME NEW token, NEW claims, NEW linked, MintChild(token, claims, linked)
      PROVE  Minted'
  BY <1>1, <1>4 DEF MintChild
<1>5. ASSUME NEW token, NEW claims, EditToken(token, claims)
      PROVE  Minted'
  BY <1>1, <1>5 DEF EditToken
<1>6. ASSUME NEW token, NEW request, MintDelegate(token, request)
      PROVE  Minted'
  BY <1>1, <1>6 DEF MintDelegate
<1>7. CASE Tick \/ UNCHANGED wireVars
  BY <1>2, <1>7 DEF Tick, wireVars
<1> QED
  BY <1>3, <1>4, <1>5, <1>6, <1>7 DEF WireNext

\* So is every token there ever is.
LEMMA MintedAlways == WireSpec => []Minted
<1>1. WireInit => Minted
  BY WireAssumption DEF WireInit, Minted
<1> QED
  BY <1>1, MintedNext, PTL DEF WireSpec

\* A leaf's depth is the length of its chain, and each par_hash is the parent.
LEMMA OneChainToALeaf ==
    ASSUME Minted
    PROVE  LeafDeterminesChain
<1> SUFFICES ASSUME NEW c \in Loading(NoAudience), NEW d \in Loading(NoAudience),
                    Leaf(c).input = Leaf(d).input
             PROVE  c = d
  BY DEF LeafDeterminesChain
<1>1. ASSUME NEW x \in Loading(NoAudience)
      PROVE  /\ x \in Chains /\ Accepted(x, NoAudience, now)
             /\ Len(x) \in Nat \ {0} /\ DOMAIN x = 1 .. Len(x)
             /\ \A i \in 1 .. Len(x) : x[i] \in issued /\ x[i].signed /\ x[i].input.depth = i - 1
             /\ \A i \in 2 .. Len(x) : x[i].input.par = <<x[i - 1].input>>
  <2>1. x \in Chains /\ Verdict(x, NoAudience, now) = "ok"
    BY DEF Loading
  <2>2. Accepted(x, NoAudience, now)
    BY <2>1, AcceptedPassesAll DEF Minted
  <2>3. Len(x) \in Nat /\ DOMAIN x = 1 .. Len(x) /\ x \in [1 .. Len(x) -> issued]
    BY <2>1, ChainLength
  <2>4. Len(x) # 0
    BY <2>2, <2>3 DEF Accepted
  <2>5. \A i \in 1 .. Len(x) : x[i].signed /\ x[i].input.depth = i - 1
    BY <2>2, <2>3 DEF Accepted, SignaturesVerify, DepthsCount
  <2>6. \A i \in 2 .. Len(x) : x[i].input.par = <<x[i - 1].input>>
    BY <2>2 DEF Accepted, Linked, After1
  <2> QED
    BY <2>1, <2>2, <2>3, <2>4, <2>5, <2>6
<1>2. PICK n \in Nat \ {0} : n = Len(c)
  BY <1>1
<1>3. n = Len(d)
  <2>1. Leaf(c).input.depth = n - 1 /\ Leaf(d).input.depth = Len(d) - 1
    BY <1>1, <1>2 DEF Leaf
  <2> QED
    BY <1>1, <2>1
<1>4. DOMAIN c = 1 .. n /\ DOMAIN d = 1 .. n /\ c[n].input = d[n].input
  BY <1>1, <1>2, <1>3 DEF Leaf
<1> DEFINE Differ == {k \in 0 .. n - 1 : c[n - k].input # d[n - k].input}
<1>5. Differ = {}
  <2> SUFFICES ASSUME Differ # {} PROVE FALSE
    OBVIOUS
  <2>1. PICK k \in Differ : \A m \in Differ : k <= m
    <3>1. Differ \in SUBSET Nat
      OBVIOUS
    <3> HIDE DEF Differ
    <3> QED
      BY <3>1, Least
  <2>2. k # 0 /\ k \in 1 .. n - 1
    BY <1>4, <2>1
  <2>3. k - 1 \in 0 .. n - 1 /\ k - 1 \notin Differ
    BY <2>1, <2>2
  <2>4. c[n - (k - 1)].input = d[n - (k - 1)].input
    BY <2>3
  <2>5. PICK i \in 2 .. n : i = n - (k - 1) /\ i - 1 = n - k
    BY <2>2
  <2>6. c[i].input.par = <<c[i - 1].input>> /\ d[i].input.par = <<d[i - 1].input>>
    BY <1>1, <1>2, <1>3
  <2>7. c[i - 1].input = d[i - 1].input
    BY <2>4, <2>5, <2>6
  <2> QED
    BY <2>1, <2>5, <2>7
<1>6. ASSUME NEW i \in 1 .. n
      PROVE  c[i] = d[i]
  <2>1. c[i].input = d[i].input
    <3>1. n - i \in 0 .. n - 1 /\ n - (n - i) = i
      OBVIOUS
    <3>2. n - i \notin Differ
      BY <1>5
    <3> QED
      BY <3>1, <3>2
  <2>2. c[i] \in issued /\ c[i].signed /\ d[i] \in issued /\ d[i].signed
    BY <1>1, <1>2, <1>3
  <2>3. c[i].signed = TRUE /\ d[i].signed = TRUE
    BY <2>2 DEF Minted
  <2>4. /\ c[i] = [input |-> c[i].input, signed |-> c[i].signed]
        /\ d[i] = [input |-> d[i].input, signed |-> d[i].signed]
    BY <2>2 DEF Minted
  <2> QED
    BY <2>1, <2>3, <2>4
<1>7. c \in [1 .. n -> issued] /\ d \in [1 .. n -> issued]
  <2>1. c \in Chains /\ d \in Chains
    BY <1>1
  <2> QED
    BY <1>2, <1>3, <2>1, ChainLength
<1> QED
  BY <1>6, <1>7

\* A leaf token is accepted with one chain above it and no other, whatever is
\* minted, left out, edited and presented.
THEOREM LeafHasOneChain == WireSpec => []LeafDeterminesChain
  BY MintedAlways, OneChainToALeaf, PTL

-----------------------------------------------------------------------------
(* Constraints and scopes under the -02 *)

FloorType == [type : {"Min"}, field : STRING, min : Int]
TotalType == [type : {"MaxLifetime", "MaxSubtree"}, field : STRING, max : Int,
              appliesTo : Seq(STRING)]
RankType == [type : {"Rank"}, field : STRING, rank : Int, order : Seq(STRING)]

IsConstraint(c) ==
    \/ c \in CeilingType \ UnknownType
    \/ c \in FloorType \cup TotalType \cup RankType
    \/ c = Unknown(c.raw)

Scoped == {"Max", "MaxLifetime", "MaxSubtree"}

\* Two constraints of one type ask the same question, of one field.
MeansAlike(c, d) ==
    /\ c.type = d.type
    /\ c.type # "Unknown" => c.field = d.field
    /\ c.type \in Scoped => c.appliesTo = d.appliesTo

\* A constraint's type tag decides what it is.
LEMMA ConstraintClass ==
    ASSUME NEW c, IsConstraint(c)
    PROVE  /\ c.type = "Min" => c \in FloorType /\ c.min \in Int
           /\ IsCumulative(c) => c \in TotalType /\ c.max \in Int
           /\ c.type = "Rank" => c \in RankType /\ c.rank \in Int
           /\ c.type = "Unknown" => c = Unknown(c.raw)
           /\ c.type \notin {"Min", "MaxLifetime", "MaxSubtree", "Rank", "Unknown"} =>
                  c \in CeilingType
                  /\ c.type \in {"Max", "EgressRank", "Allow", "Deny", "Prefix"}
<1>1. CASE c = Unknown(c.raw)
  BY <1>1 DEF Unknown, IsCumulative
<1>2. CASE c \in CeilingType \ UnknownType
  BY <1>2 DEF CeilingType, MaxType, EgressType, AllowType, DenyType, PrefixType, IsCumulative
<1>3. CASE c \in FloorType \cup TotalType \cup RankType
  BY <1>3 DEF FloorType, TotalType, RankType, IsCumulative
<1> QED
  BY <1>1, <1>2, <1>3 DEF IsConstraint

\* A constraint that subsumes another admits what that one admits.
LEMMA SubsumesAdmits02 ==
    ASSUME NEW c, IsConstraint(c), NEW d, IsConstraint(d), MeansAlike(c, d), Subsumes02(d, c),
           NEW scope, NEW ctx, \A f \in DOMAIN ctx : ctx[f] \in JsonValue,
           NEW totals, \A f \in DOMAIN totals : totals[f] \in JsonValue,
           Admits02(c, scope, ctx, totals)
    PROVE  Admits02(d, scope, ctx, totals)
<1>0. c.type = d.type
  BY DEF MeansAlike
<1>1. CASE IsCumulative(c)
  <2>1. /\ IsCumulative(d) /\ c.field = d.field /\ c.appliesTo = d.appliesTo
        /\ c.max \in Int /\ d.max \in Int /\ c.max <= d.max
    BY <1>0, <1>1, ConstraintClass DEF MeansAlike, IsCumulative, Scoped, Subsumes02
  <2>2. AdmitsTotal(c, scope, totals)
    BY <1>1 DEF Admits02, IsCumulative
  <2>3. \A f \in DOMAIN totals : totals[f].kind = "number" => totals[f].num \in Int
    BY DEF JsonValue
  <2>4. AdmitsTotal(d, scope, totals)
    BY <2>1, <2>2, <2>3 DEF AdmitsTotal, MeasuresScope
  <2> QED
    BY <2>1, <2>4 DEF Admits02, IsCumulative
<1>2. CASE c.type = "Min"
  <2>1. ~IsCumulative(c) /\ ~IsCumulative(d) /\ d.type = "Min"
    BY <1>0, <1>2 DEF IsCumulative
  <2>2. c.field = d.field /\ c.min \in Int /\ d.min \in Int /\ d.min <= c.min
    BY <1>0, <1>2, <2>1, ConstraintClass DEF MeansAlike, Subsumes02
  <2>3. c.field \in DOMAIN ctx => ctx[c.field].kind = "number" /\ ctx[c.field].num >= c.min
    BY <1>2, <2>1 DEF Admits02
  <2>4. \A f \in DOMAIN ctx : ctx[f].kind = "number" => ctx[f].num \in Int
    BY DEF JsonValue
  <2>5. d.field \in DOMAIN ctx => ctx[d.field].kind = "number" /\ ctx[d.field].num >= d.min
    BY <2>2, <2>3, <2>4
  <2> QED
    BY <2>1, <2>5 DEF Admits02
<1>3. CASE c.type = "Rank"
  <2>1. ~IsCumulative(c) /\ ~IsCumulative(d) /\ d.type = "Rank"
    BY <1>0, <1>3 DEF IsCumulative
  <2>2. /\ c.field = d.field /\ c.rank \in Int /\ d.rank \in Int
        /\ c.rank <= d.rank /\ c.order = d.order
    BY <1>0, <1>3, <2>1, ConstraintClass DEF MeansAlike, Subsumes02
  <2>3. c.field \in DOMAIN ctx => \E i \in 1 .. c.rank : ctx[c.field] = String(<<c.order[i]>>)
    BY <1>3, <2>1 DEF Admits02
  <2>4. d.field \in DOMAIN ctx => \E i \in 1 .. d.rank : ctx[d.field] = String(<<d.order[i]>>)
    BY <2>2, <2>3
  <2> QED
    BY <2>1, <2>4 DEF Admits02
<1>4. CASE c.type \notin {"Min", "MaxLifetime", "MaxSubtree", "Rank"}
  <2>1. Admits(c, scope, ctx) /\ Subsumes(d, c)
    BY <1>0, <1>4 DEF Admits02, Subsumes02, IsCumulative
  <2>2. c.type # "Unknown"
    BY <2>1 DEF Admits
  <2>3. /\ c \in CeilingType /\ d \in CeilingType /\ c.field = d.field
        /\ c.type = "Max" => c.appliesTo = d.appliesTo
    BY <1>0, <1>4, <2>2, ConstraintClass DEF MeansAlike, Scoped
  <2>4. Admits(d, scope, ctx)
    BY <2>1, <2>3, SubsumesAdmits
  <2> QED
    BY <1>0, <1>4, <2>4 DEF Admits02, IsCumulative
<1> QED
  BY <1>1, <1>2, <1>3, <1>4 DEF IsCumulative

\* Covering is transitive: no wildcard brings in an opaque scope.
LEMMA Covers02Transitive ==
    ASSUME NEW u \in Scope, NEW v \in Scope, NEW w \in Scope,
           Covers02(u, v), Covers02(v, w)
    PROVE  Covers02(u, w)
<1>1. CASE Form(u) # "wildcard"
  BY <1>1 DEF Covers02
<1>2. CASE Form(u) = "wildcard" /\ Form(v) # "wildcard"
  BY <1>2 DEF Covers02
<1>3. CASE Form(u) = "wildcard" /\ Form(v) = "wildcard"
  <2>1. Covers(u, v) /\ Covers(v, w) /\ Form(w) # "opaque"
    BY <1>3 DEF Covers02
  <2>2. Covers(u, w)
    BY <2>1, CoversTransitive
  <2> QED
    BY <1>3, <2>1, <2>2 DEF Covers02
<1> QED
  BY <1>1, <1>2, <1>3

\* What is narrower permits less, under the -02: with the same totals, and
\* whatever the running times of the two.
LEMMA NarrowerSound02 ==
    ASSUME NEW a, NEW b, a.scopes \subseteq Scope, b.scopes \subseteq Scope,
           \A s \in a.scopes : CoversScope02(b.scopes, s),
           \A p \in DOMAIN b.ceilings :
               /\ p \in DOMAIN a.ceilings /\ Subsumes02(b.ceilings[p], a.ceilings[p])
               /\ IsConstraint(a.ceilings[p]) /\ IsConstraint(b.ceilings[p])
               /\ MeansAlike(a.ceilings[p], b.ceilings[p]),
           NEW scope \in Scope, NEW ctx, \A f \in DOMAIN ctx : ctx[f] \in JsonValue,
           NEW totals, \A f \in DOMAIN totals : totals[f] \in JsonValue,
           Permits02(a, scope, ctx, totals)
    PROVE  Permits02(b, scope, ctx, totals)
<1>1. CoversScope02(b.scopes, scope)
  <2>1. PICK s \in a.scopes : Covers02(s, scope)
    BY DEF Permits02, CoversScope02
  <2>2. PICK t \in b.scopes : Covers02(t, s)
    BY DEF CoversScope02
  <2>3. Covers02(t, scope)
    BY <2>1, <2>2, Covers02Transitive
  <2> QED
    BY <2>3 DEF CoversScope02
<1>2. ASSUME NEW p \in DOMAIN b.ceilings
      PROVE  Admits02(b.ceilings[p], scope, ctx, totals)
  <2>1. Admits02(a.ceilings[p], scope, ctx, totals)
    BY DEF Permits02
  <2> QED
    BY <2>1, SubsumesAdmits02
<1> QED
  BY <1>1, <1>2 DEF Permits02

\* And under the -01, where an unknown ceiling denies everything.
LEMMA NarrowerSound01 ==
    ASSUME NEW a, NEW b, a.scopes \subseteq Scope, b.scopes \subseteq Scope,
           IsNarrowerThan(a, b),
           \A k \in DOMAIN a.ceilings \cap DOMAIN b.ceilings :
               a.ceilings[k].type = b.ceilings[k].type /\ a.ceilings[k].type # "Unknown" =>
                   /\ a.ceilings[k] \in CeilingType /\ b.ceilings[k] \in CeilingType
                   /\ MeansAlike(a.ceilings[k], b.ceilings[k]),
           NEW scope \in Scope, NEW ctx, \A f \in DOMAIN ctx : ctx[f] \in JsonValue,
           Permits(a, scope, ctx)
    PROVE  Permits(b, scope, ctx)
<1>1. CoversScope(b.scopes, scope)
  <2>1. NarrowerScopes(a.scopes, b.scopes) /\ CoversScope(a.scopes, scope)
    BY DEF IsNarrowerThan, Permits
  <2> QED
    BY <2>1, CoversScopeTransitive
<1>2. ASSUME NEW k \in DOMAIN b.ceilings
      PROVE  Admits(b.ceilings[k], scope, ctx)
  <2>1. k \in DOMAIN a.ceilings /\ Subsumes(b.ceilings[k], a.ceilings[k])
    BY DEF IsNarrowerThan, NarrowerCeilings
  <2>2. Admits(a.ceilings[k], scope, ctx)
    BY <2>1 DEF Permits
  <2>3. a.ceilings[k].type # "Unknown" /\ b.ceilings[k].type = a.ceilings[k].type
    BY <2>1, <2>2 DEF Admits, Subsumes, SameType
  <2>4. /\ a.ceilings[k] \in CeilingType /\ b.ceilings[k] \in CeilingType
        /\ MeansAlike(a.ceilings[k], b.ceilings[k])
    BY <2>1, <2>3
  <2>5. /\ a.ceilings[k].field = b.ceilings[k].field
        /\ a.ceilings[k].type = "Max" => a.ceilings[k].appliesTo = b.ceilings[k].appliesTo
    BY <2>3, <2>4 DEF MeansAlike, Scoped
  <2> QED
    BY <2>1, <2>2, <2>4, <2>5, SubsumesAdmits
<1> QED
  BY <1>1, <1>2 DEF Permits

-----------------------------------------------------------------------------
(* What claims are read as *)

\* Every constraint somebody asserts is one of those types, and a key names the
\* field that its constraints of a type read, and the calls they count.
Asserted(d) == UNION {c.constraints : c \in Claims[d] \cup Requests[d]}
KeysDeclare ==
    \A d \in Drafts : \A e, f \in Asserted(d) :
        /\ IsConstraint(e.ceiling)
        /\ e.key = f.key /\ e.ceiling.type = f.ceiling.type => MeansAlike(e.ceiling, f.ceiling)

MeantAs(k, x) ==
    IsConstraint(x) /\ \E e \in Asserted(draft) : e.key = k /\ MeansAlike(x, e.ceiling)
WellMeant(claims) ==
    /\ claims.scopes \subseteq Scope
    /\ \A c \in claims.constraints : MeantAs(c.key, c.ceiling)

\* So any two constraints of one key and type ask the same.
LEMMA MeantAlike ==
    ASSUME KeysDeclare, draft \in Drafts, NEW k, NEW x, NEW y, MeantAs(k, x), MeantAs(k, y),
           x.type = y.type
    PROVE  MeansAlike(x, y)
<1>1. PICK e \in Asserted(draft) : e.key = k /\ MeansAlike(x, e.ceiling)
  BY DEF MeantAs
<1>2. PICK f \in Asserted(draft) : f.key = k /\ MeansAlike(y, f.ceiling)
  BY DEF MeantAs
<1>3. e.ceiling.type = f.ceiling.type
  BY <1>1, <1>2 DEF MeansAlike
<1>4. MeansAlike(e.ceiling, f.ceiling)
  BY <1>1, <1>2, <1>3 DEF KeysDeclare
<1> QED
  BY <1>1, <1>2, <1>4 DEF MeansAlike

\* The ceiling of key k that load reads under the -01: of the class the build
\* has for k, or a limit on the calls of one scope, or unknown and kept whole.
Kept01(k, c) ==
    /\ Read01([key |-> k, ceiling |-> Written01(c)]) = c
    /\ MeantAs(k, Written01(c))
    /\ k \in Registered01 =>
          /\ c \in CeilingType /\ c.type \in {"Max", "EgressRank"}
          /\ c.type = IF k = "egress" THEN "EgressRank" ELSE "Max"
          /\ ~ScopedCalls(c)
    /\ k \notin Registered01 => c = Unknown(c.raw) \/ (c \in CeilingType /\ ScopedCalls(c))

\* Under the -02, one constraint per key and type.
Kept02(p, c) ==
    /\ p = <<p[1], c.type>>
    /\ MeantAs(p[1], c)
    /\ c.type # "EgressRank" /\ ~(p[1] = "max_calls" /\ c.type = "Max") /\ ~ScopedCalls(c)

\* A well-formed -01 payload reads so.
LEMMA Reads01 ==
    ASSUME NEW claims, WellMeant(claims), WellFormed01(claims)
    PROVE  /\ Authority01(claims).scopes = claims.scopes
           /\ Authority01(claims).ttl = claims.exp - claims.iat
           /\ DOMAIN Authority01(claims).ceilings = {c.key : c \in claims.constraints}
           /\ \A k \in DOMAIN Authority01(claims).ceilings :
                  Kept01(k, Authority01(claims).ceilings[k])
<1> DEFINE K == {c.key : c \in claims.constraints}
           Of(k) == CHOOSE c \in claims.constraints : c.key = k
           f == [k \in K |-> Read01(Of(k))]
<1>1. Authority01(claims) = [scopes |-> claims.scopes, ceilings |-> f,
                             ttl |-> claims.exp - claims.iat]
  BY DEF Authority01, AuthorityOf
<1>2. ASSUME NEW k \in K
      PROVE  Kept01(k, f[k])
  <2>1. PICK c : c = Of(k)
    OBVIOUS
  <2>2. c \in claims.constraints /\ c.key = k /\ f[k] = Read01(c)
    BY <2>1
  <2>3. MeantAs(k, c.ceiling) /\ IsConstraint(c.ceiling)
    BY <2>2 DEF WellMeant, MeantAs
  <2>4. CASE k \in Registered01
    <3>1. /\ c.ceiling.type = IF k = "egress" THEN "EgressRank" ELSE "Max"
          /\ ~ScopedCalls(c.ceiling)
      BY <2>2, <2>4 DEF WellFormed01
    <3>2. c.ceiling \in CeilingType /\ c.ceiling.type \in {"Max", "EgressRank"}
      BY <2>3, <3>1, ConstraintClass
    <3>3. f[k] = c.ceiling /\ Written01(f[k]) = f[k]
      BY <2>2, <2>4, <3>2 DEF Read01, Written01
    <3>4. Read01([key |-> k, ceiling |-> f[k]]) = f[k]
      BY <2>4 DEF Read01
    <3> HIDE DEF f
    <3> QED
      BY <2>3, <2>4, <3>1, <3>2, <3>3, <3>4 DEF Kept01
  <2>5. CASE k \notin Registered01 /\ ScopedCalls(c.ceiling)
    <3>1. c.ceiling \in CeilingType /\ c.ceiling.type = "Max"
      BY <2>3, <2>5, ConstraintClass DEF ScopedCalls
    <3>2. f[k] = c.ceiling /\ Written01(f[k]) = f[k]
      BY <2>2, <2>5, <3>1 DEF Read01, Written01
    <3>3. Read01([key |-> k, ceiling |-> f[k]]) = f[k]
      BY <2>5, <3>2 DEF Read01
    <3> HIDE DEF f
    <3> QED
      BY <2>3, <2>5, <3>1, <3>2, <3>3 DEF Kept01
  <2>6. CASE k \notin Registered01 /\ ~ScopedCalls(c.ceiling)
    <3>1. f[k] = Unknown(c.ceiling) /\ Written01(f[k]) = c.ceiling
      BY <2>2, <2>6 DEF Read01, Written01, Unknown
    <3>2. Read01([key |-> k, ceiling |-> c.ceiling]) = f[k]
      BY <2>6, <3>1 DEF Read01
    <3>3. f[k] = Unknown(f[k].raw)
      BY <3>1 DEF Unknown
    <3> HIDE DEF f
    <3> QED
      BY <2>3, <2>6, <3>1, <3>2, <3>3 DEF Kept01
  <2> QED
    BY <2>4, <2>5, <2>6
<1>3. DOMAIN f = K
  OBVIOUS
<1> HIDE DEF f
<1> QED
  BY <1>1, <1>2, <1>3

\* And a well-formed -02 payload.
LEMMA Reads02 ==
    ASSUME NEW claims, WellMeant(claims), WellFormed02(claims)
    PROVE  /\ Authority02(claims).scopes = claims.scopes
           /\ Authority02(claims).ttl = claims.exp - claims.iat
           /\ DOMAIN Authority02(claims).ceilings = {PairOf(c) : c \in claims.constraints}
           /\ \A p \in DOMAIN Authority02(claims).ceilings :
                  Kept02(p, Authority02(claims).ceilings[p])
<1> DEFINE P == {PairOf(c) : c \in claims.constraints}
           Of(p) == CHOOSE c \in claims.constraints : PairOf(c) = p
           f == [p \in P |-> Of(p).ceiling]
<1>1. Authority02(claims) = [scopes |-> claims.scopes, ceilings |-> f,
                             ttl |-> claims.exp - claims.iat]
  BY DEF Authority02, AuthorityOf
<1>2. ASSUME NEW p \in P
      PROVE  Kept02(p, f[p])
  <2>1. PICK c : c = Of(p)
    OBVIOUS
  <2>2. c \in claims.constraints /\ p = <<c.key, c.ceiling.type>> /\ f[p] = c.ceiling
    BY <2>1 DEF PairOf
  <2>3. p[1] = c.key
    BY <2>2
  <2>4. MeantAs(p[1], c.ceiling)
    BY <2>2, <2>3 DEF WellMeant
  <2>5. /\ c.ceiling.type # "EgressRank" /\ ~(p[1] = "max_calls" /\ c.ceiling.type = "Max")
        /\ ~ScopedCalls(c.ceiling)
    BY <2>2, <2>3 DEF WellFormed02
  <2> QED
    BY <2>2, <2>3, <2>4, <2>5 DEF Kept02
<1>3. DOMAIN f = P
  OBVIOUS
<1> HIDE DEF f
<1> QED
  BY <1>1, <1>2, <1>3

-----------------------------------------------------------------------------
(* Accepted chains are attenuated *)

\* What is asked of a chain can be asked: scopes, and JSON values.
ChecksRead ==
    /\ CheckedScopes \subseteq Scope
    /\ \A ctx \in CheckedContexts \cup CheckedTotals : \A f \in DOMAIN ctx : ctx[f] \in JsonValue

\* What an enforcement point asks of an authority.
PermitsAll(a, scope, ctx, totals) ==
    IF draft = "01" THEN Permits(a, scope, ctx) ELSE Permits02(a, scope, ctx, totals)

\* One link: what is permitted to a token is permitted to the one above it.
LEMMA LinkAttenuates ==
    ASSUME KeysDeclare, draft \in Drafts, NEW chain, NEW i, Narrows(chain, i),
           NEW x, x = ClaimsOf(chain, i), WellFormed(x), WellMeant(x),
           NEW y, y = ClaimsOf(chain, i - 1), WellFormed(y), WellMeant(y),
           NEW scope \in Scope, NEW ctx, \A f \in DOMAIN ctx : ctx[f] \in JsonValue,
           NEW totals, \A f \in DOMAIN totals : totals[f] \in JsonValue,
           PermitsAll(AuthorityOn(x), scope, ctx, totals)
    PROVE  PermitsAll(AuthorityOn(y), scope, ctx, totals)
<1>1. AuthorityIn(chain[i]) = AuthorityOn(x) /\ AuthorityIn(chain[i - 1]) = AuthorityOn(y)
  BY DEF AuthorityIn, ClaimsOf
<1>2. CASE draft = "01"
  <2>1. PICK a : a = Authority01(x)
    OBVIOUS
  <2>2. PICK b : b = Authority01(y)
    OBVIOUS
  <2>3. a = AuthorityOn(x) /\ b = AuthorityOn(y)
    BY <1>2, <2>1, <2>2 DEF AuthorityOn
  <2>4. IsNarrowerThan(a, b) /\ Permits(a, scope, ctx)
    BY <1>1, <1>2, <2>3 DEF Narrows, PermitsAll
  <2>5. /\ a.scopes \subseteq Scope
        /\ \A k \in DOMAIN a.ceilings : Kept01(k, a.ceilings[k])
    BY <1>2, <2>1, Reads01 DEF WellFormed, WellMeant
  <2>6. /\ b.scopes \subseteq Scope
        /\ \A k \in DOMAIN b.ceilings : Kept01(k, b.ceilings[k])
    BY <1>2, <2>2, Reads01 DEF WellFormed, WellMeant
  <2>7. ASSUME NEW k \in DOMAIN a.ceilings \cap DOMAIN b.ceilings,
               a.ceilings[k].type = b.ceilings[k].type, a.ceilings[k].type # "Unknown"
        PROVE  /\ a.ceilings[k] \in CeilingType /\ b.ceilings[k] \in CeilingType
               /\ MeansAlike(a.ceilings[k], b.ceilings[k])
    <3>1. Kept01(k, a.ceilings[k]) /\ Kept01(k, b.ceilings[k])
      BY <2>5, <2>6
    <3>2. a.ceilings[k] \in CeilingType /\ b.ceilings[k] \in CeilingType
      BY <2>7, <3>1 DEF Kept01, Unknown
    <3>3. MeantAs(k, a.ceilings[k]) /\ MeantAs(k, b.ceilings[k])
      BY <2>7, <3>1 DEF Kept01, Written01
    <3> QED
      BY <2>7, <3>1, <3>2, <3>3, MeantAlike DEF Kept01
  <2>8. Permits(b, scope, ctx)
    BY <2>4, <2>5, <2>6, <2>7, NarrowerSound01
  <2> QED
    BY <1>2, <2>3, <2>8 DEF PermitsAll
<1>3. CASE draft = "02"
  <2>1. PICK a : a = Authority02(x)
    OBVIOUS
  <2>2. PICK b : b = Authority02(y)
    OBVIOUS
  <2>3. a = AuthorityOn(x) /\ b = AuthorityOn(y)
    BY <1>3, <2>1, <2>2 DEF AuthorityOn
  <2>4. IsNarrowerThan02(WithoutTtl(a), WithoutTtl(b)) /\ Permits02(a, scope, ctx, totals)
    BY <1>1, <1>3, <2>3 DEF Narrows, PermitsAll
  <2>5. /\ a.scopes \subseteq Scope
        /\ \A p \in DOMAIN a.ceilings : Kept02(p, a.ceilings[p])
    BY <1>3, <2>1, Reads02 DEF WellFormed, WellMeant
  <2>6. /\ b.scopes \subseteq Scope
        /\ \A p \in DOMAIN b.ceilings : Kept02(p, b.ceilings[p])
    BY <1>3, <2>2, Reads02 DEF WellFormed, WellMeant
  <2>7. /\ WithoutTtl(a).scopes = a.scopes /\ WithoutTtl(a).ceilings = a.ceilings
        /\ WithoutTtl(b).scopes = b.scopes /\ WithoutTtl(b).ceilings = b.ceilings
    BY <2>1, <2>2 DEF WithoutTtl, Authority02, AuthorityOf
  <2>8. /\ \A s \in a.scopes : CoversScope02(b.scopes, s)
        /\ \A p \in DOMAIN b.ceilings :
              p \in DOMAIN a.ceilings /\ Subsumes02(b.ceilings[p], a.ceilings[p])
    BY <2>4, <2>7 DEF IsNarrowerThan02
  <2>9. ASSUME NEW p \in DOMAIN b.ceilings
        PROVE  /\ IsConstraint(a.ceilings[p]) /\ IsConstraint(b.ceilings[p])
               /\ MeansAlike(a.ceilings[p], b.ceilings[p])
    <3>1. Kept02(p, a.ceilings[p]) /\ Kept02(p, b.ceilings[p])
      BY <2>5, <2>6, <2>8
    <3>2. a.ceilings[p].type = b.ceilings[p].type
      <4>1. <<p[1], a.ceilings[p].type>> = <<p[1], b.ceilings[p].type>>
        BY <3>1 DEF Kept02
      <4> QED
        BY <4>1
    <3>3. MeantAs(p[1], a.ceilings[p]) /\ MeantAs(p[1], b.ceilings[p])
      BY <3>1 DEF Kept02
    <3> QED
      BY <3>2, <3>3, MeantAlike DEF MeantAs
  <2>10. Permits02(b, scope, ctx, totals)
    BY <2>4, <2>5, <2>6, <2>8, <2>9, NarrowerSound02
  <2> QED
    BY <1>3, <2>3, <2>10 DEF PermitsAll
<1> QED
  BY <1>2, <1>3, WireAssumption

\* From the leaf, link by link, up to any token of the chain.
LEMMA ChainAttenuates ==
    ASSUME KeysDeclare, ChecksRead, Minted, \A t \in issued : WellMeant(t.input.claims)
    PROVE  LoadedIsAttenuated
<1> SUFFICES ASSUME NEW audience \in Audiences, NEW chain \in Loading(audience),
                    NEW scope \in CheckedScopes, NEW ctx \in CheckedContexts,
                    NEW totals \in CheckedTotals,
                    ChainPermits(chain, audience, scope, ctx, totals),
                    NEW j \in DOMAIN chain
             PROVE  PermitsAll(AuthorityIn(chain[j]), scope, ctx, totals)
  BY DEF LoadedIsAttenuated, PermitsAll
<1>1. chain \in Chains /\ Accepted(chain, audience, now)
  <2>1. chain \in Chains /\ Verdict(chain, audience, now) = "ok"
    BY DEF Loading
  <2> QED
    BY <2>1, AcceptedPassesAll DEF Minted
<1>2. PICK n \in Nat : n = Len(chain) /\ DOMAIN chain = 1 .. n
                       /\ \A i \in 1 .. n : chain[i] \in issued
  BY <1>1, ChainLength
<1>3. ASSUME NEW i \in 1 .. n
      PROVE  /\ ClaimsOf(chain, i) = chain[i].input.claims
             /\ WellFormed(ClaimsOf(chain, i)) /\ WellMeant(ClaimsOf(chain, i))
             /\ AuthorityIn(chain[i]) = AuthorityOn(ClaimsOf(chain, i))
  BY <1>1, <1>2 DEF Accepted, AllWellFormed, AuthorityIn, ClaimsOf
<1> DEFINE Refused == {k \in 0 .. n - 1 :
                         ~PermitsAll(AuthorityIn(chain[n - k]), scope, ctx, totals)}
<1>4. Refused = {}
  <2> SUFFICES ASSUME Refused # {} PROVE FALSE
    OBVIOUS
  <2>1. PICK k \in Refused : \A m \in Refused : k <= m
    <3>1. Refused \in SUBSET Nat
      OBVIOUS
    <3> HIDE DEF Refused
    <3> QED
      BY <3>1, Least
  <2>2. PermitsAll(AuthorityIn(chain[n]), scope, ctx, totals)
    BY <1>2 DEF ChainPermits, Leaf, PermitsAll
  <2>3. k \in 1 .. n - 1
    BY <2>1, <2>2
  <2>4. k - 1 \in 0 .. n - 1 /\ k - 1 \notin Refused
    BY <2>1, <2>3
  <2>5. PICK i \in 2 .. n : i = n - (k - 1) /\ i - 1 = n - k
    BY <2>3
  <2>6. PermitsAll(AuthorityOn(ClaimsOf(chain, i)), scope, ctx, totals)
    BY <1>3, <2>4, <2>5
  <2>7. Narrows(chain, i)
    BY <1>1, <1>2, <2>5 DEF Accepted, After1
  <2>8. i - 1 \in 1 .. n
    BY <2>5
  <2>9. /\ scope \in Scope
        /\ \A f \in DOMAIN ctx : ctx[f] \in JsonValue
        /\ \A f \in DOMAIN totals : totals[f] \in JsonValue
    BY DEF ChecksRead
  <2>10. PermitsAll(AuthorityOn(ClaimsOf(chain, i - 1)), scope, ctx, totals)
    BY <1>3, <2>6, <2>7, <2>8, <2>9, LinkAttenuates DEF Minted
  <2>11. ~PermitsAll(AuthorityIn(chain[i - 1]), scope, ctx, totals)
    BY <2>1, <2>5
  <2> QED
    BY <1>3, <2>8, <2>10, <2>11
<1>5. n - j \in 0 .. n - 1 /\ n - (n - j) = j
  BY <1>2
<1>6. n - j \notin Refused
  BY <1>4
<1> QED
  BY <1>5, <1>6

-----------------------------------------------------------------------------
(* What a delegation puts on the wire *)

\* An unchanged constraint subsumes itself.
LEMMA Subsumes02Reflexive ==
    ASSUME NEW c, IsConstraint(c)
    PROVE  Subsumes02(c, c)
<1>1. CASE IsCumulative(c) \/ c.type = "Min" \/ c.type = "Rank"
  <2>1. IsCumulative(c) => c.max \in Int
    BY ConstraintClass
  <2>2. c.type = "Min" => c.min \in Int
    BY ConstraintClass
  <2>3. c.type = "Rank" => c.rank \in Int
    BY ConstraintClass
  <2> QED
    BY <1>1, <2>1, <2>2, <2>3 DEF Subsumes02, IsCumulative
<1>2. CASE c.type = "Unknown"
  BY <1>2 DEF Subsumes02, IsCumulative, Subsumes, SameType
<1>3. CASE c.type \notin {"Min", "MaxLifetime", "MaxSubtree", "Rank", "Unknown"}
  <2>1. Subsumes(c, c)
    BY <1>3, ConstraintClass, SubsumesReflexive
  <2> QED
    BY <1>3, <2>1 DEF Subsumes02, IsCumulative
<1> QED
  BY <1>1, <1>2, <1>3 DEF IsCumulative

\* What means the same as something meant is meant.
LEMMA MeantThrough ==
    ASSUME NEW k, NEW x, NEW y, MeantAs(k, x), MeansAlike(y, x), IsConstraint(y)
    PROVE  MeantAs(k, y)
  BY DEF MeantAs, MeansAlike

\* The narrower of two -01 ceilings is of their class, or the parent's unknown.
LEMMA NarrowKept01 ==
    ASSUME NEW k, NEW c, NEW d, Kept01(k, c), Kept01(k, d), SameType(c, d) \/ c.type = "Unknown"
    PROVE  Kept01(k, Narrow(c, d)) /\ Subsumes(c, Narrow(c, d))
<1>1. CASE c.type # "Unknown"
  <2>1. PICK n : n = Narrow(c, d)
    OBVIOUS
  <2>2. /\ c \in CeilingType /\ d \in CeilingType /\ c.type = d.type
        /\ c.type \in {"Max", "EgressRank"}
        /\ k \in Registered01 =>
              c.type = (IF k = "egress" THEN "EgressRank" ELSE "Max") /\ ~ScopedCalls(c)
        /\ k \notin Registered01 => ScopedCalls(c)
    BY <1>1 DEF Kept01, Unknown, SameType, ScopedCalls
  <2>3. n \in CeilingType /\ Subsumes(c, n)
    BY <2>1, <2>2, NarrowWithin
  <2>4. n.type = c.type
    BY <2>3 DEF Subsumes, SameType
  <2>5. MeansAlike(n, c)
    <3>1. CASE c.type = "Max"
      <4>1. c \in MaxType /\ n = [c EXCEPT !.max = Min2(c.max, d.max)]
        BY <2>1, <2>2, <3>1, CeilingClass DEF Narrow
      <4>2. n.field = c.field /\ n.appliesTo = c.appliesTo
        BY <4>1 DEF MaxType
      <4> QED
        BY <2>4, <4>2 DEF MeansAlike
    <3>2. CASE c.type = "EgressRank"
      <4>1. c \in EgressType /\ n = [c EXCEPT !.rank = Min2(c.rank, d.rank)]
        BY <2>1, <2>2, <3>2, CeilingClass DEF Narrow
      <4>2. n.field = c.field
        BY <4>1 DEF EgressType
      <4> QED
        BY <2>4, <3>2, <4>2 DEF MeansAlike, Scoped
    <3> QED
      BY <2>2, <3>1, <3>2
  <2>6. ScopedCalls(n) <=> ScopedCalls(c)
    BY <2>5 DEF ScopedCalls, MeansAlike, Scoped
  <2>7. Written01(n) = n /\ Read01([key |-> k, ceiling |-> n]) = n
    BY <1>1, <2>2, <2>4, <2>6 DEF Written01, Read01
  <2>8. MeantAs(k, c)
    BY <2>2 DEF Kept01, Written01
  <2>9. IsConstraint(n)
    BY <2>2, <2>3, <2>4 DEF IsConstraint, UnknownType
  <2>10. MeantAs(k, n)
    BY <2>5, <2>8, <2>9, MeantThrough
  <2>11. Kept01(k, n)
    BY <2>2, <2>3, <2>4, <2>7, <2>10, <2>6 DEF Kept01
  <2> QED
    BY <2>1, <2>3, <2>11
<1>2. CASE c.type = "Unknown"
  <2>1. Narrow(c, d) = c /\ Subsumes(c, c)
    BY <1>2 DEF Narrow, Subsumes, SameType
  <2> QED
    BY <2>1
<1> QED
  BY <1>1, <1>2

\* The narrower of two -02 constraints of a key and type is one of that key and type.
LEMMA NarrowKept02 ==
    ASSUME NEW p, NEW c, NEW d, Kept02(p, c), Kept02(p, d),
           c.type = "Rank" => c.order = d.order
    PROVE  Kept02(p, Narrow02(c, d)) /\ Subsumes02(c, Narrow02(c, d))
<1>1. PICK n : n = Narrow02(c, d)
  OBVIOUS
<1>2. c.type = d.type /\ IsConstraint(c) /\ IsConstraint(d)
  <2>1. <<p[1], c.type>> = <<p[1], d.type>>
    BY DEF Kept02
  <2> QED
    BY <2>1 DEF Kept02, MeantAs
<1>3. IsConstraint(n) /\ Subsumes02(c, n) /\ (MeansAlike(n, c) \/ MeansAlike(n, d))
  <2>1. CASE IsCumulative(c)
    <3>1. c \in TotalType /\ d \in TotalType /\ c.max \in Int /\ d.max \in Int
      BY <1>2, <2>1, ConstraintClass DEF IsCumulative
    <3>2. Min2(c.max, d.max) \in Int /\ Min2(c.max, d.max) <= c.max
      BY <3>1 DEF Min2
    <3>3. n = [c EXCEPT !.max = Min2(c.max, d.max)]
      BY <1>1, <2>1 DEF Narrow02, IsCumulative
    <3>4. n \in TotalType /\ n.max = Min2(c.max, d.max) /\ MeansAlike(n, c)
      BY <3>1, <3>2, <3>3 DEF TotalType, MeansAlike
    <3> QED
      BY <2>1, <3>2, <3>4 DEF IsConstraint, Subsumes02, IsCumulative
  <2>2. CASE c.type = "Min"
    <3>1. c \in FloorType /\ c.min \in Int /\ d.min \in Int
      BY <1>2, <2>2, ConstraintClass
    <3>2. PICK m \in Int : m = (IF c.min >= d.min THEN c.min ELSE d.min) /\ c.min <= m
      BY <3>1
    <3>3. n = [c EXCEPT !.min = m]
      BY <1>1, <2>2, <3>2 DEF Narrow02, IsCumulative
    <3>4. n \in FloorType /\ n.min = m /\ MeansAlike(n, c)
      BY <2>2, <3>1, <3>2, <3>3 DEF FloorType, MeansAlike, Scoped
    <3> QED
      BY <2>2, <3>2, <3>4 DEF IsConstraint, Subsumes02, IsCumulative
  <2>3. CASE c.type = "Rank"
    <3>1. c \in RankType /\ c.rank \in Int /\ d.rank \in Int
      BY <1>2, <2>3, ConstraintClass
    <3>2. Min2(c.rank, d.rank) \in Int /\ Min2(c.rank, d.rank) <= c.rank
      BY <3>1 DEF Min2
    <3>3. n = [c EXCEPT !.rank = Min2(c.rank, d.rank)]
      BY <1>1, <2>3 DEF Narrow02, IsCumulative
    <3>4. /\ n \in RankType /\ n.rank = Min2(c.rank, d.rank) /\ n.order = c.order
          /\ MeansAlike(n, c)
      BY <2>3, <3>1, <3>2, <3>3 DEF RankType, MeansAlike, Scoped
    <3> QED
      BY <2>3, <3>2, <3>4 DEF IsConstraint, Subsumes02, IsCumulative
  <2>4. CASE c.type = "Unknown"
    <3>1. n = c
      BY <1>1, <2>4 DEF Narrow02, Narrow, IsCumulative
    <3>2. MeansAlike(c, c)
      BY DEF MeansAlike
    <3> QED
      BY <1>2, <3>1, <3>2, Subsumes02Reflexive
  <2>5. CASE c.type \notin {"Min", "MaxLifetime", "MaxSubtree", "Rank", "Unknown"}
    <3>1. c \in CeilingType /\ d \in CeilingType /\ SameType(c, d)
      BY <1>2, <2>5, ConstraintClass DEF SameType
    <3>2. n = Narrow(c, d)
      BY <1>1, <2>5 DEF Narrow02, IsCumulative
    <3>3. n \in CeilingType /\ Subsumes(c, n) /\ n.type = c.type
      BY <3>1, <3>2, NarrowWithin DEF Subsumes, SameType
    <3>4. ReadsAs(n, c) \/ ReadsAs(n, d)
      BY <3>1, <3>2, NarrowReadsAs
    <3>5. MeansAlike(n, c) \/ MeansAlike(n, d)
      BY <1>2, <2>5, <3>3, <3>4 DEF ReadsAs, MeansAlike, Scoped
    <3>6. Subsumes02(c, n)
      BY <2>5, <3>3 DEF Subsumes02, IsCumulative
    <3>7. IsConstraint(n)
      BY <2>5, <3>3 DEF IsConstraint, UnknownType
    <3> QED
      BY <3>5, <3>6, <3>7
  <2> QED
    BY <2>1, <2>2, <2>3, <2>4, <2>5 DEF IsCumulative
<1>4. MeantAs(p[1], n)
  BY <1>3, MeantThrough DEF Kept02
<1>5. n.type = c.type /\ ~ScopedCalls(n)
  BY <1>2, <1>3 DEF MeansAlike, Kept02, ScopedCalls, Scoped
<1> QED
  BY <1>1, <1>3, <1>4, <1>5 DEF Kept02

\* The meet of a token's authority with a request, as it is held: each ceiling
\* as load would read it, and within the token's.
LEMMA MeetKept01 ==
    ASSUME NEW a, NEW b, a.scopes \subseteq Scope, b.scopes \subseteq Scope, ~MeetRefused(a, b),
           \A k \in DOMAIN a.ceilings : Kept01(k, a.ceilings[k]),
           \A k \in DOMAIN b.ceilings : Kept01(k, b.ceilings[k])
    PROVE  /\ Meet(a, b).scopes \subseteq a.scopes \cup b.scopes
           /\ NarrowerScopes(Meet(a, b).scopes, a.scopes)
           /\ \A k \in DOMAIN Meet(a, b).ceilings : Kept01(k, Meet(a, b).ceilings[k])
           /\ NarrowerCeilings(Meet(a, b).ceilings, a.ceilings)
<1>1. PICK m : m = Meet(a, b)
  OBVIOUS
<1>2. m.scopes = MeetScopes(a.scopes, b.scopes) /\ m.ceilings = MeetCeilings(a.ceilings, b.ceilings)
  BY <1>1 DEF Meet, AuthorityOf
<1>3. m.scopes \subseteq a.scopes \cup b.scopes
  BY <1>2 DEF MeetScopes
<1>4. NarrowerScopes(m.scopes, a.scopes)
  <2>1. PICK S \in SUBSET Scope : S = a.scopes
    OBVIOUS
  <2>2. PICK T \in SUBSET Scope : T = b.scopes
    OBVIOUS
  <2>3. NarrowerScopes(MeetScopes(S, T), S)
    BY MeetScopesWithin
  <2> QED
    BY <1>2, <2>1, <2>2, <2>3
<1>5. DOMAIN m.ceilings = DOMAIN a.ceilings \cup DOMAIN b.ceilings
  BY <1>2 DEF MeetCeilings
<1>6. ASSUME NEW k \in DOMAIN m.ceilings
      PROVE  /\ Kept01(k, m.ceilings[k])
             /\ k \in DOMAIN a.ceilings => Subsumes(a.ceilings[k], m.ceilings[k])
  <2>1. CASE k \in DOMAIN a.ceilings /\ k \notin DOMAIN b.ceilings
    <3>1. m.ceilings[k] = a.ceilings[k] /\ Kept01(k, a.ceilings[k])
      BY <1>2, <1>5, <2>1 DEF MeetCeilings
    <3>2. Subsumes(a.ceilings[k], a.ceilings[k])
      <4>1. a.ceilings[k].type = "Unknown" \/ a.ceilings[k] \in CeilingType
        BY <3>1 DEF Kept01, Unknown
      <4> QED
        BY <4>1, SubsumesReflexive DEF Subsumes, SameType
    <3> QED
      BY <3>1, <3>2
  <2>2. CASE k \in DOMAIN b.ceilings /\ k \notin DOMAIN a.ceilings
    BY <1>2, <1>5, <2>2 DEF MeetCeilings
  <2>3. CASE k \in DOMAIN a.ceilings /\ k \in DOMAIN b.ceilings
    <3>1. m.ceilings[k] = Narrow(a.ceilings[k], b.ceilings[k])
      BY <1>2, <1>5, <2>3 DEF MeetCeilings
    <3>2. /\ Kept01(k, a.ceilings[k]) /\ Kept01(k, b.ceilings[k])
          /\ SameType(a.ceilings[k], b.ceilings[k]) \/ a.ceilings[k].type = "Unknown"
      BY <2>3 DEF MeetRefused
    <3> QED
      BY <3>1, <3>2, NarrowKept01
  <2> QED
    BY <1>5, <2>1, <2>2, <2>3
<1>7. NarrowerCeilings(m.ceilings, a.ceilings)
  BY <1>5, <1>6 DEF NarrowerCeilings
<1> QED
  BY <1>1, <1>3, <1>4, <1>6, <1>7

\* The same under the -02.
LEMMA MeetKept02 ==
    ASSUME NEW a, NEW b, ~MeetRefused02(a, b),
           \A p \in DOMAIN a.ceilings : Kept02(p, a.ceilings[p]),
           \A p \in DOMAIN b.ceilings : Kept02(p, b.ceilings[p])
    PROVE  /\ Meet02(a, b).scopes \subseteq a.scopes \cup b.scopes
           /\ \A s \in Meet02(a, b).scopes : CoversScope02(a.scopes, s)
           /\ \A p \in DOMAIN Meet02(a, b).ceilings : Kept02(p, Meet02(a, b).ceilings[p])
           /\ \A p \in DOMAIN a.ceilings :
                  /\ p \in DOMAIN Meet02(a, b).ceilings
                  /\ Subsumes02(a.ceilings[p], Meet02(a, b).ceilings[p])
<1>1. PICK m : m = Meet02(a, b)
  OBVIOUS
<1>2. /\ m.scopes = MeetScopes02(a.scopes, b.scopes)
      /\ m.ceilings = MeetCeilings02(a.ceilings, b.ceilings)
  BY <1>1 DEF Meet02, AuthorityOf
<1>3. m.scopes \subseteq a.scopes \cup b.scopes
  BY <1>2 DEF MeetScopes02
<1>4. \A s \in m.scopes : CoversScope02(a.scopes, s)
  BY <1>2 DEF MeetScopes02, CoversScope02, Covers02, Covers
<1>5. DOMAIN m.ceilings = DOMAIN a.ceilings \cup DOMAIN b.ceilings
  BY <1>2 DEF MeetCeilings02
<1>6. ASSUME NEW p \in DOMAIN m.ceilings
      PROVE  /\ Kept02(p, m.ceilings[p])
             /\ p \in DOMAIN a.ceilings => Subsumes02(a.ceilings[p], m.ceilings[p])
  <2>1. CASE p \in DOMAIN a.ceilings /\ p \notin DOMAIN b.ceilings
    <3>1. m.ceilings[p] = a.ceilings[p] /\ Kept02(p, a.ceilings[p])
      BY <1>2, <1>5, <2>1 DEF MeetCeilings02
    <3>2. Subsumes02(a.ceilings[p], a.ceilings[p])
      BY <3>1, Subsumes02Reflexive DEF Kept02, MeantAs
    <3> QED
      BY <3>1, <3>2
  <2>2. CASE p \in DOMAIN b.ceilings /\ p \notin DOMAIN a.ceilings
    BY <1>2, <1>5, <2>2 DEF MeetCeilings02
  <2>3. CASE p \in DOMAIN a.ceilings /\ p \in DOMAIN b.ceilings
    <3>1. m.ceilings[p] = Narrow02(a.ceilings[p], b.ceilings[p])
      BY <1>2, <1>5, <2>3 DEF MeetCeilings02
    <3>2. /\ Kept02(p, a.ceilings[p]) /\ Kept02(p, b.ceilings[p])
          /\ a.ceilings[p].type = "Rank" => a.ceilings[p].order = b.ceilings[p].order
      BY <2>3 DEF MeetRefused02
    <3> QED
      BY <3>1, <3>2, NarrowKept02
  <2> QED
    BY <1>5, <2>1, <2>2, <2>3
<1> QED
  BY <1>1, <1>3, <1>4, <1>5, <1>6

\* What is written is read back: nothing is lost or altered by the wire.
ReadBack01(claims, a) ==
    /\ Authority01(claims) = a
    /\ \A c \in claims.constraints : MeantAs(c.key, c.ceiling)
    /\ \A c, d \in claims.constraints : c.key = d.key => c = d
    /\ \A c \in claims.constraints :
          c.key \in Registered01 =>
              /\ c.ceiling.type = IF c.key = "egress" THEN "EgressRank" ELSE "Max"
              /\ ~ScopedCalls(c.ceiling)
Carries01(claims, a) ==
    /\ a = AuthorityOf(a.scopes, a.ceilings, a.ttl)
    /\ a.ceilings = [k \in DOMAIN a.ceilings |-> a.ceilings[k]]
    /\ \A k \in DOMAIN a.ceilings : Kept01(k, a.ceilings[k])
    /\ claims.scopes = a.scopes /\ claims.constraints = ToWire(a)
    /\ claims.exp - claims.iat = a.ttl

\* It is read back as it was written, and is well formed.
LEMMA RoundTrip01 ==
    ASSUME draft = "01", NEW a, NEW claims, Carries01(claims, a)
    PROVE  ReadBack01(claims, a)
<1>0. PICK f : f = a.ceilings
  OBVIOUS
<1>00. /\ a = AuthorityOf(a.scopes, f, a.ttl) /\ f = [k \in DOMAIN f |-> f[k]]
       /\ \A k \in DOMAIN f : Kept01(k, f[k])
       /\ claims.scopes = a.scopes /\ claims.constraints = ToWire(a)
       /\ claims.exp - claims.iat = a.ttl
  BY <1>0 DEF Carries01
<1> DEFINE w(k) == [key |-> k, ceiling |-> Written01(f[k])]
<1>1. claims.constraints = {w(k) : k \in DOMAIN f}
  BY <1>0 DEF ToWire, Carries01
<1>2. \A k \in DOMAIN f : w(k).key = k /\ w(k) \in claims.constraints
  BY <1>1
<1>3. \A c \in claims.constraints : c.key \in DOMAIN f /\ c = w(c.key)
  BY <1>1
<1>4. \A c, d \in claims.constraints : c.key = d.key => c = d
  BY <1>3
<1>5. ASSUME NEW c \in claims.constraints
      PROVE  /\ MeantAs(c.key, c.ceiling)
             /\ c.key \in Registered01 =>
                    /\ c.ceiling.type = IF c.key = "egress" THEN "EgressRank" ELSE "Max"
                    /\ ~ScopedCalls(c.ceiling)
  <2>1. PICK k \in DOMAIN f : c = [key |-> k, ceiling |-> Written01(f[k])]
    BY <1>1
  <2>2. c.key = k /\ c.ceiling = Written01(f[k]) /\ Kept01(k, f[k])
    BY <1>00, <2>1
  <2> QED
    BY <2>2 DEF Kept01, Written01
<1> DEFINE Of(k) == CHOOSE c \in claims.constraints : c.key = k
           K == {c.key : c \in claims.constraints}
           g == [k \in K |-> Read01(Of(k))]
<1>6. Authority01(claims) = [scopes |-> a.scopes, ceilings |-> g, ttl |-> a.ttl]
  BY <1>00 DEF Authority01, AuthorityOf
<1>7. K = DOMAIN f
  <2>1. ASSUME NEW k \in DOMAIN f
        PROVE  k \in K
    <3>1. PICK c \in claims.constraints : c.key = k
      BY <1>2
    <3> QED
      BY <3>1
  <2>2. \A c \in claims.constraints : c.key \in DOMAIN f
    BY <1>3
  <2> QED
    BY <2>1, <2>2
<1>8. ASSUME NEW k \in DOMAIN f
      PROVE  Read01(Of(k)) = f[k]
  <2>1. Of(k) = w(k)
    BY <1>2, <1>4
  <2>2. Read01(w(k)) = f[k]
    BY <1>00 DEF Kept01
  <2> QED
    BY <2>1, <2>2
<1>9. g = f
  BY <1>00, <1>7, <1>8
<1> HIDE DEF g
<1> QED
  BY <1>00, <1>4, <1>5, <1>6, <1>9 DEF AuthorityOf, ReadBack01

\* The same under the -02.
ReadBack02(claims, a) ==
    /\ Authority02(claims) = a
    /\ \A c \in claims.constraints : MeantAs(c.key, c.ceiling)
    /\ \A c, d \in claims.constraints :
          c.key = d.key /\ c.ceiling.type = d.ceiling.type => c = d
    /\ \A c \in claims.constraints :
          /\ c.ceiling.type # "EgressRank"
          /\ ~(c.key = "max_calls" /\ c.ceiling.type = "Max") /\ ~ScopedCalls(c.ceiling)
Carries02(claims, a) ==
    /\ a = AuthorityOf(a.scopes, a.ceilings, a.ttl)
    /\ a.ceilings = [p \in DOMAIN a.ceilings |-> a.ceilings[p]]
    /\ \A p \in DOMAIN a.ceilings : Kept02(p, a.ceilings[p])
    /\ claims.scopes = a.scopes /\ claims.constraints = ToWire(a)
    /\ claims.exp - claims.iat = a.ttl

\* It is read back as it was written, and is well formed.
LEMMA RoundTrip02 ==
    ASSUME draft = "02", NEW a, NEW claims, Carries02(claims, a)
    PROVE  ReadBack02(claims, a)
<1>0. PICK f : f = a.ceilings
  OBVIOUS
<1>00. /\ a = AuthorityOf(a.scopes, f, a.ttl) /\ f = [p \in DOMAIN f |-> f[p]]
       /\ \A p \in DOMAIN f : Kept02(p, f[p])
       /\ claims.scopes = a.scopes /\ claims.constraints = ToWire(a)
       /\ claims.exp - claims.iat = a.ttl
  BY <1>0 DEF Carries02
<1> DEFINE w(p) == [key |-> p[1], ceiling |-> f[p]]
<1>1. claims.constraints = {w(p) : p \in DOMAIN f}
  BY <1>0 DEF ToWire, Carries02
<1>2. ASSUME NEW p \in DOMAIN f
      PROVE  PairOf(w(p)) = p /\ w(p) \in claims.constraints
  <2>1. p = <<p[1], f[p].type>>
    BY <1>00 DEF Kept02
  <2>2. PairOf(w(p)) = <<p[1], f[p].type>>
    BY DEF PairOf
  <2> QED
    BY <1>1, <2>1, <2>2
<1>3. ASSUME NEW c \in claims.constraints
      PROVE  PairOf(c) \in DOMAIN f /\ c = w(PairOf(c))
  <2>1. PICK p \in DOMAIN f : c = w(p)
    BY <1>1
  <2>2. PairOf(c) = p
    BY <1>2, <2>1
  <2> QED
    BY <2>1, <2>2
<1>4. \A c, d \in claims.constraints : PairOf(c) = PairOf(d) => c = d
  BY <1>3
<1>5. ASSUME NEW c \in claims.constraints
      PROVE  /\ MeantAs(c.key, c.ceiling) /\ c.ceiling.type # "EgressRank"
             /\ ~(c.key = "max_calls" /\ c.ceiling.type = "Max") /\ ~ScopedCalls(c.ceiling)
  <2>1. PICK p \in DOMAIN f : c = w(p)
    BY <1>1
  <2>2. c.key = p[1] /\ c.ceiling = f[p] /\ Kept02(p, f[p])
    BY <1>00, <2>1
  <2> QED
    BY <2>2 DEF Kept02
<1>6. \A c, d \in claims.constraints : c.key = d.key /\ c.ceiling.type = d.ceiling.type => c = d
  BY <1>4 DEF PairOf
<1> DEFINE Of(p) == CHOOSE c \in claims.constraints : PairOf(c) = p
           P == {PairOf(c) : c \in claims.constraints}
           g == [p \in P |-> Of(p).ceiling]
<1>7. Authority02(claims) = [scopes |-> a.scopes, ceilings |-> g, ttl |-> a.ttl]
  BY <1>00 DEF Authority02, AuthorityOf
<1>8. P = DOMAIN f
  BY <1>2, <1>3
<1>9. ASSUME NEW p \in DOMAIN f
      PROVE  Of(p).ceiling = f[p]
  <2>1. Of(p) = w(p)
    BY <1>2, <1>4
  <2>2. w(p).ceiling = f[p]
    OBVIOUS
  <2> HIDE DEF Of, w
  <2> QED
    BY <2>1, <2>2
<1>10. g = f
  BY <1>00, <1>8, <1>9
<1> HIDE DEF g
<1> QED
  BY <1>00, <1>5, <1>6, <1>7, <1>10 DEF AuthorityOf, ReadBack02

-----------------------------------------------------------------------------
(* Delegation paths *)

\* Claims with every member, the times and the depth bound as numbers.
IsClaims(c) ==
    /\ c = [kid |-> c.kid, scopes |-> c.scopes, constraints |-> c.constraints,
            iat |-> c.iat, exp |-> c.exp, nbf |-> c.nbf, maxDepth |-> c.maxDepth,
            sub |-> c.sub, aud |-> c.aud]
    /\ c.iat \in Int /\ c.exp \in Int /\ c.nbf \in Int /\ c.maxDepth \in Nat

\* What minters and delegates write has that form.
ClaimsTyped ==
    \A d \in Drafts :
        /\ \A c \in Claims[d] : IsClaims(c) /\ c.scopes \subseteq Scope
        /\ \A r \in Requests[d] : r.scopes \subseteq Scope /\ r.extra \in Int

ProperClaims(c) == IsClaims(c) /\ WellMeant(c) /\ WellFormed(c) /\ c.iat <= c.exp

\* The step of load that compares two authorities, between claims.
NarrowsClaims(n, q) ==
    IF draft = "01" THEN IsNarrowerThan(AuthorityOn(n), AuthorityOn(q))
    ELSE IsNarrowerThan02(WithoutTtl(AuthorityOn(n)), WithoutTtl(AuthorityOn(q)))

\* What a delegate has from the one above it.
Descends(n, q) ==
    /\ n.kid = q.kid /\ n.sub = q.sub /\ n.iat = q.iat /\ n.nbf = q.nbf
    /\ n.maxDepth = NoBound /\ n.exp <= q.exp
    /\ NarrowsClaims(n, q)

\* The members that a delegation replaces, and those it keeps.
Cut(c, s, k, e) ==
    [c EXCEPT !.scopes = s, !.constraints = k, !.exp = e, !.maxDepth = NoBound]
IsCut(n, c, s, k, e) ==
    /\ IsClaims(n)
    /\ n.scopes = s /\ n.constraints = k /\ n.exp = e /\ n.maxDepth = NoBound
    /\ n.kid = c.kid /\ n.sub = c.sub /\ n.aud = c.aud /\ n.iat = c.iat /\ n.nbf = c.nbf

\* The rest of the claims stays.
LEMMA ReplacedMembers ==
    ASSUME NEW c, IsClaims(c), NEW s, NEW k, NEW e \in Int
    PROVE  IsCut(Cut(c, s, k, e), c, s, k, e)
<1>0. PICK n : n = [c EXCEPT !.scopes = s, !.constraints = k, !.exp = e, !.maxDepth = NoBound]
  OBVIOUS
<1>1. n = [kid |-> c.kid, scopes |-> s, constraints |-> k, iat |-> c.iat, exp |-> e,
           nbf |-> c.nbf, maxDepth |-> NoBound, sub |-> c.sub, aud |-> c.aud]
  BY <1>0 DEF IsClaims
<1>2. IsCut(n, c, s, k, e)
  BY <1>1 DEF IsClaims, IsCut, NoBound
<1>3. n = Cut(c, s, k, e)
  BY <1>0 DEF Cut
<1> QED
  BY <1>2, <1>3

\* A request, as the claims it would make of its parent's.
LEMMA AskedMembers ==
    ASSUME NEW parent, IsClaims(parent.input.claims), NEW r, r.extra \in Int,
           NEW c, c = Asked(parent, r)
    PROVE  /\ IsClaims(c)
           /\ c.scopes = r.scopes /\ c.constraints = r.constraints
           /\ c.exp = parent.input.claims.exp + r.extra
           /\ c.iat = parent.input.claims.iat
           /\ c.sub = parent.input.claims.sub /\ c.aud = parent.input.claims.aud
<1>1. PICK q : q = parent.input.claims
  OBVIOUS
<1>2. PICK e \in Int : e = q.exp + r.extra
  BY <1>1 DEF IsClaims
<1>3. c = [kid |-> q.kid, scopes |-> r.scopes, constraints |-> r.constraints, iat |-> q.iat,
           exp |-> e, nbf |-> q.nbf, maxDepth |-> q.maxDepth, sub |-> q.sub, aud |-> q.aud]
  BY <1>1, <1>2 DEF Asked, IsClaims
<1> QED
  BY <1>1, <1>2, <1>3 DEF IsClaims

\* The authority of a delegate: the meet, as long as neither side allows, under
\* either revision.
DelegatedAuthority(mine, asked) ==
    IF draft = "01" THEN Meet(mine, asked) ELSE Meet02(mine, asked)

\* The shorter of two running times.
LEMMA MeetOfTimes ==
    ASSUME NEW a, NEW b, a.ttl \in Nat, b.ttl \in Nat, NEW m, m = DelegatedAuthority(a, b)
    PROVE  m.ttl \in Nat /\ m.ttl <= a.ttl
<1>1. m.ttl = MeetTtl(a.ttl, b.ttl)
  BY DEF DelegatedAuthority, Meet, Meet02, AuthorityOf
<1> QED
  BY <1>1 DEF MeetTtl, Min2, NoTtl

\* A delegation from a proper token makes proper claims that descend from its
\* own: what the meet gives, put on the wire and read back, is what load asks.
LEMMA DelegateDescends ==
    ASSUME draft \in Drafts,
           NEW q, ProperClaims(q), NEW r, IsClaims(r), WellMeant(r), WellFormed(r),
           NEW mine, mine = AuthorityOn(q), NEW asked, asked = AuthorityOn(r), asked.ttl >= 0,
           IF draft = "01" THEN ~MeetRefused(mine, asked) ELSE ~MeetRefused02(mine, asked),
           NEW a, a = DelegatedAuthority(mine, asked),
           NEW n, n = [q EXCEPT !.scopes = a.scopes, !.constraints = ToWire(a),
                                !.exp = q.iat + a.ttl, !.maxDepth = NoBound]
    PROVE  ProperClaims(n) /\ Descends(n, q)
<1>1. /\ mine.scopes = q.scopes /\ mine.ttl = q.exp - q.iat
      /\ asked.scopes = r.scopes /\ asked.ttl = r.exp - r.iat
  BY DEF AuthorityOn, Authority01, Authority02, AuthorityOf
<1>2. q.iat \in Int /\ q.exp \in Int /\ r.iat \in Int /\ r.exp \in Int /\ q.iat <= q.exp
  BY DEF ProperClaims, IsClaims
<1>3. mine.ttl \in Nat /\ asked.ttl \in Nat
  BY <1>1, <1>2
<1>4. a.ttl \in Nat /\ a.ttl <= mine.ttl
  BY <1>3, MeetOfTimes
<1>5. PICK e \in Int : e = q.iat + a.ttl
  BY <1>2, <1>4
<1>6. PICK k : k = ToWire(a)
  OBVIOUS
<1>7. IsClaims(q)
  BY DEF ProperClaims
<1>8. n = Cut(q, a.scopes, k, e)
  BY <1>5, <1>6 DEF Cut
<1>81. IsCut(n, q, a.scopes, k, e)
  BY <1>7, <1>8, ReplacedMembers
<1>9. /\ IsClaims(n)
      /\ n.scopes = a.scopes /\ n.constraints = k /\ n.exp = e /\ n.maxDepth = NoBound
      /\ n.kid = q.kid /\ n.sub = q.sub /\ n.aud = q.aud /\ n.iat = q.iat /\ n.nbf = q.nbf
  BY <1>81 DEF IsCut
<1>10. n.exp - n.iat = a.ttl /\ n.iat <= n.exp /\ n.exp <= q.exp
  BY <1>1, <1>2, <1>4, <1>5, <1>9
<1>11. WellMeant(q) /\ WellFormed(q) /\ q.scopes \subseteq Scope /\ r.scopes \subseteq Scope
  BY DEF ProperClaims, WellMeant
<1>12. CASE draft = "01"
  <2>1. mine = Authority01(q) /\ asked = Authority01(r) /\ a = Meet(mine, asked)
    BY <1>12 DEF AuthorityOn, DelegatedAuthority
  <2>2. WellFormed01(q) /\ WellFormed01(r) /\ ~MeetRefused(mine, asked)
    BY <1>11, <1>12 DEF WellFormed
  <2>3. \A key \in DOMAIN mine.ceilings : Kept01(key, mine.ceilings[key])
    BY <1>11, <2>1, <2>2, Reads01
  <2>4. \A key \in DOMAIN asked.ceilings : Kept01(key, asked.ceilings[key])
    BY <2>1, <2>2, Reads01
  <2>5. mine.scopes \subseteq Scope /\ asked.scopes \subseteq Scope
    BY <1>1, <1>11
  <2>6. /\ a.scopes \subseteq mine.scopes \cup asked.scopes
        /\ NarrowerScopes(a.scopes, mine.scopes)
        /\ \A key \in DOMAIN a.ceilings : Kept01(key, a.ceilings[key])
        /\ NarrowerCeilings(a.ceilings, mine.ceilings)
    BY <2>1, <2>2, <2>3, <2>4, <2>5, MeetKept01
  <2>7. a = AuthorityOf(a.scopes, a.ceilings, a.ttl)
        /\ a.ceilings = [key \in DOMAIN a.ceilings |-> a.ceilings[key]]
    BY <2>1 DEF Meet, AuthorityOf, MeetCeilings
  <2>8. Carries01(n, a)
    BY <1>6, <1>9, <1>10, <2>6, <2>7 DEF Carries01
  <2>9. ReadBack01(n, a)
    BY <1>12, <2>8, RoundTrip01
  <2>10. \A s \in n.scopes : Form(s) # "opaque" /\ s \in Scope
    BY <1>1, <1>9, <1>11, <2>2, <2>6 DEF WellFormed01
  <2>11. WellMeant(n) /\ WellFormed(n)
    BY <1>12, <2>9, <2>10 DEF WellMeant, WellFormed, WellFormed01, ReadBack01
  <2>12. NarrowerTtl(a.ttl, mine.ttl)
    BY <1>3, <1>4 DEF NarrowerTtl, NoTtl
  <2>13. NarrowsClaims(n, q)
    BY <1>12, <2>1, <2>6, <2>9, <2>12
       DEF NarrowsClaims, AuthorityOn, IsNarrowerThan, ReadBack01
  <2> QED
    BY <1>9, <1>10, <2>11, <2>13 DEF ProperClaims, Descends
<1>13. CASE draft = "02"
  <2>1. mine = Authority02(q) /\ asked = Authority02(r) /\ a = Meet02(mine, asked)
    BY <1>13 DEF AuthorityOn, DelegatedAuthority
  <2>2. WellFormed02(q) /\ WellFormed02(r) /\ ~MeetRefused02(mine, asked)
    BY <1>11, <1>13 DEF WellFormed
  <2>3. \A p \in DOMAIN mine.ceilings : Kept02(p, mine.ceilings[p])
    BY <1>11, <2>1, <2>2, Reads02
  <2>4. \A p \in DOMAIN asked.ceilings : Kept02(p, asked.ceilings[p])
    BY <2>1, <2>2, Reads02
  <2>5. /\ a.scopes \subseteq mine.scopes \cup asked.scopes
        /\ \A s \in a.scopes : CoversScope02(mine.scopes, s)
        /\ \A p \in DOMAIN a.ceilings : Kept02(p, a.ceilings[p])
        /\ \A p \in DOMAIN mine.ceilings :
              p \in DOMAIN a.ceilings /\ Subsumes02(mine.ceilings[p], a.ceilings[p])
    BY <2>1, <2>2, <2>3, <2>4, MeetKept02
  <2>6. a = AuthorityOf(a.scopes, a.ceilings, a.ttl)
        /\ a.ceilings = [p \in DOMAIN a.ceilings |-> a.ceilings[p]]
    BY <2>1 DEF Meet02, AuthorityOf, MeetCeilings02
  <2>7. Carries02(n, a)
    BY <1>6, <1>9, <1>10, <2>5, <2>6 DEF Carries02
  <2>8. ReadBack02(n, a)
    BY <1>13, <2>7, RoundTrip02
  <2>9. n.sub # Nobody /\ n.aud # {}
    BY <1>9, <2>2 DEF WellFormed02
  <2>10. n.scopes \subseteq Scope
    BY <1>1, <1>9, <1>11, <2>5
  <2>11. WellMeant(n) /\ WellFormed(n)
    BY <1>13, <2>8, <2>9, <2>10 DEF WellMeant, WellFormed, WellFormed02, ReadBack02
  <2>12. /\ WithoutTtl(a).scopes = a.scopes /\ WithoutTtl(a).ceilings = a.ceilings
         /\ WithoutTtl(mine).scopes = mine.scopes /\ WithoutTtl(mine).ceilings = mine.ceilings
         /\ WithoutTtl(mine).ttl = NoTtl
    BY <2>1 DEF WithoutTtl, Authority02, Meet02, AuthorityOf
  <2>13. IsNarrowerThan02(WithoutTtl(a), WithoutTtl(mine))
    BY <2>5, <2>12 DEF IsNarrowerThan02, NarrowerTtl
  <2>14. NarrowsClaims(n, q)
    BY <1>13, <2>1, <2>8, <2>13 DEF NarrowsClaims, AuthorityOn, ReadBack02
  <2> QED
    BY <1>9, <1>10, <2>11, <2>14 DEF ProperClaims, Descends
<1> QED
  BY <1>12, <1>13, WireAssumption

\* An input of a signature, with all that it covers.
IsInput(i) == i = [claims |-> i.claims, depth |-> i.depth, par |-> i.par]

\* The input of a token on a delegation path: the root's, or one that commits
\* to the path's input before it and descends from its claims.
OnPath(i) ==
    /\ ProperClaims(i.claims) /\ i.depth \in Nat
    /\ \/ /\ i.depth = 0 /\ i.par = <<>>
          /\ i.claims.kid \in TrustedRoots /\ i.claims.maxDepth > 0
       \/ /\ i.depth # 0
          /\ \E q \in proper :
                i.par = <<q>> /\ q.depth = i.depth - 1 /\ Descends(i.claims, q.claims)

TokensFit ==
    /\ Minted
    /\ \A t \in issued : IsInput(t.input) /\ WellMeant(t.input.claims)
    /\ \A i \in proper : OnPath(i)

\* What a minter writes is meant.
LEMMA ClaimsMeant ==
    ASSUME KeysDeclare, ClaimsTyped, draft \in Drafts, NEW c \in Claims[draft]
    PROVE  IsClaims(c) /\ WellMeant(c) /\ c.iat <= c.exp
<1>1. IsClaims(c) /\ c.scopes \subseteq Scope /\ c.iat <= c.exp
  BY WireAssumption DEF ClaimsTyped
<1>2. ASSUME NEW e \in c.constraints
      PROVE  MeantAs(e.key, e.ceiling)
  <2>1. e \in Asserted(draft)
    BY DEF Asserted
  <2>2. IsConstraint(e.ceiling) /\ MeansAlike(e.ceiling, e.ceiling)
    BY <2>1 DEF KeysDeclare
  <2> QED
    BY <2>1, <2>2 DEF MeantAs
<1> QED
  BY <1>1, <1>2 DEF WellMeant

\* And what a delegate asks for.
LEMMA RequestMeant ==
    ASSUME KeysDeclare, ClaimsTyped, draft \in Drafts, NEW r \in Requests[draft],
           NEW parent, IsClaims(parent.input.claims)
    PROVE  IsClaims(Asked(parent, r)) /\ WellMeant(Asked(parent, r))
<1>1. PICK c : c = Asked(parent, r)
  OBVIOUS
<1>2. r.extra \in Int /\ r.scopes \subseteq Scope
  BY DEF ClaimsTyped
<1>3. IsClaims(c) /\ c.scopes = r.scopes /\ c.constraints = r.constraints
  BY <1>1, <1>2, AskedMembers
<1>4. ASSUME NEW e \in c.constraints
      PROVE  MeantAs(e.key, e.ceiling)
  <2>1. e \in Asserted(draft)
    BY <1>3 DEF Asserted
  <2>2. IsConstraint(e.ceiling) /\ MeansAlike(e.ceiling, e.ceiling)
    BY <2>1 DEF KeysDeclare
  <2> QED
    BY <2>1, <2>2 DEF MeantAs
<1> QED
  BY <1>1, <1>2, <1>3, <1>4 DEF WellMeant

\* A step adds one token that is meant, and with it one input to a path, or none.
Adds(input, signed) ==
    /\ draft' = draft /\ signed \in BOOLEAN
    /\ issued' = issued \cup {[input |-> input, signed |-> signed]}
    /\ IsInput(input) /\ WellMeant(input.claims)
    /\ proper' = proper \/ (proper' = proper \cup {input} /\ OnPath(input))

\* Each minter's step is such a step.
LEMMA TokenSteps ==
    ASSUME KeysDeclare, ClaimsTyped, TokensFit, [WireNext]_wireVars
    PROVE  \/ UNCHANGED <<draft, issued, proper>>
           \/ \E input, signed : Adds(input, signed)
<1>0. draft \in Drafts
  BY DEF TokensFit, Minted
<1>1. ASSUME NEW claims \in Claims[draft], MintRoot(claims)
      PROVE  \E input, signed : Adds(input, signed)
  <2>1. PICK i : i = [claims |-> claims, depth |-> 0, par |-> <<>>]
    OBVIOUS
  <2>2. IsInput(i) /\ i.claims = claims /\ i.depth = 0 /\ i.par = <<>>
    BY <2>1 DEF IsInput
  <2>3. IsClaims(claims) /\ WellMeant(claims) /\ claims.iat <= claims.exp
    BY <1>0, ClaimsMeant
  <2>4. Circulates(i, TRUE)
    BY <1>1, <2>1 DEF MintRoot
  <2>5. CASE WellFormed(claims) /\ claims.kid \in TrustedRoots /\ claims.maxDepth > 0
    <3>1. proper' = proper \cup {i}
      BY <1>1, <2>1, <2>5 DEF MintRoot
    <3>2. OnPath(i)
      BY <2>2, <2>3, <2>5 DEF OnPath, ProperClaims
    <3>3. Adds(i, TRUE)
      BY <2>2, <2>3, <2>4, <3>1, <3>2 DEF Adds, Circulates
    <3> QED
      BY <3>3
  <2>6. CASE ~(WellFormed(claims) /\ claims.kid \in TrustedRoots /\ claims.maxDepth > 0)
    <3>1. proper' = proper
      BY <1>1, <2>6 DEF MintRoot
    <3>2. Adds(i, TRUE)
      BY <2>2, <2>3, <2>4, <3>1 DEF Adds, Circulates
    <3> QED
      BY <3>2
  <2> QED
    BY <2>5, <2>6
<1>2. ASSUME NEW claims \in Claims[draft], NEW token \in issued, NEW linked \in BOOLEAN,
             MintChild(token, claims, linked)
      PROVE  \E input, signed : Adds(input, signed)
  <2>1. PICK i : i = [claims |-> claims, depth |-> token.input.depth + 1,
                      par |-> IF linked THEN <<token.input>> ELSE <<>>]
    OBVIOUS
  <2>2. IsInput(i) /\ i.claims = claims
    BY <2>1 DEF IsInput
  <2>3. Circulates(i, TRUE) /\ proper' = proper
    BY <1>2, <2>1 DEF MintChild
  <2>4. Adds(i, TRUE)
    BY <1>0, <2>2, <2>3, ClaimsMeant DEF Adds, Circulates
  <2> QED
    BY <2>4
<1>3. ASSUME NEW claims \in Claims[draft], NEW token \in issued, EditToken(token, claims)
      PROVE  \E input, signed : Adds(input, signed)
  <2>1. PICK j : j = token.input
    OBVIOUS
  <2>2. PICK i : i = [j EXCEPT !.claims = claims]
    OBVIOUS
  <2>3. j = [claims |-> j.claims, depth |-> j.depth, par |-> j.par]
    BY <2>1 DEF TokensFit, IsInput
  <2>4. i = [claims |-> claims, depth |-> j.depth, par |-> j.par]
    BY <2>2, <2>3
  <2>5. IsInput(i) /\ i.claims = claims
    BY <2>4 DEF IsInput
  <2>6. Circulates(i, FALSE) /\ proper' = proper
    BY <1>3, <2>1, <2>2 DEF EditToken
  <2>7. Adds(i, FALSE)
    BY <1>0, <2>5, <2>6, ClaimsMeant DEF Adds, Circulates
  <2> QED
    BY <2>7
<1>4. ASSUME NEW parent \in issued, NEW request \in Requests[draft], MintDelegate(parent, request)
      PROVE  \E input, signed : Adds(input, signed)
  <2>1. PICK q : q = parent.input.claims
    OBVIOUS
  <2>2. PICK r : r = Asked(parent, request)
    OBVIOUS
  <2>3. PICK mine : mine = AuthorityOn(q)
    OBVIOUS
  <2>4. PICK asked : asked = AuthorityOn(r)
    OBVIOUS
  <2>5. PICK a : a = DelegatedAuthority(mine, asked)
    OBVIOUS
  <2>6. PICK n : n = [q EXCEPT !.scopes = a.scopes, !.constraints = ToWire(a),
                               !.exp = q.iat + a.ttl, !.maxDepth = NoBound]
    OBVIOUS
  <2>7. PICK i : i = [claims |-> n, depth |-> parent.input.depth + 1, par |-> <<parent.input>>]
    OBVIOUS
  <2>8. parent.input \in proper /\ OnPath(parent.input)
    BY <1>4 DEF MintDelegate, TokensFit
  <2>9. ProperClaims(q) /\ IsClaims(q) /\ parent.input.depth \in Nat
    BY <2>1, <2>8 DEF OnPath, ProperClaims
  <2>10. IsClaims(r) /\ WellMeant(r)
    BY <1>0, <2>1, <2>2, <2>9, RequestMeant
  <2>11. AuthorityIn(parent) = mine
    BY <2>1, <2>3 DEF AuthorityIn
  <2>12. /\ WellFormed(r) /\ asked.ttl >= 0
         /\ IF draft = "01" THEN ~MeetRefused(mine, asked) ELSE ~MeetRefused02(mine, asked)
    BY <1>4, <2>2, <2>4, <2>11 DEF MintDelegate
  <2>13. ProperClaims(n) /\ Descends(n, q)
    BY <1>0, <2>3, <2>4, <2>5, <2>6, <2>9, <2>10, <2>12, DelegateDescends
  <2>14. Circulates(i, TRUE) /\ proper' = proper \cup {i}
    BY <1>4, <2>1, <2>2, <2>4, <2>5, <2>6, <2>7, <2>11 DEF MintDelegate, DelegatedAuthority
  <2>15. /\ IsInput(i) /\ i.claims = n /\ i.depth = parent.input.depth + 1
         /\ i.par = <<parent.input>>
    BY <2>7 DEF IsInput
  <2>16. /\ i.depth \in Nat /\ i.depth # 0 /\ parent.input.depth = i.depth - 1
    BY <2>9, <2>15
  <2>17. OnPath(i)
    BY <2>1, <2>8, <2>13, <2>15, <2>16 DEF OnPath
  <2>18. Adds(i, TRUE)
    BY <2>13, <2>14, <2>15, <2>17 DEF Adds, Circulates, ProperClaims
  <2> QED
    BY <2>18
<1>5. CASE Tick \/ UNCHANGED wireVars
  BY <1>5 DEF Tick, wireVars
<1> QED
  BY <1>1, <1>2, <1>3, <1>4, <1>5 DEF WireNext

\* All parties follow one revision throughout.
LEMMA SameRevision ==
    ASSUME draft' = draft, NEW c, NEW q
    PROVE  /\ WellMeant(c) => WellMeant(c)'
           /\ ProperClaims(c) => ProperClaims(c)'
           /\ Descends(c, q) => Descends(c, q)'
<1>1. \A k, x : MeantAs(k, x) => MeantAs(k, x)'
  BY DEF MeantAs
<1>2. WellMeant(c) => WellMeant(c)'
  BY <1>1 DEF WellMeant
<1>3. WellFormed(c)' = WellFormed(c) /\ AuthorityOn(c)' = AuthorityOn(c)
      /\ AuthorityOn(q)' = AuthorityOn(q)
  BY DEF WellFormed, AuthorityOn
<1>4. ProperClaims(c) => ProperClaims(c)'
  BY <1>2, <1>3 DEF ProperClaims
<1>5. Descends(c, q) => Descends(c, q)'
  BY <1>3 DEF Descends, NarrowsClaims
<1> QED
  BY <1>2, <1>4, <1>5

\* The tokens fit after every step.
LEMMA TokensFitNext ==
    ASSUME KeysDeclare, ClaimsTyped, TokensFit, [WireNext]_wireVars
    PROVE  TokensFit'
<1>1. Minted'
  BY MintedNext DEF TokensFit
<1>2. CASE UNCHANGED <<draft, issued, proper>>
  <2>1. \A t \in issued' : IsInput(t.input) /\ WellMeant(t.input.claims)'
    BY <1>2, SameRevision DEF TokensFit
  <2>2. \A i \in proper' : OnPath(i)'
    <3>1. ASSUME NEW i \in proper
          PROVE  OnPath(i)'
      BY <1>2, <3>1, SameRevision DEF TokensFit, OnPath
    <3> QED
      BY <1>2, <3>1
  <2> QED
    BY <1>1, <2>1, <2>2 DEF TokensFit
<1>3. ASSUME NEW input, NEW signed, Adds(input, signed)
      PROVE  TokensFit'
  <2>1. draft' = draft
    BY <1>3 DEF Adds
  <2>2. ASSUME NEW t \in issued'
        PROVE  IsInput(t.input) /\ WellMeant(t.input.claims)'
    <3>1. IsInput(t.input) /\ WellMeant(t.input.claims)
      <4>1. CASE t \in issued
        BY <4>1 DEF TokensFit
      <4>2. CASE t = [input |-> input, signed |-> signed]
        BY <1>3, <4>2 DEF Adds
      <4> QED
        BY <1>3, <4>1, <4>2 DEF Adds
    <3> QED
      BY <2>1, <3>1, SameRevision
  <2>3. ASSUME NEW i \in proper'
        PROVE  OnPath(i)'
    <3>1. OnPath(i) /\ proper \subseteq proper'
      BY <1>3 DEF Adds, TokensFit
    <3>2. ProperClaims(i.claims)'
      BY <2>1, <3>1, SameRevision DEF OnPath
    <3>3. ASSUME NEW q \in proper, i.par = <<q>>, q.depth = i.depth - 1,
                 Descends(i.claims, q.claims)
          PROVE  \E p \in proper' : i.par = <<p>> /\ p.depth = i.depth - 1
                                    /\ Descends(i.claims, p.claims)'
      BY <2>1, <3>1, <3>3, SameRevision
    <3> QED
      BY <3>1, <3>2, <3>3 DEF OnPath
  <2> QED
    BY <1>1, <2>2, <2>3 DEF TokensFit
<1> QED
  BY <1>2, <1>3, TokenSteps

\* What the claims are, by the constants.
ClaimsDeclared == KeysDeclare /\ ClaimsTyped

\* So they do always.
LEMMA TokensFitAlways ==
    ASSUME ClaimsDeclared
    PROVE  WireSpec => []TokensFit
<1>1. WireInit => TokensFit
  <2>1. WireInit => Minted
    BY WireAssumption DEF WireInit, Minted
  <2> QED
    BY <2>1 DEF WireInit, TokensFit
<1>2. TokensFit /\ [WireNext]_wireVars => TokensFit'
  BY TokensFitNext DEF ClaimsDeclared
<1> QED
  BY <1>1, <1>2, PTL DEF WireSpec

\* What is permitted to the leaf of a chain that loads is permitted to every
\* token above it, under either revision: whoever minted them, with whatever
\* claims, and whatever was left out or edited on the way.
THEOREM AcceptedChainsAttenuate ==
    ASSUME ClaimsDeclared, ChecksRead
    PROVE  WireSpec => []LoadedIsAttenuated
<1>1. TokensFit => LoadedIsAttenuated
  BY ChainAttenuates DEF TokensFit, ClaimsDeclared
<1> QED
  BY <1>1, TokensFitAlways, PTL

-----------------------------------------------------------------------------
(* The chain of a delegation path loads *)

\* One token more on the way up from an input.
Up(f, input, k) ==
    IF k = 0 THEN <<[input |-> input, signed |-> TRUE]>>
    ELSE <<[input |-> f[k - 1][1].input.par[1], signed |-> TRUE]>> \o f[k - 1]
IsClimb(f, input, n) == f = [k \in 0 .. n |-> Up(f, input, k)]

\* The way up is defined at every height.
LEMMA ClimbExists ==
    ASSUME NEW input, NEW n \in Nat
    PROVE  \E f : IsClimb(f, input, n)
<1> DEFINE Bad == {m \in Nat : ~ \E f : IsClimb(f, input, m)}
<1> SUFFICES ASSUME Bad # {} PROVE FALSE
  OBVIOUS
<1>1. PICK m \in Bad : \A k \in Bad : m <= k
  <2>1. Bad \in SUBSET Nat
    OBVIOUS
  <2> HIDE DEF Bad
  <2> QED
    BY <2>1, Least
<1>2. m \in Nat
  BY <1>1
<1>3. PICK f : m # 0 => IsClimb(f, input, m - 1)
  <2>1. CASE m = 0
    BY <2>1
  <2>2. CASE m # 0
    <3>1. m - 1 \in Nat /\ m - 1 \notin Bad
      BY <1>1, <1>2, <2>2
    <3> QED
      BY <3>1
  <2> QED
    BY <2>1, <2>2
<1> DEFINE g == [k \in 0 .. m |-> Up(f, input, k)]
<1>4. ASSUME NEW k \in 0 .. m
      PROVE  g[k] = Up(g, input, k)
  <2>1. CASE k = 0
    BY <2>1 DEF Up
  <2>2. CASE k # 0
    <3>1. k - 1 \in 0 .. m - 1 /\ k - 1 \in 0 .. m /\ m # 0
      BY <1>2, <2>2
    <3>2. f[k - 1] = Up(f, input, k - 1)
      BY <1>3, <3>1 DEF IsClimb
    <3>3. g[k - 1] = f[k - 1]
      BY <3>1, <3>2
    <3>4. g[k] = Up(f, input, k)
      OBVIOUS
    <3> HIDE DEF g
    <3> QED
      BY <2>2, <3>3, <3>4 DEF Up
  <2> QED
    BY <2>1, <2>2
<1>5. IsClimb(g, input, m)
  <2>1. g = [k \in 0 .. m |-> g[k]]
    OBVIOUS
  <2> QED
    BY <1>4, <2>1 DEF IsClimb
<1> QED
  BY <1>1, <1>5

\* What Lineage computes.
LEMMA LineageClimbs ==
    ASSUME NEW input, input.depth \in Nat
    PROVE  \E f : /\ Lineage(input) = f[input.depth]
                  /\ \A k \in 0 .. input.depth : f[k] = Up(f, input, k)
<1>1. PICK n \in Nat : n = input.depth
  OBVIOUS
<1>2. PICK f : f = CHOOSE g : IsClimb(g, input, n)
  OBVIOUS
<1>3. IsClimb(f, input, n)
  BY <1>2, ClimbExists
<1>4. Lineage(input) = f[n]
  BY <1>1, <1>2 DEF Lineage, IsClimb, Up
<1>5. \A k \in 0 .. n : f[k] = Up(f, input, k)
  BY <1>3 DEF IsClimb
<1> QED
  BY <1>1, <1>4, <1>5

\* The last k + 1 tokens of a delegation path.
PathTokens == [input : proper, signed : {TRUE}]
IsPathTo(c, input, k) ==
    /\ c \in Seq(PathTokens) /\ Len(c) = k + 1
    /\ c[k + 1].input = input
    /\ \A i \in 1 .. k + 1 : c[i].input.depth = input.depth - k + i - 1
    /\ \A i \in 2 .. k + 1 : c[i].input.par = <<c[i - 1].input>>

\* A sequence with one member more in front.
LEMMA Prefixed ==
    ASSUME NEW T, NEW t \in T, NEW c \in Seq(T), NEW n \in Nat, Len(c) = n
    PROVE  /\ <<t>> \o c \in Seq(T) /\ Len(<<t>> \o c) = n + 1 /\ (<<t>> \o c)[1] = t
           /\ \A i \in 1 .. n : (<<t>> \o c)[i + 1] = c[i]
<1>1. <<t>> \in Seq(T) /\ Len(<<t>>) = 1 /\ <<t>>[1] = t
  OBVIOUS
<1>2. <<t>> \o c \in Seq(T) /\ Len(<<t>> \o c) = n + 1
  BY <1>1
<1>3. (<<t>> \o c)[1] = t
  BY <1>1
<1>4. ASSUME NEW i \in 1 .. n
      PROVE  (<<t>> \o c)[i + 1] = c[i]
  BY <1>1
<1> QED
  BY <1>2, <1>3, <1>4

Lengthened(c) == <<[input |-> c[1].input.par[1], signed |-> TRUE]>> \o c

\* One token more, to the front.
LEMMA PathExtends ==
    ASSUME TokensFit, NEW input \in proper, NEW k \in Nat, k < input.depth,
           NEW c, IsPathTo(c, input, k)
    PROVE  IsPathTo(Lengthened(c), input, k + 1)
<1>1. PICK n \in Nat : n = input.depth
  BY DEF TokensFit, OnPath
<1>2. PICK top : top = c[1].input
  OBVIOUS
<1>3. c \in Seq(PathTokens) /\ Len(c) = k + 1
  BY DEF IsPathTo
<1>4. top \in proper
  <2>1. c[1] \in PathTokens
    BY <1>3
  <2> QED
    BY <1>2, <2>1 DEF PathTokens
<1>5. top.depth = n - k /\ n - k # 0
  <2>1. 1 \in 1 .. k + 1
    OBVIOUS
  <2>2. c[1].input.depth = n - k + 1 - 1
    BY <1>1, <2>1 DEF IsPathTo
  <2> QED
    BY <1>1, <1>2, <2>2
<1>6. OnPath(top)
  BY <1>4 DEF TokensFit
<1>7. PICK q \in proper : top.par = <<q>> /\ q.depth = n - k - 1
  BY <1>5, <1>6 DEF OnPath
<1>8. PICK t : t = [input |-> q, signed |-> TRUE]
  OBVIOUS
<1>9. t \in PathTokens /\ t.input = q
  BY <1>8 DEF PathTokens
<1>10. PICK d : d = Lengthened(c)
  OBVIOUS
<1>11. d = <<t>> \o c
  <2>1. c[1].input.par[1] = q
    BY <1>2, <1>7
  <2> QED
    BY <1>8, <1>10, <2>1 DEF Lengthened
<1>12. /\ d \in Seq(PathTokens) /\ Len(d) = k + 2 /\ d[1] = t
       /\ \A i \in 1 .. k + 1 : d[i + 1] = c[i]
  <2>1. k + 1 \in Nat /\ k + 1 + 1 = k + 2
    OBVIOUS
  <2> QED
    BY <1>3, <1>9, <1>11, <2>1, Prefixed
<1>13. d[k + 2].input = input
  <2>1. k + 1 \in 1 .. k + 1 /\ (k + 1) + 1 = k + 2
    OBVIOUS
  <2>2. d[k + 2] = c[k + 1]
    BY <1>12, <2>1
  <2> QED
    BY <2>2 DEF IsPathTo
<1>14. ASSUME NEW i \in 1 .. k + 2
       PROVE  d[i].input.depth = n - (k + 1) + i - 1
  <2>1. CASE i = 1
    BY <1>7, <1>9, <1>12, <2>1
  <2>2. CASE i # 1
    <3>1. PICK j \in 1 .. k + 1 : i = j + 1
      <4>1. i - 1 \in 1 .. k + 1 /\ i = (i - 1) + 1
        BY <2>2
      <4> QED
        BY <4>1
    <3>2. d[i] = c[j]
      BY <1>12, <3>1
    <3>3. c[j].input.depth = n - k + j - 1
      BY <1>1 DEF IsPathTo
    <3>4. n - k + j - 1 = n - (k + 1) + i - 1
      BY <3>1
    <3> QED
      BY <3>2, <3>3, <3>4
  <2> QED
    BY <2>1, <2>2
<1>15. ASSUME NEW i \in 2 .. k + 2
       PROVE  d[i].input.par = <<d[i - 1].input>>
  <2>1. CASE i = 2
    <3>1. d[2] = c[1] /\ d[1] = t
      <4>1. 1 \in 1 .. k + 1 /\ 1 + 1 = 2
        OBVIOUS
      <4> QED
        BY <1>12, <4>1
    <3>2. d[i].input.par = <<q>>
      BY <1>2, <1>7, <2>1, <3>1
    <3>3. d[i - 1].input = q
      BY <1>9, <2>1, <3>1
    <3> QED
      BY <3>2, <3>3
  <2>2. CASE i # 2
    <3>1. PICK j \in 2 .. k + 1 : j = i - 1 /\ j + 1 = i /\ (j - 1) + 1 = i - 1
      BY <2>2
    <3>2. d[i] = c[j] /\ d[i - 1] = c[j - 1]
      <4>1. j \in 1 .. k + 1 /\ j - 1 \in 1 .. k + 1
        BY <3>1
      <4> QED
        BY <1>12, <3>1, <4>1
    <3>3. c[j].input.par = <<c[j - 1].input>>
      BY DEF IsPathTo
    <3> QED
      BY <3>2, <3>3
  <2> QED
    BY <2>1, <2>2
<1>16. k + 1 + 1 = k + 2
  OBVIOUS
<1>17. IsPathTo(d, input, k + 1)
  BY <1>1, <1>12, <1>13, <1>14, <1>15, <1>16 DEF IsPathTo
<1> QED
  BY <1>10, <1>17

\* So the lineage of an input is its whole path, from the root.
LEMMA LineageIsPath ==
    ASSUME TokensFit, NEW input \in proper
    PROVE  IsPathTo(Lineage(input), input, input.depth)
<1>1. PICK n \in Nat : n = input.depth
  BY DEF TokensFit, OnPath
<1>2. PICK f : Lineage(input) = f[n] /\ \A k \in 0 .. n : f[k] = Up(f, input, k)
  BY <1>1, LineageClimbs
<1> DEFINE Bad == {k \in 0 .. n : ~IsPathTo(f[k], input, k)}
<1>3. Bad = {}
  <2> SUFFICES ASSUME Bad # {} PROVE FALSE
    OBVIOUS
  <2>1. PICK k \in Bad : \A m \in Bad : k <= m
    <3>1. Bad \in SUBSET Nat
      OBVIOUS
    <3> HIDE DEF Bad
    <3> QED
      BY <3>1, Least
  <2>2. CASE k = 0
    <3>1. PICK t : t = [input |-> input, signed |-> TRUE]
      OBVIOUS
    <3>2. f[k] = <<t>> /\ t \in PathTokens /\ t.input = input
      BY <1>2, <2>1, <2>2, <3>1 DEF Up, PathTokens
    <3>3. f[k] \in Seq(PathTokens) /\ Len(f[k]) = 1 /\ f[k][1].input = input
      BY <3>2
    <3>4. IsPathTo(f[k], input, k)
      BY <1>1, <2>2, <3>3 DEF IsPathTo
    <3> QED
      BY <2>1, <3>4
  <2>3. CASE k # 0
    <3>1. PICK m \in 0 .. n : m = k - 1 /\ k = m + 1 /\ m < n
      BY <2>1, <2>3
    <3>2. IsPathTo(f[m], input, m)
      BY <2>1, <3>1
    <3>3. f[k] = Lengthened(f[m])
      BY <1>2, <2>1, <2>3, <3>1 DEF Up, Lengthened
    <3>4. IsPathTo(Lengthened(f[m]), input, m + 1)
      BY <1>1, <3>1, <3>2, PathExtends
    <3> QED
      BY <2>1, <3>1, <3>3, <3>4
  <2> QED
    BY <2>2, <2>3
<1>4. n \in 0 .. n
  OBVIOUS
<1>5. IsPathTo(f[n], input, n)
  BY <1>3, <1>4
<1> QED
  BY <1>1, <1>2, <1>5
ClockCounts == now \in Nat

\* The clock starts at 0, and counts.
LEMMA ClockCountsAlways == WireSpec => []ClockCounts
<1>1. WireInit => ClockCounts
  BY DEF WireInit, ClockCounts
<1>2. ClockCounts /\ [WireNext]_wireVars => ClockCounts'
  <2> SUFFICES ASSUME ClockCounts, [WireNext]_wireVars PROVE ClockCounts'
    OBVIOUS
  <2>1. now' = now \/ now' = now + 1
    BY DEF WireNext, wireVars, MintRoot, MintChild, MintDelegate, EditToken, Tick, Circulates
  <2> QED
    BY <2>1 DEF ClockCounts
<1> QED
  BY <1>1, <1>2, PTL DEF WireSpec

\* Each token of a path is proper, its root is one, and each descends from the one before.
LEMMA PathDescends ==
    ASSUME TokensFit, NEW input \in proper, NEW n \in Nat, n = input.depth,
           NEW c, IsPathTo(c, input, n)
    PROVE  /\ \A i \in 1 .. n + 1 :
                 /\ c[i].signed /\ c[i].input.depth = i - 1 /\ ProperClaims(c[i].input.claims)
           /\ c[1].input.par = <<>> /\ c[1].input.claims.kid \in TrustedRoots
           /\ c[1].input.claims.maxDepth > 0
           /\ \A i \in 2 .. n + 1 : Descends(c[i].input.claims, c[i - 1].input.claims)
<1>1. ASSUME NEW i \in 1 .. n + 1
      PROVE  /\ c[i].signed /\ c[i].input \in proper /\ OnPath(c[i].input)
             /\ c[i].input.depth = i - 1
  <2>1. c[i] \in PathTokens
    BY DEF IsPathTo
  <2>2. c[i].signed /\ c[i].input \in proper
    BY <2>1 DEF PathTokens
  <2>3. OnPath(c[i].input)
    BY <2>2 DEF TokensFit
  <2>4. c[i].input.depth = n - n + i - 1
    BY DEF IsPathTo
  <2> QED
    BY <2>2, <2>3, <2>4
<1>2. c[1].input.depth = 0 /\ OnPath(c[1].input)
  <2>1. 1 \in 1 .. n + 1
    OBVIOUS
  <2> QED
    BY <1>1, <2>1
<1>3. /\ c[1].input.par = <<>> /\ c[1].input.claims.kid \in TrustedRoots
      /\ c[1].input.claims.maxDepth > 0
  BY <1>2 DEF OnPath
<1>4. ASSUME NEW i \in 2 .. n + 1
      PROVE  Descends(c[i].input.claims, c[i - 1].input.claims)
  <2>1. i \in 1 .. n + 1 /\ i - 1 # 0
    OBVIOUS
  <2>2. OnPath(c[i].input) /\ c[i].input.depth # 0
    BY <1>1, <2>1
  <2>3. PICK q : c[i].input.par = <<q>> /\ Descends(c[i].input.claims, q.claims)
    BY <2>2 DEF OnPath
  <2>4. c[i].input.par = <<c[i - 1].input>>
    BY DEF IsPathTo
  <2>5. q = c[i - 1].input
    BY <2>3, <2>4
  <2> QED
    BY <2>3, <2>5
<1>5. \A i \in 1 .. n + 1 : ProperClaims(c[i].input.claims)
  BY <1>1 DEF OnPath
<1> QED
  BY <1>1, <1>3, <1>4, <1>5

Keeps(c, n) ==
    /\ \A i \in 1 .. n + 1 :
          /\ c[i].input.claims.kid = c[1].input.claims.kid
          /\ c[i].input.claims.sub = c[1].input.claims.sub
          /\ c[i].input.claims.nbf = c[1].input.claims.nbf
          /\ c[n + 1].input.claims.exp <= c[i].input.claims.exp

\* What a path keeps: the key, the principal and the time it starts are the
\* root's throughout, and no token outlasts the one before it.
LEMMA PathKeeps ==
    ASSUME NEW n \in Nat, NEW c,
           \A i \in 1 .. n + 1 : ProperClaims(c[i].input.claims),
           \A i \in 2 .. n + 1 : Descends(c[i].input.claims, c[i - 1].input.claims)
    PROVE  Keeps(c, n)
<1> DEFINE C(i) == c[i].input.claims
           Same(i) == C(i).kid = C(1).kid /\ C(i).sub = C(1).sub /\ C(i).nbf = C(1).nbf
           Bad == {i \in 1 .. n + 1 : ~Same(i)}
           Short == {k \in 0 .. n : ~(C(n + 1).exp <= C(n + 1 - k).exp)}
<1>0. /\ \A i \in 1 .. n + 1 : C(i).exp \in Int
      /\ \A i \in 2 .. n + 1 : /\ C(i).kid = C(i - 1).kid /\ C(i).sub = C(i - 1).sub
                               /\ C(i).nbf = C(i - 1).nbf /\ C(i).exp <= C(i - 1).exp
  BY DEF ProperClaims, IsClaims, Descends
<1> HIDE DEF C
<1>1. Bad = {}
  <2> SUFFICES ASSUME Bad # {} PROVE FALSE
    OBVIOUS
  <2>1. PICK i \in Bad : \A m \in Bad : i <= m
    <3>1. Bad \in SUBSET Nat
      OBVIOUS
    <3> HIDE DEF Bad
    <3> QED
      BY <3>1, Least
  <2>2. i # 1
    BY <2>1
  <2>3. i \in 2 .. n + 1 /\ i - 1 \in 1 .. n + 1 /\ ~(i <= i - 1)
    BY <2>1, <2>2
  <2>4. Same(i - 1)
    BY <2>1, <2>3
  <2>5. Same(i)
    BY <1>0, <2>3, <2>4
  <2> QED
    BY <2>1, <2>5
<1>2. Short = {}
  <2> SUFFICES ASSUME Short # {} PROVE FALSE
    OBVIOUS
  <2>1. PICK k \in Short : \A m \in Short : k <= m
    <3>1. Short \in SUBSET Nat
      OBVIOUS
    <3> HIDE DEF Short
    <3> QED
      BY <3>1, Least
  <2>2. n + 1 \in 1 .. n + 1 /\ n + 1 - 0 = n + 1
    OBVIOUS
  <2>3. k # 0
    BY <1>0, <2>1, <2>2
  <2>4. k - 1 \in 0 .. n /\ ~(k <= k - 1)
    BY <2>1, <2>3
  <2>5. C(n + 1).exp <= C(n + 1 - (k - 1)).exp
    BY <2>1, <2>4
  <2>6. PICK i \in 2 .. n + 1 : i = n + 1 - (k - 1) /\ i - 1 = n + 1 - k
    BY <2>1, <2>3
  <2>7. C(i).exp <= C(i - 1).exp /\ C(n + 1).exp <= C(i).exp
    BY <1>0, <2>5, <2>6
  <2>8. C(n + 1).exp \in Int /\ C(i).exp \in Int /\ C(i - 1).exp \in Int
    BY <1>0, <2>2
  <2>9. C(n + 1).exp <= C(n + 1 - k).exp
    BY <2>6, <2>7, <2>8
  <2> QED
    BY <2>1, <2>9
<1>3. ASSUME NEW i \in 1 .. n + 1
      PROVE  Same(i) /\ C(n + 1).exp <= C(i).exp
  <2>1. Same(i)
    BY <1>1
  <2>2. n + 1 - i \in 0 .. n /\ n + 1 - (n + 1 - i) = i
    OBVIOUS
  <2>3. C(n + 1).exp <= C(n + 1 - (n + 1 - i)).exp
    BY <1>2, <2>2
  <2> QED
    BY <2>1, <2>2, <2>3
<1> QED
  BY <1>3 DEF Keeps, C

\* So the steps of load fail on a path for its length or for the time, or not at all.
LEMMA PathVerdict ==
    ASSUME TokensFit, ClockCounts, NEW input \in proper
    PROVE  LET chain == Lineage(input)
               root == ClaimsOf(chain, 1)
           IN  Verdict(chain, NoAudience, now) =
                   IF Len(chain) > root.maxDepth THEN "depth_invalid"
                   ELSE IF root.nbf <= now /\ Before(now, input.claims.exp) THEN "ok"
                   ELSE "expired"
<1>1. PICK n \in Nat : n = input.depth
  BY DEF TokensFit, OnPath
<1>2. PICK c : c = Lineage(input)
  OBVIOUS
<1>3. IsPathTo(c, input, n)
  BY <1>1, <1>2, LineageIsPath
<1>4. /\ \A i \in 1 .. n + 1 :
            /\ c[i].signed /\ c[i].input.depth = i - 1 /\ ProperClaims(c[i].input.claims)
      /\ c[1].input.par = <<>> /\ c[1].input.claims.kid \in TrustedRoots
      /\ c[1].input.claims.maxDepth > 0
      /\ \A i \in 2 .. n + 1 : Descends(c[i].input.claims, c[i - 1].input.claims)
  BY <1>1, <1>3, PathDescends
<1>5. Keeps(c, n)
  BY <1>4, PathKeeps
<1>6. c \in Seq(PathTokens) /\ Len(c) = n + 1 /\ c[n + 1].input = input
      /\ \A i \in 2 .. n + 1 : c[i].input.par = <<c[i - 1].input>>
  BY <1>3 DEF IsPathTo
<1>7. c # <<>> /\ DOMAIN c = 1 .. n + 1 /\ After1(c) = 2 .. n + 1 /\ 1 \in 1 .. n + 1
      /\ n + 1 \in 1 .. n + 1
  BY <1>6 DEF After1
<1>8. AllWellFormed(c)
  BY <1>4, <1>7 DEF AllWellFormed, ClaimsOf, ProperClaims
<1>9. SignaturesVerify(c)
  BY <1>4, <1>7 DEF SignaturesVerify, ClaimsOf
<1>10. RootIsUnlinked(c) /\ Linked(c)
  BY <1>4, <1>6, <1>7 DEF RootIsUnlinked, Linked
<1>11. PICK m \in Nat : m = ClaimsOf(c, 1).maxDepth /\ m > 0
  BY <1>4, <1>7 DEF ClaimsOf, ProperClaims, IsClaims
<1>12. DepthsCount(c) <=> ~(Len(c) > m)
  <2>1. c[1].input.depth = 0 /\ \A i \in DOMAIN c : c[i].input.depth = i - 1
    BY <1>4, <1>7
  <2>2. DepthsCount(c) <=> Len(c) - 1 < m
    BY <1>11, <2>1 DEF DepthsCount
  <2> QED
    BY <1>6, <1>11, <2>2
<1>13. SamePrincipal(c)
  BY <1>5, <1>7 DEF SamePrincipal, Keeps, ClaimsOf
<1>14. ASSUME NEW i \in After1(c)
       PROVE  Narrows(c, i)
  <2>1. Descends(c[i].input.claims, c[i - 1].input.claims)
    BY <1>4, <1>7
  <2>2. NarrowsClaims(c[i].input.claims, c[i - 1].input.claims) /\ ClaimsOf(c, i).maxDepth = NoBound
    BY <2>1 DEF Descends, ClaimsOf
  <2> QED
    BY <2>2 DEF NarrowsClaims, Narrows, AuthorityIn
<1>15. PICK e \in Int : e = input.claims.exp
  BY <1>4, <1>6, <1>7 DEF ProperClaims, IsClaims
<1>16. PICK b \in Int : b = ClaimsOf(c, 1).nbf
  BY <1>4, <1>7 DEF ClaimsOf, ProperClaims, IsClaims
<1>17. ASSUME NEW i \in 1 .. n + 1
       PROVE  /\ ClaimsOf(c, i).nbf = b /\ ClaimsOf(c, i).exp \in Int /\ e <= ClaimsOf(c, i).exp
  <2>1. ClaimsOf(c, i).exp \in Int
    BY <1>4 DEF ClaimsOf, ProperClaims, IsClaims
  <2>2. ClaimsOf(c, i).nbf = b /\ e <= ClaimsOf(c, i).exp
    BY <1>5, <1>6, <1>15, <1>16 DEF Keeps, ClaimsOf
  <2> QED
    BY <2>1, <2>2
<1>18. InTime(c, now) <=> b <= now /\ Before(now, e)
  <2>1. ASSUME NEW i \in After1(c)
        PROVE  ClaimsOf(c, i).exp <= ClaimsOf(c, i - 1).exp
    BY <1>4, <1>7 DEF Descends, ClaimsOf
  <2>2. ASSUME Before(now, e), NEW i \in 1 .. n + 1
        PROVE  Before(now, ClaimsOf(c, i).exp)
    <3>1. PICK x \in Int : x = ClaimsOf(c, i).exp /\ e <= x
      BY <1>17
    <3> QED
      BY <2>2, <3>1 DEF Before, ClockCounts
  <2>3. ClaimsOf(c, n + 1).exp = e
    BY <1>6, <1>15 DEF ClaimsOf
  <2>4. InTime(c, now) => b <= now /\ Before(now, e)
    BY <1>7, <1>16, <2>3 DEF InTime
  <2>5. b <= now /\ Before(now, e) => InTime(c, now)
    BY <1>7, <1>17, <2>1, <2>2 DEF InTime
  <2> QED
    BY <2>4, <2>5
<1>19. Verdict(c, NoAudience, now) =
           IF Len(c) > m THEN "depth_invalid"
           ELSE IF b <= now /\ Before(now, e) THEN "ok"
           ELSE "expired"
  BY <1>7, <1>8, <1>9, <1>10, <1>12, <1>13, <1>14, <1>18 DEF Verdict
<1> QED
  BY <1>2, <1>11, <1>15, <1>16, <1>19

\* The tokens of a delegation path load, however the requests were met, until the
\* path is longer than its root allows, and while the clock is between the root's
\* nbf and the leaf's exp: no other reason ever refuses them.
THEOREM DelegationPathsLoad ==
    ASSUME ClaimsDeclared
    PROVE  WireSpec => []ProperChainsLoad
<1>1. TokensFit /\ ClockCounts => ProperChainsLoad
  BY PathVerdict DEF ProperChainsLoad
<1> QED
  BY <1>1, TokensFitAlways, ClockCountsAlways, PTL
=============================================================================
