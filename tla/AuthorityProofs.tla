--------------------------- MODULE AuthorityProofs ---------------------------
(***************************************************************************)
(* What the authority operators guarantee for every authority, key, scope  *)
(* and context: the meet is narrower than the parent it was cut from, the  *)
(* subsumption relation is transitive, and it implies containment of what  *)
(* is permitted.                                                           *)
(***************************************************************************)
EXTENDS Authority, FiniteSetTheorems, TLAPS

-----------------------------------------------------------------------------
(* Scopes *)

\* A set of naturals has a least element.  The library states induction over an
\* operator; this follows from its theorem on finite sets, which has none.
LEMMA Least ==
    ASSUME NEW S \in SUBSET Nat, S # {}
    PROVE  \E n \in S : \A m \in S : n <= m
<1>1. PICK top \in S : TRUE
  OBVIOUS
<1> DEFINE U == 0 .. top
           Below(n) == 0 .. n
           F == {Below(n) : n \in {k \in S : k <= top}}
<1>2. IsFiniteSet(U)
  BY <1>1, FS_Interval
<1>3. F \subseteq SUBSET U /\ F # {}
  BY <1>1
<1> HIDE DEF U
<1>4. IsWellFoundedOn(StrictSubsetOrdering(U), FiniteSubsetsOf(U))
  BY FS_StrictSubsetOrderingWellFounded
<1>5. \A X \in F : X \in FiniteSubsetsOf(U)
  BY <1>2, <1>3, FS_FiniteSubsetsOfFinite
<1>6. PICK X \in F : \A Y \in F : <<Y, X>> \notin StrictSubsetOrdering(U)
  <2> HIDE DEF F
  <2> QED
    BY <1>3, <1>4, <1>5, WFMin
<1>7. PICK n \in S : n <= top /\ X = Below(n)
  BY <1>6
<1>8. ASSUME NEW m \in S, m < n
      PROVE  FALSE
  <2>1. Below(m) \in F /\ Below(m) \subseteq X /\ Below(m) # X
    <3>1. n \in X /\ n \notin Below(m)
      BY <1>7, <1>8
    <3> QED
      BY <1>1, <1>7, <1>8, <3>1
  <2>2. Below(m) \subseteq U /\ X \subseteq U
    BY <2>1, <1>3
  <2>3. <<Below(m), X>> \in StrictSubsetOrdering(U)
    BY <2>1, <2>2 DEF StrictSubsetOrdering
  <2> QED
    BY <1>6, <2>1, <2>3
<1> QED
  BY <1>7, <1>8

\* A string that starts with a longer prefix starts with what that starts with.
LEMMA StartsWithTransitive ==
    ASSUME NEW s, NEW p \in Seq(Chunk), NEW q \in Seq(Chunk), s \in Seq(Chunk),
           StartsWith(s, p), StartsWith(p, q)
    PROVE  StartsWith(s, q)
  BY DEF StartsWith

\* The prefix that joins two incomparable ones starts with the first.
LEMMA ConcatStartsWith ==
    ASSUME NEW s \in Seq(Chunk), NEW t \in Seq(Chunk)
    PROVE  s \o t \in Seq(Chunk) /\ StartsWith(s \o t, s)
  BY DEF StartsWith

\* Covering is transitive: a wildcard covers all that a scope it covers covers.
LEMMA CoversTransitive ==
    ASSUME NEW u \in Scope, NEW v \in Scope, NEW w \in Scope,
           Covers(u, v), Covers(v, w)
    PROVE  Covers(u, w)
<1>1. CASE u = v \/ v = w
  BY <1>1
<1>2. CASE u # v /\ v # w
  <2>1. Len(u) \in Nat \ {0} /\ Len(v) \in Nat \ {0} /\ Len(w) \in Nat \ {0}
    BY DEF Scope
  <2>2. /\ IsWildcard(u) /\ Len(u) <= Len(v)
        /\ \A i \in 1 .. Len(u) - 1 : v[i] = u[i]
        /\ IsWildcard(v) /\ Len(v) <= Len(w)
        /\ \A i \in 1 .. Len(v) - 1 : w[i] = v[i]
    BY <1>2 DEF Covers
  <2>3. \A i \in 1 .. Len(u) - 1 : i \in 1 .. Len(v) - 1
    BY <2>1, <2>2
  <2>4. \A i \in 1 .. Len(u) - 1 : w[i] = u[i]
    BY <2>2, <2>3
  <2>5. Len(u) <= Len(w)
    BY <2>1, <2>2
  <2> QED
    BY <2>2, <2>4, <2>5 DEF Covers
<1> QED
  BY <1>1, <1>2

\* What a narrower set of scopes covers, the broader set covers too.
LEMMA CoversScopeTransitive ==
    ASSUME NEW S \in SUBSET Scope, NEW T \in SUBSET Scope, NEW r \in Scope,
           NarrowerScopes(S, T), CoversScope(S, r)
    PROVE  CoversScope(T, r)
<1>1. PICK s \in S : Covers(s, r)
  BY DEF CoversScope
<1>2. PICK t \in T : Covers(t, s)
  BY DEF NarrowerScopes, CoversScope
<1>3. Covers(t, r)
  BY <1>1, <1>2, CoversTransitive
<1> QED
  BY <1>3 DEF CoversScope

\* Every scope of the intersection is covered by a scope of this side.
LEMMA MeetScopesWithin ==
    ASSUME NEW S \in SUBSET Scope, NEW T \in SUBSET Scope
    PROVE  /\ MeetScopes(S, T) \subseteq Scope
           /\ NarrowerScopes(MeetScopes(S, T), S)
           /\ NarrowerScopes(MeetScopes(S, T), T)
  BY DEF MeetScopes, NarrowerScopes, CoversScope, Covers

\* Two scopes that cover a third are comparable.
LEMMA CoversComparable ==
    ASSUME NEW s \in Scope, NEW t \in Scope, NEW r \in Scope, Covers(s, r), Covers(t, r)
    PROVE  Covers(s, t) \/ Covers(t, s)
<1>1. CASE s = r \/ t = r
  BY <1>1
<1>2. CASE s # r /\ t # r
  <2>1. Len(s) \in Nat \ {0} /\ Len(t) \in Nat \ {0} /\ Len(r) \in Nat \ {0}
    BY DEF Scope
  <2>2. /\ IsWildcard(s) /\ Len(s) <= Len(r) /\ \A i \in 1 .. Len(s) - 1 : r[i] = s[i]
        /\ IsWildcard(t) /\ Len(t) <= Len(r) /\ \A i \in 1 .. Len(t) - 1 : r[i] = t[i]
    BY <1>2 DEF Covers
  <2>3. CASE Len(s) <= Len(t)
    <3>1. \A i \in 1 .. Len(s) - 1 : i \in 1 .. Len(t) - 1
      BY <2>1, <2>3
    <3>2. \A i \in 1 .. Len(s) - 1 : t[i] = s[i]
      BY <2>2, <3>1
    <3> QED
      BY <2>2, <2>3, <3>2 DEF Covers
  <2>4. CASE Len(t) <= Len(s)
    <3>1. \A i \in 1 .. Len(t) - 1 : i \in 1 .. Len(s) - 1
      BY <2>1, <2>4
    <3>2. \A i \in 1 .. Len(t) - 1 : s[i] = t[i]
      BY <2>2, <3>1
    <3> QED
      BY <2>2, <2>4, <3>2 DEF Covers
  <2> QED
    BY <2>1, <2>3, <2>4
<1> QED
  BY <1>1, <1>2

\* Two wildcards of one length that cover each other's are one.
LEMMA WildcardsOfOneLength ==
    ASSUME NEW v \in Scope, NEW w \in Scope, IsWildcard(v), IsWildcard(w), Covers(w, v),
           Len(v) = Len(w)
    PROVE  v = w
<1>1. v \in Seq(STRING) /\ w \in Seq(STRING) /\ Len(v) \in Nat \ {0}
  BY DEF Scope
<1>2. SUFFICES ASSUME v # w
               PROVE  FALSE
  OBVIOUS
<1>3. /\ \A i \in 1 .. Len(w) - 1 : v[i] = w[i]
      /\ v[Len(v)] = w[Len(v)]
  BY <1>2 DEF Covers, IsWildcard
<1>4. \A i \in 1 .. Len(v) : v[i] = w[i]
  BY <1>1, <1>3
<1> QED
  BY <1>1, <1>2, <1>4

\* Of the scopes that cover a request, one is covered by no other wildcard.
LEMMA BroadestCover ==
    ASSUME NEW M \in SUBSET Scope, NEW r \in Scope, CoversScope(M, r)
    PROVE  \E x \in M : Covers(x, r) /\ ~\E w \in M : IsWildcard(w) /\ w # x /\ Covers(w, x)
<1>1. CASE \E w \in M : IsWildcard(w) /\ Covers(w, r)
  <2> DEFINE W == {w \in M : IsWildcard(w) /\ Covers(w, r)}
             lengths == {Len(w) : w \in W}
  <2>1. lengths \in SUBSET Nat /\ lengths # {}
    <3>1. \A w \in W : Len(w) \in Nat
      BY DEF Scope
    <3>2. W # {}
      BY <1>1
    <3> QED
      BY <3>1, <3>2
  <2>2. PICK n \in lengths : \A m \in lengths : n <= m
    <3> HIDE DEF lengths
    <3> QED
      BY <2>1, Least
  <2>3. PICK x \in W : Len(x) = n
    BY <2>2
  <2>4. ASSUME NEW w \in M, IsWildcard(w), w # x, Covers(w, x)
        PROVE  FALSE
    <3>1. Len(w) <= Len(x) /\ Covers(w, r)
      BY <2>3, <2>4, CoversTransitive DEF Covers
    <3>2. Len(x) <= Len(w) /\ Len(x) \in Nat /\ Len(w) \in Nat
      BY <2>2, <2>3, <2>4, <3>1 DEF Scope
    <3> QED
      BY <2>3, <2>4, <3>1, <3>2, WildcardsOfOneLength
  <2> QED
    BY <2>3, <2>4
<1>2. CASE ~\E w \in M : IsWildcard(w) /\ Covers(w, r)
  <2>1. PICK x \in M : Covers(x, r)
    BY DEF CoversScope
  <2>2. x = r
    BY <1>2, <2>1 DEF Covers
  <2> QED
    BY <1>2, <2>1, <2>2
<1> QED
  BY <1>1, <1>2

\* The intersection covers what both sides cover, and nothing else: leaving out
\* the scopes that a broader wildcard covers takes nothing away.
LEMMA MeetScopesExact ==
    ASSUME NEW S \in SUBSET Scope, NEW T \in SUBSET Scope, NEW r \in Scope
    PROVE  CoversScope(MeetScopes(S, T), r) <=> CoversScope(S, r) /\ CoversScope(T, r)
<1>1. ASSUME CoversScope(MeetScopes(S, T), r)
      PROVE  CoversScope(S, r) /\ CoversScope(T, r)
  <2>1. PICK m : m = MeetScopes(S, T)
    OBVIOUS
  <2> QED
    BY <1>1, <2>1, MeetScopesWithin, CoversScopeTransitive
<1>2. ASSUME CoversScope(S, r), CoversScope(T, r)
      PROVE  CoversScope(MeetScopes(S, T), r)
  <2>1. PICK s \in S, t \in T : Covers(s, r) /\ Covers(t, r)
    BY <1>2 DEF CoversScope
  <2>2. PICK M : M = {x \in T : CoversScope(S, x)} \cup {x \in S : CoversScope(T, x)}
    OBVIOUS
  <2>3. Covers(s, t) \/ Covers(t, s)
    BY <2>1, CoversComparable
  <2>4. s \in M \/ t \in M
    BY <2>2, <2>3 DEF CoversScope
  <2>5. M \in SUBSET Scope /\ CoversScope(M, r)
    BY <2>1, <2>2, <2>4 DEF CoversScope
  <2>6. PICK x \in M : Covers(x, r) /\ ~\E w \in M : IsWildcard(w) /\ w # x /\ Covers(w, x)
    BY <2>5, BroadestCover
  <2>7. x \in MeetScopes(S, T)
    BY <2>2, <2>6 DEF MeetScopes
  <2> QED
    BY <2>6, <2>7 DEF CoversScope
<1> QED
  BY <1>1, <1>2

-----------------------------------------------------------------------------
(* Ceilings *)

\* A ceiling's type tag decides which class it is of.
LEMMA CeilingClass ==
    ASSUME NEW c \in CeilingType
    PROVE  /\ c.type = "Max" => c \in MaxType /\ c.max \in Int
           /\ c.type = "EgressRank" => c \in EgressType /\ c.rank \in Int
           /\ c.type = "Allow" => c \in AllowType
           /\ c.type = "Deny" => c \in DenyType
           /\ c.type = "Prefix" => c \in PrefixType /\ c.prefix \in Seq(Chunk)
           /\ c.type = "Unknown" => c \in UnknownType
           /\ c.type \in {"Max", "EgressRank", "Allow", "Deny", "Prefix", "Unknown"}
  BY DEF CeilingType, MaxType, EgressType, AllowType, DenyType, PrefixType, UnknownType

\* A ceiling subsumes itself: a child that asks for no change keeps it.
LEMMA SubsumesReflexive ==
    ASSUME NEW c \in CeilingType
    PROVE  Subsumes(c, c)
<1>1. CASE c.type = "Max"
  BY <1>1, CeilingClass DEF Subsumes, SameType
<1>2. CASE c.type = "EgressRank"
  BY <1>2, CeilingClass DEF Subsumes, SameType
<1>3. CASE c.type \in {"Allow", "Deny", "Unknown"}
  BY <1>3 DEF Subsumes, SameType
<1>4. CASE c.type = "Prefix"
  BY <1>4, CeilingClass DEF Subsumes, SameType, StartsWith
<1> QED
  BY <1>1, <1>2, <1>3, <1>4, CeilingClass

\* Subsumption composes along a path, in every ceiling class.
LEMMA SubsumesTransitive ==
    ASSUME NEW a \in CeilingType, NEW b \in CeilingType, NEW c \in CeilingType,
           Subsumes(a, b), Subsumes(b, c)
    PROVE  Subsumes(a, c)
<1>0. a.type = b.type /\ b.type = c.type
  BY DEF Subsumes, SameType
<1>1. CASE a.type = "Max"
  <2>1. a.max \in Int /\ b.max \in Int /\ c.max \in Int
    BY <1>0, <1>1, CeilingClass
  <2>2. b.max <= a.max /\ c.max <= b.max
    BY <1>0, <1>1 DEF Subsumes
  <2> QED
    BY <1>0, <1>1, <2>1, <2>2 DEF Subsumes, SameType
<1>2. CASE a.type = "EgressRank"
  <2>1. a.rank \in Int /\ b.rank \in Int /\ c.rank \in Int
    BY <1>0, <1>2, CeilingClass
  <2>2. b.rank <= a.rank /\ c.rank <= b.rank
    BY <1>0, <1>2 DEF Subsumes
  <2> QED
    BY <1>0, <1>2, <2>1, <2>2 DEF Subsumes, SameType
<1>3. CASE a.type \in {"Allow", "Deny", "Unknown"}
  BY <1>0, <1>3 DEF Subsumes, SameType
<1>4. CASE a.type = "Prefix"
  <2>1. a.prefix \in Seq(Chunk) /\ b.prefix \in Seq(Chunk) /\ c.prefix \in Seq(Chunk)
    BY <1>0, <1>4, CeilingClass
  <2>2. StartsWith(b.prefix, a.prefix) /\ StartsWith(c.prefix, b.prefix)
    BY <1>0, <1>4 DEF Subsumes
  <2> QED
    BY <1>0, <1>4, <2>1, <2>2, StartsWithTransitive DEF Subsumes, SameType
<1> QED
  BY <1>1, <1>2, <1>3, <1>4, CeilingClass

\* The NUL that joins two prefixes is a string of one chunk.
LEMMA SingletonSeq ==
    ASSUME NEW T, NEW x \in T
    PROVE  <<x>> \in Seq(T)
  OBVIOUS

\* The narrowed prefix starts with this side's, in each of its three cases.
LEMMA NarrowPrefixWithin ==
    ASSUME NEW a \in PrefixType, NEW b \in PrefixType
    PROVE  NarrowPrefix(a, b) \in PrefixType /\ StartsWith(NarrowPrefix(a, b).prefix, a.prefix)
<1> DEFINE joined == a.prefix \o <<NUL>> \o b.prefix
<1>1. a.prefix \in Seq(Chunk) /\ b.prefix \in Seq(Chunk)
  BY DEF PrefixType
<1>2. joined \in Seq(Chunk) /\ StartsWith(joined, a.prefix)
  <2>1. <<NUL>> \in Seq(Chunk)
    <3>1. NUL \in Chunk
      BY DEF Chunk
    <3> QED
      BY <3>1, SingletonSeq
  <2>2. a.prefix \o <<NUL>> \in Seq(Chunk) /\ StartsWith(a.prefix \o <<NUL>>, a.prefix)
    BY <1>1, <2>1, ConcatStartsWith
  <2>3. joined \in Seq(Chunk) /\ StartsWith(joined, a.prefix \o <<NUL>>)
    BY <1>1, <2>2, ConcatStartsWith
  <2> QED
    BY <1>1, <2>2, <2>3, StartsWithTransitive
<1>3. StartsWith(a.prefix, a.prefix)
  BY <1>1 DEF StartsWith
<1>4. CASE StartsWith(a.prefix, b.prefix)
  BY <1>3, <1>4 DEF NarrowPrefix
<1>5. CASE ~StartsWith(a.prefix, b.prefix) /\ StartsWith(b.prefix, a.prefix)
  BY <1>5 DEF NarrowPrefix
<1>6. CASE ~StartsWith(a.prefix, b.prefix) /\ ~StartsWith(b.prefix, a.prefix)
  <2>1. NarrowPrefix(a, b) = [a EXCEPT !.prefix = joined]
    BY <1>6 DEF NarrowPrefix
  <2> HIDE DEF joined
  <2> QED
    BY <1>2, <2>1 DEF PrefixType
<1> QED
  BY <1>4, <1>5, <1>6

\* Narrowing never widens the side it narrows.
LEMMA NarrowWithin ==
    ASSUME NEW a \in CeilingType, NEW b \in CeilingType,
           SameType(a, b) \/ a.type = "Unknown"
    PROVE  Narrow(a, b) \in CeilingType /\ Subsumes(a, Narrow(a, b))
<1>1. CASE a.type = "Max"
  <2>1. a \in MaxType /\ a.max \in Int /\ b.max \in Int
    BY <1>1, CeilingClass DEF SameType
  <2>2. Min2(a.max, b.max) \in Int /\ Min2(a.max, b.max) <= a.max
    BY <2>1 DEF Min2
  <2>3. Narrow(a, b) = [a EXCEPT !.max = Min2(a.max, b.max)]
    BY <1>1 DEF Narrow
  <2>4. Narrow(a, b) \in MaxType /\ Narrow(a, b).max = Min2(a.max, b.max)
    BY <2>1, <2>2, <2>3 DEF MaxType
  <2>5. Narrow(a, b).type = "Max"
    BY <2>4 DEF MaxType
  <2> QED
    BY <1>1, <2>2, <2>4, <2>5 DEF Subsumes, SameType, CeilingType
<1>2. CASE a.type = "EgressRank"
  <2>1. a \in EgressType /\ a.rank \in 0 .. 2 /\ b.rank \in 0 .. 2
    BY <1>2, CeilingClass DEF SameType, EgressType
  <2>2. Min2(a.rank, b.rank) \in 0 .. 2 /\ Min2(a.rank, b.rank) <= a.rank
    BY <2>1 DEF Min2
  <2>3. Narrow(a, b) = [a EXCEPT !.rank = Min2(a.rank, b.rank)]
    BY <1>2 DEF Narrow
  <2>4. Narrow(a, b) \in EgressType /\ Narrow(a, b).rank = Min2(a.rank, b.rank)
    BY <2>1, <2>2, <2>3 DEF EgressType
  <2>5. Narrow(a, b).type = "EgressRank"
    BY <2>4 DEF EgressType
  <2> QED
    BY <1>2, <2>2, <2>4, <2>5 DEF Subsumes, SameType, CeilingType
<1>3. CASE a.type = "Allow"
  <2>1. a \in AllowType
    BY <1>3, CeilingClass
  <2>2. Narrow(a, b) = [a EXCEPT !.oneOf = a.oneOf \cap b.oneOf]
    BY <1>3 DEF Narrow
  <2> QED
    BY <1>3, <2>1, <2>2 DEF AllowType, CeilingType, Subsumes, SameType
<1>4. CASE a.type = "Deny"
  <2>1. a \in DenyType /\ b \in DenyType
    BY <1>4, CeilingClass DEF SameType
  <2>2. Narrow(a, b) = [a EXCEPT !.notOneOf = a.notOneOf \cup b.notOneOf]
    BY <1>4 DEF Narrow
  <2> QED
    BY <1>4, <2>1, <2>2 DEF DenyType, CeilingType, Subsumes, SameType
<1>5. CASE a.type = "Prefix"
  <2>1. a \in PrefixType /\ b \in PrefixType
    BY <1>5, CeilingClass DEF SameType
  <2>2. Narrow(a, b) = NarrowPrefix(a, b)
    BY <1>5 DEF Narrow
  <2>3. Narrow(a, b).type = "Prefix"
    BY <2>1, <2>2, NarrowPrefixWithin DEF PrefixType
  <2> QED
    BY <1>5, <2>1, <2>2, <2>3, NarrowPrefixWithin DEF Subsumes, SameType, CeilingType
<1>6. CASE a.type = "Unknown"
  BY <1>6, SubsumesReflexive DEF Narrow
<1> QED
  BY <1>1, <1>2, <1>3, <1>4, <1>5, <1>6, CeilingClass

-----------------------------------------------------------------------------
(* What keys mean *)

\* The keys two authorities share name the same context field and, for a
\* call limit, the same calls: so they do when the keys come from one schema.
ReadAlike(a, b) ==
    \A k \in DOMAIN a.ceilings \cap DOMAIN b.ceilings :
        a.ceilings[k].type = b.ceilings[k].type =>
            /\ a.ceilings[k].type # "Unknown" =>
                   a.ceilings[k].field = b.ceilings[k].field
            /\ a.ceilings[k].type = "Max" =>
                   a.ceilings[k].appliesTo = b.ceilings[k].appliesTo

\* One meaning throughout.
KeysMeanOneThing(S) == \A a, b \in S : ReadAlike(a, b)

\* A ceiling narrowed is read as one of the two it was made from.
ReadsAs(c, d) ==
    /\ c.type = d.type
    /\ c.type # "Unknown" => c.field = d.field
    /\ c.type = "Max" => c.appliesTo = d.appliesTo

\* The narrower of two ceilings reads what one of them reads.
LEMMA NarrowReadsAs ==
    ASSUME NEW c \in CeilingType, NEW d \in CeilingType, SameType(c, d) \/ c.type = "Unknown"
    PROVE  ReadsAs(Narrow(c, d), c) \/ ReadsAs(Narrow(c, d), d)
<1>1. CASE c.type = "Max"
  BY <1>1, CeilingClass DEF Narrow, ReadsAs, MaxType
<1>2. CASE c.type = "EgressRank"
  BY <1>2, CeilingClass DEF Narrow, ReadsAs, EgressType
<1>3. CASE c.type = "Allow"
  BY <1>3, CeilingClass DEF Narrow, ReadsAs, AllowType
<1>4. CASE c.type = "Deny"
  BY <1>4, CeilingClass DEF Narrow, ReadsAs, DenyType
<1>5. CASE c.type = "Prefix"
  BY <1>5, CeilingClass DEF Narrow, NarrowPrefix, ReadsAs, PrefixType
<1>6. CASE c.type = "Unknown"
  BY <1>6 DEF Narrow, ReadsAs
<1> QED
  BY <1>1, <1>2, <1>3, <1>4, <1>5, <1>6, CeilingClass

\* The meet brings no new meaning of a key.
LEMMA MeetReadsAlike ==
    ASSUME NEW S, \A x \in S : IsAuthority(x), KeysMeanOneThing(S),
           NEW a \in S, NEW b \in S, ~MeetRefused(a, b)
    PROVE  KeysMeanOneThing(S \cup {Meet(a, b)})
<1>1. PICK m : m = Meet(a, b)
  OBVIOUS
<1>2. ASSUME NEW k \in DOMAIN m.ceilings
      PROVE  \E y \in S : k \in DOMAIN y.ceilings /\ ReadsAs(m.ceilings[k], y.ceilings[k])
  <2>1. m.ceilings = MeetCeilings(a.ceilings, b.ceilings)
    BY <1>1 DEF Meet, AuthorityOf
  <2>2. CASE k \notin DOMAIN b.ceilings
    BY <1>2, <2>1, <2>2 DEF MeetCeilings, ReadsAs
  <2>3. CASE k \notin DOMAIN a.ceilings
    BY <1>2, <2>1, <2>3 DEF MeetCeilings, ReadsAs
  <2>4. CASE k \in DOMAIN a.ceilings \cap DOMAIN b.ceilings
    <3>1. m.ceilings[k] = Narrow(a.ceilings[k], b.ceilings[k])
      BY <1>2, <2>1, <2>4 DEF MeetCeilings
    <3>2. /\ a.ceilings[k] \in CeilingType /\ b.ceilings[k] \in CeilingType
          /\ SameType(a.ceilings[k], b.ceilings[k]) \/ a.ceilings[k].type = "Unknown"
      BY <2>4 DEF IsAuthority, MeetRefused
    <3> QED
      BY <2>4, <3>1, <3>2, NarrowReadsAs
  <2> QED
    BY <2>2, <2>3, <2>4
<1>3. ASSUME NEW x \in S
      PROVE  ReadAlike(m, x) /\ ReadAlike(x, m)
  BY <1>2 DEF KeysMeanOneThing, ReadAlike, ReadsAs
<1>4. ReadAlike(m, m)
  BY DEF ReadAlike
<1> QED
  BY <1>1, <1>3, <1>4 DEF KeysMeanOneThing

-----------------------------------------------------------------------------
(* Authorities *)

\* Chain.addChild's re-assertion (chain.ts 201-205) cannot fail: whatever is
\* requested, the meet is an authority narrower than the parent's.
THEOREM MeetNarrower ==
    ASSUME NEW a, IsAuthority(a), NEW b, IsAuthority(b), ~MeetRefused(a, b)
    PROVE  IsAuthority(Meet(a, b)) /\ IsNarrowerThan(Meet(a, b), a)
<1> DEFINE m == Meet(a, b)
<1>1. /\ m.scopes = MeetScopes(a.scopes, b.scopes)
      /\ m.ceilings = MeetCeilings(a.ceilings, b.ceilings)
      /\ m.ttl = MeetTtl(a.ttl, b.ttl)
  BY DEF Meet, AuthorityOf
<1> HIDE DEF m
<1>2. m.scopes \subseteq Scope /\ NarrowerScopes(m.scopes, a.scopes)
  <2>1. a.scopes \in SUBSET Scope /\ b.scopes \in SUBSET Scope
    BY DEF IsAuthority
  <2> QED
    BY <1>1, <2>1, MeetScopesWithin
<1>3. DOMAIN m.ceilings = DOMAIN a.ceilings \cup DOMAIN b.ceilings
  BY <1>1 DEF MeetCeilings
<1>4. ASSUME NEW k \in DOMAIN m.ceilings
      PROVE  /\ m.ceilings[k] \in CeilingType
             /\ k \in DOMAIN a.ceilings => Subsumes(a.ceilings[k], m.ceilings[k])
  <2>1. CASE k \notin DOMAIN b.ceilings
    <3>1. k \in DOMAIN a.ceilings /\ m.ceilings[k] = a.ceilings[k]
      BY <1>1, <1>3, <1>4, <2>1 DEF MeetCeilings
    <3> QED
      BY <3>1, SubsumesReflexive DEF IsAuthority
  <2>2. CASE k \in DOMAIN b.ceilings /\ k \notin DOMAIN a.ceilings
    <3>1. m.ceilings[k] = b.ceilings[k]
      BY <1>1, <1>3, <1>4, <2>2 DEF MeetCeilings
    <3> QED
      BY <2>2, <3>1 DEF IsAuthority
  <2>3. CASE k \in DOMAIN b.ceilings /\ k \in DOMAIN a.ceilings
    <3>1. m.ceilings[k] = Narrow(a.ceilings[k], b.ceilings[k])
      BY <1>1, <1>3, <1>4, <2>3 DEF MeetCeilings
    <3>2. SameType(a.ceilings[k], b.ceilings[k]) \/ a.ceilings[k].type = "Unknown"
      BY <2>3 DEF MeetRefused
    <3>3. a.ceilings[k] \in CeilingType /\ b.ceilings[k] \in CeilingType
      BY <2>3 DEF IsAuthority
    <3> QED
      BY <3>1, <3>2, <3>3, NarrowWithin
  <2> QED
    BY <2>1, <2>2, <2>3
<1>5. NarrowerCeilings(m.ceilings, a.ceilings)
  BY <1>3, <1>4 DEF NarrowerCeilings
<1>6. m.ttl \in Nat \cup {NoTtl} /\ NarrowerTtl(m.ttl, a.ttl)
  BY <1>1 DEF IsAuthority, MeetTtl, Min2, NarrowerTtl, NoTtl
<1> QED
  BY <1>2, <1>4, <1>5, <1>6 DEF IsAuthority, IsNarrowerThan, m

\* An authority is narrower than itself.
LEMMA NarrowerReflexive ==
    ASSUME NEW a, IsAuthority(a)
    PROVE  IsNarrowerThan(a, a)
<1>1. NarrowerScopes(a.scopes, a.scopes)
  BY DEF NarrowerScopes, CoversScope, Covers
<1>2. NarrowerCeilings(a.ceilings, a.ceilings)
  BY SubsumesReflexive DEF IsAuthority, NarrowerCeilings
<1>3. NarrowerTtl(a.ttl, a.ttl)
  BY DEF IsAuthority, NarrowerTtl, NoTtl
<1> QED
  BY <1>1, <1>2, <1>3 DEF IsNarrowerThan

\* The relation checked between a node and its parent composes along a path.
THEOREM NarrowerTransitive ==
    ASSUME NEW a, IsAuthority(a), NEW b, IsAuthority(b), NEW c, IsAuthority(c),
           IsNarrowerThan(a, b), IsNarrowerThan(b, c)
    PROVE  IsNarrowerThan(a, c)
<1>1. NarrowerScopes(a.scopes, c.scopes)
  <2>1. \A s \in a.scopes : s \in Scope /\ CoversScope(b.scopes, s)
    BY DEF IsAuthority, IsNarrowerThan, NarrowerScopes
  <2>2. NarrowerScopes(b.scopes, c.scopes) /\ b.scopes \subseteq Scope /\ c.scopes \subseteq Scope
    BY DEF IsAuthority, IsNarrowerThan
  <2>3. \A s \in a.scopes : CoversScope(c.scopes, s)
    BY <2>1, <2>2, CoversScopeTransitive
  <2> QED
    BY <2>3 DEF NarrowerScopes
<1>2. NarrowerCeilings(a.ceilings, c.ceilings)
  <2>1. SUFFICES ASSUME NEW k \in DOMAIN c.ceilings
                 PROVE  k \in DOMAIN a.ceilings /\ Subsumes(c.ceilings[k], a.ceilings[k])
    BY DEF NarrowerCeilings
  <2>2. k \in DOMAIN b.ceilings /\ Subsumes(c.ceilings[k], b.ceilings[k])
    BY DEF IsNarrowerThan, NarrowerCeilings
  <2>3. k \in DOMAIN a.ceilings /\ Subsumes(b.ceilings[k], a.ceilings[k])
    BY <2>2 DEF IsNarrowerThan, NarrowerCeilings
  <2>4. /\ a.ceilings[k] \in CeilingType
        /\ b.ceilings[k] \in CeilingType
        /\ c.ceilings[k] \in CeilingType
    BY <2>2, <2>3 DEF IsAuthority
  <2> QED
    BY <2>2, <2>3, <2>4, SubsumesTransitive
<1>3. NarrowerTtl(a.ttl, c.ttl)
  BY DEF IsAuthority, IsNarrowerThan, NarrowerTtl, NoTtl
<1> QED
  BY <1>1, <1>2, <1>3 DEF IsNarrowerThan

\* One value: a ceiling admits no value that a ceiling subsuming it refuses.
LEMMA SubsumesAdmitsValue ==
    ASSUME NEW c \in CeilingType, NEW d \in CeilingType, NEW v \in JsonValue,
           Subsumes(d, c), c.type # "Unknown", AdmitsValue(c, v)
    PROVE  AdmitsValue(d, v)
<1>0. d.type = c.type
  BY DEF Subsumes, SameType
<1>1. CASE c.type = "Max"
  <2>1. v.kind = "number" /\ v.num <= c.max /\ c.max <= d.max
    BY <1>0, <1>1 DEF AdmitsValue, Subsumes
  <2>2. v.num \in Int /\ c.max \in Int /\ d.max \in Int
    BY <1>0, <1>1, <2>1, CeilingClass DEF JsonValue
  <2> QED
    BY <1>0, <1>1, <2>1, <2>2 DEF AdmitsValue
<1>2. CASE c.type = "EgressRank"
  <2>1. v.kind = "string" /\ EgressRankOf(v) <= c.rank /\ c.rank <= d.rank
    BY <1>0, <1>2 DEF AdmitsValue, Subsumes
  <2>2. EgressRankOf(v) \in Int /\ c.rank \in Int /\ d.rank \in Int
    BY <1>0, <1>2, CeilingClass DEF EgressRankOf
  <2>3. EgressRankOf(v) <= d.rank
    BY <2>1, <2>2
  <2> QED
    BY <1>0, <1>2, <2>1, <2>3 DEF AdmitsValue
<1>3. CASE c.type \in {"Allow", "Deny"}
  BY <1>0, <1>3 DEF AdmitsValue, Subsumes
<1>4. CASE c.type = "Prefix"
  <2>1. v.kind = "string" /\ StartsWith(v.str, c.prefix) /\ StartsWith(c.prefix, d.prefix)
    BY <1>0, <1>4 DEF AdmitsValue, Subsumes
  <2>2. v.str \in Seq(Chunk) /\ c.prefix \in Seq(Chunk) /\ d.prefix \in Seq(Chunk)
    BY <1>0, <1>4, <2>1, CeilingClass DEF JsonValue
  <2>3. StartsWith(v.str, d.prefix)
    BY <2>1, <2>2, StartsWithTransitive
  <2> QED
    BY <1>0, <1>4, <2>1, <2>3 DEF AdmitsValue
<1> QED
  BY <1>1, <1>2, <1>3, <1>4, CeilingClass

\* One ceiling: what it admits, a ceiling that subsumes it and reads the same
\* field admits.
LEMMA SubsumesAdmits ==
    ASSUME NEW c \in CeilingType, NEW d \in CeilingType, Subsumes(d, c),
           c.field = d.field, c.type = "Max" => c.appliesTo = d.appliesTo,
           NEW scope, NEW ctx, \A f \in DOMAIN ctx : ctx[f] \in JsonValue,
           Admits(c, scope, ctx)
    PROVE  Admits(d, scope, ctx)
<1>1. c.type # "Unknown" /\ d.type = c.type
  BY DEF Admits, Subsumes, SameType
<1>2. CASE c.type = "Max" /\ ~AppliesToScope(c, scope)
  BY <1>1, <1>2 DEF Admits, Bounds, AppliesToScope
<1>3. CASE c.field \notin DOMAIN ctx
  BY <1>1, <1>3 DEF Admits, Bounds
<1>4. CASE c.field \in DOMAIN ctx /\ AdmitsValue(c, ctx[c.field])
  <2>1. AdmitsValue(d, ctx[c.field])
    BY <1>1, <1>4, SubsumesAdmitsValue
  <2> QED
    BY <1>1, <1>4, <2>1 DEF Admits, Bounds
<1> QED
  BY <1>2, <1>3, <1>4 DEF Admits, Bounds

\* What the offline verifier evaluates between a node and its parent is
\* enough: an authority that is narrower, read from anywhere, permits no
\* action the other does not.
THEOREM NarrowerSound ==
    ASSUME NEW a, IsAuthority(a), NEW b, IsAuthority(b),
           ReadAlike(a, b), IsNarrowerThan(a, b),
           NEW scope \in Scope, NEW ctx, \A f \in DOMAIN ctx : ctx[f] \in JsonValue,
           Permits(a, scope, ctx)
    PROVE  Permits(b, scope, ctx)
<1>1. CoversScope(b.scopes, scope)
  <2>1. a.scopes \in SUBSET Scope /\ b.scopes \in SUBSET Scope
    BY DEF IsAuthority
  <2>2. NarrowerScopes(a.scopes, b.scopes) /\ CoversScope(a.scopes, scope)
    BY DEF IsNarrowerThan, Permits
  <2> QED
    BY <2>1, <2>2, CoversScopeTransitive
<1>2. ASSUME NEW k \in DOMAIN b.ceilings
      PROVE  Admits(b.ceilings[k], scope, ctx)
  <2>1. k \in DOMAIN a.ceilings /\ Subsumes(b.ceilings[k], a.ceilings[k])
    BY DEF IsNarrowerThan, NarrowerCeilings
  <2>2. a.ceilings[k] \in CeilingType /\ b.ceilings[k] \in CeilingType
    BY <2>1 DEF IsAuthority
  <2>3. Admits(a.ceilings[k], scope, ctx)
    BY <2>1 DEF Permits
  <2>4. a.ceilings[k].type # "Unknown" /\ b.ceilings[k].type = a.ceilings[k].type
    BY <2>1, <2>3 DEF Admits, Subsumes, SameType
  <2>5. /\ a.ceilings[k].field = b.ceilings[k].field
        /\ a.ceilings[k].type = "Max" => a.ceilings[k].appliesTo = b.ceilings[k].appliesTo
    BY <2>1, <2>4 DEF ReadAlike
  <2> QED
    BY <2>1, <2>2, <2>3, <2>5, SubsumesAdmits
<1> QED
  BY <1>1, <1>2 DEF Permits

-----------------------------------------------------------------------------
(* What the meet permits *)

\* A string without the NUL that joins incomparable prefixes: no path has one.
IsPlain(v) == v.kind = "string" => \A i \in 1 .. Len(v.str) : v.str[i] # NUL

\* Two prefixes of one string are comparable.
LEMMA PrefixesComparable ==
    ASSUME NEW s \in Seq(Chunk), NEW p \in Seq(Chunk), NEW q \in Seq(Chunk),
           StartsWith(s, p), StartsWith(s, q)
    PROVE  StartsWith(p, q) \/ StartsWith(q, p)
  BY DEF StartsWith

\* No plain string starts with a joined prefix.
LEMMA JoinedMatchesNothing ==
    ASSUME NEW s \in Seq(Chunk), NEW p \in Seq(Chunk), NEW q \in Seq(Chunk),
           \A i \in 1 .. Len(s) : s[i] # NUL
    PROVE  ~StartsWith(s, p \o <<NUL>> \o q)
<1>1. NUL \in Chunk /\ <<NUL>> \in Seq(Chunk)
  BY SingletonSeq DEF Chunk
<1>2. PICK h : h = p \o <<NUL>>
  OBVIOUS
<1>3. h \in Seq(Chunk) /\ Len(h) = Len(p) + 1 /\ h[Len(p) + 1] = NUL
  BY <1>1, <1>2
<1>4. StartsWith(h \o q, h) /\ h \o q \in Seq(Chunk)
  BY <1>3, ConcatStartsWith
<1>5. ~StartsWith(s, h)
  BY <1>3 DEF StartsWith
<1>6. SUFFICES ASSUME StartsWith(s, h \o q)
               PROVE  FALSE
  BY <1>2
<1> QED
  BY <1>3, <1>4, <1>5, <1>6, StartsWithTransitive

\* A narrowed bound admits the values that both bounds admit, and no other.
LEMMA NarrowAdmitsValue ==
    ASSUME NEW c \in CeilingType, NEW d \in CeilingType, SameType(c, d), c.type # "Unknown",
           NEW v \in JsonValue, IsPlain(v)
    PROVE  AdmitsValue(Narrow(c, d), v) <=> AdmitsValue(c, v) /\ AdmitsValue(d, v)
<1>0. d.type = c.type
  BY DEF SameType
<1>1. CASE c.type = "Max"
  <2>1. Narrow(c, d) = [c EXCEPT !.max = Min2(c.max, d.max)] /\ c \in MaxType
    BY <1>1, CeilingClass DEF Narrow
  <2>2. Narrow(c, d).type = "Max" /\ Narrow(c, d).max = Min2(c.max, d.max)
    BY <2>1 DEF MaxType
  <2>3. c.max \in Int /\ d.max \in Int /\ (v.kind = "number" => v.num \in Int)
    BY <1>0, <1>1, CeilingClass DEF JsonValue
  <2> QED
    BY <1>0, <1>1, <2>2, <2>3 DEF AdmitsValue, Min2
<1>2. CASE c.type = "EgressRank"
  <2>1. Narrow(c, d) = [c EXCEPT !.rank = Min2(c.rank, d.rank)] /\ c \in EgressType
    BY <1>2, CeilingClass DEF Narrow
  <2>2. Narrow(c, d).type = "EgressRank" /\ Narrow(c, d).rank = Min2(c.rank, d.rank)
    BY <2>1 DEF EgressType
  <2>3. c.rank \in Int /\ d.rank \in Int /\ EgressRankOf(v) \in Int
    BY <1>0, <1>2, CeilingClass DEF EgressRankOf
  <2> QED
    BY <1>0, <1>2, <2>2, <2>3 DEF AdmitsValue, Min2
<1>3. CASE c.type = "Allow"
  <2>1. Narrow(c, d) = [c EXCEPT !.oneOf = c.oneOf \cap d.oneOf] /\ c \in AllowType
    BY <1>3, CeilingClass DEF Narrow
  <2>2. Narrow(c, d).type = "Allow" /\ Narrow(c, d).oneOf = c.oneOf \cap d.oneOf
    BY <2>1 DEF AllowType
  <2> QED
    BY <1>0, <1>3, <2>2 DEF AdmitsValue
<1>4. CASE c.type = "Deny"
  <2>1. Narrow(c, d) = [c EXCEPT !.notOneOf = c.notOneOf \cup d.notOneOf] /\ c \in DenyType
    BY <1>4, CeilingClass DEF Narrow
  <2>2. Narrow(c, d).type = "Deny" /\ Narrow(c, d).notOneOf = c.notOneOf \cup d.notOneOf
    BY <2>1 DEF DenyType
  <2> QED
    BY <1>0, <1>4, <2>2 DEF AdmitsValue
<1>5. CASE c.type = "Prefix"
  <2>1. /\ c \in PrefixType /\ d \in PrefixType /\ Narrow(c, d) = NarrowPrefix(c, d)
        /\ c.prefix \in Seq(Chunk) /\ d.prefix \in Seq(Chunk)
    BY <1>0, <1>5, CeilingClass DEF Narrow
  <2>2. NarrowPrefix(c, d).type = "Prefix" /\ NarrowPrefix(c, d).prefix \in Seq(Chunk)
    BY <2>1, NarrowPrefixWithin DEF PrefixType
  <2>3. CASE v.kind # "string"
    BY <1>0, <1>5, <2>1, <2>2, <2>3 DEF AdmitsValue
  <2>4. CASE v.kind = "string"
    <3>1. v.str \in Seq(Chunk) /\ \A i \in 1 .. Len(v.str) : v.str[i] # NUL
      BY <2>4 DEF JsonValue, IsPlain
    <3>2. SUFFICES StartsWith(v.str, NarrowPrefix(c, d).prefix)
                       <=> StartsWith(v.str, c.prefix) /\ StartsWith(v.str, d.prefix)
      BY <1>0, <1>5, <2>1, <2>2, <2>4 DEF AdmitsValue
    <3>3. CASE StartsWith(c.prefix, d.prefix)
      BY <2>1, <3>1, <3>3, StartsWithTransitive DEF NarrowPrefix
    <3>4. CASE ~StartsWith(c.prefix, d.prefix) /\ StartsWith(d.prefix, c.prefix)
      BY <2>1, <3>1, <3>4, StartsWithTransitive DEF NarrowPrefix
    <3>5. CASE ~StartsWith(c.prefix, d.prefix) /\ ~StartsWith(d.prefix, c.prefix)
      <4>1. NarrowPrefix(c, d) = [c EXCEPT !.prefix = c.prefix \o <<NUL>> \o d.prefix]
        BY <3>5 DEF NarrowPrefix
      <4>2. NarrowPrefix(c, d).prefix = c.prefix \o <<NUL>> \o d.prefix
        BY <2>1, <4>1 DEF PrefixType
      <4>3. ~StartsWith(v.str, NarrowPrefix(c, d).prefix)
        BY <2>1, <3>1, <4>2, JoinedMatchesNothing
      <4> QED
        BY <2>1, <3>1, <3>5, <4>3, PrefixesComparable
    <3> QED
      BY <3>3, <3>4, <3>5
  <2> QED
    BY <2>3, <2>4
<1> QED
  BY <1>1, <1>2, <1>3, <1>4, <1>5, CeilingClass

\* A request a ceiling is asked about: its values are JSON, and hold no NUL.
IsPlainRequest(scope, ctx) ==
    scope \in Scope /\ \A f \in DOMAIN ctx : ctx[f] \in JsonValue /\ IsPlain(ctx[f])

\* A narrowed ceiling admits the requests that both ceilings admit, and no other.
LEMMA NarrowAdmits ==
    ASSUME NEW c \in CeilingType, NEW d \in CeilingType, ReadsAs(c, d) \/ c.type = "Unknown",
           NEW scope, NEW ctx, IsPlainRequest(scope, ctx)
    PROVE  Admits(Narrow(c, d), scope, ctx)
               <=> Admits(c, scope, ctx) /\ (Admits(d, scope, ctx) \/ c.type = "Unknown")
<1>1. CASE c.type = "Unknown"
  BY <1>1 DEF Narrow, Admits
<1>2. CASE c.type # "Unknown"
  <2>1. SameType(c, d) /\ c.field = d.field /\ (c.type = "Max" => c.appliesTo = d.appliesTo)
    BY <1>2 DEF ReadsAs, SameType
  <2>2. PICK m : m = Narrow(c, d)
    OBVIOUS
  <2>3. ReadsAs(m, c) \/ ReadsAs(m, d)
    BY <2>1, <2>2, NarrowReadsAs
  <2>4. /\ m.type = c.type /\ d.type = c.type /\ m.field = c.field
        /\ m.type = "Max" => m.appliesTo = c.appliesTo
    BY <1>2, <2>1, <2>3 DEF ReadsAs, SameType
  <2>5. Bounds(m, scope, ctx) = Bounds(c, scope, ctx) /\ Bounds(d, scope, ctx) = Bounds(c, scope, ctx)
    BY <2>1, <2>4 DEF Bounds, AppliesToScope
  <2>6. Bounds(c, scope, ctx) =>
            (AdmitsValue(m, ctx[c.field]) <=> AdmitsValue(c, ctx[c.field]) /\ AdmitsValue(d, ctx[c.field]))
    BY <1>2, <2>1, <2>2, NarrowAdmitsValue DEF Bounds, IsPlainRequest
  <2> QED
    BY <1>2, <2>1, <2>2, <2>4, <2>5, <2>6 DEF Admits
<1> QED
  BY <1>1, <1>2

\* The meet is exact: it permits what both authorities permit, nothing beyond
\* what was granted and what was asked, and nothing less, however its scopes
\* overlap and its ceilings combine.
THEOREM MeetExact ==
    ASSUME NEW a, IsAuthority(a), NEW b, IsAuthority(b), ~MeetRefused(a, b), ReadAlike(a, b),
           NEW scope, NEW ctx, IsPlainRequest(scope, ctx)
    PROVE  Permits(Meet(a, b), scope, ctx) <=> Permits(a, scope, ctx) /\ Permits(b, scope, ctx)
<1>1. PICK m : m = Meet(a, b)
  OBVIOUS
<1>2. /\ m.scopes = MeetScopes(a.scopes, b.scopes)
      /\ m.ceilings = MeetCeilings(a.ceilings, b.ceilings)
      /\ DOMAIN m.ceilings = DOMAIN a.ceilings \cup DOMAIN b.ceilings
  BY <1>1 DEF Meet, AuthorityOf, MeetCeilings
<1>3. CoversScope(m.scopes, scope) <=> CoversScope(a.scopes, scope) /\ CoversScope(b.scopes, scope)
  BY <1>2, MeetScopesExact DEF IsAuthority, IsPlainRequest
<1>4. \A k \in DOMAIN a.ceilings \ DOMAIN b.ceilings : m.ceilings[k] = a.ceilings[k]
  BY <1>2 DEF MeetCeilings
<1>5. \A k \in DOMAIN b.ceilings \ DOMAIN a.ceilings : m.ceilings[k] = b.ceilings[k]
  BY <1>2 DEF MeetCeilings
<1>6. ASSUME NEW k \in DOMAIN a.ceilings \cap DOMAIN b.ceilings
      PROVE  /\ Admits(m.ceilings[k], scope, ctx) => Admits(a.ceilings[k], scope, ctx)
             /\ a.ceilings[k].type # "Unknown" =>
                    (Admits(m.ceilings[k], scope, ctx)
                        <=> Admits(a.ceilings[k], scope, ctx) /\ Admits(b.ceilings[k], scope, ctx))
             /\ a.ceilings[k].type = "Unknown" =>
                    ~Admits(m.ceilings[k], scope, ctx) /\ ~Admits(a.ceilings[k], scope, ctx)
  <2>1. PICK c, d : c = a.ceilings[k] /\ d = b.ceilings[k]
    OBVIOUS
  <2>2. c \in CeilingType /\ d \in CeilingType /\ m.ceilings[k] = Narrow(c, d)
    BY <1>2, <2>1 DEF MeetCeilings, IsAuthority
  <2>3. ReadsAs(c, d) \/ c.type = "Unknown"
    BY <2>1 DEF MeetRefused, ReadAlike, ReadsAs, SameType
  <2>4. Admits(m.ceilings[k], scope, ctx)
            <=> Admits(c, scope, ctx) /\ (Admits(d, scope, ctx) \/ c.type = "Unknown")
    BY <2>2, <2>3, NarrowAdmits
  <2>5. c.type = "Unknown" => ~Admits(c, scope, ctx)
    BY DEF Admits
  <2> QED
    BY <2>1, <2>4, <2>5
<1>7. (\A k \in DOMAIN m.ceilings : Admits(m.ceilings[k], scope, ctx))
          <=> /\ \A k \in DOMAIN a.ceilings : Admits(a.ceilings[k], scope, ctx)
              /\ \A k \in DOMAIN b.ceilings : Admits(b.ceilings[k], scope, ctx)
  BY <1>2, <1>4, <1>5, <1>6
<1> QED
  BY <1>1, <1>3, <1>7 DEF Permits
=============================================================================
