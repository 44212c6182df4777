-------------------------- MODULE AttenuationProofs --------------------------
(***************************************************************************)
(* What holds along every delegation path, of any length, from any root    *)
(* and through any requests.                                               *)
(***************************************************************************)
EXTENDS Attenuation, AuthorityProofs

Given == Roots \cup Requests

\* Each authority on the path was cut from the one before and what was asked.
IsCut(i) ==
    /\ asked[i] \in Requests
    /\ ~MeetRefused(path[i], asked[i])
    /\ path[i + 1] = Meet(path[i], asked[i])

OnPath == {path[i] : i \in DOMAIN path}

PathInv ==
    /\ \E T : path \in Seq(T) /\ asked \in Seq(T)
    /\ Len(path) = Len(asked) + 1
    /\ \A i \in DOMAIN path : IsAuthority(path[i])
    /\ \A i \in DOMAIN asked : IsCut(i)

\* The root alone.
LEMMA PathInit ==
    ASSUME Init
    PROVE  PathInv /\ AttenuationComposes
<1>1. PICK root \in Roots : path = <<root>> /\ asked = <<>>
  BY DEF Init
<1>2. IsAuthority(root)
  BY <1>1, AuthoritiesAssumption
<1>3. path \in Seq({root}) /\ asked \in Seq({root}) /\ Len(path) = 1 /\ Len(asked) = 0
  BY <1>1
<1>4. DOMAIN path = {1} /\ DOMAIN asked = {} /\ path[1] = root
  BY <1>1
<1> QED
  BY <1>2, <1>3, <1>4 DEF PathInv, AttenuationComposes

\* What a delegation appends.
LEMMA PathGrows ==
    ASSUME PathInv, NEW request \in Requests, AddChild(request)
    PROVE  /\ \E T : path' \in Seq(T) /\ asked' \in Seq(T)
           /\ Len(path') = Len(path) + 1 /\ Len(asked') = Len(asked) + 1 /\ Len(path) \in Nat \ {0}
           /\ DOMAIN path = 1 .. Len(path) /\ DOMAIN path' = 1 .. Len(path) + 1
           /\ DOMAIN asked = 1 .. Len(path) - 1 /\ DOMAIN asked' = 1 .. Len(path)
           /\ \A i \in DOMAIN path : path'[i] = path[i]
           /\ \A i \in DOMAIN asked : asked'[i] = asked[i]
           /\ path'[Len(path) + 1] = Meet(Held, request) /\ asked'[Len(path)] = request
           /\ ~MeetRefused(Held, request)
<1>1. PICK T : path \in Seq(T) /\ asked \in Seq(T)
  BY DEF PathInv
<1>2. PICK m : m = Meet(Held, request)
  OBVIOUS
<1>3. path' = Append(path, m) /\ asked' = Append(asked, request) /\ ~MeetRefused(Held, request)
  BY <1>2 DEF AddChild
<1>4. Len(path) = Len(asked) + 1
  BY DEF PathInv
<1>5. PICK U : U = T \cup {m, request}
  OBVIOUS
<1>6. path \in Seq(U) /\ asked \in Seq(U) /\ m \in U /\ request \in U
  BY <1>1, <1>5
<1>7. path' \in Seq(U) /\ asked' \in Seq(U)
  BY <1>3, <1>6
<1> QED
  BY <1>2, <1>3, <1>4, <1>6, <1>7

\* A step keeps the path one of cuts, each narrower than all before it.
LEMMA PathNext ==
    ASSUME PathInv, AttenuationComposes, [Next]_vars
    PROVE  PathInv' /\ AttenuationComposes'
<1>1. CASE UNCHANGED vars
  BY <1>1 DEF vars, PathInv, AttenuationComposes, IsCut
<1>2. ASSUME NEW request \in Requests, AddChild(request)
      PROVE  PathInv' /\ AttenuationComposes'
  <2>1. PICK n : n = Len(path)
    OBVIOUS
  <2>2. /\ \E T : path' \in Seq(T) /\ asked' \in Seq(T)
        /\ Len(path') = n + 1 /\ Len(asked') = Len(asked) + 1 /\ n \in Nat \ {0}
        /\ DOMAIN path = 1 .. n /\ DOMAIN path' = 1 .. n + 1
        /\ DOMAIN asked = 1 .. n - 1 /\ DOMAIN asked' = 1 .. n
        /\ \A i \in DOMAIN path : path'[i] = path[i]
        /\ \A i \in DOMAIN asked : asked'[i] = asked[i]
        /\ path'[n + 1] = Meet(path[n], request) /\ asked'[n] = request
        /\ ~MeetRefused(path[n], request)
    BY <1>2, <2>1, PathGrows DEF Held
  <2>3. \A i \in DOMAIN path : IsAuthority(path[i])
    BY DEF PathInv
  <2>4. IsAuthority(path[n]) /\ IsAuthority(request)
    BY <1>2, <2>2, <2>3, AuthoritiesAssumption
  <2>5. IsAuthority(path'[n + 1]) /\ IsNarrowerThan(path'[n + 1], path[n])
    BY <2>2, <2>4, MeetNarrower
  <2>6. PathInv'
    <3>1. ASSUME NEW i \in DOMAIN asked
          PROVE  IsCut(i)'
      <4>1. IsCut(i) /\ i \in DOMAIN path /\ i + 1 \in DOMAIN path
        BY <2>2, <3>1 DEF PathInv
      <4>2. path'[i] = path[i] /\ path'[i + 1] = path[i + 1] /\ asked'[i] = asked[i]
        BY <2>2, <4>1
      <4> QED
        BY <4>1, <4>2 DEF IsCut
    <3>2. IsCut(n)'
      BY <1>2, <2>2 DEF IsCut
    <3>3. \A i \in DOMAIN asked' : IsCut(i)'
      BY <2>2, <3>1, <3>2
    <3>4. \A i \in DOMAIN path' : IsAuthority(path'[i])
      BY <2>2, <2>3, <2>5
    <3>5. Len(path') = Len(asked') + 1
      BY <2>1, <2>2 DEF PathInv
    <3> QED
      BY <2>2, <3>3, <3>4, <3>5 DEF PathInv
  <2>7. AttenuationComposes'
    <3>1. SUFFICES ASSUME NEW i \in 1 .. n + 1, NEW j \in 1 .. n + 1, i < j
                   PROVE  IsNarrowerThan(path'[j], path'[i])
      BY <2>2 DEF AttenuationComposes
    <3>2. i \in DOMAIN path /\ path'[i] = path[i] /\ IsAuthority(path[i])
      BY <2>2, <2>3, <3>1
    <3>3. CASE j \in DOMAIN path
      BY <2>1, <2>2, <3>1, <3>2, <3>3 DEF AttenuationComposes
    <3>4. CASE j = n + 1
      <4>1. i = n \/ IsNarrowerThan(path[n], path[i])
        BY <2>1, <2>2, <3>1, <3>2, <3>4 DEF AttenuationComposes
      <4> QED
        BY <2>4, <2>5, <3>2, <3>4, <4>1, NarrowerTransitive
    <3> QED
      BY <2>2, <3>1, <3>3, <3>4
  <2> QED
    BY <2>6, <2>7
<1> QED
  BY <1>1, <1>2 DEF Next

\* The attenuation an application relies on is checked link by link, and composes:
\* in every path, each authority is narrower than every one above it, so that the
\* re-assertion of addChild, and an auditor's check of any two nodes, succeed.
THEOREM AttenuationAlwaysComposes == Spec => []AttenuationComposes
<1>1. Init => PathInv /\ AttenuationComposes
  BY PathInit
<1>2. PathInv /\ AttenuationComposes /\ [Next]_vars => PathInv' /\ AttenuationComposes'
  BY PathNext
<1> QED
  BY <1>1, <1>2, PTL DEF Spec

-----------------------------------------------------------------------------
(* What is permitted along a path *)

\* Keys have one meaning in what the application gives, and so along the path.
OneMeaning == KeysMeanOneThing(Given \cup OnPath)

\* The contexts that are asked about hold JSON values, and no NUL.
PlainRequests == \A s \in CheckedScopes, ctx \in Contexts : IsPlainRequest(s, ctx)

\* A key means the same in the root as in what was given.
LEMMA MeaningInit ==
    ASSUME Init, KeysMeanOneThing(Given)
    PROVE  OneMeaning
<1>1. PICK root \in Roots : path = <<root>>
  BY DEF Init
<1>2. OnPath = {root}
  BY <1>1 DEF OnPath
<1> QED
  BY <1>1, <1>2 DEF OneMeaning, KeysMeanOneThing, Given

\* A cut brings no new meaning.
LEMMA MeaningNext ==
    ASSUME PathInv, OneMeaning, [Next]_vars
    PROVE  OneMeaning'
<1>1. CASE UNCHANGED vars
  BY <1>1 DEF vars, OneMeaning, OnPath
<1>2. ASSUME NEW request \in Requests, AddChild(request)
      PROVE  OneMeaning'
  <2>1. PICK S, n, m : S = Given \cup OnPath /\ n = Len(path) /\ m = Meet(path[n], request)
    OBVIOUS
  <2>2. /\ n \in Nat \ {0} /\ DOMAIN path = 1 .. n /\ DOMAIN path' = 1 .. n + 1
        /\ \A i \in DOMAIN path : path'[i] = path[i]
        /\ path'[n + 1] = m /\ ~MeetRefused(path[n], request)
    BY <1>2, <2>1, PathGrows DEF Held
  <2>3. OnPath' \subseteq OnPath \cup {m}
    BY <2>2 DEF OnPath
  <2>4. path[n] \in S /\ request \in S /\ \A x \in S : IsAuthority(x)
    BY <1>2, <2>1, <2>2, AuthoritiesAssumption DEF Given, OnPath, PathInv
  <2>5. KeysMeanOneThing(S \cup {m})
    BY <2>1, <2>2, <2>4, MeetReadsAlike DEF OneMeaning
  <2> QED
    BY <2>1, <2>3, <2>5 DEF OneMeaning, KeysMeanOneThing
<1> QED
  BY <1>1, <1>2 DEF Next

\* A cut permits what both sides permit, and no other request.
LEMMA CutIsExact ==
    ASSUME PathInv, OneMeaning, PlainRequests, NEW i \in DOMAIN asked
    PROVE  PermittedBy(path[i + 1]) = PermittedBy(path[i]) \cap PermittedBy(asked[i])
<1>1. /\ i \in DOMAIN path /\ i + 1 \in DOMAIN path /\ IsCut(i)
      /\ IsAuthority(path[i]) /\ IsAuthority(asked[i])
  BY AuthoritiesAssumption DEF PathInv, IsCut
<1>2. ReadAlike(path[i], asked[i])
  BY <1>1 DEF OneMeaning, KeysMeanOneThing, OnPath, Given, IsCut
<1>3. ASSUME NEW q \in CheckedScopes \X Contexts
      PROVE  Permits(path[i + 1], q[1], q[2]) <=> Permits(path[i], q[1], q[2]) /\ Permits(asked[i], q[1], q[2])
  <2>1. IsPlainRequest(q[1], q[2])
    BY DEF PlainRequests
  <2> QED
    BY <1>1, <1>2, <2>1, MeetExact DEF IsCut
<1> QED
  BY <1>3 DEF PermittedBy

\* What narrower authorities permit, in the states of the path.
LEMMA NarrowerPermitsLess ==
    ASSUME PlainRequests, NEW a, IsAuthority(a), NEW b, IsAuthority(b), ReadAlike(a, b), IsNarrowerThan(a, b)
    PROVE  PermittedBy(a) \subseteq PermittedBy(b)
<1>1. ASSUME NEW q \in CheckedScopes \X Contexts, Permits(a, q[1], q[2])
      PROVE  Permits(b, q[1], q[2])
  <2>1. q[1] \in Scope /\ \A f \in DOMAIN q[2] : q[2][f] \in JsonValue
    BY DEF PlainRequests, IsPlainRequest
  <2> QED
    BY <1>1, <2>1, NarrowerSound
<1> QED
  BY <1>1 DEF PermittedBy

\* The three containments, in one state.
LEMMA PathContains ==
    ASSUME PathInv, AttenuationComposes, OneMeaning, PlainRequests
    PROVE  ContainedInAncestors /\ MeetIsGreatest /\ SubsumptionSound
<1>1. PICK n : n = Len(path)
  OBVIOUS
<1>2. /\ n \in Nat \ {0} /\ DOMAIN path = 1 .. n /\ DOMAIN asked = 1 .. n - 1 /\ Len(asked) = n - 1
  BY <1>1 DEF PathInv
<1>3. \A i \in 1 .. n : IsAuthority(path[i]) /\ path[i] \in OnPath
  BY <1>2 DEF PathInv, OnPath
<1>4. ASSUME NEW i \in 1 .. n - 1
      PROVE  PermittedBy(Held) \subseteq PermittedBy(path[i]) \cap PermittedBy(asked[i])
  <2>1. PermittedBy(path[i + 1]) = PermittedBy(path[i]) \cap PermittedBy(asked[i])
    BY <1>2, <1>4, CutIsExact
  <2>2. PermittedBy(path[n]) \subseteq PermittedBy(path[i + 1])
    <3>1. i + 1 \in 1 .. n /\ n \in 1 .. n
      BY <1>2, <1>4
    <3>2. i + 1 = n \/ IsNarrowerThan(path[n], path[i + 1])
      BY <1>1, <1>2, <3>1 DEF AttenuationComposes
    <3>3. ReadAlike(path[n], path[i + 1])
      BY <1>3, <3>1 DEF OneMeaning, KeysMeanOneThing
    <3> QED
      BY <1>3, <3>1, <3>2, <3>3, NarrowerPermitsLess
  <2> QED
    BY <1>1, <2>1, <2>2 DEF Held
<1>5. ContainedInAncestors
  BY <1>1, <1>4 DEF ContainedInAncestors
<1>6. MeetIsGreatest
  <2>1. SUFFICES ASSUME n > 1
                 PROVE  PermittedBy(path[n - 1]) \cap PermittedBy(asked[n - 1]) \subseteq PermittedBy(path[n])
    BY <1>1, <1>2 DEF MeetIsGreatest, Held
  <2>2. n - 1 \in DOMAIN asked /\ (n - 1) + 1 = n
    BY <1>2, <2>1
  <2> QED
    BY <2>2, CutIsExact
<1>7. SubsumptionSound
  <2>1. SUFFICES ASSUME NEW a \in Requests, IsNarrowerThan(a, path[n])
                 PROVE  PermittedBy(a) \subseteq PermittedBy(path[n])
    BY <1>1 DEF SubsumptionSound, Held
  <2>2. ReadAlike(a, path[n]) /\ IsAuthority(a) /\ IsAuthority(path[n])
    BY <1>2, <1>3, AuthoritiesAssumption DEF OneMeaning, KeysMeanOneThing, Given
  <2> QED
    BY <2>1, <2>2, NarrowerPermitsLess
<1> QED
  BY <1>5, <1>6, <1>7

\* The three theorems below share this.
LEMMA PathsContain ==
    ASSUME KeysMeanOneThing(Given), PlainRequests
    PROVE  Spec => [](ContainedInAncestors /\ MeetIsGreatest /\ SubsumptionSound)
<1>1. Init => PathInv /\ AttenuationComposes /\ OneMeaning
  BY PathInit, MeaningInit
<1>2. PathInv /\ AttenuationComposes /\ OneMeaning /\ [Next]_vars
          => PathInv' /\ AttenuationComposes' /\ OneMeaning'
  BY PathNext, MeaningNext
<1>3. PathInv /\ AttenuationComposes /\ OneMeaning
          => ContainedInAncestors /\ MeetIsGreatest /\ SubsumptionSound
  BY PathContains
<1> QED
  BY <1>1, <1>2, <1>3, PTL DEF Spec

\* However long the path, what its last node may do was granted to all above it
\* and asked for at every step, where a key means one thing and no value has a NUL.
THEOREM NoActionOutsideAncestors ==
    ASSUME KeysMeanOneThing(Given), PlainRequests
    PROVE  Spec => []ContainedInAncestors
  BY PathsContain, PTL

\* No delegation takes away more than its parent and its request do.
THEOREM MeetLosesNothing ==
    ASSUME KeysMeanOneThing(Given), PlainRequests
    PROVE  Spec => []MeetIsGreatest
  BY PathsContain, PTL

\* An authority that passes the verifier's check against a node permits nothing
\* beyond it, whoever made it.
THEOREM SubsumptionIsSound ==
    ASSUME KeysMeanOneThing(Given), PlainRequests
    PROVE  Spec => []SubsumptionSound
  BY PathsContain, PTL
=============================================================================
