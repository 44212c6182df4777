---------------------------- MODULE EvidenceProofs ----------------------------
(***************************************************************************)
(* Bundles and observer envelopes: what is accepted is what was signed,    *)
(* and what is witnessed was observed, for any number of chains, entries,  *)
(* signatures and edits.  Everything rests on the hash chain: two chains   *)
(* that end in one hash are the same, from there back to the first entry.  *)
(***************************************************************************)
EXTENDS ObserverEnvelopes, FiniteSetTheorems, SequenceTheorems, NaturalsInduction,
        WellFoundedInduction, TLAPS

-----------------------------------------------------------------------------
(* Positions *)

\* A set of naturals has a least element: < is well founded.
LEMMA Least ==
    ASSUME NEW S \in SUBSET Nat, S # {}
    PROVE  \E n \in S : \A m \in S : n <= m
<1>1. PICK R : R = OpToRel(<, Nat)
  OBVIOUS
<1>2. IsWellFoundedOn(R, Nat)
  BY <1>1, NatLessThanWellFounded
<1>3. R = {p \in Nat \X Nat : p[1] < p[2]}
  BY <1>1 DEF OpToRel
<1>4. PICK n \in S : \A m \in S : <<m, n>> \notin R
  BY <1>2, WFMin
<1>5. ASSUME NEW m \in S PROVE n <= m
  <2>1. n \in Nat /\ m \in Nat
    OBVIOUS
  <2>2. m < n => <<m, n>> \in R
    BY <1>3, <2>1
  <2> QED
    BY <1>4, <2>1, <2>2
<1> QED
  BY <1>5

\* A bounded one has a greatest.
LEMMA Greatest ==
    ASSUME NEW n \in Nat, NEW S \in SUBSET (0 .. n), S # {}
    PROVE  \E m \in S : \A k \in S : k <= m
<1> DEFINE T == {n - k : k \in S}
<1>1. T \in SUBSET Nat /\ T # {}
  OBVIOUS
<1>2. PICK t \in T : \A u \in T : t <= u
  <2> HIDE DEF T
  <2> QED
    BY <1>1, Least
<1>3. PICK m \in S : t = n - m
  BY <1>2
<1>4. ASSUME NEW k \in S PROVE k <= m
  <2>1. n - k \in T
    OBVIOUS
  <2>2. n - m <= n - k
    BY <1>2, <1>3, <2>1
  <2> QED
    BY <2>2
<1> QED
  BY <1>4

-----------------------------------------------------------------------------
(* Walks: the hashes from the first entry on *)

Payload(entry, prev, relink) == IF relink THEN [entry EXCEPT !.prev = prev] ELSE entry
IsWalk(h, L, n, relink) ==
    h = [i \in 0 .. n |->
            IF i = 0 THEN Genesis ELSE HashEntry(h[i - 1], Payload(L[i], h[i - 1], relink))]

\* There is a walk over any entries, as they are linked or linked anew.
LEMMA WalkExists ==
    ASSUME NEW L, NEW n \in Nat, NEW relink
    PROVE  \E h : IsWalk(h, L, n, relink)
<1> DEFINE D == {k \in 0 .. n : ~ \E h : IsWalk(h, L, k, relink)}
<1> SUFFICES ASSUME n \in D PROVE FALSE
  OBVIOUS
<1>1. PICK d \in D : \A k \in D : d <= k
  <2>1. D \in SUBSET Nat /\ D # {}
    OBVIOUS
  <2> HIDE DEF D
  <2> QED
    BY <2>1, Least
<1>2. d # 0
  <2>1. IsWalk([i \in 0 .. 0 |-> Genesis], L, 0, relink)
    BY DEF IsWalk
  <2> QED
    BY <2>1
<1>3. d - 1 \in 0 .. n /\ d - 1 \notin D
  BY <1>1, <1>2
<1>4. PICK h : IsWalk(h, L, d - 1, relink)
  BY <1>3
<1> DEFINE g == [i \in 0 .. d |->
                    IF i = d THEN HashEntry(h[d - 1], Payload(L[d], h[d - 1], relink)) ELSE h[i]]
<1>5. IsWalk(g, L, d, relink)
  <2>1. ASSUME NEW i \in 0 .. d
        PROVE  g[i] = IF i = 0 THEN Genesis
                      ELSE HashEntry(g[i - 1], Payload(L[i], g[i - 1], relink))
    <3>1. CASE i = d
      BY <1>2, <3>1
    <3>2. CASE i # d
      <4>1. i \in 0 .. d - 1
        BY <3>2
      <4>2. i # 0 => i - 1 \in 0 .. d - 1 /\ i - 1 # d
        BY <4>1
      <4> QED
        BY <1>4, <3>2, <4>1, <4>2 DEF IsWalk
    <3> QED
      BY <3>1, <3>2
  <2> QED
    BY <2>1 DEF IsWalk
<1> QED
  BY <1>5

\* recomputedHashes is one.
LEMMA RecomputedIsWalk ==
    ASSUME NEW L, Len(L) \in Nat
    PROVE  /\ RecomputedHashes(L)[0] = Genesis
           /\ \A i \in 1 .. Len(L) :
                 RecomputedHashes(L)[i] = HashEntry(RecomputedHashes(L)[i - 1], L[i])
<1>1. PICK n : n = Len(L)
  OBVIOUS
<1>2. PICK h : h = RecomputedHashes(L)
  OBVIOUS
<1>3. h = CHOOSE g : IsWalk(g, L, n, FALSE)
  BY <1>1, <1>2 DEF RecomputedHashes, IsWalk, Payload
<1>4. IsWalk(h, L, n, FALSE)
  BY <1>1, <1>3, WalkExists
<1> QED
  BY <1>1, <1>2, <1>4 DEF IsWalk, Payload

\* The loop of exportBundle is the other.
LEMMA RehashIsWalk ==
    ASSUME NEW L, Len(L) \in Nat
    PROVE  \E h :
              /\ h[0] = Genesis
              /\ \A i \in 1 .. Len(L) :
                    h[i] = HashEntry(h[i - 1], [L[i] EXCEPT !.prev = h[i - 1]])
              /\ Rehash(L) =
                    [i \in DOMAIN L |-> [L[i] EXCEPT !.prev = h[i - 1], !.hash = h[i]]]
<1>1. PICK n : n = Len(L)
  OBVIOUS
<1>2. PICK h : h = CHOOSE g : IsWalk(g, L, n, TRUE)
  OBVIOUS
<1>3. IsWalk(h, L, n, TRUE)
  BY <1>1, <1>2, WalkExists
<1>4. Rehash(L) = [i \in DOMAIN L |-> [L[i] EXCEPT !.prev = h[i - 1], !.hash = h[i]]]
  BY <1>1, <1>2 DEF Rehash, IsWalk, Payload
<1>5. /\ h[0] = Genesis
      /\ \A i \in 1 .. Len(L) : h[i] = HashEntry(h[i - 1], [L[i] EXCEPT !.prev = h[i - 1]])
  BY <1>1, <1>3 DEF IsWalk, Payload
<1> QED
  BY <1>4, <1>5

-----------------------------------------------------------------------------
(* Ledgers *)

\* The entries of logs and bundles, whatever has been done to them.
IsEntry(e) ==
    /\ e = [seq |-> e.seq, body |-> e.body, prev |-> e.prev, hash |-> e.hash]
    /\ e.body = [chain |-> e.body.chain, task |-> e.body.task]
    /\ e.seq \in Nat /\ e.body.chain \in Chains
IsLedger(L) == (\E U : L \in Seq(U)) /\ \A i \in DOMAIN L : IsEntry(L[i])

\* The hash an entry continues.
Before(L, i) == IF i = 1 THEN Genesis ELSE L[i - 1].hash

\* A sequence is what it has at its positions.
LEMMA LedgerLen ==
    ASSUME NEW L, \E U : L \in Seq(U)
    PROVE  /\ Len(L) \in Nat /\ DOMAIN L = 1 .. Len(L)
           /\ L = [i \in 1 .. Len(L) |-> L[i]]
           /\ L = <<>> <=> Len(L) = 0
  OBVIOUS

\* The same entries in the same places.
LEMMA SameLedger ==
    ASSUME NEW L, NEW M, \E U : L \in Seq(U), \E U : M \in Seq(U), Len(L) = Len(M),
           \A i \in 1 .. Len(L) : L[i] = M[i]
    PROVE  L = M
<1>1. PICK n : n = Len(L)
  OBVIOUS
<1>2. L = [i \in 1 .. n |-> L[i]] /\ M = [i \in 1 .. n |-> M[i]]
  BY <1>1, LedgerLen
<1>3. [i \in 1 .. n |-> L[i]] = [i \in 1 .. n |-> M[i]]
  BY <1>1
<1> QED
  BY <1>2, <1>3

\* The head of the entries before a position is the hash it continues.
LEMMA HeadBefore ==
    ASSUME NEW L, \E U : L \in Seq(U), NEW i \in 1 .. Len(L)
    PROVE  HeadHash(SubSeq(L, 1, i - 1)) = Before(L, i)
<1>1. PICK U : L \in Seq(U)
  OBVIOUS
<1>2. PICK n : n = Len(L)
  OBVIOUS
<1>3. n \in Nat /\ i \in 1 .. n /\ DOMAIN L = 1 .. n
  BY <1>1, <1>2
<1>4. PICK S : S = SubSeq(L, 1, i - 1)
  OBVIOUS
<1>5. S \in Seq(U) /\ Len(S) = i - 1 /\ \A k \in 1 .. i - 1 : S[k] = L[k]
  BY <1>1, <1>2, <1>3, <1>4
<1>6. CASE i = 1
  <2>1. S = <<>>
    BY <1>5, <1>6
  <2> QED
    BY <1>4, <1>6, <2>1 DEF HeadHash, Before
<1>7. CASE i # 1
  <2>1. S # <<>> /\ Last(S) = S[i - 1]
    BY <1>3, <1>5, <1>7 DEF Last
  <2>2. S[i - 1] = L[i - 1]
    BY <1>3, <1>5, <1>7
  <2> QED
    BY <1>4, <1>7, <2>1, <2>2 DEF HeadHash, Before
<1> QED
  BY <1>6, <1>7

\* What verifies is linked and hashed, entry by entry.
Continues(L, i) ==
    L[i].seq = i - 1 /\ L[i].prev = Before(L, i) /\ L[i].hash = HashEntry(Before(L, i), L[i])

\* AuditLog.verify, and the walk that says where it stops, ask that of each position.
LEMMA VerifiesMeans ==
    ASSUME NEW L, \E U : L \in Seq(U)
    PROVE  /\ ChainVerifies(L) <=> \A i \in 1 .. Len(L) : Continues(L, i)
           /\ \A i \in 1 .. Len(L) : BreaksAt(L, i) <=> ~Continues(L, i)
<1>1. DOMAIN L = 1 .. Len(L)
  BY LedgerLen
<1>2. ASSUME NEW i \in 1 .. Len(L)
      PROVE  (Reproduces(L, i) <=> Continues(L, i)) /\ (BreaksAt(L, i) <=> ~Continues(L, i))
  <2>1. HeadHash(SubSeq(L, 1, i - 1)) = Before(L, i)
    BY HeadBefore
  <2> QED
    BY <2>1 DEF Reproduces, BreaksAt, Continues
<1> QED
  BY <1>1, <1>2 DEF ChainVerifies

\* The last entry is the head.
LEMMA HeadFacts ==
    ASSUME NEW L, \E U : L \in Seq(U), L # <<>>
    PROVE  /\ Len(L) \in Nat \ {0} /\ Last(L) = L[Len(L)]
           /\ HeadHash(L) = L[Len(L)].hash /\ HeadSeq(L) = L[Len(L)].seq
<1>1. Len(L) \in Nat \ {0}
  OBVIOUS
<1> QED
  BY <1>1 DEF Last, HeadHash, HeadSeq

\* Two ledgers that verify and have one head are one ledger.
LEMMA EqualHeads ==
    ASSUME NEW L, NEW M, IsLedger(L), IsLedger(M), ChainVerifies(L), ChainVerifies(M),
           L # <<>>, M # <<>>, HeadSeq(L) = HeadSeq(M), HeadHash(L) = HeadHash(M)
    PROVE  L = M
<1>1. (\E U : L \in Seq(U)) /\ (\E U : M \in Seq(U))
  BY DEF IsLedger
<1>2. PICK n : n = Len(L)
  OBVIOUS
<1>3. n \in Nat \ {0} /\ DOMAIN L = 1 .. n /\ Len(M) \in Nat \ {0}
  BY <1>1, <1>2, HeadFacts, LedgerLen
<1>4. (\A i \in 1 .. n : Continues(L, i)) /\ (\A i \in 1 .. Len(M) : Continues(M, i))
  BY <1>1, <1>2, VerifiesMeans
<1>5. Len(M) = n
  <2>1. L[n].seq = M[Len(M)].seq
    BY <1>1, <1>2, HeadFacts
  <2>2. PICK m : m = Len(M)
    OBVIOUS
  <2>3. n \in 1 .. n /\ m \in 1 .. m
    BY <1>3, <2>2
  <2>4. L[n].seq = n - 1 /\ M[m].seq = m - 1
    BY <1>4, <2>2, <2>3 DEF Continues
  <2>5. n - 1 = m - 1
    BY <2>1, <2>2, <2>4
  <2>6. m \in Nat \ {0}
    BY <1>3, <2>2
  <2>7. n \in Nat
    BY <1>3
  <2>8. m = n
    BY <2>5, <2>6, <2>7
  <2> QED
    BY <2>2, <2>8
<1>6. DOMAIN M = 1 .. n
  BY <1>1, <1>5, LedgerLen
<1>7. L[n].hash = M[n].hash
  BY <1>1, <1>2, <1>5, HeadFacts
<1>8. ASSUME NEW i \in 1 .. n, L[i].hash = M[i].hash
      PROVE  /\ L[i].seq = M[i].seq /\ L[i].body = M[i].body /\ L[i].prev = M[i].prev
             /\ i > 1 => L[i - 1].hash = M[i - 1].hash
  <2>1. HashEntry(Before(L, i), L[i]) = HashEntry(Before(M, i), M[i])
    BY <1>4, <1>5, <1>8 DEF Continues
  <2>2. Before(L, i) = Before(M, i)
    BY <2>1 DEF HashEntry
  <2>3. i > 1 => Before(L, i) = L[i - 1].hash /\ Before(M, i) = M[i - 1].hash
    BY DEF Before
  <2> QED
    BY <2>1, <2>2, <2>3 DEF HashEntry
<1>9. \A i \in 1 .. n : L[i].hash = M[i].hash
  <2> DEFINE D == {i \in 1 .. n : L[i].hash # M[i].hash}
  <2> SUFFICES ASSUME D # {} PROVE FALSE
    OBVIOUS
  <2>1. PICK d \in D : \A k \in D : k <= d
    <3>1. D \in SUBSET (0 .. n)
      BY <1>3
    <3> HIDE DEF D
    <3> QED
      BY <1>3, <3>1, Greatest
  <2>2. d \in 1 .. n - 1
    BY <1>3, <1>7
  <2>3. d + 1 \in 1 .. n /\ d + 1 \notin D
    BY <1>3, <2>1, <2>2
  <2>4. L[d + 1].hash = M[d + 1].hash /\ d + 1 > 1 /\ (d + 1) - 1 = d
    BY <1>3, <2>2, <2>3
  <2>5. L[d].hash = M[d].hash
    BY <1>8, <2>3, <2>4
  <2> QED
    BY <2>5
<1>10. ASSUME NEW i \in 1 .. n PROVE L[i] = M[i]
  <2>1. IsEntry(L[i]) /\ IsEntry(M[i])
    BY <1>3, <1>6 DEF IsLedger
  <2> QED
    BY <1>8, <1>9, <2>1 DEF IsEntry
<1> QED
  BY <1>1, <1>2, <1>5, <1>10, SameLedger

-----------------------------------------------------------------------------
(* What exports and edits make of a ledger *)

\* Whatever has the positions 1 .. n is a sequence.
LEMMA FromPositions ==
    ASSUME NEW n \in Nat, NEW f, f = [i \in 1 .. n |-> f[i]]
    PROVE  (\E U : f \in Seq(U)) /\ Len(f) = n
<1>1. PICK U : U = {f[i] : i \in 1 .. n}
  OBVIOUS
<1>2. f \in [1 .. n -> U]
  BY <1>1
<1>3. f \in Seq(U)
  BY <1>2
<1> QED
  BY <1>2, <1>3

\* The chain's own hashes made good: it links, and only its places may be wrong.
LEMMA RehashFacts ==
    ASSUME NEW L, IsLedger(L), NEW M, M = Rehash(L)
    PROVE  /\ IsLedger(M) /\ Len(M) = Len(L)
           /\ \A i \in 1 .. Len(L) :
                 /\ M[i].seq = L[i].seq /\ M[i].body = L[i].body
                 /\ M[i].prev = Before(M, i) /\ M[i].hash = HashEntry(Before(M, i), M[i])
<1>1. PICK n : n = Len(L)
  OBVIOUS
<1>2. n \in Nat /\ DOMAIN L = 1 .. n /\ \A i \in 1 .. n : IsEntry(L[i])
  BY <1>1, LedgerLen DEF IsLedger
<1>a. PICK h :
          /\ h[0] = Genesis
          /\ \A i \in 1 .. Len(L) : h[i] = HashEntry(h[i - 1], [L[i] EXCEPT !.prev = h[i - 1]])
          /\ Rehash(L) = [i \in DOMAIN L |-> [L[i] EXCEPT !.prev = h[i - 1], !.hash = h[i]]]
  <2>1. Len(L) \in Nat
    BY <1>1, <1>2
  <2> QED
    BY <2>1, RehashIsWalk
<1>3. /\ h[0] = Genesis
      /\ \A i \in 1 .. n : h[i] = HashEntry(h[i - 1], [L[i] EXCEPT !.prev = h[i - 1]])
      /\ M = [i \in DOMAIN L |-> [L[i] EXCEPT !.prev = h[i - 1], !.hash = h[i]]]
  BY <1>1, <1>a
<1>4. ASSUME NEW i \in 1 .. n
      PROVE  /\ M[i] = [seq |-> L[i].seq, body |-> L[i].body, prev |-> h[i - 1], hash |-> h[i]]
             /\ h[i] = HashEntry(h[i - 1], M[i])
             /\ IsEntry(M[i])
  <2>1. PICK e : e = L[i]
    OBVIOUS
  <2>2. e = [seq |-> e.seq, body |-> e.body, prev |-> e.prev, hash |-> e.hash]
    BY <1>2, <2>1 DEF IsEntry
  <2>3. M[i] = [e EXCEPT !.prev = h[i - 1], !.hash = h[i]]
    BY <1>2, <1>3, <2>1
  <2>4. M[i] = [seq |-> e.seq, body |-> e.body, prev |-> h[i - 1], hash |-> h[i]]
    BY <2>2, <2>3
  <2>5. h[i] = HashEntry(h[i - 1], [e EXCEPT !.prev = h[i - 1]])
    BY <1>3, <2>1
  <2>6. [e EXCEPT !.prev = h[i - 1]] =
           [seq |-> e.seq, body |-> e.body, prev |-> h[i - 1], hash |-> e.hash]
    BY <2>2
  <2>7. h[i] = HashEntry(h[i - 1], M[i])
    BY <2>4, <2>5, <2>6 DEF HashEntry
  <2>8. IsEntry(e)
    BY <1>2, <2>1
  <2> QED
    BY <2>1, <2>4, <2>7, <2>8 DEF IsEntry
<1>5. M = [i \in 1 .. n |-> M[i]]
  BY <1>2, <1>3
<1>6. (\E U : M \in Seq(U)) /\ Len(M) = n
  BY <1>2, <1>5, FromPositions
<1>7. ASSUME NEW i \in 1 .. n PROVE Before(M, i) = h[i - 1]
  <2>1. CASE i = 1
    <3>1. i - 1 = 0
      BY <2>1
    <3> QED
      BY <1>3, <2>1, <3>1 DEF Before
  <2>2. CASE i # 1
    <3>1. PICK k \in 1 .. n : k = i - 1
      BY <1>2, <2>2
    <3>2. M[k] = [seq |-> L[k].seq, body |-> L[k].body, prev |-> h[k - 1], hash |-> h[k]]
      BY <1>4
    <3>3. M[k].hash = h[k]
      BY <3>2
    <3> QED
      BY <2>2, <3>1, <3>3 DEF Before
  <2> QED
    BY <2>1, <2>2
<1>8. DOMAIN M = 1 .. n
  BY <1>5
<1> QED
  BY <1>1, <1>4, <1>6, <1>7, <1>8 DEF IsLedger

\* Texts redacted, or positions counted anew.
LEMMA RedactFacts ==
    ASSUME NEW L, IsLedger(L), NEW M, M = RedactTasks(L)
    PROVE  /\ IsLedger(M) /\ Len(M) = Len(L)
           /\ \A i \in 1 .. Len(L) :
                 M[i].seq = L[i].seq /\ M[i].body.chain = L[i].body.chain
<1>1. PICK n : n = Len(L)
  OBVIOUS
<1>2. n \in Nat /\ DOMAIN L = 1 .. n /\ \A i \in 1 .. n : IsEntry(L[i])
  BY <1>1, LedgerLen DEF IsLedger
<1>3. ASSUME NEW i \in 1 .. n
      PROVE  M[i].seq = L[i].seq /\ M[i].body.chain = L[i].body.chain /\ IsEntry(M[i])
  <2>1. PICK e : e = L[i]
    OBVIOUS
  <2>2. PICK b : b = e.body
    OBVIOUS
  <2>3. e = [seq |-> e.seq, body |-> b, prev |-> e.prev, hash |-> e.hash]
    BY <1>2, <2>1, <2>2 DEF IsEntry
  <2>4. b = [chain |-> b.chain, task |-> b.task]
    BY <1>2, <2>1, <2>2 DEF IsEntry
  <2>5. M[i] = [e EXCEPT !.body.task = Redact(@)]
    BY <1>2, <2>1 DEF RedactTasks
  <2>6. M[i] = [e EXCEPT !.body = [b EXCEPT !.task = Redact(b.task)]]
    BY <2>2, <2>5
  <2>7. [b EXCEPT !.task = Redact(b.task)] = [chain |-> b.chain, task |-> Redact(b.task)]
    BY <2>4
  <2>8. M[i] = [seq |-> e.seq, body |-> [chain |-> b.chain, task |-> Redact(b.task)],
                prev |-> e.prev, hash |-> e.hash]
    BY <2>3, <2>6, <2>7
  <2>9. e.seq \in Nat /\ b.chain \in Chains
    BY <1>2, <2>1, <2>2 DEF IsEntry
  <2> QED
    BY <2>1, <2>2, <2>8, <2>9 DEF IsEntry
<1>4. M = [i \in 1 .. n |-> M[i]]
  BY <1>2 DEF RedactTasks
<1>5. (\E U : M \in Seq(U)) /\ Len(M) = n
  BY <1>2, <1>4, FromPositions
<1>6. DOMAIN M = 1 .. n
  BY <1>4
<1> QED
  BY <1>1, <1>3, <1>5, <1>6 DEF IsLedger

\* Positions counted anew leave a ledger.
LEMMA RenumberFacts ==
    ASSUME NEW L, IsLedger(L) PROVE IsLedger(Renumber(L))
<1>1. PICK n : n = Len(L)
  OBVIOUS
<1>2. n \in Nat /\ DOMAIN L = 1 .. n /\ \A i \in 1 .. n : IsEntry(L[i])
  BY <1>1, LedgerLen DEF IsLedger
<1>3. PICK M : M = Renumber(L)
  OBVIOUS
<1>4. ASSUME NEW i \in 1 .. n PROVE IsEntry(M[i])
  <2>1. PICK e : e = L[i]
    OBVIOUS
  <2>2. e = [seq |-> e.seq, body |-> e.body, prev |-> e.prev, hash |-> e.hash]
    BY <1>2, <2>1 DEF IsEntry
  <2>3. M[i] = [e EXCEPT !.seq = i - 1]
    BY <1>2, <1>3, <2>1 DEF Renumber
  <2>4. M[i] = [seq |-> i - 1, body |-> e.body, prev |-> e.prev, hash |-> e.hash]
    BY <2>2, <2>3
  <2>5. i - 1 \in Nat
    BY <1>2
  <2>6. e.body = [chain |-> e.body.chain, task |-> e.body.task] /\ e.body.chain \in Chains
    BY <1>2, <2>1 DEF IsEntry
  <2> QED
    BY <2>4, <2>5, <2>6 DEF IsEntry
<1>5. M = [i \in 1 .. n |-> M[i]]
  BY <1>2, <1>3 DEF Renumber
<1>6. \E U : M \in Seq(U)
  BY <1>2, <1>5, FromPositions
<1>7. DOMAIN M = 1 .. n
  BY <1>5
<1> QED
  BY <1>3, <1>4, <1>6, <1>7 DEF IsLedger

\* An entry as the one it was made from identifies itself.
SameId(d, e) == d.seq = e.seq /\ d.prev = e.prev /\ d.hash = e.hash
IdsFrom(M, L) == \A i \in DOMAIN M : \E k \in DOMAIN L : SameId(M[i], L[k])

\* So does a body put in place of another, and the entry says it is the same.
LEMMA RewordFacts ==
    ASSUME NEW L, IsLedger(L), NEW i \in DOMAIN L, NEW body \in Bodies
    PROVE  IsLedger([L EXCEPT ![i].body = body]) /\ IdsFrom([L EXCEPT ![i].body = body], L)
<1>1. PICK U : L \in Seq(U)
  BY DEF IsLedger
<1>2. PICK e : e = [L[i] EXCEPT !.body = body]
  OBVIOUS
<1>3. PICK M : M = [L EXCEPT ![i] = e]
  OBVIOUS
<1>4. M = [L EXCEPT ![i].body = body]
  BY <1>2, <1>3
<1>5. M \in Seq(U \cup {e}) /\ DOMAIN M = DOMAIN L
  BY <1>1, <1>3
<1>6. M[i] = e /\ \A k \in DOMAIN L : k # i => M[k] = L[k]
  BY <1>3
<1>7. IsEntry(L[i])
  BY DEF IsLedger
<1>8. e = [seq |-> L[i].seq, body |-> body, prev |-> L[i].prev, hash |-> L[i].hash]
  BY <1>2, <1>7 DEF IsEntry
<1>9. IsEntry(e) /\ SameId(e, L[i])
  <2>1. body = [chain |-> body.chain, task |-> body.task] /\ body.chain \in Chains
    BY DEF Bodies
  <2> QED
    BY <1>7, <1>8, <2>1 DEF IsEntry, SameId
<1>10. ASSUME NEW k \in DOMAIN M PROVE IsEntry(M[k]) /\ SameId(M[k], L[k])
  <2>1. CASE k = i
    BY <1>6, <1>9, <2>1
  <2>2. CASE k # i
    BY <1>5, <1>6, <2>2 DEF IsLedger, SameId
  <2> QED
    BY <2>1, <2>2
<1> QED
  BY <1>4, <1>5, <1>10 DEF IsLedger, IdsFrom

\* An entry removed: the others are what they were.
LEMMA DropFacts ==
    ASSUME NEW L, IsLedger(L), NEW i \in DOMAIN L
    PROVE  IsLedger(RemoveAt(L, i)) /\ IdsFrom(RemoveAt(L, i), L)
<1>1. PICK U : L \in Seq(U)
  BY DEF IsLedger
<1>2. PICK n : n = Len(L)
  OBVIOUS
<1>3. n \in Nat \ {0} /\ DOMAIN L = 1 .. n /\ i \in 1 .. n
  BY <1>1, <1>2
<1>4. PICK A : A = SubSeq(L, 1, i - 1)
  OBVIOUS
<1>5. PICK B : B = SubSeq(L, i + 1, n)
  OBVIOUS
<1>6. A \in Seq(U) /\ Len(A) = i - 1 /\ \A k \in 1 .. i - 1 : A[k] = L[k]
  BY <1>1, <1>2, <1>3, <1>4
<1>7. B \in Seq(U) /\ Len(B) = n - i /\ \A k \in 1 .. n - i : B[k] = L[i + k]
  <2>1. B \in Seq(U)
    BY <1>1, <1>2, <1>3, <1>5
  <2>2. Len(B) = n - i
    BY <1>1, <1>2, <1>3, <1>5
  <2>3. ASSUME NEW k \in 1 .. n - i PROVE B[k] = L[i + k]
    <3>1. B[k] = L[(i + 1) + k - 1]
      BY <1>1, <1>2, <1>3, <1>5
    <3>2. (i + 1) + k - 1 = i + k
      BY <1>3
    <3> QED
      BY <3>1, <3>2
  <2> QED
    BY <2>1, <2>2, <2>3
<1>8. PICK M : M = A \o B
  OBVIOUS
<1>9. M = RemoveAt(L, i)
  BY <1>2, <1>4, <1>5, <1>8 DEF RemoveAt
<1>10. M \in Seq(U) /\ Len(M) = n - 1 /\ DOMAIN M = 1 .. n - 1
  <2>0. A \in Seq(U) /\ B \in Seq(U)
    BY <1>6, <1>7
  <2>1. M \in Seq(U) /\ Len(M) = Len(A) + Len(B)
    BY <1>8, <2>0
  <2>2. Len(M) = n - 1
    BY <1>3, <1>6, <1>7, <2>1
  <2> QED
    BY <2>1, <2>2
<1>11. ASSUME NEW k \in 1 .. n - 1 PROVE \E m \in 1 .. n : M[k] = L[m]
  <2>1. CASE k <= i - 1
    <3>1. M[k] = A[k] /\ k \in 1 .. i - 1
      BY <1>3, <1>6, <1>7, <1>8, <2>1
    <3> QED
      BY <1>3, <1>6, <3>1
  <2>2. CASE k > i - 1
    <3>1. PICK m : m = k - (i - 1)
      OBVIOUS
    <3>2. m \in 1 .. n - i /\ i + m \in 1 .. n
      BY <1>3, <2>2, <3>1
    <3>3. M[k] = B[m]
      <4>1. PICK a : a = Len(A)
        OBVIOUS
      <4>2. PICK b : b = Len(B)
        OBVIOUS
      <4>3. a \in Nat /\ b \in Nat /\ a = i - 1 /\ b = n - i
        BY <1>3, <1>6, <1>7, <4>1, <4>2
      <4>4. a + b = n - 1 /\ k \in 1 .. n - 1 /\ k > a
        BY <1>3, <2>2, <4>3
      <4>5. m = k - a /\ A \in Seq(U) /\ B \in Seq(U)
        BY <1>6, <1>7, <3>1, <4>3
      <4>6. \A l \in 1 .. a + b : M[l] = IF l <= a THEN A[l] ELSE B[l - a]
        BY <1>8, <4>1, <4>2, <4>5, ConcatProperties
      <4> QED
        BY <4>3, <4>4, <4>5, <4>6
    <3> QED
      BY <1>7, <3>2, <3>3
  <2> QED
    BY <1>3, <2>1, <2>2
<1> QED
  BY <1>3, <1>9, <1>10, <1>11 DEF IsLedger, IdsFrom, SameId

\* Two entries change places.
LEMMA SwapFacts ==
    ASSUME NEW L, IsLedger(L), NEW i \in DOMAIN L, i + 1 \in DOMAIN L,
           NEW M, M = [L EXCEPT ![i] = L[i + 1], ![i + 1] = L[i]]
    PROVE  IsLedger(M) /\ IdsFrom(M, L)
<1>1. PICK U : L \in Seq(U)
  BY DEF IsLedger
<1>2. PICK j \in DOMAIN L : j = i + 1
  OBVIOUS
<1>3. L[i] \in U /\ L[j] \in U
  BY <1>1
<1>4. M = [L EXCEPT ![i] = L[j], ![j] = L[i]]
  BY <1>2
<1>5. M \in Seq(U) /\ DOMAIN M = DOMAIN L
  BY <1>1, <1>3, <1>4
<1>6. ASSUME NEW k \in DOMAIN L PROVE \E m \in DOMAIN L : M[k] = L[m]
  BY <1>4
<1> QED
  BY <1>5, <1>6 DEF IsLedger, IdsFrom, SameId

\* A ledger as far as a position.
LEMMA PrefixFacts ==
    ASSUME NEW L, IsLedger(L), NEW m \in 0 .. Len(L), NEW M, M = SubSeq(L, 1, m)
    PROVE  IsLedger(M) /\ Len(M) = m /\ DOMAIN M = 1 .. m /\ \A i \in 1 .. m : M[i] = L[i]
<1>1. PICK U : L \in Seq(U)
  BY DEF IsLedger
<1>2. PICK n : n = Len(L)
  OBVIOUS
<1>3. n \in Nat /\ DOMAIN L = 1 .. n /\ m \in 0 .. n
  BY <1>1, <1>2
<1>4. M \in Seq(U) /\ Len(M) = m /\ \A i \in 1 .. m : M[i] = L[i]
  BY <1>1, <1>2, <1>3
<1>5. DOMAIN M = 1 .. m
  BY <1>4
<1>6. ASSUME NEW i \in 1 .. m PROVE IsEntry(M[i])
  <2>1. i \in DOMAIN L
    BY <1>3
  <2> QED
    BY <1>4, <2>1 DEF IsLedger
<1> QED
  BY <1>4, <1>5, <1>6 DEF IsLedger

\* The log goes on from its head.
LEMMA AppendFacts ==
    ASSUME NEW L, IsLedger(L), ChainVerifies(L), NEW body \in Bodies,
           NEW M, M = AppendEntry(L, body)
    PROVE  /\ IsLedger(M) /\ ChainVerifies(M)
           /\ DOMAIN M = 1 .. Len(L) + 1 /\ M[Len(L) + 1].body = body
           /\ \A i \in DOMAIN L : M[i] = L[i]
<1>1. PICK U : L \in Seq(U)
  BY DEF IsLedger
<1>2. PICK n : n = Len(L)
  OBVIOUS
<1>3. n \in Nat /\ DOMAIN L = 1 .. n
  BY <1>1, <1>2
<1>4. PICK e : e = Sealed(n, body, HeadHash(L))
  OBVIOUS
<1>5. M = Append(L, e)
  BY <1>2, <1>4 DEF AppendEntry
<1>6. /\ M \in Seq(U \cup {e}) /\ Len(M) = n + 1 /\ DOMAIN M = 1 .. n + 1
      /\ M[n + 1] = e /\ \A i \in 1 .. n : M[i] = L[i]
  BY <1>1, <1>2, <1>3, <1>5
<1>7. /\ e.seq = n /\ e.body = body /\ e.prev = HeadHash(L)
      /\ e.hash = HashEntry(HeadHash(L), e)
      /\ e = [seq |-> e.seq, body |-> e.body, prev |-> e.prev, hash |-> e.hash]
  BY <1>4 DEF Sealed, HashEntry
<1>8. IsEntry(e)
  <2>1. body = [chain |-> body.chain, task |-> body.task] /\ body.chain \in Chains
    BY DEF Bodies
  <2> QED
    BY <1>3, <1>7, <2>1 DEF IsEntry
<1>9. HeadHash(L) = Before(M, n + 1)
  <2>1. CASE n = 0
    <3>1. L = <<>>
      BY <1>1, <1>2, <2>1, LedgerLen
    <3> QED
      BY <2>1, <3>1 DEF HeadHash, Before
  <2>2. CASE n # 0
    <3>1. L # <<>>
      BY <1>2, <2>2
    <3>2. HeadHash(L) = L[n].hash
      BY <1>1, <1>2, <3>1, HeadFacts
    <3>3. M[n] = L[n] /\ (n + 1) - 1 = n /\ n + 1 # 1
      BY <1>3, <1>6, <2>2
    <3> QED
      BY <3>2, <3>3 DEF Before
  <2> QED
    BY <2>1, <2>2
<1>10. \A i \in 1 .. n : Continues(L, i)
  BY <1>1, <1>2, VerifiesMeans
<1>11. ASSUME NEW i \in 1 .. n + 1 PROVE Continues(M, i) /\ IsEntry(M[i])
  <2>1. CASE i = n + 1
    <3>1. e.seq = (n + 1) - 1
      BY <1>3, <1>7
    <3> QED
      BY <1>6, <1>7, <1>8, <1>9, <2>1, <3>1 DEF Continues
  <2>2. CASE i # n + 1
    <3>1. i \in 1 .. n /\ M[i] = L[i]
      BY <1>3, <1>6, <2>2
    <3>2. Before(M, i) = Before(L, i)
      <4>1. i # 1 => i - 1 \in 1 .. n
        BY <1>3, <3>1
      <4> QED
        BY <1>6, <4>1 DEF Before
    <3> QED
      BY <1>3, <1>10, <3>1, <3>2 DEF Continues, IsLedger
  <2> QED
    BY <2>1, <2>2
<1>12. ChainVerifies(M)
  BY <1>6, <1>11, VerifiesMeans
<1> QED
  BY <1>2, <1>3, <1>6, <1>7, <1>11, <1>12 DEF IsLedger

-----------------------------------------------------------------------------
(* Bundles *)

OneChain(L, c) == \A i \in DOMAIN L : L[i].body.chain = c

\* The chain that all entries name is the one that is read off them.
LEMMA ChainIdFacts ==
    ASSUME NEW L, IsLedger(L), L # <<>>, NEW c, OneChain(L, c)
    PROVE  FirstChainId(L) = c /\ ChainIdOf(L) = c
<1>1. PICK n : n = Len(L)
  OBVIOUS
<1>2. n \in Nat \ {0} /\ DOMAIN L = 1 .. n
  BY <1>1, LedgerLen DEF IsLedger
<1>3. 1 \in DOMAIN L /\ c \in Chains
  <2>1. 1 \in DOMAIN L
    BY <1>2
  <2>2. IsEntry(L[1]) /\ L[1].body.chain = c
    BY <2>1 DEF IsLedger, OneChain
  <2> QED
    BY <2>1, <2>2 DEF IsEntry
<1>4. c # NoChain
  BY <1>3, BundleAssumption
<1>5. PICK named : named = {i \in DOMAIN L : L[i].body.chain # NoChain}
  OBVIOUS
<1>6. named = 1 .. n
  BY <1>2, <1>4, <1>5 DEF OneChain
<1>7. (CHOOSE i \in named : \A j \in named : i <= j) \in named
  <2>1. 1 \in named /\ \A j \in named : 1 <= j
    BY <1>2, <1>6
  <2> QED
    BY <2>1
<1>8. FirstChainId(L) = c
  BY <1>2, <1>5, <1>6, <1>7 DEF FirstChainId, OneChain
<1> QED
  BY <1>4, <1>8 DEF ChainIdOf

\* What an export makes of a ledger of one chain is accepted.
LEMMA ExportFacts ==
    ASSUME NEW L, IsLedger(L), NEW redact \in BOOLEAN, NEW b, b = ExportBundle(L, redact)
    PROVE  /\ IsLedger(b.entries)
           /\ b = [chain |-> b.chain, entries |-> b.entries, anchor |-> b.anchor]
           /\ b.anchor = AnchorFor(b.entries)
           /\ \A c : ChainVerifies(L) /\ OneChain(L, c) =>
                 /\ ChainVerifies(b.entries) /\ SameChain(b)
                 /\ \A S : b.anchor \in S => VerifyAnchor(b.entries, b.anchor, S)
<1>1. PICK n : n = Len(L)
  OBVIOUS
<1>2. n \in Nat /\ DOMAIN L = 1 .. n
  BY <1>1, LedgerLen DEF IsLedger
<1>3. PICK M : M = Exported(L, redact)
  OBVIOUS
<1>4. b = [chain |-> ChainIdOf(M), entries |-> M, anchor |-> AnchorFor(M)]
  BY <1>3 DEF ExportBundle
<1>5. /\ IsLedger(M) /\ Len(M) = n
      /\ ChainVerifies(L) => ChainVerifies(M)
      /\ \A i \in 1 .. n : M[i].body.chain = L[i].body.chain
  <2>1. CASE redact
    <3>1. PICK R : R = RedactTasks(L)
      OBVIOUS
    <3>2. /\ IsLedger(R) /\ Len(R) = n
          /\ \A i \in 1 .. n : R[i].seq = L[i].seq /\ R[i].body.chain = L[i].body.chain
      BY <1>1, <3>1, RedactFacts
    <3>3. M = Rehash(R)
      BY <1>3, <2>1, <3>1 DEF Exported
    <3>4. /\ IsLedger(M) /\ Len(M) = n
          /\ \A i \in 1 .. n :
                /\ M[i].seq = R[i].seq /\ M[i].body = R[i].body
                /\ M[i].prev = Before(M, i) /\ M[i].hash = HashEntry(Before(M, i), M[i])
      BY <3>2, <3>3, RehashFacts
    <3>5. ASSUME ChainVerifies(L) PROVE ChainVerifies(M)
      <4>1. \A i \in 1 .. n : L[i].seq = i - 1
        BY <1>1, <3>5, VerifiesMeans DEF IsLedger, Continues
      <4>2. \A i \in 1 .. n : Continues(M, i)
        BY <3>2, <3>4, <4>1 DEF Continues
      <4> QED
        BY <3>4, <4>2, VerifiesMeans DEF IsLedger
    <3> QED
      BY <3>2, <3>4, <3>5
  <2>2. CASE ~redact
    <3>1. M = L
      BY <1>3, <2>2 DEF Exported
    <3> QED
      BY <1>1, <3>1
  <2> QED
    BY <2>1, <2>2
<1>6. DOMAIN M = 1 .. n
  BY <1>5, LedgerLen DEF IsLedger
<1>7. ASSUME NEW c, ChainVerifies(L), OneChain(L, c), NEW S, b.anchor \in S
      PROVE  SameChain(b) /\ VerifyAnchor(b.entries, b.anchor, S)
  <2>1. OneChain(M, c) /\ ChainVerifies(M)
    BY <1>2, <1>5, <1>6, <1>7 DEF OneChain
  <2>2. CASE M = <<>>
    <3>1. DOMAIN M = {}
      BY <2>2
    <3>2. b.anchor.seq = -1 /\ b.anchor.chain = b.chain
      BY <1>4, <2>2 DEF AnchorFor, HeadSeq
    <3> QED
      BY <1>4, <1>7, <2>1, <2>2, <3>1, <3>2 DEF SameChain, VerifyAnchor
  <2>3. CASE M # <<>>
    <3>1. FirstChainId(M) = c /\ ChainIdOf(M) = c
      BY <1>5, <2>1, <2>3, ChainIdFacts
    <3>2. b.anchor = [chain |-> c, seq |-> HeadSeq(M), head |-> HeadHash(M)]
      BY <1>4, <2>3, <3>1 DEF AnchorFor
    <3>3. HeadSeq(M) = Last(M).seq /\ HeadHash(M) = Last(M).hash
      BY <2>3 DEF HeadSeq, HeadHash
    <3> QED
      BY <1>4, <1>7, <2>1, <2>3, <3>1, <3>2, <3>3 DEF SameChain, VerifyAnchor, OneChain
  <2> QED
    BY <2>2, <2>3
<1>8. ASSUME NEW c, ChainVerifies(L), OneChain(L, c) PROVE SameChain(b)
  BY <1>7, <1>8
<1> QED
  BY <1>4, <1>5, <1>7, <1>8

LogsInv ==
    /\ \E S : logs \in [Chains -> S]
    /\ \A c \in Chains : IsLedger(logs[c]) /\ ChainVerifies(logs[c]) /\ OneChain(logs[c], c)
\* An anchor was made of what it is over.
SignedInv ==
    \A s \in signed : IsLedger(s.over) /\ s.anchor \in {Anchor(s.over), AnchorFor(s.over)}
RetainedInv ==
    \/ retained = NoAnchor
    \/ /\ IsLedger(retained.over) /\ ChainVerifies(retained.over)
       /\ retained.anchor = Anchor(retained.over)
BundleShape ==
    /\ bundle = [chain |-> bundle.chain, entries |-> bundle.entries, anchor |-> bundle.anchor]
    /\ IsLedger(bundle.entries) /\ IsLedger(shipped)
    /\ edits \in Nat /\ rehashed \in BOOLEAN /\ honest \in BOOLEAN
\* An edited entry has the place, the link and the hash of one that was shipped,
\* until hashes are recomputed.
EditsKeepIds == ~rehashed => IdsFrom(bundle.entries, shipped)

BundleInv ==
    LogsInv /\ SignedInv /\ RetainedInv /\ BundleShape /\ EditsKeepIds /\ UneditedBundlesVerify

\* The anchors that are accepted grow with what is signed.
LEMMA AcceptsStays ==
    ASSUME UneditedBundlesVerify, signed \subseteq signed', UNCHANGED <<bundle, edits, honest>>
    PROVE  UneditedBundlesVerify'
<1>1. Anchors \subseteq Anchors'
  BY DEF Anchors
<1> QED
  BY <1>1 DEF UneditedBundlesVerify, Accepts, VerifyAnchor

\* The empty ledger verifies.
LEMMA EmptyLedger == IsLedger(<<>>) /\ ChainVerifies(<<>>)
<1>1. <<>> \in Seq({}) /\ DOMAIN <<>> = {}
  OBVIOUS
<1> QED
  BY <1>1 DEF IsLedger, ChainVerifies

\* No log, no bundle, nothing signed.
LEMMA BundleInitially ==
    ASSUME BundleInit PROVE BundleInv
<1>1. /\ logs = [c \in Chains |-> <<>>] /\ bundle = NoBundle /\ signed = {}
      /\ retained = NoAnchor /\ shipped = <<>> /\ edits = 0 /\ rehashed = FALSE /\ honest = TRUE
  BY DEF BundleInit
<1>2. DOMAIN <<>> = {}
  OBVIOUS
<1>3. LogsInv
  <2>1. logs \in [Chains -> {<<>>}]
    BY <1>1
  <2>2. \A c \in Chains : logs[c] = <<>>
    BY <1>1
  <2> QED
    BY <1>2, <2>1, <2>2, EmptyLedger DEF LogsInv, OneChain
<1>4. SignedInv /\ RetainedInv /\ UneditedBundlesVerify
  BY <1>1 DEF SignedInv, RetainedInv, UneditedBundlesVerify
<1>5. bundle.entries = <<>>
      /\ bundle = [chain |-> bundle.chain, entries |-> bundle.entries, anchor |-> bundle.anchor]
  BY <1>1 DEF NoBundle
<1>6. BundleShape /\ EditsKeepIds
  BY <1>1, <1>2, <1>5, EmptyLedger DEF BundleShape, EditsKeepIds, IdsFrom
<1> QED
  BY <1>3, <1>4, <1>6 DEF BundleInv

\* An append: the log still verifies, and the bundle is what it was.
LEMMA LogKeeps ==
    ASSUME BundleInv, NEW c \in Chains, NEW task \in Tasks, Log(c, task)
    PROVE  BundleInv'
<1>1. PICK body : body = [chain |-> c, task |-> task]
  OBVIOUS
<1>2. body \in Bodies
  BY <1>1 DEF Bodies
<1>3. PICK M : M = AppendEntry(logs[c], body)
  OBVIOUS
<1>4. logs' = [logs EXCEPT ![c] = M]
  BY <1>1, <1>3 DEF Log
<1>5. UNCHANGED <<bundle, signed, retained, shipped, edits, rehashed, honest>>
  BY DEF Log
<1>6. PICK S : logs \in [Chains -> S]
  BY DEF BundleInv, LogsInv
<1>7. logs' \in [Chains -> S \cup {M}] /\ logs'[c] = M /\ \A d \in Chains \ {c} : logs'[d] = logs[d]
  BY <1>4, <1>6
<1>8. PICK L : L = logs[c]
  OBVIOUS
<1>9. IsLedger(L) /\ ChainVerifies(L) /\ OneChain(L, c) /\ Len(L) \in Nat /\ DOMAIN L = 1 .. Len(L)
  BY <1>8, LedgerLen DEF BundleInv, LogsInv, IsLedger
<1>10. /\ IsLedger(M) /\ ChainVerifies(M)
       /\ DOMAIN M = 1 .. Len(L) + 1 /\ M[Len(L) + 1].body = body
       /\ \A i \in DOMAIN L : M[i] = L[i]
  BY <1>2, <1>3, <1>8, <1>9, AppendFacts
<1>11. OneChain(M, c)
  <2>1. ASSUME NEW i \in DOMAIN M PROVE i \in DOMAIN L \/ i = Len(L) + 1
    BY <1>9, <1>10
  <2>2. body.chain = c
    BY <1>1
  <2> QED
    BY <1>9, <1>10, <2>1, <2>2 DEF OneChain
<1>12. LogsInv'
  <2>1. ASSUME NEW d \in Chains
        PROVE  IsLedger(logs'[d]) /\ ChainVerifies(logs'[d]) /\ OneChain(logs'[d], d)
    BY <1>7, <1>10, <1>11 DEF BundleInv, LogsInv
  <2>2. \E T : logs' \in [Chains -> T]
    BY <1>7
  <2> QED
    BY <2>1, <2>2 DEF LogsInv
<1>13. UneditedBundlesVerify'
  BY <1>5, AcceptsStays DEF BundleInv
<1> QED
  BY <1>5, <1>12, <1>13 DEF BundleInv, SignedInv, RetainedInv, BundleShape, EditsKeepIds

\* An anchor published apart is over a log that verifies.
LEMMA AnchorKeeps ==
    ASSUME BundleInv, NEW c \in Chains, AnchorLog(c)
    PROVE  BundleInv'
<1>1. PICK commitment : commitment = [anchor |-> Anchor(logs[c]), over |-> logs[c]]
  OBVIOUS
<1>2. signed' = signed \cup {commitment} /\ retained' = commitment
  BY <1>1 DEF AnchorLog
<1>3. UNCHANGED <<logs, bundle, shipped, edits, rehashed, honest>>
  BY DEF AnchorLog
<1>4. /\ commitment.over = logs[c] /\ commitment.anchor = Anchor(commitment.over)
      /\ IsLedger(commitment.over) /\ ChainVerifies(commitment.over)
  BY <1>1 DEF BundleInv, LogsInv
<1>5. SignedInv' /\ RetainedInv'
  BY <1>2, <1>4 DEF BundleInv, SignedInv, RetainedInv
<1>6. UneditedBundlesVerify'
  BY <1>2, <1>3, AcceptsStays DEF BundleInv
<1> QED
  BY <1>3, <1>5, <1>6 DEF BundleInv, LogsInv, BundleShape, EditsKeepIds

\* What ships is what is made of a ledger; it is honest only of one that verifies.
LEMMA ShipKeeps ==
    ASSUME BundleInv, NEW L, IsLedger(L), NEW redact \in BOOLEAN, Ship(L, redact),
           honest' \in BOOLEAN, honest' => ChainVerifies(L) /\ \E c : OneChain(L, c)
    PROVE  BundleInv'
<1>1. PICK b : b = ExportBundle(L, redact)
  OBVIOUS
<1>2. /\ bundle' = b /\ shipped' = b.entries /\ edits' = 0 /\ rehashed' = FALSE
      /\ signed' = signed \cup {[anchor |-> b.anchor, over |-> b.entries]}
      /\ UNCHANGED <<logs, retained>>
  BY <1>1 DEF Ship
<1>3. /\ IsLedger(b.entries)
      /\ b = [chain |-> b.chain, entries |-> b.entries, anchor |-> b.anchor]
      /\ b.anchor = AnchorFor(b.entries)
      /\ \A c : ChainVerifies(L) /\ OneChain(L, c) =>
            /\ ChainVerifies(b.entries) /\ SameChain(b)
            /\ \A S : b.anchor \in S => VerifyAnchor(b.entries, b.anchor, S)
  BY <1>1, ExportFacts
<1>4. SignedInv'
  BY <1>2, <1>3 DEF BundleInv, SignedInv
<1>5. BundleShape'
  BY <1>2, <1>3 DEF BundleShape
<1>6. EditsKeepIds'
  BY <1>2 DEF EditsKeepIds, IdsFrom, SameId
<1>7. UneditedBundlesVerify'
  <2>1. b.anchor \in Anchors'
    <3>1. PICK s : s = [anchor |-> b.anchor, over |-> b.entries]
      OBVIOUS
    <3>2. s \in signed' /\ s.anchor = b.anchor
      BY <1>2, <3>1
    <3> QED
      BY <3>2 DEF Anchors
  <2> QED
    BY <1>2, <1>3, <2>1 DEF UneditedBundlesVerify, Accepts
<1> QED
  BY <1>2, <1>4, <1>5, <1>6, <1>7 DEF BundleInv, LogsInv, RetainedInv

\* An export from a log, or from the entries of the bundle in hand.
LEMMA ExportKeeps ==
    ASSUME BundleInv, NEW redact \in BOOLEAN, ExportStep(redact)
    PROVE  BundleInv'
<1>1. ASSUME NEW c \in Chains, Export(c, redact) PROVE BundleInv'
  BY <1>1, ShipKeeps DEF BundleInv, LogsInv, Export
<1>2. ASSUME ExportAgain(redact) PROVE BundleInv'
  <2>1. honest' => ChainVerifies(bundle.entries) /\ OneChain(bundle.entries, bundle.chain)
    BY <1>2 DEF ExportAgain, BundleInv, UneditedBundlesVerify, Accepts, SameChain, VerifyAnchor,
                OneChain
  <2>2. honest' \in BOOLEAN /\ Ship(bundle.entries, redact)
    BY <1>2 DEF ExportAgain
  <2>3. IsLedger(bundle.entries)
    BY DEF BundleInv, BundleShape
  <2> QED
    BY <2>1, <2>2, <2>3, ShipKeeps
<1> QED
  BY <1>1, <1>2 DEF ExportStep

\* An edit that leaves the entries their places, links and hashes, or recomputes them.
LEMMA EditKeeps ==
    ASSUME BundleInv, NEW b, Edit(b), IsLedger(b.entries), rehashed' \in BOOLEAN,
           b = [chain |-> b.chain, entries |-> b.entries, anchor |-> b.anchor],
           rehashed' \/ (~rehashed /\ IdsFrom(b.entries, bundle.entries))
    PROVE  BundleInv'
<1>1. bundle' = b /\ edits' = edits + 1 /\ UNCHANGED <<logs, signed, retained, shipped, honest>>
  BY DEF Edit
<1>2. edits \in Nat
  BY DEF BundleInv, BundleShape
<1>3. edits' # 0 /\ edits' \in Nat
  BY <1>1, <1>2
<1>4. ASSUME ~rehashed' PROVE IdsFrom(b.entries, shipped)
  <2>1. IdsFrom(b.entries, bundle.entries) /\ IdsFrom(bundle.entries, shipped)
    BY <1>4 DEF BundleInv, EditsKeepIds
  <2> QED
    BY <2>1 DEF IdsFrom, SameId
<1>5. EditsKeepIds' /\ BundleShape' /\ UneditedBundlesVerify'
  BY <1>1, <1>3, <1>4 DEF BundleInv, EditsKeepIds, BundleShape, UneditedBundlesVerify
<1> QED
  BY <1>1, <1>5 DEF BundleInv, LogsInv, SignedInv, RetainedInv

\* Entries left alone identify themselves as themselves.
LEMMA SameIds == ASSUME NEW L PROVE IdsFrom(L, L)
  BY DEF IdsFrom, SameId

\* An edit of the entries only.
LEMMA EditEntriesKeeps ==
    ASSUME BundleInv, NEW L, EditEntries(L), IsLedger(L), IdsFrom(L, bundle.entries)
    PROVE  BundleInv'
<1>1. PICK b : b = [bundle EXCEPT !.entries = L]
  OBVIOUS
<1>2. b = [chain |-> bundle.chain, entries |-> L, anchor |-> bundle.anchor]
  BY <1>1 DEF BundleInv, BundleShape
<1>3. Edit(b) /\ rehashed' = rehashed /\ rehashed \in BOOLEAN
  BY <1>1 DEF EditEntries, BundleInv, BundleShape
<1> QED
  BY <1>2, <1>3, EditKeeps

\* Every edit of the file is one that EditKeeps speaks of.
LEMMA EditStepKeeps ==
    ASSUME BundleInv, EditStep
    PROVE  BundleInv'
<1>0. IsLedger(bundle.entries)
  BY DEF BundleInv, BundleShape
<1>1. ASSUME NEW i, Drop(i) PROVE BundleInv'
  BY <1>0, <1>1, DropFacts, EditEntriesKeeps DEF Drop
<1>2. ASSUME NEW i, SwapWithNext(i) PROVE BundleInv'
  BY <1>0, <1>2, SwapFacts, EditEntriesKeeps DEF SwapWithNext
<1>3. ASSUME NEW i, NEW body \in Bodies, Reword(i, body) PROVE BundleInv'
  BY <1>0, <1>3, RewordFacts, EditEntriesKeeps DEF Reword
<1>4. ASSUME MakeConsistent PROVE BundleInv'
  <2>1. PICK M : M = Rehash(Renumber(bundle.entries))
    OBVIOUS
  <2>2. PICK b : b = [bundle EXCEPT !.entries = M]
    OBVIOUS
  <2>3. b = [chain |-> bundle.chain, entries |-> M, anchor |-> bundle.anchor]
    BY <2>2 DEF BundleInv, BundleShape
  <2>4. IsLedger(M)
    BY <1>0, <2>1, RenumberFacts, RehashFacts
  <2>5. Edit(b) /\ rehashed' = TRUE
    BY <1>4, <2>1, <2>2 DEF MakeConsistent
  <2>6. /\ IsLedger(b.entries)
        /\ b = [chain |-> b.chain, entries |-> b.entries, anchor |-> b.anchor]
    BY <2>3, <2>4
  <2>7. rehashed' /\ rehashed' \in BOOLEAN
    BY <2>5
  <2> QED
    BY <2>5, <2>6, <2>7, EditKeeps
<1>5. ASSUME NEW a, ReplaceAnchor(a) PROVE BundleInv'
  <2>1. PICK b : b = [bundle EXCEPT !.anchor = a, !.chain = a.chain]
    OBVIOUS
  <2>2. b = [chain |-> a.chain, entries |-> bundle.entries, anchor |-> a]
    BY <2>1 DEF BundleInv, BundleShape
  <2>3. Edit(b) /\ rehashed' = rehashed /\ rehashed \in BOOLEAN
    BY <1>5, <2>1 DEF ReplaceAnchor, BundleInv, BundleShape
  <2> QED
    BY <1>0, <2>2, <2>3, EditKeeps, SameIds
<1> QED
  BY <1>1, <1>2, <1>3, <1>4, <1>5 DEF EditStep

\* Witnesses sign and change nothing of this.
LEMMA UnchangedKeeps ==
    ASSUME BundleInv, UNCHANGED bundleVars
    PROVE  BundleInv'
  BY DEF BundleInv, LogsInv, SignedInv, RetainedInv, BundleShape, EditsKeepIds,
         UneditedBundlesVerify, Accepts, Anchors, bundleVars

\* The steps of the logs.
LEMMA LedgerStepKeeps ==
    ASSUME BundleInv, LedgerStep
    PROVE  BundleInv'
  BY LogKeeps, AnchorKeeps DEF LedgerStep

\* An edit of the envelopes is an edit that leaves the entries as they are.
LEMMA EditEnvelopesKeeps ==
    ASSUME BundleInv, NEW E, EditEnvelopes(E)
    PROVE  BundleInv'
<1>1. Edit(bundle) /\ rehashed' = rehashed
  BY DEF EditEnvelopes
<1>2. /\ IsLedger(bundle.entries) /\ rehashed \in BOOLEAN
      /\ bundle = [chain |-> bundle.chain, entries |-> bundle.entries, anchor |-> bundle.anchor]
  BY DEF BundleInv, BundleShape
<1> QED
  BY <1>1, <1>2, EditKeeps, SameIds

\* Every step of the system keeps the invariant of the bundle.
LEMMA BundleKeeps ==
    ASSUME BundleInv, [EnvelopeNext]_<<bundleVars, envelopeVars>>
    PROVE  BundleInv'
<1>1. CASE UNCHANGED <<bundleVars, envelopeVars>>
  BY <1>1, UnchangedKeeps
<1>2. CASE LedgerStep
  BY <1>2, LedgerStepKeeps
<1>3. CASE EditStep
  BY <1>3, EditStepKeeps
<1>4. CASE EnvelopeEditStep
  BY <1>4, EditEnvelopesKeeps DEF EnvelopeEditStep
<1>5. CASE WitnessStep
  <2>1. UNCHANGED bundleVars
    BY <1>5 DEF WitnessStep, Witness
  <2> QED
    BY <2>1, UnchangedKeeps
<1>6. ASSUME NEW redact \in BOOLEAN, NEW E, ExportWith(redact, E) PROVE BundleInv'
  <2>1. ExportStep(redact)
    BY <1>6 DEF ExportWith, ExportStep
  <2> QED
    BY <2>1, ExportKeeps
<1> QED
  BY <1>1, <1>2, <1>3, <1>4, <1>5, <1>6 DEF EnvelopeNext

\* It holds in every state.
LEMMA BundleAlways == EnvelopeSpec => []BundleInv
<1>1. EnvelopeInit => BundleInv
  BY BundleInitially DEF EnvelopeInit
<1>2. BundleInv /\ [EnvelopeNext]_<<bundleVars, envelopeVars>> => BundleInv'
  BY BundleKeeps
<1> QED
  BY <1>1, <1>2, PTL DEF EnvelopeSpec

\* A bundle that nobody edited is accepted, redacted or not, however often it was
\* exported on the way, from logs of any length.
THEOREM ExportedBundlesVerify == EnvelopeSpec => []UneditedBundlesVerify
<1>1. BundleInv => UneditedBundlesVerify
  BY DEF BundleInv
<1> QED
  BY <1>1, BundleAlways, PTL

\* The head of a ledger that is there has a place and a hash; there is none at -1.
LEMMA HeadPlace ==
    ASSUME NEW L, IsLedger(L)
    PROVE  /\ L = <<>> => HeadSeq(L) = -1
           /\ L # <<>> => HeadSeq(L) \in Nat
<1>1. ASSUME L # <<>> PROVE HeadSeq(L) \in Nat
  <2>1. PICK n : n = Len(L)
    OBVIOUS
  <2>2. n \in Nat \ {0} /\ HeadSeq(L) = L[n].seq /\ DOMAIN L = 1 .. n
    BY <1>1, <2>1, HeadFacts, LedgerLen DEF IsLedger
  <2>3. IsEntry(L[n])
    BY <2>2 DEF IsLedger
  <2> QED
    BY <2>2, <2>3 DEF IsEntry
<1> QED
  BY <1>1 DEF HeadSeq

\* What is accepted under an anchor is what the anchor was signed over: no entry
\* can be reworded, dropped, moved or rehashed, and no anchor borrowed.
THEOREM AnchorsPinEntries == EnvelopeSpec => []AnchorPinsEntries
<1>1. ASSUME BundleInv, Accepts(bundle), NEW s \in signed, s.anchor = bundle.anchor,
             ChainVerifies(s.over)
      PROVE  s.over = bundle.entries
  <2>1. PICK L : L = bundle.entries
    OBVIOUS
  <2>2. PICK M : M = s.over
    OBVIOUS
  <2>3. IsLedger(L) /\ IsLedger(M) /\ ChainVerifies(L) /\ ChainVerifies(M)
    BY <1>1, <2>1, <2>2 DEF BundleInv, BundleShape, SignedInv, Accepts, VerifyAnchor
  <2>4. /\ s.anchor.seq = HeadSeq(M)
        /\ M # <<>> => s.anchor.head = HeadHash(M)
    BY <1>1, <2>2 DEF BundleInv, SignedInv, Anchor, AnchorFor
  <2>5. IF L = <<>> THEN s.anchor.seq = -1
        ELSE s.anchor.head = Last(L).hash /\ s.anchor.seq = Last(L).seq
    BY <1>1, <2>1 DEF Accepts, VerifyAnchor
  <2>6. CASE L = <<>>
    BY <2>1, <2>2, <2>3, <2>4, <2>5, <2>6, HeadPlace
  <2>7. CASE L # <<>>
    <3>1. s.anchor.seq = HeadSeq(L) /\ s.anchor.head = HeadHash(L)
      BY <2>5, <2>7 DEF HeadSeq, HeadHash
    <3>2. M # <<>>
      <4>1. HeadSeq(L) \in Nat
        BY <2>3, <2>7, HeadPlace
      <4>2. HeadSeq(M) = HeadSeq(L)
        BY <2>4, <3>1
      <4>3. M = <<>> => HeadSeq(M) = -1
        BY <2>3, HeadPlace
      <4> QED
        BY <4>1, <4>2, <4>3
    <3> QED
      BY <2>1, <2>2, <2>3, <2>4, <2>7, <3>1, <3>2, EqualHeads
  <2> QED
    BY <2>6, <2>7
<1>2. BundleInv => AnchorPinsEntries
  BY <1>1 DEF AnchorPinsEntries
<1> QED
  BY <1>2, BundleAlways, PTL

\* An anchor that was kept apart needs no key: not even the signer can have it
\* accept other entries.
THEOREM RetainedAnchorsPinEntries == EnvelopeSpec => []RetainedAnchorPinsEntries
<1>1. ASSUME BundleInv, retained # NoAnchor, AcceptsAgainst(bundle, retained.anchor)
      PROVE  bundle.entries = retained.over
  <2>1. PICK L : L = bundle.entries
    OBVIOUS
  <2>2. PICK M : M = retained.over
    OBVIOUS
  <2>3. IsLedger(L) /\ IsLedger(M) /\ ChainVerifies(L) /\ ChainVerifies(M)
    BY <1>1, <2>1, <2>2 DEF BundleInv, BundleShape, RetainedInv, AcceptsAgainst
  <2>4. retained.anchor.seq = HeadSeq(M) /\ retained.anchor.head = HeadHash(M)
    BY <1>1, <2>2 DEF BundleInv, RetainedInv, Anchor
  <2>5. retained.anchor.seq = Len(L) - 1 /\ retained.anchor.head = HeadHash(L)
    BY <1>1, <2>1 DEF AcceptsAgainst, MatchesExpected
  <2>6. Len(L) \in Nat /\ (L = <<>> <=> Len(L) = 0)
    BY <2>3, LedgerLen DEF IsLedger
  <2>7. CASE L = <<>>
    <3>1. HeadSeq(M) = -1
      BY <2>4, <2>5, <2>6, <2>7
    <3> QED
      BY <2>1, <2>2, <2>3, <2>7, <3>1, HeadPlace
  <2>8. CASE L # <<>>
    <3>1. PICK n : n = Len(L)
      OBVIOUS
    <3>2. n \in Nat \ {0} /\ HeadSeq(L) = L[n].seq
      BY <2>3, <2>8, <3>1, HeadFacts DEF IsLedger
    <3>3. L[n].seq = n - 1
      BY <2>3, <3>1, <3>2, VerifiesMeans DEF IsLedger, Continues
    <3>4. HeadSeq(L) = HeadSeq(M)
      BY <2>4, <2>5, <3>1, <3>2, <3>3
    <3>5. M # <<>>
      BY <2>3, <2>8, <3>4, HeadPlace
    <3> QED
      BY <2>1, <2>2, <2>3, <2>4, <2>5, <2>8, <3>4, <3>5, EqualHeads
  <2> QED
    BY <2>7, <2>8
<1>2. BundleInv => RetainedAnchorPinsEntries
  BY <1>1 DEF RetainedAnchorPinsEntries
<1> QED
  BY <1>2, BundleAlways, PTL

\* The walk of the verifier stops at the first entry that is not the one that was
\* shipped, unless hashes were recomputed; it does not see a cut at the end.
THEOREM BreaksAreFirstDifferences == EnvelopeSpec => []BreakIsFirstDifference
<1>1. ASSUME BundleInv, ChainVerifies(shipped), ~rehashed,
             NEW differs, differs = {i \in DOMAIN bundle.entries :
                             i \notin DOMAIN shipped \/ bundle.entries[i] # shipped[i]}
      PROVE  IF differs = {} THEN IntegrityBreak(bundle.entries) = NoBreak
             ELSE /\ IntegrityBreak(bundle.entries) \in differs
                  /\ \A i \in differs : IntegrityBreak(bundle.entries) <= i
  <2>1. PICK L : L = bundle.entries
    OBVIOUS
  <2>2. PICK M : M = shipped
    OBVIOUS
  <2>3. PICK n : n = Len(L)
    OBVIOUS
  <2>4. PICK m : m = Len(M)
    OBVIOUS
  <2>5. IsLedger(L) /\ IsLedger(M) /\ IdsFrom(L, M)
    BY <1>1, <2>1, <2>2 DEF BundleInv, BundleShape, EditsKeepIds
  <2>6. n \in Nat /\ m \in Nat /\ DOMAIN L = 1 .. n /\ DOMAIN M = 1 .. m
    BY <2>3, <2>4, <2>5, LedgerLen DEF IsLedger
  <2>7. differs = {i \in 1 .. n : i \notin 1 .. m \/ L[i] # M[i]}
    BY <1>1, <2>1, <2>2, <2>6
  <2>8. \A i \in 1 .. m : Continues(M, i)
    BY <1>1, <2>2, <2>4, <2>5, VerifiesMeans DEF IsLedger
  \* As far as there is no difference there is no break.
  <2>9. ASSUME NEW i \in 1 .. n, \A k \in differs : i < k
        PROVE  Continues(L, i)
    <3>1. \A k \in 1 .. i : k \in 1 .. n /\ k \notin differs
      BY <2>6, <2>7, <2>9
    <3>2. \A k \in 1 .. i : k \in 1 .. m /\ L[k] = M[k]
      BY <2>7, <3>1
    <3>3. i \in 1 .. i /\ (i # 1 => i - 1 \in 1 .. i)
      BY <2>6
    <3>4. Before(L, i) = Before(M, i)
      BY <3>2, <3>3 DEF Before
    <3> QED
      BY <2>8, <3>2, <3>3, <3>4 DEF Continues
  \* The first difference is a break: what its entry identifies itself as is shipped.
  <2>10. ASSUME NEW d \in differs, \A k \in differs : d <= k
         PROVE  ~Continues(L, d)
    <3>1. SUFFICES ASSUME Continues(L, d) PROVE FALSE
      OBVIOUS
    <3>2. d \in 1 .. n
      BY <2>7
    <3>3. PICK k \in 1 .. m : SameId(L[d], M[k])
      BY <2>5, <2>6, <3>2 DEF IdsFrom
    <3>4. L[d].seq = d - 1 /\ M[k].seq = k - 1 /\ L[d].seq = M[k].seq
      BY <2>8, <3>1, <3>3 DEF Continues, SameId
    <3>5. k = d
      BY <2>6, <3>2, <3>4
    <3>6. L[d].hash = M[d].hash /\ L[d].prev = M[d].prev /\ d \in 1 .. m
      BY <3>3, <3>5 DEF SameId
    <3>7. HashEntry(Before(L, d), L[d]) = HashEntry(Before(M, d), M[d])
      BY <2>8, <3>1, <3>6 DEF Continues
    <3>8. L[d].body = M[d].body
      BY <3>7 DEF HashEntry
    <3>9. IsEntry(L[d]) /\ IsEntry(M[d])
      BY <2>5, <2>6, <3>2, <3>6 DEF IsLedger
    <3>10. L[d] = M[d]
      BY <3>4, <3>5, <3>6, <3>8, <3>9 DEF IsEntry
    <3> QED
      BY <2>7, <3>6, <3>10
  <2> DEFINE breaks == {i \in DOMAIN L : BreaksAt(L, i)}
  <2>11. breaks = {i \in 1 .. n : ~Continues(L, i)}
    BY <2>3, <2>5, <2>6, VerifiesMeans DEF IsLedger
  <2>12. IntegrityBreak(L) = IF breaks = {} THEN NoBreak
                             ELSE CHOOSE i \in breaks : \A j \in breaks : i <= j
    BY DEF IntegrityBreak
  <2> HIDE DEF breaks
  <2>13. CASE differs = {}
    <3>1. \A i \in 1 .. n : Continues(L, i)
      BY <2>9, <2>13
    <3> QED
      BY <2>1, <2>11, <2>12, <2>13, <3>1
  <2>14. CASE differs # {}
    <3>1. differs \in SUBSET Nat
      BY <2>6, <2>7
    <3>2. PICK d \in differs : \A k \in differs : d <= k
      BY <2>14, <3>1, Least
    <3>3. d \in breaks
      BY <2>7, <2>10, <2>11, <3>2
    <3>4. ASSUME NEW i \in breaks PROVE d <= i
      <4>1. i \in 1 .. n /\ ~Continues(L, i) /\ d \in Nat /\ i \in Nat
        BY <2>6, <2>11, <3>1
      <4>2. ASSUME i < d PROVE FALSE
        <5>1. \A k \in differs : i < k
          BY <3>1, <3>2, <4>1, <4>2
        <5> QED
          BY <2>9, <4>1, <5>1
      <4> QED
        BY <4>1, <4>2
    <3>5. ASSUME NEW i \in breaks, \A j \in breaks : i <= j PROVE i = d
      <4>1. i <= d /\ d <= i
        BY <3>3, <3>4, <3>5
      <4>2. i \in Nat /\ d \in Nat
        BY <2>6, <2>11, <3>1
      <4> QED
        BY <4>1, <4>2
    <3>6. (CHOOSE i \in breaks : \A j \in breaks : i <= j) = d
      BY <3>3, <3>4, <3>5
    <3>7. IntegrityBreak(L) = d
      BY <2>12, <3>3, <3>6
    <3> QED
      BY <2>1, <2>14, <3>2, <3>7
  <2> QED
    BY <2>13, <2>14
<1>2. BundleInv => BreakIsFirstDifference
  BY <1>1 DEF BreakIsFirstDifference
<1> QED
  BY <1>2, BundleAlways, PTL

-----------------------------------------------------------------------------
(* Recomputed hashes *)

\* Hashes look back only.
LEMMA PrefixHashes ==
    ASSUME NEW L, NEW M, Len(L) \in Nat, Len(M) \in Nat, NEW m \in Nat, m <= Len(L), m <= Len(M),
           \A i \in 1 .. m : L[i] = M[i]
    PROVE  RecomputedHashes(L)[m] = RecomputedHashes(M)[m]
<1>1. PICK g : g = RecomputedHashes(L)
  OBVIOUS
<1>2. PICK h : h = RecomputedHashes(M)
  OBVIOUS
<1>3. g[0] = Genesis /\ \A i \in 1 .. m : g[i] = HashEntry(g[i - 1], L[i])
  BY <1>1, RecomputedIsWalk
<1>4. h[0] = Genesis /\ \A i \in 1 .. m : h[i] = HashEntry(h[i - 1], M[i])
  BY <1>2, RecomputedIsWalk
<1> DEFINE D == {k \in 0 .. m : g[k] # h[k]}
<1>5. SUFFICES ASSUME D # {} PROVE FALSE
  <2>1. m \in 0 .. m
    OBVIOUS
  <2> QED
    BY <1>1, <1>2, <1>5, <2>1
<1>6. PICK d \in D : \A k \in D : d <= k
  <2>1. D \in SUBSET Nat
    OBVIOUS
  <2> HIDE DEF D
  <2> QED
    BY <1>5, <2>1, Least
<1>7. d # 0 /\ d \in 0 .. m
  BY <1>3, <1>4
<1>8. d \in 1 .. m /\ d - 1 \in 0 .. m /\ d - 1 \notin D
  BY <1>6, <1>7
<1>9. g[d - 1] = h[d - 1]
  BY <1>8
<1>10. g[d] = h[d]
  BY <1>3, <1>4, <1>8, <1>9
<1> QED
  BY <1>10

\* Nothing hashes to the 64 zeros.
LEMMA HashIsNotGenesis == ASSUME NEW prev, NEW entry PROVE HashEntry(prev, entry) # Genesis
<1>1. PICK t : t = HashEntry(prev, entry)
  OBVIOUS
<1>2. t = <<prev, entry.seq, entry.body, entry.prev>>
  BY <1>1 DEF HashEntry
<1>3. Len(t) = 4 /\ Len(Genesis) = 0
  BY <1>2 DEF Genesis
<1> QED
  BY <1>1, <1>3

\* Two walks that come to one hash have come the same way from the start.
LEMMA WalksMeet ==
    ASSUME NEW L, NEW M, Len(L) \in Nat, Len(M) \in Nat,
           NEW a \in 1 .. Len(L), NEW b \in 1 .. Len(M),
           RecomputedHashes(L)[a] = RecomputedHashes(M)[b]
    PROVE  a = b /\ \A k \in 1 .. a :
                       L[k].seq = M[k].seq /\ L[k].body = M[k].body /\ L[k].prev = M[k].prev
<1>1. PICK g : g = RecomputedHashes(L)
  OBVIOUS
<1>2. PICK h : h = RecomputedHashes(M)
  OBVIOUS
<1>3. g[0] = Genesis /\ \A i \in 1 .. a : g[i] = HashEntry(g[i - 1], L[i])
  BY <1>1, RecomputedIsWalk
<1>4. h[0] = Genesis /\ \A i \in 1 .. b : h[i] = HashEntry(h[i - 1], M[i])
  BY <1>2, RecomputedIsWalk
<1>5. a \in Nat \ {0} /\ b \in Nat \ {0}
  OBVIOUS
<1>6. PICK c : c = IF a <= b THEN a ELSE b
  OBVIOUS
<1>7. c \in Nat /\ c <= a /\ c <= b
  BY <1>5, <1>6
<1>8. \A d \in 0 .. c : g[a - d] = h[b - d]
  <2> DEFINE D == {d \in 0 .. c : g[a - d] # h[b - d]}
  <2>1. SUFFICES ASSUME D # {} PROVE FALSE
    OBVIOUS
  <2>2. PICK d \in D : \A k \in D : d <= k
    <3>1. D \in SUBSET Nat
      BY <1>7
    <3> HIDE DEF D
    <3> QED
      BY <2>1, <3>1, Least
  <2>3. d # 0
    <3>1. a - 0 = a /\ b - 0 = b
      BY <1>5
    <3> QED
      BY <1>1, <1>2, <3>1
  <2>4. d \in 1 .. c /\ d - 1 \in 0 .. c /\ g[a - (d - 1)] = h[b - (d - 1)]
    <3>1. d \in 0 .. c
      OBVIOUS
    <3>2. d \in 1 .. c /\ d - 1 \in 0 .. c /\ ~ d <= d - 1
      BY <1>7, <2>3, <3>1
    <3>3. d - 1 \notin D
      BY <2>2, <3>2
    <3> QED
      BY <3>2, <3>3
  <2>5. PICK i \in 1 .. a : i = a - (d - 1)
    BY <1>5, <1>7, <2>4
  <2>6. PICK j \in 1 .. b : j = b - (d - 1)
    BY <1>5, <1>7, <2>4
  <2>7. g[i] = h[j]
    BY <2>4, <2>5, <2>6
  <2>8. HashEntry(g[i - 1], L[i]) = HashEntry(h[j - 1], M[j])
    BY <1>3, <1>4, <2>7
  <2>9. g[i - 1] = h[j - 1]
    BY <2>8 DEF HashEntry
  <2>10. i - 1 = a - d /\ j - 1 = b - d
    BY <1>5, <1>7, <2>4, <2>5, <2>6
  <2> QED
    BY <2>9, <2>10
<1>9. \A i \in 1 .. a : g[i] # Genesis
  BY <1>3, HashIsNotGenesis
<1>10. \A i \in 1 .. b : h[i] # Genesis
  BY <1>4, HashIsNotGenesis
<1>11. a = b
  <2>1. ASSUME a < b PROVE FALSE
    <3>1. c = a /\ c \in 0 .. c /\ a - c = 0 /\ b - c \in 1 .. b
      BY <1>5, <1>6, <1>7, <2>1
    <3>2. g[0] = h[b - c]
      BY <1>8, <3>1
    <3> QED
      BY <1>3, <1>10, <3>1, <3>2
  <2>2. ASSUME b < a PROVE FALSE
    <3>1. c = b /\ c \in 0 .. c /\ b - c = 0 /\ a - c \in 1 .. a
      BY <1>5, <1>6, <1>7, <2>2
    <3>2. g[a - c] = h[0]
      BY <1>8, <3>1
    <3> QED
      BY <1>4, <1>9, <3>1, <3>2
  <2> QED
    BY <1>5, <2>1, <2>2
<1>12. ASSUME NEW k \in 1 .. a
       PROVE  L[k].seq = M[k].seq /\ L[k].body = M[k].body /\ L[k].prev = M[k].prev
  <2>1. c = a /\ a - k \in 0 .. c /\ a - (a - k) = k
    BY <1>5, <1>6, <1>11
  <2>2. g[k] = h[k]
    BY <1>8, <1>11, <2>1
  <2>3. k \in 1 .. b
    BY <1>11
  <2>4. HashEntry(g[k - 1], L[k]) = HashEntry(h[k - 1], M[k])
    BY <1>3, <1>4, <2>2, <2>3
  <2> QED
    BY <2>4 DEF HashEntry
<1> QED
  BY <1>11, <1>12

\* The entry that a seq stands for.
LEMMA CoveredFacts ==
    ASSUME NEW L, IsLedger(L), NEW seq, NEW i, i = CoveredBy(L, seq)
    PROVE  /\ i # 0 => i \in DOMAIN L /\ L[i].seq = seq
           /\ (\E j \in DOMAIN L : L[j].seq = seq) => i # 0
<1>1. PICK n : n = Len(L)
  OBVIOUS
<1>2. n \in Nat /\ DOMAIN L = 1 .. n
  BY <1>1, LedgerLen DEF IsLedger
<1>3. PICK named : named = {j \in DOMAIN L : L[j].seq = seq}
  OBVIOUS
<1>4. i = IF named = {} THEN 0 ELSE CHOOSE k \in named : \A j \in named : j <= k
  BY <1>3 DEF CoveredBy
<1>5. ASSUME named # {} PROVE i \in named
  <2>1. named \in SUBSET (0 .. n)
    BY <1>2, <1>3
  <2>2. \E k \in named : \A j \in named : j <= k
    BY <1>2, <1>5, <2>1, Greatest
  <2> QED
    BY <1>4, <1>5, <2>2
<1>6. 0 \notin named
  BY <1>2, <1>3
<1> QED
  BY <1>3, <1>4, <1>5, <1>6
-----------------------------------------------------------------------------
(* Envelopes *)

\* The identity a witness signed: of the last of the entries it was shown.
LastSubject(M) ==
    [chain |-> M[Len(M)].body.chain, seq |-> M[Len(M)].seq, hash |-> RecomputedHashes(M)[Len(M)]]

\* An observation is of a ledger as far as one entry, and its signature over that entry.
IsObservation(o) ==
    /\ IsLedger(o.over) /\ Len(o.over) \in Nat \ {0} /\ HasSubject(o.over[Len(o.over)])
    /\ o.envelope = [v |-> ThisVersion, subject |-> LastSubject(o.over), kid |-> o.envelope.kid,
                     sig |-> [key |-> o.envelope.sig.key,
                              over |-> <<ThisVersion, LastSubject(o.over), o.envelope.kid>>]]

\* An envelope in the file has the signature of one, whatever its labels say.
IsEnvelope(e) ==
    /\ e = [v |-> e.v, subject |-> e.subject, kid |-> e.kid, sig |-> e.sig]
    /\ e.subject = [chain |-> e.subject.chain, seq |-> e.subject.seq, hash |-> e.subject.hash]
    /\ \E o \in observed : o.envelope.sig = e.sig

ObservedInv == IsFiniteSet(observed) /\ \A o \in observed : IsObservation(o)
CarriedInv == (\E U : envelopes \in Seq(U)) /\ \A j \in DOMAIN envelopes : IsEnvelope(envelopes[j])
FittingInv ==
    bundle # NoBundle /\ honest /\ edits = 0 /\ fitting => Fits(bundle.entries, envelopes)

EnvelopeInv == BundleInv /\ ObservedInv /\ CarriedInv /\ FittingInv

\* Nothing observed, nothing carried.
LEMMA EnvelopeInitially ==
    ASSUME EnvelopeInit PROVE EnvelopeInv
<1>1. BundleInv /\ observed = {} /\ envelopes = <<>> /\ bundle = NoBundle
  BY BundleInitially DEF EnvelopeInit, BundleInit
<1>2. envelopes \in Seq({}) /\ DOMAIN envelopes = {}
  BY <1>1
<1> QED
  BY <1>1, <1>2, FS_EmptySet DEF EnvelopeInv, ObservedInv, CarriedInv, FittingInv

\* Steps that sign nothing new and leave the file's envelopes alone.
LEMMA CarriedStays ==
    ASSUME CarriedInv, observed \subseteq observed', envelopes' = envelopes
    PROVE  CarriedInv'
  BY DEF CarriedInv, IsEnvelope

\* What fitted at the export still does when a witness signs once more.
LEMMA FittingStays ==
    ASSUME FittingInv, observed \subseteq observed',
           UNCHANGED <<bundle, honest, edits, envelopes, fitting>>
    PROVE  FittingInv'
  BY DEF FittingInv, Fits

\* What a witness signs is the last entry it was shown.
LEMMA WitnessKeeps ==
    ASSUME EnvelopeInv, BundleInv', NEW L, IsLedger(L), NEW seq, NEW signer, Witness(L, seq, signer)
    PROVE  EnvelopeInv'
<1>1. PICK i : i = CoveredBy(L, seq)
  OBVIOUS
<1>2. PICK M : M = SubSeq(L, 1, i)
  OBVIOUS
<1>3. PICK o : o = [envelope |-> SignEnvelope(L, seq, signer), over |-> M]
  OBVIOUS
<1>4. /\ observed' = observed \cup {o} /\ i # 0 /\ HasSubject(L[i])
      /\ UNCHANGED <<bundleVars, envelopes, fitting>>
  BY <1>1, <1>2, <1>3 DEF Witness
<1>5. i \in DOMAIN L /\ L[i].seq = seq
  BY <1>1, <1>4, CoveredFacts
<1>6. Len(L) \in Nat /\ i \in 1 .. Len(L)
  BY <1>5, LedgerLen DEF IsLedger
<1>7. i \in 0 .. Len(L) /\ i \in Nat \ {0} /\ i <= Len(L)
  BY <1>6
<1>8. IsLedger(M) /\ Len(M) = i /\ \A k \in 1 .. i : M[k] = L[k]
  <2>1. i \in 0 .. Len(L) /\ M = SubSeq(L, 1, i)
    BY <1>2, <1>7
  <2>2. \A k \in 1 .. i : M[k] = L[k]
    BY <2>1, PrefixFacts
  <2>3. IsLedger(M)
    BY <2>1, PrefixFacts
  <2>4. Len(M) = i
    BY <2>1, PrefixFacts
  <2> QED
    BY <2>2, <2>3, <2>4
<1>9. RecomputedHashes(L)[i] = RecomputedHashes(M)[i]
  <2>1. i \in Nat /\ Len(M) \in Nat /\ i <= Len(M) /\ \A k \in 1 .. i : L[k] = M[k]
    BY <1>7, <1>8
  <2> QED
    BY <1>6, <1>7, <2>1, PrefixHashes
<1>10. M[i] = L[i]
  BY <1>7, <1>8
<1>11. EnvelopeSubject(L, seq) = LastSubject(M)
  BY <1>1, <1>5, <1>8, <1>9, <1>10 DEF EnvelopeSubject, LastSubject
<1>12. o.over = M /\ o.envelope =
         [v |-> ThisVersion, subject |-> LastSubject(M), kid |-> signer.kid,
          sig |-> [key |-> signer.key, over |-> <<ThisVersion, LastSubject(M), signer.kid>>]]
  BY <1>3, <1>11 DEF SignEnvelope
<1>13. IsObservation(o)
  BY <1>4, <1>7, <1>8, <1>10, <1>12 DEF IsObservation
<1>14. ObservedInv'
  <2>1. IsFiniteSet(observed \cup {o})
    BY FS_AddElement DEF EnvelopeInv, ObservedInv
  <2> QED
    BY <1>4, <1>13, <2>1 DEF EnvelopeInv, ObservedInv
<1>15. UNCHANGED <<bundle, honest, edits, envelopes, fitting>>
  BY <1>4 DEF bundleVars
<1> QED
  BY <1>4, <1>14, <1>15, CarriedStays, FittingStays DEF EnvelopeInv

\* A witness is shown a log or the bundle, both ledgers.
LEMMA WitnessStepKeeps ==
    ASSUME EnvelopeInv, BundleInv', WitnessStep
    PROVE  EnvelopeInv'
<1>1. IsLedger(bundle.entries) /\ \A c \in Chains : IsLedger(logs[c])
  BY DEF EnvelopeInv, BundleInv, BundleShape, LogsInv
<1> QED
  BY <1>1, WitnessKeeps DEF WitnessStep

\* An edit is an end to what the export promised.
LEMMA EditEnds ==
    ASSUME EnvelopeInv, NEW b, Edit(b)
    PROVE  FittingInv'
<1>1. edits \in Nat /\ edits' = edits + 1
  BY DEF EnvelopeInv, BundleInv, BundleShape, Edit
<1>2. edits' # 0
  BY <1>1
<1> QED
  BY <1>2 DEF FittingInv

\* Every edit of the entries counts as one.
LEMMA EditStepEdits ==
    ASSUME EditStep PROVE \E b : Edit(b)
  BY DEF EditStep, Drop, SwapWithNext, Reword, MakeConsistent, ReplaceAnchor, EditEntries

\* A label put in place of another leaves the signature.
LEMMA RelabelFacts ==
    ASSUME NEW e, IsEnvelope(e), NEW f \in Relabelled(e) PROVE IsEnvelope(f)
<1>0. e = [v |-> e.v, subject |-> e.subject, kid |-> e.kid, sig |-> e.sig]
  BY DEF IsEnvelope
<1>1. PICK s : s = e.subject
  OBVIOUS
<1>2. s = [chain |-> s.chain, seq |-> s.seq, hash |-> s.hash]
  BY <1>1 DEF IsEnvelope
<1>3. ASSUME NEW kid, f = [e EXCEPT !.kid = kid] PROVE IsEnvelope(f)
  <2>1. f = [v |-> e.v, subject |-> s, kid |-> kid, sig |-> e.sig]
    BY <1>0, <1>1, <1>3
  <2> QED
    BY <1>2, <2>1 DEF IsEnvelope
<1>4. ASSUME NEW i, f = [e EXCEPT !.subject.seq = i - 1] PROVE IsEnvelope(f)
  <2>1. f = [e EXCEPT !.subject = [s EXCEPT !.seq = i - 1]]
    BY <1>1, <1>4
  <2>2. PICK t : t = [s EXCEPT !.seq = i - 1]
    OBVIOUS
  <2>3. t = [chain |-> t.chain, seq |-> t.seq, hash |-> t.hash]
    BY <1>2, <2>2
  <2>4. f = [v |-> e.v, subject |-> t, kid |-> e.kid, sig |-> e.sig]
    BY <1>0, <2>1, <2>2
  <2> QED
    BY <2>3, <2>4 DEF IsEnvelope
<1>5. ASSUME f = [e EXCEPT !.v = ThisVersion + 1] PROVE IsEnvelope(f)
  <2>1. PICK w : w = ThisVersion + 1
    OBVIOUS
  <2>2. f = [v |-> w, subject |-> s, kid |-> e.kid, sig |-> e.sig]
    BY <1>0, <1>1, <1>5, <2>1
  <2> QED
    BY <1>2, <2>2 DEF IsEnvelope
<1> QED
  BY <1>3, <1>4, <1>5 DEF Relabelled

\* An envelope as it was signed is one.
LEMMA SignedFacts ==
    ASSUME EnvelopeInv, NEW e \in Signed PROVE IsEnvelope(e)
<1>1. PICK o \in observed : e = o.envelope
  BY DEF Signed
<1>2. PICK s : s = LastSubject(o.over)
  OBVIOUS
<1>3. e = [v |-> ThisVersion, subject |-> s, kid |-> e.kid,
           sig |-> [key |-> e.sig.key, over |-> <<ThisVersion, s, e.kid>>]]
  BY <1>1, <1>2 DEF EnvelopeInv, ObservedInv, IsObservation
<1>4. s = [chain |-> s.chain, seq |-> s.seq, hash |-> s.hash]
  BY <1>2 DEF LastSubject
<1> QED
  BY <1>1, <1>3, <1>4 DEF IsEnvelope

\* Envelopes put in the file or relabelled there carry signatures that were made.
LEMMA EnvelopeEditKeeps ==
    ASSUME EnvelopeInv, BundleInv', EnvelopeEditStep
    PROVE  EnvelopeInv'
<1>1. PICK U : envelopes \in Seq(U)
  BY DEF EnvelopeInv, CarriedInv
<1>2. ASSUME NEW E, EditEnvelopes(E), \E V : E \in Seq(V), \A j \in DOMAIN E : IsEnvelope(E[j])
      PROVE  EnvelopeInv'
  <2>1. envelopes' = E /\ observed' = observed /\ Edit(bundle)
    BY <1>2 DEF EditEnvelopes
  <2>2. CarriedInv'
    BY <1>2, <2>1 DEF CarriedInv, IsEnvelope
  <2>3. ObservedInv'
    BY <2>1 DEF EnvelopeInv, ObservedInv
  <2> QED
    BY <2>1, <2>2, <2>3, EditEnds DEF EnvelopeInv
<1>3. ASSUME NEW e \in Signed, EditEnvelopes(Append(envelopes, e)) PROVE EnvelopeInv'
  <2>1. PICK E : E = Append(envelopes, e)
    OBVIOUS
  <2>2. PICK n : n = Len(envelopes)
    OBVIOUS
  <2>3. /\ E \in Seq(U \cup {e}) /\ DOMAIN E = 1 .. n + 1 /\ n \in Nat /\ DOMAIN envelopes = 1 .. n
        /\ E[n + 1] = e /\ \A j \in 1 .. n : E[j] = envelopes[j]
    BY <1>1, <2>1, <2>2
  <2>4. ASSUME NEW j \in 1 .. n + 1 PROVE IsEnvelope(E[j])
    <3>1. j \in 1 .. n \/ j = n + 1
      BY <2>3
    <3> QED
      BY <2>3, <3>1, SignedFacts DEF EnvelopeInv, CarriedInv
  <2> QED
    BY <1>2, <1>3, <2>1, <2>3, <2>4
<1>4. ASSUME NEW j \in DOMAIN envelopes, NEW e \in Relabelled(envelopes[j]),
             EditEnvelopes([envelopes EXCEPT ![j] = e])
      PROVE  EnvelopeInv'
  <2>1. PICK E : E = [envelopes EXCEPT ![j] = e]
    OBVIOUS
  <2>2. E \in Seq(U \cup {e}) /\ DOMAIN E = DOMAIN envelopes
    BY <1>1, <2>1
  <2>3. IsEnvelope(e)
    BY RelabelFacts DEF EnvelopeInv, CarriedInv
  <2>4. ASSUME NEW k \in DOMAIN E PROVE IsEnvelope(E[k])
    BY <2>1, <2>2, <2>3 DEF EnvelopeInv, CarriedInv
  <2> QED
    BY <1>2, <1>4, <2>1, <2>2, <2>4
<1> QED
  BY <1>3, <1>4 DEF EnvelopeEditStep

\* What an export is given is a sequence of signed envelopes.
LEMMA SequenceFacts ==
    ASSUME EnvelopeInv, NEW E \in EnvelopeSequences
    PROVE  (\E U : E \in Seq(U)) /\ \A j \in DOMAIN E : E[j] \in Signed
<1>1. PICK F \in SUBSET Signed : E = SetToSeq(F)
  BY DEF EnvelopeSequences
<1>2. IsFiniteSet(Signed)
  <2>1. PICK f : f = [o \in observed |-> o.envelope]
    OBVIOUS
  <2>2. f \in Surjection(observed, Signed)
    BY <2>1 DEF Surjection, Signed
  <2> QED
    BY <2>2, FS_Surjection DEF EnvelopeInv, ObservedInv
<1>3. IsFiniteSet(F)
  BY <1>2, FS_Subset
<1>4. Cardinality(F) \in Nat /\ ExistsBijection(1 .. Cardinality(F), F)
  BY <1>3, FS_CardinalityType
<1>5. \E f \in [1 .. Cardinality(F) -> F] : IsInjective(f)
  BY <1>4 DEF ExistsBijection, Bijection, Injection
<1>6. E \in [1 .. Cardinality(F) -> F]
  BY <1>1, <1>5 DEF SetToSeq
<1>7. PICK n \in Nat : n = Cardinality(F)
  BY <1>4
<1>8. E \in Seq(F) /\ DOMAIN E = 1 .. n
  BY <1>6, <1>7
<1> QED
  BY <1>6, <1>7, <1>8

\* An export takes the entries as they are, unless it takes no envelopes.
LEMMA ExportWithKeeps ==
    ASSUME EnvelopeInv, BundleInv', NEW redact \in BOOLEAN, NEW E \in EnvelopeSequences,
           ExportWith(redact, E)
    PROVE  EnvelopeInv'
<1>1. envelopes' = E /\ observed' = observed
  BY DEF ExportWith
<1>2. ObservedInv'
  BY <1>1 DEF EnvelopeInv, ObservedInv
<1>3. CarriedInv'
  <2>1. \A j \in DOMAIN E : IsEnvelope(E[j])
    BY SequenceFacts, SignedFacts
  <2>2. \E U : E \in Seq(U)
    BY SequenceFacts
  <2> QED
    BY <1>1, <2>1, <2>2 DEF CarriedInv, IsEnvelope
<1>4. ASSUME NEW L, Ship(L, redact), fitting' = Fits(L, E) PROVE FittingInv'
  <2>1. CASE redact
    <3>1. E = <<>>
      BY <2>1 DEF ExportWith
    <3>2. DOMAIN E = {}
      BY <3>1
    <3> QED
      BY <1>1, <3>2 DEF FittingInv, Fits
  <2>2. CASE ~redact
    <3>1. bundle'.entries = L
      BY <1>4, <2>2 DEF Ship, ExportBundle, Exported
    <3> QED
      BY <1>1, <1>4, <3>1 DEF FittingInv, Fits
  <2> QED
    BY <2>1, <2>2
<1>5. FittingInv'
  BY <1>4 DEF ExportWith, Export, ExportAgain
<1> QED
  BY <1>2, <1>3, <1>5 DEF EnvelopeInv

\* Every step of the system keeps the invariant of the envelopes.
LEMMA EnvelopeKeeps ==
    ASSUME EnvelopeInv, BundleInv', [EnvelopeNext]_<<bundleVars, envelopeVars>>
    PROVE  EnvelopeInv'
<1>1. ASSUME UNCHANGED envelopeVars PROVE ObservedInv' /\ CarriedInv'
  BY <1>1, CarriedStays DEF EnvelopeInv, ObservedInv, envelopeVars
<1>2. ASSUME UNCHANGED <<bundle, honest, edits>>, UNCHANGED envelopeVars PROVE EnvelopeInv'
  BY <1>1, <1>2, FittingStays DEF EnvelopeInv, envelopeVars
<1>3. CASE UNCHANGED <<bundleVars, envelopeVars>>
  BY <1>2, <1>3 DEF bundleVars
<1>4. CASE LedgerStep /\ UNCHANGED envelopeVars
  BY <1>2, <1>4 DEF LedgerStep, Log, AnchorLog
<1>5. CASE EditStep /\ UNCHANGED envelopeVars
  BY <1>1, <1>5, EditStepEdits, EditEnds DEF EnvelopeInv
<1>6. CASE EnvelopeEditStep
  BY <1>6, EnvelopeEditKeeps
<1>7. CASE WitnessStep
  BY <1>7, WitnessStepKeeps
<1>8. CASE \E redact \in BOOLEAN, E \in EnvelopeSequences : ExportWith(redact, E)
  BY <1>8, ExportWithKeeps
<1> QED
  BY <1>3, <1>4, <1>5, <1>6, <1>7, <1>8 DEF EnvelopeNext

\* It holds in every state.
LEMMA EnvelopeAlways == EnvelopeSpec => []EnvelopeInv
<1>1. EnvelopeInit => EnvelopeInv
  BY EnvelopeInitially
<1>2. EnvelopeInv /\ [EnvelopeNext]_<<bundleVars, envelopeVars>> => BundleInv'
  BY BundleKeeps DEF EnvelopeInv
<1>3. EnvelopeInv /\ BundleInv' /\ [EnvelopeNext]_<<bundleVars, envelopeVars>> => EnvelopeInv'
  BY EnvelopeKeeps
<1> QED
  BY <1>1, <1>2, <1>3, PTL DEF EnvelopeSpec

-----------------------------------------------------------------------------
(* What the verifier reports *)

\* An entry is reported as witnessed only if the holder of the trusted key, under
\* the reported name, signed over a ledger that is the bundle's up to that entry:
\* no edit of entries or of envelopes can make one up.
THEOREM WitnessedWereObserved == EnvelopeSpec => []WitnessedEntriesWereObserved
<1>1. ASSUME EnvelopeInv, NEW trust, NEW now,
             NEW i \in Witnessed(bundle.entries, envelopes, trust, now)
      PROVE  \E o \in observed :
                /\ Len(o.over) = i
                /\ SameUpToHash(o.over, bundle.entries)
                /\ o.envelope.kid \in TrustedKids(trust, now)
                /\ o.envelope.sig.key = trust.rows[o.envelope.kid].key
  <2>1. PICK L : L = bundle.entries
    OBVIOUS
  <2>2. IsLedger(L) /\ Len(L) \in Nat /\ DOMAIN L = 1 .. Len(L)
    BY <1>1, <2>1, LedgerLen DEF EnvelopeInv, BundleInv, BundleShape, IsLedger
  <2>3. PICK j \in DOMAIN envelopes : Verifying(L, envelopes, trust, now, j, i)
    BY <1>1, <2>1 DEF Witnessed
  <2>4. i \in DOMAIN L
    BY <1>1, <2>1 DEF Witnessed
  <2>5. PICK e : e = envelopes[j]
    OBVIOUS
  <2>6. IsEnvelope(e)
    BY <1>1, <2>5 DEF EnvelopeInv, CarriedInv
  <2>7. /\ e.v = ThisVersion /\ e.subject.hash = RecomputedHashes(L)[i]
        /\ e.kid \in TrustedKids(trust, now)
        /\ e.sig = [key |-> trust.rows[e.kid].key, over |-> <<e.v, e.subject, e.kid>>]
    BY <2>3, <2>5 DEF Verifying, Claims, Binds, SignedBy, SigningInput
  <2>8. PICK o \in observed : o.envelope.sig = e.sig
    BY <2>6 DEF IsEnvelope
  <2>9. PICK M : M = o.over
    OBVIOUS
  <2>10. PICK s : s = LastSubject(M)
    OBVIOUS
  <2>11. /\ IsLedger(M) /\ Len(M) \in Nat \ {0}
         /\ o.envelope = [v |-> ThisVersion, subject |-> s, kid |-> o.envelope.kid,
                          sig |-> [key |-> o.envelope.sig.key,
                                   over |-> <<ThisVersion, s, o.envelope.kid>>]]
    BY <1>1, <2>9, <2>10 DEF EnvelopeInv, ObservedInv, IsObservation
  <2>12. o.envelope.sig.over = <<ThisVersion, s, o.envelope.kid>>
    BY <2>11
  <2>13. s = e.subject /\ o.envelope.kid = e.kid /\ o.envelope.sig.key = trust.rows[e.kid].key
    BY <2>7, <2>8, <2>12
  <2>14. RecomputedHashes(M)[Len(M)] = RecomputedHashes(L)[i]
    BY <2>7, <2>10, <2>13 DEF LastSubject
  <2>15. PICK m : m = Len(M)
    OBVIOUS
  <2>16. m \in 1 .. Len(M) /\ i \in 1 .. Len(L) /\ DOMAIN M = 1 .. m
    BY <2>2, <2>4, <2>11, <2>15, LedgerLen DEF IsLedger
  <2>17. m = i /\ \A k \in 1 .. m :
            L[k].seq = M[k].seq /\ L[k].body = M[k].body /\ L[k].prev = M[k].prev
    <3>1. /\ Len(M) \in Nat /\ Len(L) \in Nat /\ m \in 1 .. Len(M) /\ i \in 1 .. Len(L)
          /\ RecomputedHashes(M)[m] = RecomputedHashes(L)[i]
      BY <2>2, <2>11, <2>14, <2>15, <2>16
    <3>2. m = i
      BY <3>1, WalksMeet
    <3>3. \A k \in 1 .. m :
            M[k].seq = L[k].seq /\ M[k].body = L[k].body /\ M[k].prev = L[k].prev
      BY <3>1, WalksMeet
    <3> QED
      BY <3>2, <3>3
  <2>18. Len(o.over) = i /\ SameUpToHash(o.over, bundle.entries)
    BY <2>1, <2>9, <2>15, <2>16, <2>17 DEF SameUpToHash
  <2> QED
    BY <2>7, <2>13, <2>18
<1>2. EnvelopeInv => WitnessedEntriesWereObserved
  BY <1>1 DEF WitnessedEntriesWereObserved
<1> QED
  BY <1>2, EnvelopeAlways, PTL

\* In a ledger that verifies, a seq is a position.
LEMMA SeqIsPosition ==
    ASSUME NEW L, IsLedger(L), ChainVerifies(L), NEW m \in 1 .. Len(L)
    PROVE  L[m].seq = m - 1 /\ CoveredBy(L, L[m].seq) = m
<1>1. PICK n : n = Len(L)
  OBVIOUS
<1>2. n \in Nat /\ DOMAIN L = 1 .. n /\ m \in 1 .. n
  BY <1>1, LedgerLen DEF IsLedger
<1>3. \A i \in 1 .. n : L[i].seq = i - 1
  BY <1>1, VerifiesMeans DEF IsLedger, Continues
<1>4. PICK i : i = CoveredBy(L, L[m].seq)
  OBVIOUS
<1>5. i \in DOMAIN L /\ L[i].seq = L[m].seq
  BY <1>2, <1>4, CoveredFacts
<1>6. i \in 1 .. n /\ i - 1 = m - 1
  BY <1>2, <1>3, <1>5
<1>7. i = m
  BY <1>2, <1>6
<1> QED
  BY <1>2, <1>3, <1>4, <1>7

\* Envelopes signed over the entries that are exported verify on the bundle as it
\* ships, in any number, for whoever trusts their keys.
THEOREM FittingEnvelopesVerify == EnvelopeSpec => []HonestEnvelopesVerify
<1>1. ASSUME EnvelopeInv, NEW trust, NEW now, bundle # NoBundle, honest, edits = 0, fitting,
             \A j \in DOMAIN envelopes :
                /\ envelopes[j].kid \in TrustedKids(trust, now)
                /\ envelopes[j].sig.key = trust.rows[envelopes[j].kid].key
      PROVE  EnvelopesVerify(bundle.entries, envelopes, trust, now)
  <2>1. PICK L : L = bundle.entries
    OBVIOUS
  <2>2. PICK E : E = envelopes
    OBVIOUS
  <2>3. IsLedger(L) /\ ChainVerifies(L) /\ Len(L) \in Nat
    BY <1>1, <2>1, LedgerLen DEF EnvelopeInv, BundleInv, BundleShape, IsLedger,
                                 UneditedBundlesVerify, Accepts, VerifyAnchor
  <2>4. Fits(L, E) /\ DOMAIN E \in SUBSET Nat
    <3>1. DOMAIN E \in SUBSET Nat
      BY <1>1, <2>2 DEF EnvelopeInv, CarriedInv
    <3> QED
      BY <1>1, <2>1, <2>2, <3>1 DEF EnvelopeInv, FittingInv
  \* Each covers the last entry that its witness was shown.
  <2>5. ASSUME NEW j \in DOMAIN E
        PROVE  \E m \in 1 .. Len(L) :
                  /\ CoveredBy(L, E[j].subject.seq) = m /\ HasSubject(L[m])
                  /\ E[j].v = ThisVersion /\ SignedBy(E[j], E[j].sig.key)
                  /\ E[j].subject = [chain |-> L[m].body.chain, seq |-> L[m].seq,
                                     hash |-> RecomputedHashes(L)[m]]
    <3>1. PICK o \in observed :
             o.envelope = E[j] /\ Len(o.over) <= Len(L) /\ SubSeq(L, 1, Len(o.over)) = o.over
      BY <2>4 DEF Fits
    <3>2. PICK M : M = o.over
      OBVIOUS
    <3>3. PICK m : m = Len(M)
      OBVIOUS
    <3>4. PICK s : s = LastSubject(M)
      OBVIOUS
    <3>5. PICK e : e = E[j]
      OBVIOUS
    <3>6. /\ IsLedger(M) /\ m \in Nat \ {0} /\ HasSubject(M[m])
          /\ e = [v |-> ThisVersion, subject |-> s, kid |-> e.kid,
                  sig |-> [key |-> e.sig.key, over |-> <<ThisVersion, s, e.kid>>]]
      BY <1>1, <3>1, <3>2, <3>3, <3>4, <3>5 DEF EnvelopeInv, ObservedInv, IsObservation
    <3>7. m \in 0 .. Len(L) /\ m \in 1 .. Len(L) /\ M = SubSeq(L, 1, m) /\ m \in 1 .. m
      BY <2>3, <3>1, <3>2, <3>3, <3>6
    <3>8. \A k \in 1 .. m : M[k] = L[k]
      BY <2>3, <3>7, PrefixFacts
    <3>9. M[m] = L[m]
      BY <3>7, <3>8
    <3>10. RecomputedHashes(M)[m] = RecomputedHashes(L)[m]
      <4>1. m \in Nat /\ Len(M) \in Nat /\ m <= Len(M) /\ m <= Len(L)
        BY <2>3, <3>3, <3>6, <3>7
      <4> QED
        BY <2>3, <3>8, <4>1, PrefixHashes
    <3>11. s = [chain |-> L[m].body.chain, seq |-> L[m].seq, hash |-> RecomputedHashes(L)[m]]
      BY <3>3, <3>4, <3>9, <3>10 DEF LastSubject
    <3>12. e.v = ThisVersion /\ e.subject = s
      BY <3>6
    <3>13. s.seq = L[m].seq
      BY <3>11
    <3>14. CoveredBy(L, e.subject.seq) = m
      BY <2>3, <3>7, <3>12, <3>13, SeqIsPosition
    <3>15. SignedBy(e, e.sig.key)
      <4>1. e.sig = [key |-> e.sig.key, over |-> <<ThisVersion, s, e.kid>>]
        BY <3>6
      <4> QED
        BY <3>12, <4>1 DEF SignedBy, SigningInput
    <3> QED
      BY <3>5, <3>6, <3>7, <3>9, <3>11, <3>12, <3>14, <3>15
  <2>6. ASSUME NEW j \in DOMAIN E
        PROVE  Verifying(L, E, trust, now, j, CoveredBy(L, E[j].subject.seq))
    <3>1. PICK m \in 1 .. Len(L) :
             /\ CoveredBy(L, E[j].subject.seq) = m /\ HasSubject(L[m])
             /\ E[j].v = ThisVersion /\ SignedBy(E[j], E[j].sig.key)
             /\ E[j].subject = [chain |-> L[m].body.chain, seq |-> L[m].seq,
                                hash |-> RecomputedHashes(L)[m]]
      BY <2>5
    <3>2. ASSUME NEW k \in Claims(L, E, m) PROVE k = j
      <4>1. k \in DOMAIN E /\ CoveredBy(L, E[k].subject.seq) = m
        BY <3>2 DEF Claims
      <4>2. E[k].subject = [chain |-> L[m].body.chain, seq |-> L[m].seq,
                            hash |-> RecomputedHashes(L)[m]]
        BY <2>5, <4>1
      <4> QED
        BY <2>4, <3>1, <4>1, <4>2 DEF Fits
    <3>3. j \in Claims(L, E, m) /\ j \in Nat
      BY <2>4, <3>1 DEF Claims
    <3>4. \A k \in Claims(L, E, m) : j <= k
      BY <3>2, <3>3
    <3>5. PICK s : s = E[j].subject
      OBVIOUS
    <3>6. s.hash = RecomputedHashes(L)[m] /\ s.chain = L[m].body.chain
      BY <3>1, <3>5
    <3>7. Binds(L, m, E[j].subject)
      BY <3>1, <3>5, <3>6 DEF Binds
    <3>8. E[j].kid \in TrustedKids(trust, now) /\ SignedBy(E[j], trust.rows[E[j].kid].key)
      BY <1>1, <2>2, <3>1
    <3>9. m # 0
      BY <2>3
    <3> QED
      BY <3>1, <3>3, <3>4, <3>7, <3>8, <3>9 DEF Verifying
  <2> QED
    BY <2>1, <2>2, <2>6 DEF EnvelopesVerify
<1>2. EnvelopeInv => HonestEnvelopesVerify
  BY <1>1 DEF HonestEnvelopesVerify
<1> QED
  BY <1>2, EnvelopeAlways, PTL
=============================================================================
