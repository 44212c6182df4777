-------------------------- MODULE ObserverEnvelopes --------------------------
(***************************************************************************)
(* Observer envelopes (src/src/evidence.ts, envelope v1): a witness outside *)
(* the process signs the identity of one committed entry, the envelope     *)
(* travels beside the ledger in the bundle's file, and the verifier scores *)
(* it against a trust set of witness keys at a time of its own.            *)
(*                                                                         *)
(* A signature is the key and what it was made over; nobody makes one for  *)
(* a key that is not theirs.  Of an envelope's members the version, the    *)
(* subject and the kid are kept: the observed result and the algorithm     *)
(* decide nothing, and a member too many is a version of its own.          *)
(***************************************************************************)
EXTENDS EvidenceBundle

CONSTANTS
    Signers,        \* [key, kid]: who signs, and under which name
    Kids,           \* the names a file's envelope may be given
    TrustSets,      \* [rows : kid -> [key, until], until]
    Times,          \* the times a verifier may take
    MaxSignatures,  \* bound: anchors and envelopes signed
    MaxActs,        \* bound: signatures and edits
    MaxEnvelopes    \* bound: envelopes in a bundle

VARIABLES
    observed,   \* [envelope, over]: what was signed, and the entries up to it
    envelopes,  \* the bundle's member, in order
    fitting     \* they were given to the export of entries they were signed over

envelopeVars == <<observed, envelopes, fitting>>

Never == -1             \* no not_after
ThisVersion == 1

-----------------------------------------------------------------------------
(* The witness *)

\* recomputedHashes: the walk of AuditLog.verify; a stored hash is not read.
RecomputedHashes(L) ==
    LET hash[i \in 0 .. Len(L)] ==
            IF i = 0 THEN Genesis ELSE HashEntry(hash[i - 1], L[i])
    IN  hash

\* subjectIndex: where two entries share a seq the later one is covered.
CoveredBy(L, seq) ==
    LET named == {i \in DOMAIN L : L[i].seq = seq}
    IN  IF named = {} THEN 0 ELSE CHOOSE i \in named : \A j \in named : j <= i

\* v1 has a subject for spawn and allow, and for no other event.  The entries
\* that carry a task are the spawns.
HasSubject(entry) == entry.body.task # <<>>

EnvelopeSubject(L, seq) ==
    LET i == CoveredBy(L, seq)
    IN  [chain |-> L[i].body.chain, seq |-> seq, hash |-> RecomputedHashes(L)[i]]

\* The bytes signed: the envelope without its sig.
SigningInput(envelope) == <<envelope.v, envelope.subject, envelope.kid>>

SignEnvelope(L, seq, signer) ==
    LET subject == EnvelopeSubject(L, seq)
    IN  [v |-> ThisVersion, subject |-> subject, kid |-> signer.kid,
         sig |-> [key |-> signer.key, over |-> <<ThisVersion, subject, signer.kid>>]]

-----------------------------------------------------------------------------
(* The verifier: verifyEnvelopes *)

ExpiredBy(until, now) == until # Never /\ until <= now

\* trustedWitnesses: a row that has expired is left out, and every row is when
\* the set has.
TrustedKids(trust, now) ==
    {kid \in DOMAIN trust.rows :
        ~ExpiredBy(trust.rows[kid].until, now) /\ ~ExpiredBy(trust.until, now)}

\* An envelope claims its entry as soon as its subject names one, whether or
\* not the rest of it is sound.
Claims(L, E, i) ==
    {j \in DOMAIN E : E[j].v = ThisVersion /\ CoveredBy(L, E[j].subject.seq) = i}

\* Mutant: the entry's stored hash is believed.
BindsStored(L, i, subject) ==
    /\ subject.hash = L[i].hash
    /\ HasSubject(L[i])
    /\ subject.chain = L[i].body.chain

Binds(L, i, subject) ==
    /\ subject.hash = RecomputedHashes(L)[i]
    /\ HasSubject(L[i])
    /\ subject.chain = L[i].body.chain

SignedBy(envelope, key) == envelope.sig = [key |-> key, over |-> SigningInput(envelope)]

\* scoreEnvelope: the j-th envelope verifies for the entry at i.
Verifying(L, E, trust, now, j, i) ==
    /\ i # 0
    /\ j \in Claims(L, E, i) /\ \A k \in Claims(L, E, i) : j <= k
    /\ Binds(L, i, E[j].subject)
    /\ E[j].kid \in TrustedKids(trust, now)
    /\ SignedBy(E[j], trust.rows[E[j].kid].key)

\* scoreEnvelopes: witnesses, from the entry's position to the kid.  An entry
\* two envelopes name is not in it.
Witnessed(L, E, trust, now) ==
    {i \in DOMAIN L :
        \E j \in DOMAIN E : Verifying(L, E, trust, now, j, i) /\ Claims(L, E, i) = {j}}

EnvelopesVerify(L, E, trust, now) ==
    \A j \in DOMAIN E :
        Verifying(L, E, trust, now, j, CoveredBy(L, E[j].subject.seq))

-----------------------------------------------------------------------------
(* The system *)

EnvelopeInit ==
    /\ BundleInit
    /\ observed = {}
    /\ envelopes = <<>>
    /\ fitting = TRUE

\* A witness signs over the ledger it is shown: the log's, or a bundle's as it
\* will ship.
Witness(L, seq, signer) ==
    /\ Cardinality(observed) + 1 < MaxSignatures     \* one is the export's
    /\ CoveredBy(L, seq) # 0 /\ HasSubject(L[CoveredBy(L, seq)])
    /\ observed' = observed \cup
          {[envelope |-> SignEnvelope(L, seq, signer), over |-> SubSeq(L, 1, CoveredBy(L, seq))]}
    /\ UNCHANGED <<bundleVars, envelopes, fitting>>

Signed == {o.envelope : o \in observed}

\* Each was signed over a ledger that the exported one continues, by a signer
\* of its own name, and no two over one entry.
Fits(L, E) ==
    /\ \A j \in DOMAIN E : \E o \in observed :
          o.envelope = E[j] /\ Len(o.over) <= Len(L) /\ SubSeq(L, 1, Len(o.over)) = o.over
    /\ \A j, k \in DOMAIN E : j # k => E[j].subject # E[k].subject

\* Mutant: the entries are redacted under the envelopes.
ExportRedacted(redact, E) ==
    /\ \/ \E c \in Chains : Export(c, redact) /\ fitting' = Fits(logs[c], E)
       \/ ExportAgain(redact) /\ fitting' = Fits(bundle.entries, E)
    /\ envelopes' = E
    /\ UNCHANGED observed

\* exportBundle refuses to redact and to carry envelopes in one call.
ExportWith(redact, E) ==
    /\ redact => E = <<>>
    /\ \/ \E c \in Chains : Export(c, redact) /\ fitting' = Fits(logs[c], E)
       \/ ExportAgain(redact) /\ fitting' = Fits(bundle.entries, E)
    /\ envelopes' = E
    /\ UNCHANGED observed

EditEnvelopes(E) ==
    /\ Len(E) <= MaxEnvelopes
    /\ Edit(bundle) /\ UNCHANGED rehashed
    /\ envelopes' = E
    /\ UNCHANGED <<observed, fitting>>

Relabelled(envelope) ==
    {[envelope EXCEPT !.kid = kid] : kid \in Kids}
    \cup {[envelope EXCEPT !.subject.seq = i - 1] : i \in DOMAIN bundle.entries}
    \cup {[envelope EXCEPT !.v = ThisVersion + 1]}

\* Their order decides nothing but which of two claims is called the duplicate.
EnvelopeSequences == {SetToSeq(E) : E \in {F \in SUBSET Signed : Cardinality(F) <= MaxEnvelopes}}

Signatures == Cardinality(signed) + Cardinality(observed)
RoomToAct == Signatures + edits < MaxActs
RoomToSign == RoomToAct /\ Signatures < MaxSignatures

WitnessStep ==
    \E signer \in Signers, seq \in 0 .. MaxEntries - 1 :
        \/ edits = 0 /\ Witness(bundle.entries, seq, signer)
        \/ \E c \in Chains : Witness(logs[c], seq, signer)

EnvelopeEditStep ==
    \/ \E e \in Signed : EditEnvelopes(Append(envelopes, e))
    \/ \E j \in DOMAIN envelopes : \E e \in Relabelled(envelopes[j]) :
          EditEnvelopes([envelopes EXCEPT ![j] = e])

EnvelopeNext ==
    /\ \/ LedgerStep /\ UNCHANGED envelopeVars
       \/ RoomToAct /\ EditStep /\ UNCHANGED envelopeVars
       \/ RoomToAct /\ EnvelopeEditStep
       \/ RoomToSign /\ WitnessStep
       \/ \E redact \in BOOLEAN, E \in EnvelopeSequences : ExportWith(redact, E)
    \* an anchor or an export may also sign over what has been signed before
    /\ Signatures' <= MaxSignatures /\ Signatures' + edits' <= MaxActs

EnvelopeSpec == EnvelopeInit /\ [][EnvelopeNext]_<<bundleVars, envelopeVars>>
-----------------------------------------------------------------------------
(* Properties *)

\* What the verifier reports as witnessed was: the holder of the key that the
\* trust set gives the reported kid, unexpired, signed that kid over a ledger
\* that is, up to the entry, the bundle's.  Entries reworded, moved, rehashed
\* or renumbered since, relabelled envelopes and lapsed keys are not witnessed.
SameUpToHash(L, M) == \A i \in DOMAIN L :
    L[i].seq = M[i].seq /\ L[i].body = M[i].body /\ L[i].prev = M[i].prev

WitnessedEntriesWereObserved ==
    \A trust \in TrustSets, now \in Times :
        \A i \in Witnessed(bundle.entries, envelopes, trust, now) :
            \E o \in observed :
                /\ Len(o.over) = i
                /\ SameUpToHash(o.over, bundle.entries)
                /\ o.envelope.kid \in TrustedKids(trust, now)
                /\ o.envelope.sig.key = trust.rows[o.envelope.kid].key

\* Envelopes that were signed over the entries given to the export verify on
\* the bundle as it ships, wherever the keys are trusted.
HonestEnvelopesVerify ==
    \A trust \in TrustSets, now \in Times :
        bundle # NoBundle /\ honest /\ edits = 0 /\ fitting
        /\ (\A j \in DOMAIN envelopes :
                /\ envelopes[j].kid \in TrustedKids(trust, now)
                /\ envelopes[j].sig.key = trust.rows[envelopes[j].kid].key)
        => EnvelopesVerify(bundle.entries, envelopes, trust, now)
=============================================================================
