--------------------------- MODULE EvidenceBundle ---------------------------
(***************************************************************************)
(* A ledger on its way to an auditor (src/src/evidence.ts, exportBundle    *)
(* and the integrity checks of verifyBundle).  Ledgers grow; an operator   *)
(* exports one, redacted or not, perhaps from the entries of an earlier    *)
(* bundle; an anchor may be kept apart; and the bundle's file is edited    *)
(* before anyone verifies it.                                              *)
(***************************************************************************)
EXTENDS LedgerIntegrity, FiniteSets

CONSTANTS
    Chains,         \* the chain ids in use
    Tasks,          \* the free texts entries carry; <<>> is none
    MaxEntries,     \* bound: entries of the ledgers together
    MaxSigned,      \* bound: anchors signed
    MaxEdits        \* bound: edits of one bundle

ASSUME BundleAssumption ==
    /\ Chains \cap {NoChain, DefaultChain} = {}
    /\ MaxEntries \in Nat /\ MaxSigned \in Nat /\ MaxEdits \in Nat

VARIABLES
    logs,       \* chain -> the entries of its AuditLog
    bundle,     \* the bundle in hand, or NoBundle
    signed,     \* [anchor, over]: what the signer signed, and over which entries
    retained,   \* the member of signed that the auditor kept, or NoAnchor
    shipped,    \* the entries as exportBundle returned them
    edits,      \* edits since
    rehashed,   \* one of them recomputed the hashes
    honest      \* nothing it was exported from had been edited

bundleVars == <<logs, bundle, signed, retained, shipped, edits, rehashed, honest>>

NoBundle == [chain |-> NoChain, entries |-> <<>>, anchor |-> Anchor(<<>>)]
NoAnchor == [anchor |-> Anchor(<<>>), over |-> <<>>]

Bodies == [chain : Chains, task : Tasks \cup {<<>>}]
Anchors == {s.anchor : s \in signed}

-----------------------------------------------------------------------------
(* exportBundle *)

\* A task that is there is replaced by a marker made from it.
Redact(task) == IF task = <<>> THEN task ELSE <<"redacted">> \o task
RedactTasks(L) == [i \in DOMAIN L |-> [L[i] EXCEPT !.body.task = Redact(@)]]

\* The loop that re-hashes the chain; seq is left as it is.
Rehash(L) ==
    LET hash[i \in 0 .. Len(L)] ==
            IF i = 0 THEN Genesis
            ELSE HashEntry(hash[i - 1], [L[i] EXCEPT !.prev = hash[i - 1]])
    IN  [i \in DOMAIN L |-> [L[i] EXCEPT !.prev = hash[i - 1], !.hash = hash[i]]]

\* Mutant: redaction leaves the hashes of the text it removed.
ExportStale(L, redact) == IF redact THEN RedactTasks(L) ELSE L

Exported(L, redact) == IF redact THEN Rehash(RedactTasks(L)) ELSE L

ExportBundle(L, redact) ==
    LET entries == Exported(L, redact)
    IN  [chain |-> ChainIdOf(entries), entries |-> entries, anchor |-> AnchorFor(entries)]

-----------------------------------------------------------------------------
(* verifyBundle, as far as it reads chain ids, hashes and anchors *)

SameChain(b) ==
    /\ \A i \in DOMAIN b.entries : b.entries[i].body.chain = b.chain
    /\ b.anchor.chain = b.chain

\* Mutant: the anchor kept apart is compared with the enclosed one.
MatchesEnclosed(b, expected) == expected = b.anchor

MatchesExpected(b, expected) ==
    /\ expected.seq = Len(b.entries) - 1
    /\ expected.head = HeadHash(b.entries)
    /\ expected.chain = b.chain

\* With the signer's key, and without any.
Accepts(b) == SameChain(b) /\ VerifyAnchor(b.entries, b.anchor, Anchors)
AcceptsAgainst(b, expected) ==
    SameChain(b) /\ ChainVerifies(b.entries) /\ MatchesExpected(b, expected)

-----------------------------------------------------------------------------
(* The operator *)

BundleInit ==
    /\ logs = [c \in Chains |-> <<>>]
    /\ bundle = NoBundle
    /\ signed = {}
    /\ retained = NoAnchor
    /\ shipped = <<>>
    /\ edits = 0
    /\ rehashed = FALSE
    /\ honest = TRUE

Log(c, task) ==
    /\ SumFunction([d \in Chains |-> Len(logs[d])]) < MaxEntries
    /\ logs' = [logs EXCEPT ![c] = AppendEntry(@, [chain |-> c, task |-> task])]
    /\ UNCHANGED <<bundle, signed, retained, shipped, edits, rehashed, honest>>

\* AuditLog.anchor: a commitment published apart from any bundle.
AnchorLog(c) ==
    /\ Cardinality(signed) < MaxSigned
    /\ LET commitment == [anchor |-> Anchor(logs[c]), over |-> logs[c]]
       IN  signed' = signed \cup {commitment} /\ retained' = commitment
    /\ UNCHANGED <<logs, bundle, shipped, edits, rehashed, honest>>

Ship(L, redact) ==
    LET made == ExportBundle(L, redact)
    IN  /\ Cardinality(signed) < MaxSigned
        /\ bundle' = made
        /\ signed' = signed \cup {[anchor |-> made.anchor, over |-> made.entries]}
        /\ shipped' = made.entries
        /\ edits' = 0
        /\ rehashed' = FALSE
        /\ UNCHANGED <<logs, retained>>

Export(c, redact) == Ship(logs[c], redact) /\ honest' = TRUE

\* exportBundle takes entries too, those of a bundle in hand as they are:
\* whoever holds the key signs over a rewritten ledger this way.
ExportAgain(redact) ==
    /\ bundle # NoBundle
    /\ Ship(bundle.entries, redact)
    /\ honest' = (honest /\ edits = 0)

-----------------------------------------------------------------------------
(* Edits of the bundle's file *)

Edit(b) ==
    /\ bundle # NoBundle
    /\ edits < MaxEdits
    /\ bundle' = b
    /\ edits' = edits + 1
    /\ UNCHANGED <<logs, signed, retained, shipped, honest>>

EditEntries(L) == Edit([bundle EXCEPT !.entries = L]) /\ UNCHANGED rehashed

Reword(i, body) ==
    /\ i \in DOMAIN bundle.entries
    /\ EditEntries([bundle.entries EXCEPT ![i].body = body])
Drop(i) ==
    /\ i \in DOMAIN bundle.entries
    /\ EditEntries(RemoveAt(bundle.entries, i))
SwapWithNext(i) ==
    /\ i \in DOMAIN bundle.entries /\ i + 1 \in DOMAIN bundle.entries
    /\ EditEntries([bundle.entries EXCEPT ![i] = bundle.entries[i + 1],
                                          ![i + 1] = bundle.entries[i]])

\* A consistent rewrite: positions and hashes are made good again.
Renumber(L) == [i \in DOMAIN L |-> [L[i] EXCEPT !.seq = i - 1]]
MakeConsistent ==
    /\ Edit([bundle EXCEPT !.entries = Rehash(Renumber(bundle.entries))])
    /\ rehashed' = TRUE

\* The anchor and the chain id are members of the same file.
ReplaceAnchor(a) == Edit([bundle EXCEPT !.anchor = a, !.chain = a.chain]) /\ UNCHANGED rehashed

LedgerStep ==
    \E c \in Chains :
        \/ \E task \in Tasks : Log(c, task)
        \/ AnchorLog(c)

ExportStep(redact) == (\E c \in Chains : Export(c, redact)) \/ ExportAgain(redact)

EditStep ==
    \/ \E i \in 1 .. MaxEntries :
          Drop(i) \/ SwapWithNext(i) \/ \E body \in Bodies : Reword(i, body)
    \/ MakeConsistent
    \/ \E a \in Anchors : ReplaceAnchor(a)

BundleNext == LedgerStep \/ (\E redact \in BOOLEAN : ExportStep(redact)) \/ EditStep

BundleSpec == BundleInit /\ [][BundleNext]_bundleVars
-----------------------------------------------------------------------------
(* Properties *)

\* A bundle no one edited is accepted, redacted or not, also when it was
\* exported from another bundle that verified.
UneditedBundlesVerify ==
    bundle # NoBundle /\ edits = 0 /\ honest => Accepts(bundle)

\* What is accepted is, entry for entry, what the anchor was signed over:
\* rewording, dropping, swapping, a rewrite whose hashes are consistent again,
\* and the anchor of an earlier or of another ledger are all refused.  (The
\* signer may sign over entries that are no chain: anchorFor reads the last.)
AnchorPinsEntries ==
    Accepts(bundle) =>
        \A s \in signed :
            s.anchor = bundle.anchor /\ ChainVerifies(s.over) => s.over = bundle.entries

\* The anchor kept apart decides without any key and whatever the bundle
\* encloses: not even the signer can rewrite the ledger and sign it again.
RetainedAnchorPinsEntries ==
    retained # NoAnchor /\ bundle # NoBundle =>
        (AcceptsAgainst(bundle, retained.anchor) => bundle.entries = retained.over)

\* Short of a recomputed chain, the break is reported at the first entry that
\* is not the one shipped; only a cut at the end shows no break.
BreakIsFirstDifference ==
    bundle # NoBundle /\ ChainVerifies(shipped) /\ ~rehashed =>
        LET differs == {i \in DOMAIN bundle.entries :
                          i \notin DOMAIN shipped \/ bundle.entries[i] # shipped[i]}
            first == IntegrityBreak(bundle.entries)
        IN  IF differs = {} THEN first = NoBreak
            ELSE first \in differs /\ \A i \in differs : first <= i
=============================================================================
