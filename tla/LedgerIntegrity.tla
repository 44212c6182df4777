--------------------------- MODULE LedgerIntegrity ---------------------------
(***************************************************************************)
(* The hash chain of the ledger (src/src/audit.ts) and the signed anchor   *)
(* over its head.  SHA-256 is taken to be injective, so a hash is the      *)
(* tuple of what was hashed.  An entry is                                  *)
(*     [seq, body, prev, hash]                                             *)
(* where body stands for all the other fields; body.chain is its chain_id. *)
(***************************************************************************)
EXTENDS Integers, Sequences, SequencesExt

Genesis == <<>>         \* the hash before the first entry: 64 zeros

\* The payload hashed is the entry without its hash, so prev_hash is in it.
HashEntry(prev, entry) == <<prev, entry.seq, entry.body, entry.prev>>

\* The entry that append makes at a position, with its hash.
Sealed(seq, body, prev) ==
    LET payload == [seq |-> seq, body |-> body, prev |-> prev]
    IN  [seq |-> seq, body |-> body, prev |-> prev, hash |-> HashEntry(prev, payload)]

HeadHash(L) == IF L = <<>> THEN Genesis ELSE Last(L).hash
HeadSeq(L) == IF L = <<>> THEN -1 ELSE Last(L).seq

AppendEntry(L, body) == Append(L, Sealed(Len(L), body, HeadHash(L)))

-----------------------------------------------------------------------------
(* AuditLog.verify, and the walk that says where it stops *)

\* Mutant: an entry is asked for its own hash only.
ReproducesAlone(L, i) == L[i].hash = HashEntry(L[i].prev, L[i])

\* The entry at position i continues the chain before it.
Reproduces(L, i) ==
    LET prev == HeadHash(SubSeq(L, 1, i - 1))
    IN  /\ L[i].seq = i - 1
        /\ L[i].prev = prev
        /\ L[i].hash = HashEntry(prev, L[i])

ChainVerifies(L) == \A i \in DOMAIN L : Reproduces(L, i)

\* Mutant: the walk follows the links and recomputes nothing.
BreaksUnlinkedAt(L, i) ==
    L[i].seq # i - 1 \/ L[i].prev # HeadHash(SubSeq(L, 1, i - 1))

BreaksAt(L, i) ==
    LET prev == HeadHash(SubSeq(L, 1, i - 1))
    IN  \/ L[i].seq # i - 1
        \/ L[i].prev # prev
        \/ HashEntry(prev, L[i]) # L[i].hash

NoBreak == 0
IntegrityBreak(L) ==
    LET breaks == {i \in DOMAIN L : BreaksAt(L, i)}
    IN  IF breaks = {} THEN NoBreak
        ELSE CHOOSE i \in breaks : \A j \in breaks : i <= j

-----------------------------------------------------------------------------
(* Anchors.  A signature is not forged: VerifyAnchor takes the anchors that *)
(* the signer has signed.                                                   *)

NoChain == "null"
DefaultChain == "chain"     \* chainIdOf, of entries that name none

FirstChainId(L) ==
    LET named == {i \in DOMAIN L : L[i].body.chain # NoChain}
    IN  IF named = {} THEN NoChain
        ELSE L[CHOOSE i \in named : \A j \in named : i <= j].body.chain

ChainIdOf(L) == IF FirstChainId(L) = NoChain THEN DefaultChain ELSE FirstChainId(L)

\* AuditLog.anchor.
Anchor(L) == [chain |-> ChainIdOf(L), seq |-> HeadSeq(L), head |-> HeadHash(L)]

\* anchorFor: an empty ledger's head is the word, not the 64 zeros.
GenesisWord == <<"GENESIS">>
AnchorFor(L) ==
    [chain |-> ChainIdOf(L), seq |-> HeadSeq(L),
     head |-> IF L = <<>> THEN GenesisWord ELSE HeadHash(L)]

\* Mutant: the length is compared, and not the head.
VerifyAnchorLength(L, anchor, signed) ==
    /\ anchor \in signed
    /\ ChainVerifies(L)
    /\ anchor.seq = HeadSeq(L)

VerifyAnchor(L, anchor, signed) ==
    /\ anchor \in signed
    /\ ChainVerifies(L)
    /\ IF L = <<>> THEN anchor.seq = -1
       ELSE /\ anchor.chain = FirstChainId(L)
            /\ anchor.head = Last(L).hash
            /\ anchor.seq = Last(L).seq
=============================================================================
