------------------------- MODULE MCObserverEnvelopes -------------------------
(***************************************************************************)
(* Instances of ObserverEnvelopes: two chains of one signer, entries that  *)
(* may carry a task, and two holders of keys, one of which may sign under  *)
(* the other's name.                                                       *)
(***************************************************************************)
EXTENDS ObserverEnvelopes, TLC

CONSTANTS c1, c2

TwoChains == {c1, c2}
ChainSymmetry == Permutations(TwoChains)
SomeText == {<<"text">>}

OwnAndBorrowed == {[key |-> "w1", kid |-> "k1"], [key |-> "w2", kid |-> "k1"]}
TwoKids == {"k1", "k2"}
Row(key, until) == [key |-> key, until |-> until]
OneTrustSet ==
    {[rows |-> [kid \in TwoKids |-> IF kid = "k1" THEN Row("w1", 1) ELSE Row("w2", Never)],
      until |-> Never]}
EachTime == {0, 1}
=============================================================================
