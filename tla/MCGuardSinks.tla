----------------------------- MODULE MCGuardSinks -----------------------------
(***************************************************************************)
(* The instances of MCGuard with sinks that call back into the Guard.  The *)
(* hashes of parameters are compared and nothing else, so they are         *)
(* symmetric.                                                              *)
(***************************************************************************)
EXTENDS GuardSinks, MCGuard, TLC

CONSTANTS h1, h2        \* hashes of parameters

SomeParams == {NoParams, h1, h2}
HashSymmetry == Permutations({h1, h2})
=============================================================================
