-------------------------- MODULE MCDelegationChain --------------------------
(***************************************************************************)
(* Instances of DelegationChain: trees of four nodes under a request that  *)
(* is narrower and one that is wider than the root, while time passes and  *)
(* authorities are overwritten.                                            *)
(***************************************************************************)
EXTENDS DelegationChain, TLC

CONSTANTS lead, helper

MCAgents == {lead, helper}
AgentSymmetry == Permutations(MCAgents)

Crm == <<"crm", "*">>
Read == <<"crm", "read">>
Rows(n) == [k \in {"max_rows"} |-> Max("rows", n, EverySc)]

Wide == AuthorityOf({Crm}, Rows(2), 1)
Wider == AuthorityOf({Crm}, Rows(3), NoTtl)
Brief == AuthorityOf({Read}, Rows(1), 0)
MCRootAuthorities == {Wide}
MCRequests == {Brief, Wider}
MCStray == {Wider}
=============================================================================
