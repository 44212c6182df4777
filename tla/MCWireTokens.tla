---------------------------- MODULE MCWireTokens ----------------------------
(* Instances of WireTokens: claims under which each step of load decides.  *)
EXTENDS WireTokens

Crm == <<"crm", "*">>
Read == <<"crm", "read">>
Odd == <<"crm", "Read">>

Bound(key, ceiling) == [key |-> key, ceiling |-> ceiling]
Rows(n) == Bound("max_rows", Max("rows", n, EverySc))
AtLeast(n) == Bound("max_rows", Floor("rows", n))
CallsHeld(n) == Bound("max_calls", Lifetime("calls", n, EverySc))
CallsIn(n) == Bound("max_calls[crm.*]", Max("calls[crm.*]", n, Crm))
Rate == Bound("rate", Floor("rate", 1))
Egress01(n) == Bound("egress", Egress(n))
Egress02(n) == Bound("egress", Ranked("egress", n, EgressOrder))

RootClaims ==
    [kid |-> "root", scopes |-> {Crm}, constraints |-> {Rows(2)},
     iat |-> 0, exp |-> 2, nbf |-> NoNbf, maxDepth |-> 2, sub |-> "ann", aud |-> {"here"}]

Leaf1 == [RootClaims EXCEPT !.scopes = {Read}, !.constraints = {Rows(1)}, !.kid = "leaf",
                            !.maxDepth = NoBound, !.exp = 1]

MCClaims == [d \in {"01", "02"} |->
    IF d = "01" THEN
    { RootClaims, Leaf1,
      [RootClaims EXCEPT !.constraints = {Rows(2), Egress01(1), CallsIn(2)},
                         !.maxDepth = 3],
      [RootClaims EXCEPT !.constraints = {Rate}, !.nbf = 1],
      [RootClaims EXCEPT !.constraints = {Rows(2), AtLeast(1)}, !.exp = 1] }
    ELSE
    { [Leaf1 EXCEPT !.sub = "bob"],
      [RootClaims EXCEPT !.constraints = {Rows(2), AtLeast(1)}],
      [RootClaims EXCEPT !.constraints = {CallsHeld(1), Egress02(2)}, !.nbf = 1, !.maxDepth = 3],
      [RootClaims EXCEPT !.scopes = {Crm, Odd}, !.constraints = {}, !.aud = {"there"},
                         !.maxDepth = 3],
      [RootClaims EXCEPT !.constraints = {Rows(2), AtLeast(0)},
                         !.maxDepth = NoBound] }]

MCRequests == [d \in {"01", "02"} |->
    IF d = "01" THEN
    { [scopes |-> {Read}, constraints |-> {Rows(1)}, extra |-> 0],
      [scopes |-> {Crm}, constraints |-> {Rate, Egress01(2), CallsIn(1)}, extra |-> 1] }
    ELSE
    { [scopes |-> {Crm}, constraints |-> {AtLeast(0), Rows(3)}, extra |-> 1],
      [scopes |-> {Crm, Odd}, constraints |-> {CallsHeld(2), Egress02(1)}, extra |-> -1] }]

MCContexts == {[f \in {} |-> 0]} \cup {[f \in {"rows"} |-> Number(n)] : n \in 0 .. 2}
              \cup {[f \in {"calls[crm.*]"} |-> Number(2)]}
              \cup {[f \in {"egress"} |-> String(<<EgressOrder[2]>>)]}
MCTotals == {[f \in {} |-> 0], [f \in {"calls"} |-> Number(1)]}
MCScopes == {Read, Odd}
Both == {"01", "02"}
Roots == {"root"}
Points == {"here"}
Odds == {"Read"}
=============================================================================
