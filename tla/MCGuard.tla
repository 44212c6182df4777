------------------------------- MODULE MCGuard -------------------------------
(***************************************************************************)
(* Instances of Guard.  One configuration per question, each with just the *)
(* inputs that question turns on:                                          *)
(*   GuardLedger    call limits, strict metering, time, stray mutation     *)
(*   GuardTree      three levels, kills and strikes                        *)
(*   GuardBinding   version 2: captures, outcomes, completion, kills,      *)
(*                  an agent's name that no entry can hold                 *)
(* The last two are in MCGuardSinks, with sinks that call back.            *)
(***************************************************************************)
EXTENDS Guard

Crm == <<"crm", "*">>
Read == <<"crm", "read">>
Pay == <<"pay", "send">>

NoCeilings == [k \in {} |-> 0]
Rows(n) == [k \in {"max_rows"} |-> Max("rows", n, EverySc)]
\* So many calls in all, of them one within crm.*.
TwoLimits == {"max_calls", "max_calls[crm.*]"}
Limited(n) ==
    [k \in {"max_rows"} \cup TwoLimits |->
        CASE k = "max_rows"  -> Max("rows", 1, EverySc)
          [] k = "max_calls" -> Max("calls", n, EverySc)
          [] OTHER           -> Max("calls[crm.*]", 1, Crm)]

Narrow1 == AuthorityOf({Read}, Rows(1), NoTtl)
Plain == AuthorityOf({Crm}, NoCeilings, NoTtl)

NoContext == [f \in {} |-> 0]
RowsContext(n) == [f \in {"rows"} |-> Number(n)]
CallsContext(n) == [f \in {"rows", "calls"} |-> IF f = "rows" THEN Number(1) ELSE Number(n)]

None == {}
OneAgent == {"lead"}
OddAgent == {"odd"}
LeadAndOdd == {"lead", "odd"}

JustNarrow == {Narrow1}
JustPlain == {Plain}
LimitedRoots == {AuthorityOf({Crm, Pay}, Limited(2), 0)}
JustLimited == {AuthorityOf({Crm, Pay}, Limited(1), NoTtl)}
Widened == {AuthorityOf({Crm}, Rows(3), NoTtl)}

JustRead == {Read}
ReadAndPay == {Read, Pay}
Empty == {NoContext}
MeterContexts == {NoContext, RowsContext(1), CallsContext(2)}

PreHook == {PreHookOnly}
BothCaptures == {PreHookOnly, Wrapper}
NoneSent == {NoParams}
NoLimits == {}
=============================================================================
