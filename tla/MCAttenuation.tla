---------------------------- MODULE MCAttenuation ----------------------------
(***************************************************************************)
(* Instances of Attenuation.  Requests vary one dimension at a time (the   *)
(* dimensions of an authority do not interact), so their number is a sum   *)
(* and not a product; a path then combines dimensions across its steps.    *)
(***************************************************************************)
EXTENDS Attenuation, FiniteSets

AnyCrm == <<"crm", "*">>
AnyCrmEu == <<"crm", "eu", "*">>
CrmRead == <<"crm", "read">>
CrmEuRead == <<"crm", "eu", "read">>
CrmxRead == <<"crmx", "read">>

MCScopes == {AnyCrm, AnyCrmEu, CrmRead, CrmEuRead, CrmxRead}
MCCheckedScopes ==
    {CrmRead, CrmEuRead, CrmxRead, AnyCrm, <<"crm">>, <<"crm", "eu">>}

NoCeilings == [k \in {} |-> 0]
One(k, c) == [x \in {k} |-> c]
Two(k, c, l, d) == [x \in {k, l} |-> IF x = k THEN c ELSE d]

Eu == String(<<"eu">>)
Us == String(<<"us">>)

\* The ceilings a well-formed deployment reads one field with.
AgreeingCeilings ==
    {NoCeilings}
    \cup {One("max_rows", Max("rows", n, EverySc)) : n \in {1, 2}}
    \cup {One("max_calls[crm.*]", Max("calls[crm.*]", n, AnyCrm)) : n \in {0, 1}}
    \cup {One("egress", Egress(r)) : r \in 0 .. 2}
    \cup {One("region", Allow("region", S)) : S \in {{Eu}, {Eu, Us}, {Us, Number(1)}}}
    \cup {One("region", Deny("region", S)) : S \in {{Eu}, {Us}}}
    \cup {One("path", Prefix("path", p)) :
            p \in {<<>>, <<"tmp">>, <<"tmp", "a">>, <<"var">>}}
    \cup {One("region", Unknown(n)) : n \in {1, 2}}
    \cup {Two("max_rows", Max("rows", 1, EverySc), "region", Allow("region", {Eu}))}

MCRequests ==
    {AuthorityOf(S, NoCeilings, NoTtl) : S \in {T \in SUBSET MCScopes : Cardinality(T) \in 1 .. 2}}
    \cup {AuthorityOf({AnyCrm}, c, NoTtl) : c \in AgreeingCeilings}
    \cup {AuthorityOf({AnyCrm}, NoCeilings, t) : t \in {NoTtl, 1, 2}}

MCRoots ==
    {AuthorityOf(MCScopes, NoCeilings, NoTtl), AuthorityOf({AnyCrmEu, CrmxRead}, NoCeilings, 2)}
    \cup {AuthorityOf({AnyCrm}, c, 2) : c \in AgreeingCeilings}

\* One field, with every kind of value a ceiling may meet under it.
MCContexts ==
    {[f \in {} |-> 0]}
    \cup {[f \in {"rows"} |-> v] : v \in {Number(1), Number(2), Number(3), String(<<"1">>), NotScalar}}
    \cup {[f \in {"calls[crm.*]"} |-> Number(n)] : n \in 0 .. 2}
    \cup {[f \in {"egress"} |-> v] :
            v \in {String(<<l>>) : l \in {"none", "internal", "any", "lan"}} \cup {Number(0)}}
    \cup {[f \in {"region"} |-> v] : v \in {Eu, Us, Number(1), Number(2), NotScalar}}
    \cup {[f \in {"path"} |-> v] :
            v \in {String(<<>>), String(<<"tmp">>), String(<<"tmp", "a", "x">>), String(<<"var">>), Number(1)}}
    \cup {[f \in {"rows", "region"} |-> IF f = "rows" THEN Number(2) ELSE Eu]}

\* Two ceilings of one class and key that name different context fields.
MCFieldRequests ==
    {AuthorityOf({AnyCrm}, One("area", c), NoTtl) :
        c \in {Prefix(f, p) : f \in {"path", "region"}, p \in {<<"tmp">>, <<"tmp", "a">>, <<"eu">>}}}
=============================================================================
