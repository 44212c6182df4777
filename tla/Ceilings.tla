------------------------------ MODULE Ceilings ------------------------------
(***************************************************************************)
(* The typed bounds an authority holds (src/src/ceilings.ts) and the scope *)
(* covering relation (src/src/authority.ts, scopeCovers), under the        *)
(* default draft -01 profile.                                              *)
(*                                                                         *)
(* A scope is the sequence of its dotted segments; a terminal wildcard is  *)
(* the segment "*".  A request context maps the fields it declares to      *)
(* JSON values; a field it does not declare (or declares as null) is not   *)
(* in its domain.  A JSON value is a record tagged with its kind, because  *)
(* every ceiling first asks for the kind (wrongKind) and refuses another.  *)
(*                                                                         *)
(* The numeric classes RowLimit, SpendCap and CallLimit have one meaning   *)
(* under different keys, and the key never lets two of them meet, so one   *)
(* type "Max" stands for the three.  appliesTo is <<>> for the unscoped.   *)
(***************************************************************************)
EXTENDS Integers, Sequences

Wildcard == "*"
EverySc == <<>>     \* a CallLimit without appliesTo
NUL == "NUL"         \* the U+0000 that joins two incomparable prefixes

EgressOrder == <<"none", "internal", "any">>

\* JSON values: a number, a string (a sequence of chunks), anything else.
Number(n) == [kind |-> "number", num |-> n]
String(s) == [kind |-> "string", str |-> s]
NotScalar == [kind |-> "object"]

-----------------------------------------------------------------------------
(* Scopes *)

IsWildcard(scope) == scope[Len(scope)] = Wildcard

\* String.startsWith, over the chunks of a string or the segments of a scope.
StartsWith(s, p) ==
    /\ Len(p) <= Len(s)
    /\ \A i \in 1 .. Len(p) : s[i] = p[i]

\* An exact match, or a terminal `x.*` at the retained dot boundary: `crm.*`
\* covers `crm.read` and `crm.eu.*`, and not bare `crm`.
Covers(held, requested) ==
    \/ held = requested
    \/ /\ IsWildcard(held)
       /\ Len(held) <= Len(requested)
       /\ \A i \in 1 .. Len(held) - 1 : requested[i] = held[i]

-----------------------------------------------------------------------------
(* Constructors, one per class. *)

Max(field, max, appliesTo) ==
    [type |-> "Max", field |-> field, max |-> max, appliesTo |-> appliesTo]
Egress(rank) == [type |-> "EgressRank", field |-> "egress", rank |-> rank]
Allow(field, oneOf) == [type |-> "Allow", field |-> field, oneOf |-> oneOf]
Deny(field, notOneOf) ==
    [type |-> "Deny", field |-> field, notOneOf |-> notOneOf]
Prefix(field, prefix) ==
    [type |-> "Prefix", field |-> field, prefix |-> prefix]
Unknown(raw) == [type |-> "Unknown", raw |-> raw]

SameType(a, b) == a.type = b.type

\* NUL is a string too: naming it spares the proofs a theory of literals.
Chunk == STRING \cup {NUL}

Scope == {s \in Seq(STRING) : s # <<>>}
JsonValue == [kind : {"number"}, num : Int]
             \cup [kind : {"string"}, str : Seq(Chunk)]
             \cup [kind : {"object"}]

MaxType == [type : {"Max"}, field : STRING, max : Int, appliesTo : Seq(STRING)]
EgressType == [type : {"EgressRank"}, field : {"egress"}, rank : 0 .. 2]
AllowType == [type : {"Allow"}, field : STRING, oneOf : SUBSET JsonValue]
DenyType == [type : {"Deny"}, field : STRING, notOneOf : SUBSET JsonValue]
PrefixType == [type : {"Prefix"}, field : STRING, prefix : Seq(Chunk)]
UnknownType == [type : {"Unknown"}, raw : Nat]

CeilingType == MaxType \cup EgressType \cup AllowType \cup DenyType
               \cup PrefixType \cup UnknownType

\* A rank outside the vocabulary ranks above every level, so it is refused.
EgressRankOf(v) ==
    CASE v = String(<<EgressOrder[1]>>) -> 0
      [] v = String(<<EgressOrder[2]>>) -> 1
      [] v = String(<<EgressOrder[3]>>) -> 2
      [] OTHER -> 3

AppliesToScope(c, scope) == c.appliesTo = EverySc \/ Covers(c.appliesTo, scope)

-----------------------------------------------------------------------------
(* permits(ctx): a bound whose field the context leaves out is satisfied.  *)

AdmitsValue(c, v) ==
    CASE c.type = "Max"        -> v.kind = "number" /\ v.num <= c.max
      [] c.type = "EgressRank" -> v.kind = "string" /\ EgressRankOf(v) <= c.rank
      [] c.type = "Allow"      -> v.kind # "object" /\ v \in c.oneOf
      [] c.type = "Deny"       -> v.kind # "object" /\ v \notin c.notOneOf
      [] c.type = "Prefix"     -> v.kind = "string" /\ StartsWith(v.str, c.prefix)

Bounds(c, scope, ctx) ==
    /\ c.type = "Max" => AppliesToScope(c, scope)
    /\ c.field \in DOMAIN ctx

Admits(c, scope, ctx) ==
    /\ c.type # "Unknown"
    /\ Bounds(c, scope, ctx) => AdmitsValue(c, ctx[c.field])

Min2(m, n) == IF m <= n THEN m ELSE n

\* narrow(other), defined for two ceilings of one class.  Every class but
\* Prefix rebuilds itself, keeping its own field; Prefix hands back whichever
\* of the two objects carries the longer prefix.
\* Mutant: incomparable prefixes fall back to the other side's.
NarrowPrefixToOther(a, b) == IF StartsWith(a.prefix, b.prefix) THEN a ELSE b

NarrowPrefix(a, b) ==
    CASE StartsWith(a.prefix, b.prefix) -> a
      [] ~StartsWith(a.prefix, b.prefix) /\ StartsWith(b.prefix, a.prefix) -> b
      [] OTHER -> [a EXCEPT !.prefix = a.prefix \o <<NUL>> \o b.prefix]

Narrow(a, b) ==
    CASE a.type = "Max"        -> [a EXCEPT !.max = Min2(a.max, b.max)]
      [] a.type = "EgressRank" -> [a EXCEPT !.rank = Min2(a.rank, b.rank)]
      [] a.type = "Allow"      -> [a EXCEPT !.oneOf = a.oneOf \cap b.oneOf]
      [] a.type = "Deny"       -> [a EXCEPT !.notOneOf = a.notOneOf \cup b.notOneOf]
      [] a.type = "Prefix"     -> NarrowPrefix(a, b)
      [] a.type = "Unknown"    -> a

\* Mutant: the deny lists compared the wrong way round.
SubsumesDenyReversed(a, b) ==
    /\ SameType(a, b)
    /\ a.type = "Deny" => b.notOneOf \subseteq a.notOneOf
    /\ a.type = "Max" => b.max <= a.max

\* subsumes(other): a admits everything b admits.
Subsumes(a, b) ==
    /\ SameType(a, b)
    /\ CASE a.type = "Max"        -> b.max <= a.max
         [] a.type = "EgressRank" -> b.rank <= a.rank
         [] a.type = "Allow"      -> b.oneOf \subseteq a.oneOf
         [] a.type = "Deny"       -> a.notOneOf \subseteq b.notOneOf
         [] a.type = "Prefix"     -> StartsWith(b.prefix, a.prefix)
         [] a.type = "Unknown"    -> b.raw = a.raw
=============================================================================
