------------------------------ MODULE GuardSinks ------------------------------
(***************************************************************************)
(* A Guard whose sinks call back (AuditLog.append hands every entry to the *)
(* sinks before it returns, src/src/audit.ts 195, and a sink is the        *)
(* application's own code): between an entry and what the Guard does about *)
(* it after append has returned, whole operations of any Guard of the      *)
(* chain may run, in whose sinks further ones may.                         *)
(*                                                                         *)
(* Three operations do something after their append: an allowed check      *)
(* registers the pending call, a denied one counts a strike, recordOutcome *)
(* marks the call as outcomed.  The others end with it, so what their      *)
(* sinks do is what the next operation does.                               *)
(***************************************************************************)
EXTENDS Guard

CONSTANT MaxInside      \* bound: operations under way, each in a sink of the one before

ASSUME SinksAssumption == MaxInside \in Nat

VARIABLES
    inside,     \* what these have still to do, the innermost last
    early       \* calls that a sink settled while they were being recorded

sinkVars == <<inside, early>>

Underway(op, n, scope, call) == [op |-> op, node |-> n, scope |-> scope, call |-> call]

Enter(operation) ==
    /\ Len(inside) < MaxInside
    /\ inside' = Append(inside, operation)

\* A sink settles a call that is being recorded: it reports its outcome, or
\* finishes or kills the node it is about to be pending on, or kills while the
\* call is about to be pending no more.
Settles(entry, operation) ==
    \/ entry.event = "outcome" /\ entry.call = operation.call
    \/ entry.event = "done" /\ operation.op = "register" /\ entry.node = operation.node
    \/ entry.event = "kill" /\ operation.op = "register" /\ operation.node \in entry.revoked
    \/ entry.event = "kill" /\ operation.op = "resolve"

NoteEarly ==
    early' = early \cup
        {inside[k].call : k \in {l \in DOMAIN inside :
            \E i \in Len(ledger) + 1 .. Len(ledger') : Settles(ledger'[i], inside[l])}}

-----------------------------------------------------------------------------
(* As far as the append *)

AllowSeen(n, scope, ctx, metered, capture, params) ==
    /\ AwaitsOutcome(capture)
    /\ CommitAllow(n, scope, ctx, metered, capture, params)
    /\ UNCHANGED pending
    /\ Enter(Underway("register", n, scope, NextCall))

DenialSeen(n, scope, ctx, metered) ==
    /\ StrikesOn /\ n \notin revoked
    /\ ~Decide(n, scope, ctx, metered)
    /\ Write(<<DenyEntry(n, scope, NextCall, Policy)>>)
    /\ DrawCall
    /\ UNCHANGED <<chainVars, held, calls, strikes, complete, pending, outcomed>>
    /\ Enter(Underway("strike", n, scope, NoCall))

OutcomeSeen(n, call, params) ==
    /\ CommitOutcome(n, call, params)
    /\ UNCHANGED <<pending, outcomed>>
    /\ Enter(Underway("resolve", n, AnyScope, call))

-----------------------------------------------------------------------------
(* After it: the innermost operation goes on *)

Top == inside[Len(inside)]
Innermost(op) == inside # <<>> /\ Top.op = op

AllowReturns ==
    /\ Innermost("register")
    /\ RegisterPending(Top.node, Top.call)
    /\ UNCHANGED <<chainVars, ledger, held, calls, strikes, complete, issued, outcomed>>

OutcomeReturns ==
    /\ Innermost("resolve")
    /\ UNCHANGED <<chainVars, ledger, held, calls, strikes, complete, issued>>
    /\ ResolveCall(Top.call)

DenialReturns ==
    LET n == Top.node
        scope == Top.scope
        killed == Cascade({n})
    IN  /\ Innermost("strike")
        \* a sink may have revoked the node meanwhile
        /\ IF n \in revoked THEN UNCHANGED <<chainVars, ledger, strikes>>
           ELSE /\ AddStrike(n, scope)
                /\ IF StrikesOut(n, scope)
                   THEN RevokeNode(n) /\ Write(<<KillEntry(n, killed, PendingAtKill(killed))>>)
                   ELSE UNCHANGED <<chainVars, ledger>>
        /\ UNCHANGED <<held, calls, bindingVars>>

-----------------------------------------------------------------------------

SinkInit == GuardInit /\ inside = <<>> /\ early = {}

SeenStep(n) ==
    \/ \E scope \in CheckedScopes, ctx \in Contexts, metered \in {FALSE, StrictMetering} :
          \/ \E capture \in Captures, params \in Params :
                AllowSeen(n, scope, ctx, metered, capture, params)
          \/ DenialSeen(n, scope, ctx, metered)
    \/ \E call \in 1 .. issued, params \in Params : OutcomeSeen(n, call, params)

Returns ==
    /\ AllowReturns \/ DenialReturns \/ OutcomeReturns
    /\ inside' = SubSeq(inside, 1, Len(inside) - 1)

SinkNext ==
    /\ \/ GuardNext /\ UNCHANGED inside
       \/ \E n \in held : SeenStep(n)
       \/ Returns
    /\ NoteEarly

SinkSpec == SinkInit /\ [][SinkNext]_<<allVars, sinkVars>>
-----------------------------------------------------------------------------
(* Properties *)

\* A live node has been refused fewer times than the limit allows, by scope or
\* in all: the denial that reaches the limit revokes it, in that check.  The
\* ledger counts them, and so does the policy, each once, though checks run
\* inside the sinks of others; a denial whose check threw is on the ledger and
\* in no count.
StruckBy(n, s) ==
    {i \in Entries(ledger, "deny") :
        ledger[i].node = n /\ ledger[i].reason = Policy /\ StrikeKey(ledger[i].scope) = s}
Uncounted(n, s) ==
    {k \in DOMAIN inside :
        inside[k].op = "strike" /\ inside[k].node = n /\ StrikeKey(inside[k].scope) = s}

RepeatedDenialsRevoke ==
    StrikesOn =>
        \A n \in held \ revoked : \A s \in DOMAIN strikes[n] :
            /\ strikes[n][s] + Cardinality(Uncounted(n, s)) = Cardinality(StruckBy(n, s))
            /\ strikes[n][s] < StrikeLimit

\* Execution binding fails only where the application misreported: the guard
\* itself never repeats a call id or an outcome, never writes an outcome ahead
\* of its allow, and never finishes a node with a promised outcome missing.
\* To report a call from the sink that is given its outcome is to misreport.
BindingFailsOnlyOnMisreport == BindingFailed(ledger) => Misreported \/ early # {}

\* What the verifier calls clean is what the running chain calls closed out.
CleanIffClosedOut ==
    ~Misreported /\ early = {} /\ inside = <<>> =>
        (Aggregate(ledger) = "clean" <=> ClosedOut)

\* A kill lists exactly the calls of the nodes it revoked that were promised
\* an outcome and had none by then, though outcomes may still come later; it is
\* wrong at most about calls that were being recorded when a sink killed.
KillSnapshotsOpenCalls ==
    \A i \in Entries(ledger, "kill") :
        LET open == {ledger[j].call : j \in {k \in 1 .. i - 1 :
                        Promised(k) /\ ledger[k].node \in ledger[i].revoked
                        /\ ~OutcomeBefore(ledger[k].call, i)}}
        IN  ledger[i].pending \ early = open \ early

\* A finished node has finished: at its done every promised outcome is on the
\* ledger already, and no call is authorized on it from then on.
FinishedNodesStayQuiet ==
    \A d \in Entries(ledger, "done"), i \in Gated(ledger) :
        ledger[i].node = ledger[d].node =>
            i < d /\ (Promised(i) /\ ledger[i].call \notin early =>
                          OutcomeBefore(ledger[i].call, d))
=============================================================================
