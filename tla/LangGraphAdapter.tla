--------------------------- MODULE LangGraphAdapter ---------------------------
(***************************************************************************)
(* Tools wrapped by guardTool and guardNode                                *)
(* (src/src/adapters/langgraph.ts) on a version 2 chain, several in flight *)
(* at once.  A wrapped call runs without interleaving from its invocation  *)
(* to the await of the body, and from there to its end: Invoke and the     *)
(* actions that end a body.  Between the two, other calls, the application *)
(* and the bodies themselves go on: they may change the arguments, revoke  *)
(* nodes, try to finish them.  The wrapper of a function that is not async *)
(* has the same two halves, and what its body calls in between nests.      *)
(*                                                                         *)
(* An entry may be committed and its file or a sink then fail: the Guard   *)
(* throws CommittedAuditError, inside the wrapper's try or before it.      *)
(***************************************************************************)
EXTENDS Guard, Snapshot

CONSTANTS
    MaxInvocations, \* bound: wrapped calls made
    Heaps,          \* the argument objects to begin with
    Endings,        \* the ways a body may end
    CommitMayThrow  \* BOOLEAN: the entry of an allowed call may fail to persist

\* bodyStateFor and isAbortError: a value, a generator or promise that is not
\* awaited here, an error, an AbortError.
BodyStates == {"returned", "deferred", "raised", "abandoned"}
Completes(ending) == ending \in {"returned", "deferred"}

ASSUME AdapterAssumption ==
    /\ SchemaVersion = 2
    /\ Endings \subseteq BodyStates
    /\ MaxInvocations \in Nat
    /\ CommitMayThrow \in BOOLEAN

Invocations == 1 .. MaxInvocations
Root == 1       \* the object every call is given: they may share it

VARIABLES
    heap,       \* object -> its two members
    phase,      \* invocation -> "idle", "body" (awaited) or "over"
    wraps,      \* invocation -> its node
    callId,     \* invocation -> the call id of its decision
    snapshot,   \* invocation -> the commitment to its arguments
    body,       \* invocation -> how its body ended, or "none"
    caller      \* invocation -> what its caller got, or "none"

adapterVars == <<heap, phase, wraps, callId, snapshot, body, caller>>
adapterAllVars == <<allVars, adapterVars>>

AdapterInit ==
    /\ GuardInit
    /\ heap \in Heaps
    /\ phase = [i \in Invocations |-> "idle"]
    /\ wraps = [i \in Invocations |-> 1]
    /\ callId = [i \in Invocations |-> NoCall]
    /\ snapshot = [i \in Invocations |-> NoParams]
    /\ body = [i \in Invocations |-> "none"]
    /\ caller = [i \in Invocations |-> "none"]

Running == {i \in Invocations : phase[i] = "body"}
Unfinished == held \ complete

\* Room on the bounded ledger for this step, beside the outcome of every
\* running body and the done of every node.
Room(entries) ==
    Len(ledger) + entries + Cardinality(Running) + Cardinality(Unfinished) <= MaxLedger

-----------------------------------------------------------------------------
(* authorize: the snapshot, then check, before the wrapper's try *)

Starts(i, n) ==
    /\ phase[i] = "idle" /\ \A j \in Invocations : j < i => phase[j] # "idle"
    /\ wraps' = [wraps EXCEPT ![i] = n]
    /\ UNCHANGED <<heap, body>>

Allows(i, n, scope, ctx) ==
    LET taken == Freeze(heap, Root)
    IN  /\ Room(2)
        /\ CheckAllowed(n, scope, ctx, FALSE, Wrapper, taken)
        /\ callId' = [callId EXCEPT ![i] = NextCall]
        /\ snapshot' = [snapshot EXCEPT ![i] = taken]

\* Allowed: the body starts.
Invoke(i, n, scope, ctx) ==
    /\ Starts(i, n)
    /\ Allows(i, n, scope, ctx)
    /\ phase' = [phase EXCEPT ![i] = "body"]
    /\ UNCHANGED caller

\* Allowed and committed, and check throws: the body never starts.
InvokeUnpersisted(i, n, scope, ctx) ==
    /\ CommitMayThrow
    /\ Starts(i, n)
    /\ Allows(i, n, scope, ctx)
    /\ phase' = [phase EXCEPT ![i] = "over"]
    /\ caller' = [caller EXCEPT ![i] = "audit error"]

\* AuthorityDenied, or what onDenied makes of it; or an error of check.
InvokeRefused(i, n, scope, ctx) ==
    /\ Starts(i, n)
    /\ Room(1)
    /\ \/ CheckDenied(n, scope, ctx, FALSE) \/ CheckStruck(n, scope, ctx, FALSE)
       \/ Room(2) /\ CheckStruckOut(n, scope, ctx, FALSE)
       \/ CheckDeniedUnpersisted(n, scope, ctx, FALSE)
       \/ CheckUnrepresentable(n, scope, ctx, FALSE)
       \/ CheckNotCommitted(n, scope, ctx, FALSE)
    /\ phase' = [phase EXCEPT ![i] = "over"]
    /\ caller' = [caller EXCEPT ![i] = "refused"]
    /\ UNCHANGED <<callId, snapshot>>

-----------------------------------------------------------------------------
(* The body, and what the wrapper records of it *)

\* Whoever holds the argument object changes a member in place.
ChangeArguments(o) ==
    /\ Running # {}
    /\ heap' = [heap EXCEPT ![o].a = Leaf(2)]
    /\ UNCHANGED <<allVars, phase, wraps, callId, snapshot, body, caller>>

\* Mutant: the arguments are read again when the body has ended.
InvokedParamsReread(i) == Freeze(heap, Root)

InvokedParams(i) == snapshot[i]

Report(i, ending) ==
    /\ phase[i] = "body"
    /\ RecordOutcome(wraps[i], callId[i], InvokedParams(i))
    /\ phase' = [phase EXCEPT ![i] = "over"]
    /\ body' = [body EXCEPT ![i] = ending]
    /\ UNCHANGED <<heap, wraps, callId, snapshot>>

\* The outcome is recorded; the caller gets the result, or the body's error.
BodyEnds(i, ending) ==
    /\ Report(i, ending)
    /\ caller' = [caller EXCEPT ![i] = IF Completes(ending) THEN "result" ELSE "body error"]

\* The outcome is committed and recordOutcome throws.  For a body that ended
\* well that is inside the try: the catch records the call again, as raised,
\* and recordOutcome refuses a second outcome before it appends anything.
BodyEndsUnpersisted(i, ending) ==
    /\ Report(i, ending)
    /\ caller' = [caller EXCEPT ![i] = IF Completes(ending) THEN "duplicate outcome error"
                                       ELSE "audit error"]

-----------------------------------------------------------------------------
(* The application: it holds the Guards *)

Finish(n) == Complete(n) /\ UNCHANGED adapterVars

ApplicationStep(n) ==
    /\ \/ Finish(n)
       \/ /\ Room(1)
          /\ \E target \in NodeIds \ revoked : Revoke(n, target)
          /\ UNCHANGED adapterVars
       \/ /\ Room(2)     \* the child will be finished too
          /\ \E agent \in Agents, request \in Requests : Delegate(n, agent, request)
          /\ UNCHANGED adapterVars

InvokeStep(i) ==
    \E n \in held, scope \in CheckedScopes, ctx \in Contexts :
        \/ Invoke(i, n, scope, ctx)
        \/ InvokeUnpersisted(i, n, scope, ctx)
        \/ InvokeRefused(i, n, scope, ctx)

EndStep(i) ==
    \E ending \in Endings : BodyEnds(i, ending) \/ BodyEndsUnpersisted(i, ending)

AdapterNext ==
    \/ \E i \in Invocations : InvokeStep(i) \/ EndStep(i)
    \/ \E o \in DOMAIN heap : ChangeArguments(o)
    \/ \E n \in held : ApplicationStep(n)

\* Every body that was started settles, and the event loop then resumes its
\* wrapper; an application that finishes its nodes asks again until it may.
AdapterFairness ==
    /\ \A i \in Invocations : WF_adapterAllVars(EndStep(i))
    /\ \A n \in 1 .. MaxNodes : WF_adapterAllVars(n \in held /\ Finish(n))

AdapterSpec == AdapterInit /\ [][AdapterNext]_adapterAllVars /\ AdapterFairness
-----------------------------------------------------------------------------
(* Properties *)

\* A running body's call is open on its node and on no other, and no outcome
\* is on the ledger: so no node is finished while a body runs on it, whatever
\* the order of completions, kills and endings.
AdapterTypeOK ==
    /\ phase \in [Invocations -> {"idle", "body", "over"}]
    /\ \A i \in Running :
          /\ wraps[i] \notin complete
          /\ {p \in pending : p[2] = callId[i]} = {<<wraps[i], callId[i]>>}
          /\ OutcomesOf(ledger, callId[i]) = {}

\* A chain whose outcomes all come from the wrappers never fails execution
\* binding, though arguments change under way and writes fail.
WrappedCallsBind == ~BindingFailed(ledger)

\* freeze commits to the arguments exactly if they have a JSON form: a shared
\* object is no cycle, and a cycle never makes it run on.
CommitsExactlyToTrees == Freeze(heap, Root) # Unsupported <=> IsTree(heap, Root)

\* The calls whose allow was committed and whose check threw: nothing will
\* report them.
Lost(n) == \E i \in Invocations :
    wraps[i] = n /\ callId[i] # NoCall /\ phase[i] = "over" /\ body[i] = "none"

\* A node whose calls all started is finished in the end.
NodesGetFinished ==
    \A n \in 1 .. MaxNodes : n \in held ~> (n \in complete \/ Lost(n))

\* langgraph.ts says that the wrapper returns the result unchanged.  When its
\* record fails to persist the caller gets at least that error, and not one
\* that says the tool's own outcome was a repeat.
ResultOrAuditError ==
    \A i \in Invocations : Completes(body[i]) => caller[i] \in {"result", "audit error"}
=============================================================================
