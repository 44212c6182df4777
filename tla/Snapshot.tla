------------------------------- MODULE Snapshot -------------------------------
(***************************************************************************)
(* The snapshot of a call's arguments and its commitment (freeze in        *)
(* src/src/adapters/langgraph.ts, commit in src/src/params.ts).            *)
(* Arguments are objects on a heap.  An object has two members; a member   *)
(* is a leaf, an object, or something freeze cannot rebuild.  A snapshot   *)
(* is the tree it unfolds to, coded as a number: equal codes, equal trees. *)
(***************************************************************************)
EXTENDS Integers

Leaf(v) == [kind |-> "leaf", of |-> v]      \* a JSON leaf, v in 1..2
Ref(o) == [kind |-> "object", of |-> o]
Opaque == [kind |-> "opaque", of |-> 0]     \* a Proxy, an accessor, a function, ...

\* UNSUPPORTED anywhere in the tree leaves the whole call without a hash.
Unsupported == 0

\* Cantor's pairing, above the codes of the leaves.
Pair(x, y) == IF x = Unsupported \/ y = Unsupported THEN Unsupported
              ELSE (((x + y) * (x + y + 1)) \div 2) + y + 3

\* A member, given what is made of an object under the objects above it.
Member(frozen, cell, above) ==
    CASE cell.kind = "leaf"   -> cell.of
      [] cell.kind = "object" -> frozen[<<cell.of, above>>]
      [] OTHER                -> Unsupported

\* Mutant: one set of visited objects is shared by the siblings.
FreezeShared(heap, root) ==
    LET frozen[at \in (DOMAIN heap) \X (SUBSET DOMAIN heap)] ==
            LET o == at[1]
                seen == at[2] \cup {o}
                first == IF heap[o].a.kind = "object" THEN {heap[o].a.of} ELSE {}
            IN  IF o \in at[2] THEN Unsupported
                ELSE Pair(Member(frozen, heap[o].a, seen),
                          Member(frozen, heap[o].b, seen \cup first))
    IN  frozen[<<root, {}>>]

\* An object, and the set of the objects on the path to it from the root.
Freeze(heap, root) ==
    LET frozen[at \in (DOMAIN heap) \X (SUBSET DOMAIN heap)] ==
            LET o == at[1]
                active == at[2]
            IN  IF o \in active THEN Unsupported
                ELSE Pair(Member(frozen, heap[o].a, active \cup {o}),
                          Member(frozen, heap[o].b, active \cup {o}))
    IN  frozen[<<root, {}>>]

-----------------------------------------------------------------------------
(* What has no JSON form: a cycle, or something opaque, within reach *)

Members(heap, o) == {heap[o].a, heap[o].b}
Successors(heap, S) ==
    {p \in DOMAIN heap : \E o \in S : Ref(p) \in Members(heap, o)}

\* The least set that has the roots and is closed under members.
Reach(heap, roots) ==
    CHOOSE S \in SUBSET DOMAIN heap :
        /\ roots \subseteq S /\ Successors(heap, S) \subseteq S
        /\ \A T \in SUBSET DOMAIN heap :
              roots \subseteq T /\ Successors(heap, T) \subseteq T => S \subseteq T

IsTree(heap, root) ==
    \A o \in Reach(heap, {root}) :
        /\ Opaque \notin Members(heap, o)
        /\ o \notin Reach(heap, Successors(heap, {o}))
=============================================================================
