-------------------------- MODULE MCLangGraphAdapter --------------------------
(* Wrapped tools over one and two nodes, with the argument objects they share. *)
EXTENDS LangGraphAdapter, MCGuard

Members2(a, b) == [a |-> a, b |-> b]

\* A list of two leaves; one object twice; a cycle of two; something opaque.
Flat == <<Members2(Leaf(1), Leaf(2))>>
Shared == <<Members2(Ref(2), Ref(2)), Members2(Leaf(1), Leaf(2))>>
Cyclic == <<Members2(Leaf(1), Ref(2)), Members2(Ref(1), Leaf(2))>>
Dark == <<Members2(Ref(2), Leaf(1)), Members2(Opaque, Leaf(1))>>
SomeHeaps == {Shared, Cyclic, Dark}
FlatHeap == {Flat}

ReturnsOrAborts == {"returned", "abandoned"}
AsWrapper == {Wrapper}
=============================================================================
