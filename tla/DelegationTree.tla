---------------------------- MODULE DelegationTree ----------------------------
(***************************************************************************)
(* What a delegation graph promises, said without clocks, seals, meters or *)
(* entries: a tree of grants that only ever grows below live nodes, whose  *)
(* dead nodes stay dead, and in which an act, or a further grant, needs    *)
(* the authority of the whole line from the node up to the root.           *)
(*                                                                         *)
(* The code never looks at a line: Chain, Guard and the offline verifier   *)
(* each ask about one node and its parent.  DelegationChain and Guard give *)
(* the mappings under which what they do is this.                          *)
(***************************************************************************)
EXTENDS Naturals, FiniteSets

CONSTANTS
    Narrower(_, _),     \* the order of grants
    Allows(_, _),       \* whether a grant allows an act
    MaxLine,            \* most nodes on a line below the root
    MaxBranches         \* most nodes granted by one node

VARIABLES
    tree,       \* node -> [parent, grant]
    dead,       \* the nodes that may not act or grant any more
    acts        \* serial -> what was authorized, each [node, ...]

treeVars == <<tree, dead, acts>>

Top == 0                \* the parent of the root
Nodes == DOMAIN tree
Granted(p) == {n \in Nodes : tree[n].parent = p}

\* The line of a node: itself and all that stand above it.
ClosedUp(S) == \A a \in S : tree[a].parent # Top => tree[a].parent \in S
Line(n) == {a \in Nodes : \A S \in SUBSET Nodes : n \in S /\ ClosedUp(S) => a \in S}

LineLives(n) == Line(n) \cap dead = {}

TreeInit ==
    /\ \E root \in Nodes :
          Nodes = {root} /\ tree = [n \in {root} |-> [parent |-> Top, grant |-> tree[n].grant]]
    /\ dead = {}
    /\ acts = <<>>

\* A node is granted, within what every node above it was.
Grow(n, p, grant) ==
    /\ tree' = [m \in Nodes \cup {n} |->
                   IF m = n THEN [parent |-> p, grant |-> grant] ELSE tree[m]]
    /\ UNCHANGED <<dead, acts>>
    /\ LineLives(p)
    /\ \A a \in Line(p) : Narrower(grant, tree[a].grant)
    /\ Cardinality(Line(p)) <= MaxLine
    /\ Cardinality(Granted(p)) < MaxBranches

\* What dies takes all below it along.
Kill(S) ==
    /\ dead' = dead \cup S
    /\ UNCHANGED <<tree, acts>>
    /\ \A n \in Nodes : tree[n].parent \in dead' => n \in dead'

\* A node acts, within what every node above it was granted.
Act(serial, act) ==
    /\ acts' = [i \in DOMAIN acts \cup {serial} |-> IF i = serial THEN act ELSE acts[i]]
    /\ UNCHANGED <<tree, dead>>
    /\ act.node \in Nodes
    /\ LineLives(act.node)
    /\ \A a \in Line(act.node) : Allows(tree[a].grant, act)

TreeNext ==
    \/ \E n \in DOMAIN tree' \ Nodes, p \in Nodes : Grow(n, p, tree'[n].grant)
    \/ \E S \in SUBSET (Nodes \ dead) : Kill(S)
    \/ \E serial \in DOMAIN acts' \ DOMAIN acts : Act(serial, acts'[serial])

TreeSpec == TreeInit /\ [][TreeNext]_treeVars
=============================================================================
