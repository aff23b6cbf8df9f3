------------------------------ MODULE Lineage ------------------------------
(***************************************************************************)
(* The walk from a sensor's node towards the configured root of the CPS    *)
(* tree (CpsAuth::lookup in edge/src/auth/cps.rs), on one finalized block. *)
(* A snapshot maps the nodes that exist to their parents or to Top; the    *)
(* chain is not trusted to be a tree.                                      *)
(***************************************************************************)
EXTENDS Naturals, FiniteSetsExt

CONSTANTS
    Node,               \* CPS nodes
    Root,               \* [auth] cps_root_node_id
    Top,                \* a node without parent: Lineage::Root
    Gone,               \* what is not there: Lineage::Missing, or no binding
    MaxAncestorDepth    \* MAX_ANCESTOR_DEPTH

ASSUME LineageConstants ==
    /\ Root \in Node
    /\ Top # Gone /\ Node \cap {Top, Gone} = {}
    /\ MaxAncestorDepth \in Nat \ {0}

Snapshot == UNION {[known -> Node \cup {Top}] : known \in SUBSET Node}

\* The node and what the first reads of lineage() return after it.
Ancestry(tree, node) ==
    LET up[k \in 0 .. MaxAncestorDepth] ==
            IF k = 0 THEN node
            ELSE IF up[k - 1] \in DOMAIN tree THEN tree[up[k - 1]] ELSE Gone
    IN  up

\* The reads at which the loop returns: the root, the end of the chain, a
\* missing node, or one it has visited.
Returns(up) ==
    {k \in 1 .. MaxAncestorDepth :
        up[k] \in {Root, Top, Gone} \/ \E j \in 0 .. k - 1 : up[j] = up[k]}

\* Mutant: a walk that reaches the depth limit is a denial.
LookupDeepDenied(tree, node) ==
    LET up == Ancestry(tree, node)
    IN  IF node \in {Gone, Root} \/ Returns(up) = {} THEN "absent"
        ELSE CASE up[Min(Returns(up))] = Root -> "found"
               [] up[Min(Returns(up))] = Top  -> "absent"
               [] OTHER                       -> "error"

\* lookup(): Ok(true), Ok(false) or AuthError::Inconsistent.
Lookup(tree, node) ==
    LET up == Ancestry(tree, node)
    IN  IF node \in {Gone, Root} THEN "absent"
        ELSE IF Returns(up) = {} THEN "error"
        ELSE CASE up[Min(Returns(up))] = Root -> "found"
               [] up[Min(Returns(up))] = Top  -> "absent"
               [] OTHER                       -> "error"

\* What it is to decide: the root is an ancestor of another node.  A set of
\* nodes that is closed under parents holds every ancestor of its members.
Below(tree, node) ==
    /\ node \notin {Gone, Root}
    /\ \A closed \in SUBSET Node :
          /\ node \in closed
          /\ \A n \in closed \cap DOMAIN tree : tree[n] \in closed \cup {Top}
          => Root \in closed

\* What a lookup can return, and whether the sensor is below the root.
LookupResult ==
    {[found |-> Lookup(tree, node), below |-> Below(tree, node)] :
        tree \in Snapshot, node \in Node \cup {Gone}}
=============================================================================
