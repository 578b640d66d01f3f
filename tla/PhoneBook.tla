----------------------------- MODULE PhoneBook -----------------------------
(* The phone book of the programming course: a binary search tree over the *)
(* numbers.  A number that is in the tree already is not inserted again,   *)
(* so a node is named by its number.                                       *)
EXTENDS Naturals, Sequences

CONSTANTS Phone, Name, NoNode

ASSUME PhoneBookAssumption == Phone \subseteq Nat /\ NoNode \notin Phone

VARIABLES
    node,     \* the nodes of the tree -> [name, left, right, parent]
    root,
    printed,  \* what the last walk has printed, in its order
    crashed   \* the program has read through a NULL pointer

bookVars == <<node, root, printed, crashed>>

BookInit ==
    /\ node = [p \in {} |-> 0]
    /\ root = NoNode
    /\ printed = <<>>
    /\ crashed = FALSE

\* One step of the loops of bst_insert_node and find_node.
Towards(p, x) == IF p <= x THEN node[x].left ELSE node[x].right

\* find_node
FindNode(p) ==
    LET from[x \in DOMAIN node \cup {NoNode}] ==
          IF x \in {NoNode, p} THEN x ELSE from[Towards(p, x)]
    IN from[root]

\* y, when the loop of bst_insert_node has run off the tree.
LastBefore(p) ==
    LET from[x \in DOMAIN node] ==
          IF Towards(p, x) = NoNode THEN x ELSE from[Towards(p, x)]
    IN IF root = NoNode THEN NoNode ELSE from[root]

Leaf(name, parent) == [name |-> name, left |-> NoNode, right |-> NoNode, parent |-> parent]

\* bst_insert_node, when the loop has left the tree: into an empty tree, to
\* the left of y, or to its right.
Linked(p, name) ==
    LET y == LastBefore(p)
        grown == [x \in DOMAIN node \cup {p} |-> IF x = p THEN Leaf(name, y) ELSE node[x]]
    IN IF y = NoNode THEN grown
       ELSE IF p < y THEN [grown EXCEPT ![y].left = p] ELSE [grown EXCEPT ![y].right = p]

\* bst_insert_node
InsertNode(p, name) ==
    /\ ~crashed
    /\ \/ FindNode(p) # NoNode /\ UNCHANGED <<node, root>>
       \/ /\ FindNode(p) = NoNode
          /\ node' = Linked(p, name)
          /\ root' = IF root = NoNode THEN p ELSE root
    /\ UNCHANGED <<printed, crashed>>

\* Mutant: the node is printed before its left side.
PreOrder(x) ==
    LET walk[n \in DOMAIN node \cup {NoNode}] ==
          IF n = NoNode THEN <<>> ELSE <<n>> \o walk[node[n].left] \o walk[node[n].right]
    IN walk[x]

\* bst_in_order_walk_node
InOrder(x) ==
    LET walk[n \in DOMAIN node \cup {NoNode}] ==
          IF n = NoNode THEN <<>> ELSE walk[node[n].left] \o <<n>> \o walk[node[n].right]
    IN walk[x]

\* bst_in_order_walk tests the tree and not its root.
Walk ==
    /\ ~crashed
    /\ \/ root = NoNode /\ crashed' = TRUE /\ UNCHANGED printed
       \/ root # NoNode /\ printed' = InOrder(root) /\ UNCHANGED crashed
    /\ UNCHANGED <<node, root>>

\* bst_free_tree and bst_free_subtree
FreeTree ==
    /\ ~crashed
    /\ node' = [p \in {} |-> 0]
    /\ root' = NoNode
    /\ UNCHANGED <<printed, crashed>>

BookNext ==
    \/ \E p \in Phone, name \in Name : InsertNode(p, name)
    \/ Walk
    \/ FreeTree

BookSpec == BookInit /\ [][BookNext]_bookVars
-----------------------------------------------------------------------------
\* The book answers like a table in which the first entry of a number
\* stays, and is printed in the order of the numbers.
Table == INSTANCE PhoneTable WITH
    table <- [p \in {p \in Phone : FindNode(p) # NoNode} |-> node[p].name]

ImplementsTable == Table!Spec
=============================================================================
