------------------------------ MODULE AvlTree ------------------------------
(***************************************************************************)
(* The search tree behind the index of the storage                         *)
(* (lib/src/data-structure/avl_tree.c, avl_tree_node.c) with the calls of  *)
(* server/cinemad/index_table.c, one turn of a loop at a time.  The index  *)
(* inserts a key that a search did not find; a key that gets no value is   *)
(* deleted again.  The index holds its lock while it changes the tree, so  *)
(* one walk is under way at a time.                                        *)
(*                                                                         *)
(* A node that holds no key is free memory.  The value of a node moves     *)
(* with its key.  The number of nodes that the tree counts is never read.  *)
(*                                                                         *)
(* Bounds: Nodes, the memory, which malloc is assumed not to exhaust;      *)
(* Asked, the keys that requests name; MaxKept and MaxProbed, the numbers  *)
(* of keys that have a value and of keys that have none.                   *)
(***************************************************************************)
EXTENDS Integers, FiniteSets, Sequences

CONSTANTS
    Keys,       \* a set of numbers, which stand for the strings in their order
    NoKey,
    Nodes,
    Null,
    MaxKept,
    MaxProbed,
    Asked,      \* the keys that requests name
    Files       \* the keys in the file when the index is made, in their order

ASSUME KeysAssumption ==
    /\ Keys \subseteq Int /\ NoKey \notin Keys /\ Null \notin Nodes
    /\ MaxKept \in Nat /\ MaxProbed \in Nat
    /\ Asked \subseteq Keys

(* A key is added to the file only when the index has no value for it.     *)
ASSUME FilesAssumption ==
    \A f \in Files : /\ f \in Seq(Keys)
                     /\ \A i, j \in DOMAIN f : i # j => f[i] # f[j]

VARIABLES
    root, key, height, father, left, right,     \* the tree
    pc, goal, arg, cur, target,                 \* the call under way
    todo,             \* what load_table has not read yet
    kept,             \* the keys with a value
    probed,           \* the keys that a search has inserted and have no value
    lost,             \* was the tree emptied with keys below its root?
    stack, order      \* the loop of index_table_destroy, and what it destroyed

tree  == <<root, key, height, father, left, right>>
call  == <<pc, goal, arg, cur, target>>
index == <<todo, kept, probed, lost>>
walk  == <<stack, order>>
vars  == <<root, key, height, father, left, right, pc, goal, arg, cur, target,
           todo, kept, probed, lost, stack, order>>

Stored == kept \cup probed

-----------------------------------------------------------------------------
Maximum(i, j) == IF i > j THEN i ELSE j

Height(n) == IF n = Null THEN -1 ELSE height[n]

BalanceFactor(n) == IF n = Null THEN 0 ELSE Height(left[n]) - Height(right[n])

UpdateHeight(n) ==
    height' = [height EXCEPT ![n] = Maximum(Height(left[n]), Height(right[n])) + 1]

(* Mutant of RightRotation: the inner subtree of the son is forgotten. *)
RightRotationShort(n) ==
    LET l == left[n]
        h == Height(right[n]) + 1
    IN  /\ key'    = [key EXCEPT ![n] = key[l], ![l] = key[n]]
        /\ left'   = [left EXCEPT ![n] = left[l], ![l] = Null]
        /\ right'  = [right EXCEPT ![n] = l, ![l] = right[n]]
        /\ father' = [m \in Nodes |-> IF m = left[l] THEN n
                                     ELSE IF m = right[n] THEN l ELSE father[m]]
        /\ height' = [height EXCEPT ![l] = h, ![n] = Maximum(Height(left[l]), h) + 1]
        /\ UNCHANGED root

(* The node n stays at the top and takes over the key of the son that      *)
(* rises, whose own node goes down to the other side with the key of n.    *)
RightRotation(n) ==
    LET l == left[n]
        h == Maximum(Height(right[l]), Height(right[n])) + 1
    IN  /\ key'    = [key EXCEPT ![n] = key[l], ![l] = key[n]]
        /\ left'   = [left EXCEPT ![n] = left[l], ![l] = right[l]]
        /\ right'  = [right EXCEPT ![n] = l, ![l] = right[n]]
        /\ father' = [m \in Nodes |-> IF m = left[l] THEN n
                                     ELSE IF m = right[n] THEN l ELSE father[m]]
        /\ height' = [height EXCEPT ![l] = h, ![n] = Maximum(Height(left[l]), h) + 1]
        /\ UNCHANGED root

LeftRotation(n) ==
    LET r == right[n]
        h == Maximum(Height(left[r]), Height(left[n])) + 1
    IN  /\ key'    = [key EXCEPT ![n] = key[r], ![r] = key[n]]
        /\ right'  = [right EXCEPT ![n] = right[r], ![r] = left[r]]
        /\ left'   = [left EXCEPT ![n] = r, ![r] = left[n]]
        /\ father' = [m \in Nodes |-> IF m = right[r] THEN n
                                     ELSE IF m = left[n] THEN r ELSE father[m]]
        /\ height' = [height EXCEPT ![r] = h, ![n] = Maximum(Height(right[r]), h) + 1]
        /\ UNCHANGED root

-----------------------------------------------------------------------------
Return == pc' = "idle" /\ goal' = "none" /\ arg' = NoKey /\ cur' = Null /\ target' = Null

(* The caller dereferences NULL. *)
Die == pc' = "crashed" /\ UNCHANGED <<goal, arg, cur, target>>

Goto(label, n) == pc' = label /\ cur' = n /\ UNCHANGED <<goal, arg, target>>

(* The turn of balance_insert and balance_delete ends after a rotation:    *)
(* only the latter climbs on.                                              *)
AfterRotation ==
    IF goal = "delete" THEN Goto("balance_delete", father[cur]) ELSE Return

(* The rotation of n, whose son may be missing, and what the caller does   *)
(* after it.                                                               *)
TurnRight(n, After) ==
    IF left[n] = Null THEN Die /\ UNCHANGED tree ELSE RightRotation(n) /\ After

TurnLeft(n, After) ==
    IF right[n] = Null THEN Die /\ UNCHANGED tree ELSE LeftRotation(n) /\ After

(* The second half asks the left son as well, where an AVL tree asks the   *)
(* right one.                                                              *)
Rotate ==
    LET bf == BalanceFactor(cur)
        lf == BalanceFactor(left[cur])
    IN  CASE bf = 2  /\ lf >= 0 -> TurnRight(cur, AfterRotation)
          [] bf = 2  /\ lf < 0  -> TurnLeft(left[cur], Goto("rotate_right", cur))
          [] bf = -2 /\ lf >= 0 -> TurnLeft(cur, AfterRotation)
          [] bf = -2 /\ lf < 0  -> TurnRight(right[cur], Goto("rotate_left", cur))
          [] OTHER              -> AfterRotation /\ UNCHANGED tree

SecondRotation ==
    /\ \/ pc = "rotate_right" /\ TurnRight(cur, AfterRotation)
       \/ pc = "rotate_left" /\ TurnLeft(cur, AfterRotation)
    /\ UNCHANGED <<index, walk>>

-----------------------------------------------------------------------------
(* load_table, for one key of the file *)
Load ==
    /\ pc = "idle" /\ todo # <<>>
    /\ pc' = "insert" /\ goal' = "load" /\ arg' = Head(todo) /\ cur' = root
    /\ todo' = Tail(todo)
    /\ UNCHANGED <<tree, target, kept, probed, lost, walk>>

(* index_table_search, with the search it makes under the write lock *)
Lookup(k) ==
    /\ pc = "idle" /\ todo = <<>> /\ (k \in Stored \/ Cardinality(probed) < MaxProbed)
    /\ pc' = "search" /\ goal' = "lookup" /\ arg' = k /\ cur' = root
    /\ UNCHANGED <<tree, target, index, walk>>

(* The loop of avl_tree_search_node *)
SearchStep ==
    /\ pc = "search" /\ cur # Null /\ key[cur] # arg
    /\ Goto("search", IF arg < key[cur] THEN left[cur] ELSE right[cur])
    /\ UNCHANGED <<tree, index, walk>>

Found ==
    /\ pc = "search" /\ goal = "lookup" /\ cur # Null /\ key[cur] = arg
    /\ Return
    /\ UNCHANGED <<tree, index, walk>>

Missed ==
    /\ pc = "search" /\ goal = "lookup" /\ cur = Null
    /\ Goto("insert", root)
    /\ UNCHANGED <<tree, index, walk>>

-----------------------------------------------------------------------------
(* avl_tree_insert_single_node_tree: on to the son on the side of the key, *)
(* and a new leaf where there is none.                                     *)
Side(n) == IF arg <= key[n] THEN left[n] ELSE right[n]

InsertStep ==
    /\ pc = "insert" /\ cur # Null /\ Side(cur) # Null
    /\ Goto("insert", Side(cur))
    /\ UNCHANGED <<tree, index, walk>>

NewNode == CHOOSE n \in Nodes : key[n] = NoKey

InsertLeaf ==
    /\ pc = "insert" /\ (cur # Null => Side(cur) = Null)
    /\ \E m \in Nodes : key[m] = NoKey
    /\ LET n == NewNode
           onLeft  == cur # Null /\ arg <= key[cur]
           onRight == cur # Null /\ ~(arg <= key[cur])
       IN  /\ key'    = [key EXCEPT ![n] = arg]
           /\ height' = [height EXCEPT ![n] = 0]
           /\ father' = [father EXCEPT ![n] = cur]
           /\ left'   = [m \in Nodes |-> IF m = n THEN Null
                                         ELSE IF onLeft /\ m = cur THEN n ELSE left[m]]
           /\ right'  = [m \in Nodes |-> IF m = n THEN Null
                                         ELSE IF onRight /\ m = cur THEN n ELSE right[m]]
           /\ root'   = IF cur = Null THEN n ELSE root
    /\ Goto("balance_insert", cur)
    /\ IF goal = "load" THEN kept' = kept \cup {arg} /\ UNCHANGED probed
                        ELSE probed' = probed \cup {arg} /\ UNCHANGED kept
    /\ UNCHANGED <<todo, lost, walk>>

(* The climb ends at the first node out of balance. *)
BalanceInsert ==
    /\ pc = "balance_insert"
    /\ IF cur = Null THEN Return /\ UNCHANGED tree
       ELSE IF BalanceFactor(cur) \in {-1, 0, 1}
       THEN /\ UpdateHeight(cur)
            /\ Goto("balance_insert", father[cur])
            /\ UNCHANGED <<root, key, father, left, right>>
       ELSE Rotate
    /\ UNCHANGED <<index, walk>>

-----------------------------------------------------------------------------
(* The record of a probed key gets a value. *)
Keep(k) ==
    /\ pc = "idle" /\ k \in probed /\ Cardinality(kept) < MaxKept
    /\ kept' = kept \cup {k}
    /\ probed' = probed \ {k}
    /\ UNCHANGED <<tree, call, todo, lost, walk>>

(* index_table_delete of a record without a value *)
Drop(k) ==
    /\ pc = "idle" /\ k \in probed
    /\ pc' = "search" /\ goal' = "delete" /\ arg' = k /\ cur' = root
    /\ UNCHANGED <<tree, target, index, walk>>

(* avl_tree_cut_one_son_node, the keys and heights being ks and hs by then *)
(* (avl_tree_delete_node).  A root goes with all that is below it; a leaf  *)
(* goes; a node with one son takes over its key and its sons, and keeps    *)
(* its own height.  Then balance_delete climbs.                            *)
Cut(n, ks, hs) ==
    LET s == IF left[n] # Null THEN left[n] ELSE right[n]
    IN  /\ height' = hs
        /\ IF n = root THEN
              /\ root' = Null
              /\ key' = [m \in Nodes |-> NoKey]
              /\ lost' = (lost \/ s # Null)
              /\ UNCHANGED <<father, left, right>>
           ELSE IF s = Null THEN
              /\ key' = [ks EXCEPT ![n] = NoKey]
              /\ left' = [m \in Nodes |-> IF left[m] = n THEN Null ELSE left[m]]
              /\ right' = [m \in Nodes |-> IF right[m] = n THEN Null ELSE right[m]]
              /\ UNCHANGED <<root, father, lost>>
           ELSE
              /\ key' = [ks EXCEPT ![n] = ks[s], ![s] = NoKey]
              /\ left' = [left EXCEPT ![n] = left[s]]
              /\ right' = [right EXCEPT ![n] = right[s]]
              /\ father' = [m \in Nodes |-> IF m \in {left[s], right[s]} THEN n ELSE father[m]]
              /\ UNCHANGED <<root, lost>>
        /\ Goto("balance_delete", father[n])
        /\ probed' = probed \ {arg}

(* The search of index_table_delete is over; record_destroy of no record   *)
(* dereferences NULL.                                                      *)
Delete ==
    /\ pc = "search" /\ goal = "delete" /\ (cur # Null => key[cur] = arg)
    /\ IF cur = Null THEN Die /\ UNCHANGED <<tree, probed, lost>>
       ELSE IF left[cur] = Null \/ right[cur] = Null
       THEN Cut(cur, key, height)
       ELSE /\ pc' = "pred" /\ target' = cur /\ cur' = left[cur]
            /\ UNCHANGED <<tree, goal, arg, probed, lost>>
    /\ UNCHANGED <<todo, kept, walk>>

(* avl_tree_node_get_max *)
PredStep ==
    /\ pc = "pred" /\ right[cur] # Null
    /\ Goto("pred", right[cur])
    /\ UNCHANGED <<tree, index, walk>>

(* A node of two sons swaps key, value and height with its predecessor,    *)
(* which is cut.                                                           *)
SwapAndCut ==
    /\ pc = "pred" /\ right[cur] = Null
    /\ Cut(cur, [key EXCEPT ![target] = key[cur], ![cur] = key[target]],
           [height EXCEPT ![target] = height[cur], ![cur] = height[target]])
    /\ UNCHANGED <<todo, kept, walk>>

(* The climb goes on to the root. *)
BalanceDelete ==
    /\ pc = "balance_delete"
    /\ IF cur = Null THEN Return /\ UNCHANGED tree
       ELSE IF BalanceFactor(cur) \in {-2, 2} THEN Rotate
       ELSE /\ UpdateHeight(cur)
            /\ Goto("balance_delete", father[cur])
            /\ UNCHANGED <<root, key, father, left, right>>
    /\ UNCHANGED <<index, walk>>

-----------------------------------------------------------------------------
(* index_table_destroy: the nodes still to visit are on the stack, its top *)
(* first.                                                                  *)
Push(n, s) == IF n = Null THEN s ELSE <<n>> \o s

(* Mutant of PushSons: the right son only where there is no left one. *)
PushOneSon(n, s) == IF left[n] = Null THEN Push(right[n], s) ELSE Push(left[n], s)

PushSons(n, s) == Push(right[n], Push(left[n], s))

Close ==
    /\ pc = "idle" /\ todo = <<>>
    /\ pc' = "destroy" /\ stack' = Push(root, <<>>)
    /\ UNCHANGED <<tree, goal, arg, cur, target, index, order>>

DestroyStep ==
    /\ pc = "destroy" /\ stack # <<>>
    /\ stack' = PushSons(Head(stack), Tail(stack))
    /\ order' = Append(order, key[Head(stack)])
    /\ UNCHANGED <<tree, call, index>>

Closed ==
    /\ pc = "destroy" /\ stack = <<>>
    /\ pc' = "closed"
    /\ UNCHANGED <<tree, goal, arg, cur, target, index, walk>>

-----------------------------------------------------------------------------
Init ==
    /\ root = Null
    /\ key = [n \in Nodes |-> NoKey]
    /\ height = [n \in Nodes |-> 0]
    /\ father = [n \in Nodes |-> Null]
    /\ left = [n \in Nodes |-> Null]
    /\ right = [n \in Nodes |-> Null]
    /\ pc = "idle" /\ goal = "none" /\ arg = NoKey /\ cur = Null /\ target = Null
    /\ todo \in Files
    /\ kept = {} /\ probed = {} /\ lost = FALSE
    /\ stack = <<>> /\ order = <<>>

Next ==
    \/ Load \/ (\E k \in Asked : Lookup(k)) \/ SearchStep \/ Found \/ Missed
    \/ InsertStep \/ InsertLeaf \/ BalanceInsert \/ SecondRotation
    \/ (\E k \in Keys : Keep(k) \/ Drop(k)) \/ Delete \/ PredStep \/ SwapAndCut \/ BalanceDelete
    \/ Close \/ DestroyStep \/ Closed

Spec == Init /\ [][Next]_vars

-----------------------------------------------------------------------------
(* Inserting and deleting, rotations included, neither lose a key nor keep *)
(* one, although the stored heights they go by may be wrong: whenever the  *)
(* loop of avl_tree_search_node ends, the node it ends at is that of a key *)
(* of the index, and where it ends at none the index has no such key.  The *)
(* exception is a root of one son, which goes with all that is below it.   *)
SearchFinds ==
    pc = "search" /\ ~lost => /\ cur = Null => arg \notin Stored
                              /\ cur # Null /\ key[cur] = arg => arg \in Stored

(* When the storage is closed, the record of every key in the index is     *)
(* destroyed, and none twice: the loop of index_table_destroy reaches each *)
(* node, and no rotation or deletion leaves a key in two of them.          *)
DestroysEachOnce ==
    ~lost => /\ \A i, j \in DOMAIN order : order[i] = order[j] => i = j
             /\ {order[i] : i \in DOMAIN order} \subseteq Stored
             /\ pc = "closed" => Stored \subseteq {order[i] : i \in DOMAIN order}

(* No step dereferences NULL, as the comments in rotate promise that name  *)
(* the four cases of an AVL tree.                                          *)
NeverCrashes == pc # "crashed"

=============================================================================
