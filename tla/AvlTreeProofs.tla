--------------------------- MODULE AvlTreeProofs ---------------------------
(***************************************************************************)
(* SearchFinds and DestroysEachOnce of AvlTree for every set of keys, every*)
(* memory and every file.  The inductive invariant names, for each node,   *)
(* the nodes below it: `below` is not part of the state but a witness that *)
(* the links make a tree, which a step changes as it changes the links.    *)
(* Last, when a deletion cannot empty the index.                           *)
(***************************************************************************)
EXTENDS AvlTree, FiniteSetTheorems, TLAPS

TypeInv ==
    /\ root \in Nodes \cup {Null}
    /\ key \in [Nodes -> Keys \cup {NoKey}]
    /\ height \in [Nodes -> Nat]
    /\ father \in [Nodes -> Nodes \cup {Null}]
    /\ left \in [Nodes -> Nodes \cup {Null}]
    /\ right \in [Nodes -> Nodes \cup {Null}]
    /\ pc \in {"idle", "search", "insert", "balance_insert", "rotate_right", "rotate_left",
               "pred", "balance_delete", "destroy", "closed", "crashed"}
    /\ goal \in {"none", "load", "lookup", "delete"}
    /\ arg \in Keys \cup {NoKey}
    /\ cur \in Nodes \cup {Null}
    /\ target \in Nodes \cup {Null}
    /\ todo \in Seq(Keys)
    /\ kept \subseteq Keys
    /\ probed \subseteq Keys
    /\ lost \in BOOLEAN
    /\ stack \in Seq(Nodes)
    /\ order \in Seq(Keys \cup {NoKey})
    /\ pc \in {"search", "insert", "balance_insert", "pred"} => arg \in Keys
    /\ pc \in {"rotate_right", "rotate_left", "pred"} => cur \in Nodes
    /\ pc = "pred" => target \in Nodes
    /\ pc \notin {"destroy", "closed"} => stack = <<>> /\ order = <<>>

-----------------------------------------------------------------------------
(* A tree with the root r, the fathers f, the left and right sons l and g  *)
(* and the nodes L, in which b gives the nodes of each subtree.            *)

Below(b, n) == IF n = Null THEN {} ELSE b[n]

Shape(r, f, l, g, L, b) ==
    /\ r = Null => L = {}
    /\ r # Null => r \in L /\ b[r] = L /\ f[r] = Null
    /\ \A n \in L : b[n] \subseteq L
    /\ \A n \in L : l[n] # Null => l[n] \in L /\ f[l[n]] = n
    /\ \A n \in L : g[n] # Null => g[n] \in L /\ f[g[n]] = n
    /\ \A n \in L : /\ b[n] = {n} \cup Below(b, l[n]) \cup Below(b, g[n])
                    /\ n \notin Below(b, l[n]) /\ n \notin Below(b, g[n])
                    /\ Below(b, l[n]) \cap Below(b, g[n]) = {}
    /\ \A n \in L : n # r => f[n] \in L /\ (l[f[n]] = n \/ g[f[n]] = n)
    /\ \A a \in L : \A m \in b[a] : /\ b[m] \subseteq b[a]
                                    /\ m # a => m # r /\ f[m] \in b[a]

(* The keys k of the nodes L other than those in X are in order. *)
Sorted(k, l, g, L, X, b) ==
    \A n \in L \ X : /\ \A m \in Below(b, l[n]) \ X : k[m] < k[n]
                     /\ \A m \in Below(b, g[n]) \ X : k[m] > k[n]

(* The nodes L hold the keys S, each in one node. *)
Holds(k, L, S) ==
    /\ \A n \in L : k[n] \in S
    /\ \A s \in S : \E n \in L : k[n] = s
    /\ \A m, n \in L : k[m] = k[n] => m = n

Live == {n \in Nodes : key[n] # NoKey}

Tree(b) ==
    /\ Shape(root, father, left, right, Live, b)
    /\ Sorted(key, left, right, Live, {}, b)
    /\ Holds(key, Live, Stored)

-----------------------------------------------------------------------------
(* What the walks have found out, with the subtrees b. *)

(* The key of the call is on the side of each node where the walk is. *)
OnItsSide(c, b) ==
    \A x \in Live : /\ c \in Below(b, left[x]) => arg < key[x]
                    /\ c \in Below(b, right[x]) => arg > key[x]

SearchInv(b) ==
    pc = "search" =>
        /\ cur # Null => cur \in Live
        /\ \A n \in Live : key[n] = arg => n \in Below(b, cur)
        /\ goal = "delete" => arg \in probed

InsertInv(b) ==
    pc = "insert" =>
        /\ arg \notin Stored
        /\ cur = Null => root = Null
        /\ cur # Null => cur \in Live /\ OnItsSide(cur, b)

ClimbInv ==
    /\ pc \in {"balance_insert", "balance_delete"} /\ cur # Null => cur \in Live
    /\ pc \in {"rotate_right", "rotate_left"} => cur \in Live

PredInv(b) ==
    pc = "pred" =>
        /\ target \in Live /\ key[target] = arg /\ arg \in probed
        /\ left[target] # Null /\ right[target] # Null
        /\ cur \in Below(b, left[target])
        /\ \A n \in Below(b, left[target]) : n = cur \/ key[n] < key[cur] \/ n \in Below(b, right[cur])

(* The keys of the file that are still to come. *)
TodoInv ==
    /\ kept \cap probed = {}
    /\ \A i, j \in DOMAIN todo : i # j => todo[i] # todo[j]
    /\ \A i \in DOMAIN todo : todo[i] \notin kept
    /\ todo # <<>> \/ goal = "load" => probed = {}
    /\ goal \in {"lookup", "delete"} => todo = <<>>
    /\ pc = "insert" /\ goal = "load" => \A i \in DOMAIN todo : todo[i] # arg
    /\ pc = "idle" => goal = "none"
    /\ pc = "insert" => goal # "none"

(* The keys still to be destroyed are those below the nodes on the stack. *)
Pending(s, b) == UNION {b[s[i]] : i \in DOMAIN s}

Apart(s, b) == /\ \A i \in DOMAIN s : s[i] \in Live
               /\ \A i, j \in DOMAIN s : i # j => b[s[i]] \cap b[s[j]] = {}

DestroyInv(b) ==
    pc \in {"destroy", "closed"} =>
        /\ Apart(stack, b)
        /\ \A n \in Live : n \in Pending(stack, b) \/ \E i \in DOMAIN order : order[i] = key[n]
        /\ \A n \in Pending(stack, b) : \A i \in DOMAIN order : order[i] # key[n]
        /\ \A i, j \in DOMAIN order : order[i] = order[j] => i = j
        /\ \A i \in DOMAIN order : order[i] \in Stored
        /\ pc = "closed" => stack = <<>>

TreeInv(b) ==
    /\ Tree(b) /\ SearchInv(b) /\ InsertInv(b) /\ ClimbInv /\ PredInv(b)
    /\ TodoInv /\ DestroyInv(b)

IInv == /\ TypeInv
        /\ lost \/ pc = "crashed" \/ \E b \in [Nodes -> SUBSET Nodes] : TreeInv(b)

-----------------------------------------------------------------------------
(* Facts of trees. *)

(* A tree in a mirror is a tree. *)
LEMMA Mirror ==
    ASSUME NEW r, NEW f, NEW l, NEW g, NEW L, NEW b, Shape(r, f, l, g, L, b)
    PROVE  Shape(r, f, g, l, L, b)
  BY DEF Shape

(* The sons of a node, their subtrees and their fathers. *)
LEMMA Sons ==
    ASSUME NEW r, NEW f, NEW l, NEW g, NEW L, NEW b, Shape(r, f, l, g, L, b),
           Null \notin L, NEW n \in L, l[n] # Null
    PROVE  /\ l[n] \in L /\ f[l[n]] = n /\ l[n] # n /\ l[n] # r
           /\ l[n] \in b[l[n]] /\ b[l[n]] \subseteq b[n] /\ n \notin b[l[n]] /\ n \in b[n]
           /\ b[l[n]] = Below(b, l[n])
           /\ l[n] # g[n]
           /\ Below(b, l[l[n]]) \subseteq b[l[n]] /\ l[n] \notin Below(b, l[l[n]])
           /\ Below(b, g[l[n]]) \subseteq b[l[n]] /\ l[n] \notin Below(b, g[l[n]])
  <1>1. /\ l[n] \in L /\ f[l[n]] = n
        /\ b[n] = {n} \cup Below(b, l[n]) \cup Below(b, g[n])
        /\ n \notin Below(b, l[n]) /\ Below(b, l[n]) \cap Below(b, g[n]) = {}
    BY DEF Shape
  <1>2. /\ b[l[n]] = {l[n]} \cup Below(b, l[l[n]]) \cup Below(b, g[l[n]])
        /\ l[n] \notin Below(b, l[l[n]]) /\ l[n] \notin Below(b, g[l[n]])
    BY <1>1 DEF Shape
  <1>3. b[l[n]] = Below(b, l[n])
    BY DEF Below
  <1>4. l[n] # r
    BY <1>1, <1>2, <1>3 DEF Shape
  <1>5. g[n] = l[n] => Below(b, g[n]) = b[l[n]]
    BY DEF Below
  <1> QED
    BY <1>1, <1>2, <1>3, <1>4, <1>5

(* A node has no other ancestor with the same son. *)
LEMMA OneFather ==
    ASSUME NEW r, NEW f, NEW l, NEW g, NEW L, NEW b, Shape(r, f, l, g, L, b),
           Null \notin L, NEW n \in L, NEW m \in L,
           n # m
    PROVE  /\ l[n] # Null => l[n] # l[m] /\ l[n] # g[m]
           /\ g[n] # Null => g[n] # l[m] /\ g[n] # g[m]
  BY DEF Shape

(* The links and the subtrees once the left son of n has risen; the right  *)
(* one rises in the mirror.                                                *)
RisenFather(f, l, g, n) ==
    [m \in Nodes |-> IF m = l[l[n]] THEN n ELSE IF m = g[n] THEN l[n] ELSE f[m]]

RisenSon(l, g, n) == [l EXCEPT ![n] = l[l[n]], ![l[n]] = g[l[n]]]

RisenOther(l, g, n) == [g EXCEPT ![n] = l[n], ![l[n]] = g[n]]

RisenBelow(b, l, g, n) == [b EXCEPT ![l[n]] = {l[n]} \cup Below(b, g[l[n]]) \cup Below(b, g[n])]

LEMMA RotationShape ==
    ASSUME NEW r,
           NEW f \in [Nodes -> Nodes \cup {Null}], NEW l \in [Nodes -> Nodes \cup {Null}],
           NEW g \in [Nodes -> Nodes \cup {Null}], NEW L \in SUBSET Nodes,
           NEW b \in [Nodes -> SUBSET Nodes],
           Shape(r, f, l, g, L, b), NEW n \in L, l[n] # Null,
           NEW f2, NEW l2, NEW g2, NEW b2,
           f2 = RisenFather(f, l, g, n), l2 = RisenSon(l, g, n), g2 = RisenOther(l, g, n),
           b2 = RisenBelow(b, l, g, n)
    PROVE  Shape(r, f2, l2, g2, L, b2)
  <1> DEFINE s == l[n]
  <1>0. Null \notin Nodes
    BY KeysAssumption
  <1>. USE DEF RisenFather, RisenSon, RisenOther, RisenBelow
  <1>1. /\ s \in L /\ f[s] = n /\ s # n /\ s # r /\ s \in Nodes /\ n \in Nodes
        /\ s \in b[s] /\ b[s] \subseteq b[n] /\ n \notin b[s] /\ n \in b[n]
        /\ s # g[n]
        /\ Below(b, l[s]) \subseteq b[s] /\ s \notin Below(b, l[s])
        /\ Below(b, g[s]) \subseteq b[s] /\ s \notin Below(b, g[s])
    BY <1>0, Sons
  <1>2. \A m \in L : m # n /\ m # s => l2[m] = l[m] /\ g2[m] = g[m] /\ b2[m] = b[m]
    BY <1>1
  <1>3. /\ l2[n] = l[s] /\ g2[n] = s /\ l2[s] = g[s] /\ g2[s] = g[n] /\ b2[n] = b[n]
        /\ b2[s] = {s} \cup Below(b, g[s]) \cup Below(b, g[n])
    BY <1>1
  <1>4. /\ b[n] = {n} \cup Below(b, s) \cup Below(b, g[n])
        /\ n \notin Below(b, s) /\ n \notin Below(b, g[n])
        /\ Below(b, s) \cap Below(b, g[n]) = {} /\ Below(b, s) = b[s]
        /\ b[s] = {s} \cup Below(b, l[s]) \cup Below(b, g[s])
        /\ Below(b, l[s]) \cap Below(b, g[s]) = {}
    BY <1>1 DEF Shape, Below
  <1>5. /\ l[s] # s /\ g[s] # s /\ g[n] # s /\ l[s] # n /\ g[s] # n /\ g[n] # n
    <2>1. l[s] # Null => l[s] # s /\ l[s] \in b[s]
      BY <1>0, <1>1, Sons
    <2>2. Shape(r, f, g, l, L, b)
      BY Mirror
    <2>3. g[s] # Null => g[s] # s /\ g[s] \in b[s]
      BY <1>0, <1>1, <2>2, Sons
    <2>4. g[n] # Null => g[n] # n
      BY <1>0, <1>1, <2>2, Sons
    <2> QED
      BY <2>1, <2>3, <2>4, <1>0, <1>1
  <1>6. \A m \in L : /\ m # n => l[m] # s /\ g[m] # s
                     /\ m # s => (l[m] # Null => l[m] # l[s] /\ l[m] # g[s])
                     /\ m # s => (g[m] # Null => g[m] # l[s] /\ g[m] # g[s])
                     /\ m # n => (l[m] # Null => l[m] # g[n])
                     /\ m # n => (g[m] # Null => g[m] # g[n])
    BY <1>0, <1>1, OneFather
  <1>7. /\ Below(b2, l[s]) = Below(b, l[s]) /\ Below(b2, g[s]) = Below(b, g[s])
        /\ Below(b2, g[n]) = Below(b, g[n]) /\ Below(b2, s) = b2[s]
        /\ \A m \in L : m # n => Below(b2, l[m]) = Below(b, l[m]) /\ Below(b2, g[m]) = Below(b, g[m])
    <2>1. \A m \in Nodes \cup {Null} : m # s => Below(b2, m) = Below(b, m)
      BY DEF Below
    <2> QED
      BY <2>1, <1>1, <1>5, <1>6, <1>0 DEF Below
  <1>8. /\ l[s] # Null => l[s] \in L /\ f2[l[s]] = n
        /\ g[n] # Null => g[n] \in L /\ f2[g[n]] = s
        /\ \A m \in L : m # l[s] /\ m # g[n] => f2[m] = f[m]
        /\ l[s] # Null => l[s] # g[n]
    BY <1>1, <1>6, <1>0, OneFather DEF Shape
  <1>9. ASSUME NEW a \in L, NEW m \in b2[a]
        PROVE  /\ b2[m] \subseteq b2[a]
               /\ m # a => m # r /\ f2[m] \in b2[a]
    <2>0. /\ a \in L /\ (a # s => b2[a] = b[a])
          /\ m \in L
      BY <1>2, <1>3, <1>9, <1>1, <1>4 DEF Shape
    <2>1. \A x \in L : \A y \in b[x] : /\ b[y] \subseteq b[x]
                                       /\ y # x => y # r /\ f[y] \in b[x]
      BY DEF Shape
    <2>2. \A x \in L : s \in b[x] /\ x # s => n \in b[x] /\ b[n] \subseteq b[x]
      BY <2>1, <1>1
    <2>3. b2[s] \subseteq b[n]
      BY <1>3, <1>4
    <2>4. CASE a # s
      <3>1. m \in b[a]
        BY <2>4, <2>0
      <3>2. b2[m] \subseteq b2[a]
        <4>1. CASE m = s
          BY <4>1, <3>1, <2>2, <2>3, <2>4, <2>0
        <4>2. CASE m # s
          BY <4>2, <3>1, <2>1, <2>4, <2>0
        <4> QED
          BY <4>1, <4>2
      <3>3. m # a => m # r /\ f[m] \in b[a]
        BY <2>1, <3>1
      <3>4. m = l[s] /\ m # a => n \in b[a]
        BY <3>3, <1>0, <1>1, <2>0, <2>2, <2>4 DEF Shape
      <3>5. m = g[n] /\ m # a => s \in b[a]
        BY <3>3, <1>0, <1>1, <2>0, <2>1 DEF Shape
      <3> QED
        BY <3>2, <3>3, <3>4, <3>5, <1>8, <2>0, <2>4
    <2>5. CASE a = s
      <3>1. m = s \/ m \in Below(b, g[s]) \/ m \in Below(b, g[n])
        BY <2>5, <1>3
      <3>2. m \in Below(b, g[s]) =>
              /\ g[s] # Null /\ g[s] \in L /\ m \in b[g[s]] /\ b[m] \subseteq Below(b, g[s])
              /\ m # g[s] => m # r /\ f[m] \in Below(b, g[s])
              /\ m = g[s] => m # r /\ f[m] = s
        BY <2>1, <1>1, <1>0 DEF Shape, Below
      <3>3. m \in Below(b, g[n]) =>
              /\ g[n] # Null /\ g[n] \in L /\ m \in b[g[n]] /\ b[m] \subseteq Below(b, g[n])
              /\ m # g[n] => m # r /\ f[m] \in Below(b, g[n])
              /\ m = g[n] => m # r
        BY <2>1, <1>1, <1>0 DEF Shape, Below
      <3>4. b2[m] \subseteq b2[a]
        BY <3>1, <3>2, <3>3, <1>3, <2>0, <2>5, <1>2, <1>4, <1>1
      <3>5. m # s => m # l[s]
        <4>1. l[s] # Null => l[s] \in Below(b, l[s])
          BY <1>1 DEF Shape, Below
        <4> QED
          BY <4>1, <3>1, <1>4, <2>0, <1>0
      <3> QED
        BY <3>1, <3>2, <3>3, <3>4, <3>5, <1>8, <1>3, <2>0, <2>5
    <2> QED
      BY <2>4, <2>5
  <1>10. r # Null => r \in L /\ b2[r] = L /\ f2[r] = Null
    <2>1. r # Null => r # l[s] /\ r # g[n]
      BY <1>1, <1>0 DEF Shape
    <2> QED
      BY <2>1, <1>8, <1>1, <1>2, <1>3 DEF Shape
  <1>11. \A m \in L : b2[m] \subseteq L
    BY <1>1, <1>2, <1>3, <1>4 DEF Shape
  <1>12. ASSUME NEW m \in L
         PROVE  /\ l2[m] # Null => l2[m] \in L /\ f2[l2[m]] = m
                /\ g2[m] # Null => g2[m] \in L /\ f2[g2[m]] = m
    <2>1. CASE m = n
      BY <2>1, <1>1, <1>3, <1>5, <1>8, <1>0
    <2>2. CASE m = s
      <3>1. g[s] # Null => g[s] # l[s] /\ g[s] # g[n]
        <4>1. g[s] # Null => g[s] # g[n]
          BY <1>0, <1>1, OneFather
        <4>2. g[s] # Null => g[s] \in Below(b, g[s])
          BY <1>1 DEF Shape, Below
        <4>3. g[s] # Null => Below(b, g[s]) # Below(b, l[s])
          BY <4>2, <1>4
        <4> QED
          BY <4>1, <4>3
      <3>2. g[s] # Null => g[s] \in L /\ f[g[s]] = s
        BY <1>1 DEF Shape
      <3>3. g[s] # Null => f2[g[s]] = s
        BY <3>1, <3>2, <1>8
      <3> QED
        BY <2>2, <3>2, <3>3, <1>1, <1>3, <1>8
    <2>3. CASE m # n /\ m # s
      <3>1. /\ l[m] # Null => l[m] \in L /\ f[l[m]] = m
            /\ g[m] # Null => g[m] \in L /\ f[g[m]] = m
        BY DEF Shape
      <3>2. l2[m] = l[m] /\ g2[m] = g[m]
        BY <2>3, <1>2
      <3>3. /\ l[m] # Null => l[m] # l[s] /\ l[m] # g[n]
            /\ g[m] # Null => g[m] # l[s] /\ g[m] # g[n]
        BY <2>3, <1>6
      <3> QED
        BY <3>1, <3>2, <3>3, <1>8
    <2> QED
      BY <2>1, <2>2, <2>3
  <1>13. ASSUME NEW m \in L
         PROVE  /\ b2[m] = {m} \cup Below(b2, l2[m]) \cup Below(b2, g2[m])
                /\ m \notin Below(b2, l2[m]) /\ m \notin Below(b2, g2[m])
                /\ Below(b2, l2[m]) \cap Below(b2, g2[m]) = {}
    <2>1. CASE m = n
      <3>1. Below(b2, l2[m]) = Below(b, l[s]) /\ Below(b2, g2[m]) = b2[s]
        BY <2>1, <1>3, <1>7
      <3>2. b2[m] = b[m] /\ b2[s] = {s} \cup Below(b, g[s]) \cup Below(b, g[n])
        BY <2>1, <1>3
      <3>3. b[m] = {m} \cup Below(b, l[s]) \cup b2[s]
        BY <2>1, <3>2, <1>4
      <3>4. m \notin Below(b, l[s]) /\ m \notin b2[s]
        BY <2>1, <3>2, <1>1, <1>4
      <3>5. Below(b, l[s]) \cap b2[s] = {}
        BY <3>2, <1>1, <1>4
      <3> QED
        BY <3>1, <3>2, <3>3, <3>4, <3>5
    <2>2. CASE m = s
      <3>1. Below(b2, l2[m]) = Below(b, g[s]) /\ Below(b2, g2[m]) = Below(b, g[n])
        BY <2>2, <1>3, <1>7
      <3>2. b2[m] = {m} \cup Below(b, g[s]) \cup Below(b, g[n])
        BY <2>2, <1>3
      <3>3. m \notin Below(b, g[s]) /\ m \notin Below(b, g[n])
        BY <2>2, <1>1, <1>4
      <3>4. Below(b, g[s]) \cap Below(b, g[n]) = {}
        BY <1>1, <1>4
      <3> QED
        BY <3>1, <3>2, <3>3, <3>4
    <2>3. CASE m # n /\ m # s
      <3>1. /\ l2[m] = l[m] /\ g2[m] = g[m] /\ b2[m] = b[m]
            /\ Below(b2, l2[m]) = Below(b, l[m]) /\ Below(b2, g2[m]) = Below(b, g[m])
        BY <2>3, <1>2, <1>7
      <3>2. /\ b[m] = {m} \cup Below(b, l[m]) \cup Below(b, g[m])
            /\ m \notin Below(b, l[m]) /\ m \notin Below(b, g[m])
            /\ Below(b, l[m]) \cap Below(b, g[m]) = {}
        BY DEF Shape
      <3> QED
        BY <3>1, <3>2
    <2> QED
      BY <2>1, <2>2, <2>3
  <1>14. ASSUME NEW m \in L, m # r
         PROVE  f2[m] \in L /\ (l2[f2[m]] = m \/ g2[f2[m]] = m)
    <2>1. CASE m = l[s]
      BY <2>1, <1>8, <1>3, <1>0
    <2>2. CASE m = g[n]
      BY <2>2, <1>8, <1>3, <1>1, <1>0
    <2>3. CASE m # l[s] /\ m # g[n]
      BY <2>3, <1>8, <1>14, <1>2, <1>3, <1>1 DEF Shape
    <2> QED
      BY <2>1, <2>2, <2>3
  <1>15. r = Null => L = {}
    BY DEF Shape
  <1> QED
    BY <1>9, <1>10, <1>11, <1>12, <1>13, <1>14, <1>15 DEF Shape

(* Keys stay in order when a son rises: from the left ... *)
LEMMA RightRotationSorted ==
    ASSUME NEW r,
           NEW f \in [Nodes -> Nodes \cup {Null}], NEW l \in [Nodes -> Nodes \cup {Null}],
           NEW g \in [Nodes -> Nodes \cup {Null}], NEW L \in SUBSET Nodes,
           NEW b \in [Nodes -> SUBSET Nodes],
           Shape(r, f, l, g, L, b), NEW n \in L, l[n] # Null,
           NEW k \in [Nodes -> Keys \cup {NoKey}], \A m \in L : k[m] \in Keys,
           Sorted(k, l, g, L, {}, b),
           NEW k2, NEW l2, NEW g2, NEW b2,
           k2 = [k EXCEPT ![n] = k[l[n]], ![l[n]] = k[n]],
           l2 = [l EXCEPT ![n] = l[l[n]], ![l[n]] = g[l[n]]],
           g2 = [g EXCEPT ![n] = l[n], ![l[n]] = g[n]],
           b2 = [b EXCEPT ![l[n]] = {l[n]} \cup Below(b, g[l[n]]) \cup Below(b, g[n])]
    PROVE  Sorted(k2, l2, g2, L, {}, b2)
  <1> DEFINE s == l[n]
  <1>0. Null \notin Nodes /\ Keys \subseteq Int
    BY KeysAssumption
  <1>1. /\ s \in L /\ f[s] = n /\ s # n /\ s # r /\ s \in Nodes /\ n \in Nodes
        /\ s \in b[s] /\ b[s] \subseteq b[n] /\ n \notin b[s] /\ n \in b[n] /\ b[s] = Below(b, s)
        /\ s # g[n]
        /\ Below(b, l[s]) \subseteq b[s] /\ s \notin Below(b, l[s])
        /\ Below(b, g[s]) \subseteq b[s] /\ s \notin Below(b, g[s])
    BY <1>0, Sons
  <1>2. /\ \A m \in L : m # n /\ m # s => l2[m] = l[m] /\ g2[m] = g[m] /\ b2[m] = b[m] /\ k2[m] = k[m]
        /\ l2[n] = l[s] /\ g2[n] = s /\ l2[s] = g[s] /\ g2[s] = g[n] /\ b2[n] = b[n]
        /\ b2[s] = {s} \cup Below(b, g[s]) \cup Below(b, g[n])
        /\ k2[n] = k[s] /\ k2[s] = k[n]
    BY <1>1
  <1>3. \A x \in L : /\ \A m \in Below(b, l[x]) : k[m] < k[x]
                     /\ \A m \in Below(b, g[x]) : k[m] > k[x]
    BY DEF Sorted
  <1>4. \A x \in L : Below(b, l[x]) \subseteq L /\ Below(b, g[x]) \subseteq L
    BY DEF Shape, Below
  <1>5. n \notin Below(b, g[n]) /\ s \notin Below(b, g[n]) /\ n \notin Below(b, l[s]) /\ n \notin Below(b, g[s])
    <2>1. n \notin Below(b, g[n]) /\ Below(b, s) \cap Below(b, g[n]) = {}
      BY DEF Shape
    <2> QED
      BY <1>1, <2>1
  <1>6. k[s] < k[n]
    BY <1>1, <1>3
  <1>7. \A m \in Nodes \cup {Null} : m # s => Below(b2, m) = Below(b, m)
    BY DEF Below
  <1>8. l[s] # s /\ g[s] # s /\ g[n] # s
    <2>1. l[s] # Null => l[s] # s
      BY <1>0, <1>1, Sons
    <2>2. Shape(r, f, g, l, L, b)
      BY Mirror
    <2>3. g[s] # Null => g[s] # s
      BY <1>0, <1>1, <2>2, Sons
    <2>4. s # Null /\ g[n] # s
      BY <1>0, <1>1
    <2> QED
      BY <2>1, <2>3, <2>4
  <1>9. ASSUME NEW x \in L
        PROVE  /\ \A m \in Below(b2, l2[x]) : k2[m] < k2[x]
               /\ \A m \in Below(b2, g2[x]) : k2[m] > k2[x]
    <2>1. CASE x = n
      <3>1. Below(b2, l2[x]) = Below(b, l[s]) /\ Below(b2, g2[x]) = b2[s]
        BY <2>1, <1>0, <1>1, <1>2, <1>7, <1>8 DEF Below
      <3>2. \A m \in Below(b, l[s]) : k2[m] < k2[n]
        BY <1>1, <1>2, <1>3, <1>4, <1>5
      <3>3. \A m \in b2[s] : k2[m] > k2[n]
        <4>1. \A m \in Below(b, g[s]) : k2[m] > k2[n]
          BY <1>1, <1>2, <1>3, <1>4, <1>5
        <4>2. \A m \in Below(b, g[n]) : k2[m] = k[m] /\ k[m] > k[n] /\ k[m] \in Int
          BY <1>0, <1>2, <1>3, <1>4, <1>5
        <4>3. k[s] \in Int /\ k[n] \in Int
          BY <1>0, <1>1
        <4>4. ASSUME NEW m \in Below(b, g[n])
              PROVE  k2[m] > k2[n]
          <5>1. k2[n] = k[s] /\ k2[m] = k[m] /\ k[m] \in Int /\ k[m] > k[n]
            BY <1>2, <4>2
          <5> QED
            BY <5>1, <4>3, <1>6
        <4> QED
          BY <4>1, <4>4, <4>3, <1>2, <1>6
      <3> QED
        BY <2>1, <3>1, <3>2, <3>3
    <2>2. CASE x = s
      <3>1. Below(b2, l2[x]) = Below(b, g[s]) /\ Below(b2, g2[x]) = Below(b, g[n])
        BY <2>2, <1>0, <1>1, <1>2, <1>7, <1>8
      <3>2. \A m \in Below(b, g[s]) : m \in Below(b, l[n]) /\ m \in L /\ m # n /\ m # s
        BY <1>1, <1>4, <1>5
      <3>3. \A m \in Below(b, g[s]) : k2[m] < k2[s]
        BY <3>2, <1>2, <1>3
      <3>4. \A m \in Below(b, g[n]) : k2[m] > k2[s]
        BY <1>2, <1>3, <1>4, <1>5
      <3> QED
        BY <2>2, <3>1, <3>3, <3>4
    <2>3. CASE x # n /\ x # s
      <3>1. l[x] # s /\ g[x] # s
        BY <2>3, <1>0, <1>1, OneFather
      <3>2. /\ l2[x] = l[x] /\ g2[x] = g[x] /\ k2[x] = k[x]
            /\ Below(b2, l[x]) = Below(b, l[x]) /\ Below(b2, g[x]) = Below(b, g[x])
        BY <2>3, <3>1, <1>2, <1>7
      <3>3. \A a \in L : a # s => (s \in b[a] <=> n \in b[a])
        BY <1>1 DEF Shape
      <3>4. /\ s \in Below(b, l[x]) <=> n \in Below(b, l[x])
            /\ s \in Below(b, g[x]) <=> n \in Below(b, g[x])
        BY <3>1, <3>3 DEF Below, Shape
      <3>5. \A m \in Below(b, l[x]) : k2[m] < k2[x]
        BY <3>2, <3>4, <1>2, <1>3, <1>4
      <3>6. \A m \in Below(b, g[x]) : k2[m] > k2[x]
        BY <3>2, <3>4, <1>2, <1>3, <1>4
      <3> QED
        BY <3>2, <3>5, <3>6
    <2> QED
      BY <2>1, <2>2, <2>3
  <1> QED
    BY <1>9 DEF Sorted

(* ... and from the right *)
LEMMA LeftRotationSorted ==
    ASSUME NEW r,
           NEW f \in [Nodes -> Nodes \cup {Null}], NEW g \in [Nodes -> Nodes \cup {Null}],
           NEW l \in [Nodes -> Nodes \cup {Null}], NEW L \in SUBSET Nodes,
           NEW b \in [Nodes -> SUBSET Nodes],
           Shape(r, f, l, g, L, b), NEW n \in L, g[n] # Null,
           NEW k \in [Nodes -> Keys \cup {NoKey}], \A m \in L : k[m] \in Keys,
           Sorted(k, l, g, L, {}, b),
           NEW k2, NEW g2, NEW l2, NEW b2,
           k2 = [k EXCEPT ![n] = k[g[n]], ![g[n]] = k[n]],
           g2 = [g EXCEPT ![n] = g[g[n]], ![g[n]] = l[g[n]]],
           l2 = [l EXCEPT ![n] = g[n], ![g[n]] = l[n]],
           b2 = [b EXCEPT ![g[n]] = {g[n]} \cup Below(b, l[g[n]]) \cup Below(b, l[n])]
    PROVE  Sorted(k2, l2, g2, L, {}, b2)
  <1> DEFINE s == g[n]
  <1>0. Null \notin Nodes /\ Keys \subseteq Int
    BY KeysAssumption
  <1> Shape(r, f, g, l, L, b)
    BY Mirror
  <1>1. /\ s \in L /\ f[s] = n /\ s # n /\ s # r /\ s \in Nodes /\ n \in Nodes
        /\ s \in b[s] /\ b[s] \subseteq b[n] /\ n \notin b[s] /\ n \in b[n] /\ b[s] = Below(b, s)
        /\ s # l[n]
        /\ Below(b, g[s]) \subseteq b[s] /\ s \notin Below(b, g[s])
        /\ Below(b, l[s]) \subseteq b[s] /\ s \notin Below(b, l[s])
    BY <1>0, Sons
  <1>2. /\ \A m \in L : m # n /\ m # s => g2[m] = g[m] /\ l2[m] = l[m] /\ b2[m] = b[m] /\ k2[m] = k[m]
        /\ g2[n] = g[s] /\ l2[n] = s /\ g2[s] = l[s] /\ l2[s] = l[n] /\ b2[n] = b[n]
        /\ b2[s] = {s} \cup Below(b, l[s]) \cup Below(b, l[n])
        /\ k2[n] = k[s] /\ k2[s] = k[n]
    BY <1>1
  <1>3. \A x \in L : /\ \A m \in Below(b, g[x]) : k[m] > k[x]
                     /\ \A m \in Below(b, l[x]) : k[m] < k[x]
    BY DEF Sorted
  <1>4. \A x \in L : Below(b, g[x]) \subseteq L /\ Below(b, l[x]) \subseteq L
    BY DEF Shape, Below
  <1>5. n \notin Below(b, l[n]) /\ s \notin Below(b, l[n]) /\ n \notin Below(b, g[s]) /\ n \notin Below(b, l[s])
    <2>1. n \notin Below(b, l[n]) /\ Below(b, s) \cap Below(b, l[n]) = {}
      BY DEF Shape
    <2> QED
      BY <1>1, <2>1
  <1>6. k[s] > k[n]
    BY <1>1, <1>3
  <1>7. \A m \in Nodes \cup {Null} : m # s => Below(b2, m) = Below(b, m)
    BY DEF Below
  <1>8. g[s] # s /\ l[s] # s /\ l[n] # s
    <2>1. g[s] # Null => g[s] # s
      BY <1>0, <1>1, Sons
    <2>2. Shape(r, f, g, l, L, b)
      BY Mirror
    <2>3. l[s] # Null => l[s] # s
      BY <1>0, <1>1, <2>2, Sons
    <2>4. s # Null /\ l[n] # s
      BY <1>0, <1>1
    <2> QED
      BY <2>1, <2>3, <2>4
  <1>9. ASSUME NEW x \in L
        PROVE  /\ \A m \in Below(b2, g2[x]) : k2[m] > k2[x]
               /\ \A m \in Below(b2, l2[x]) : k2[m] < k2[x]
    <2>1. CASE x = n
      <3>1. Below(b2, g2[x]) = Below(b, g[s]) /\ Below(b2, l2[x]) = b2[s]
        BY <2>1, <1>0, <1>1, <1>2, <1>7, <1>8 DEF Below
      <3>2. \A m \in Below(b, g[s]) : k2[m] > k2[n]
        BY <1>1, <1>2, <1>3, <1>4, <1>5
      <3>3. \A m \in b2[s] : k2[m] < k2[n]
        <4>1. \A m \in Below(b, l[s]) : k2[m] < k2[n]
          BY <1>1, <1>2, <1>3, <1>4, <1>5
        <4>2. \A m \in Below(b, l[n]) : k2[m] = k[m] /\ k[m] < k[n] /\ k[m] \in Int
          BY <1>0, <1>2, <1>3, <1>4, <1>5
        <4>3. k[s] \in Int /\ k[n] \in Int
          BY <1>0, <1>1
        <4>4. ASSUME NEW m \in Below(b, l[n])
              PROVE  k2[m] < k2[n]
          <5>1. k2[n] = k[s] /\ k2[m] = k[m] /\ k[m] \in Int /\ k[m] < k[n]
            BY <1>2, <4>2
          <5> QED
            BY <5>1, <4>3, <1>6
        <4> QED
          BY <4>1, <4>4, <4>3, <1>2, <1>6
      <3> QED
        BY <2>1, <3>1, <3>2, <3>3
    <2>2. CASE x = s
      <3>1. Below(b2, g2[x]) = Below(b, l[s]) /\ Below(b2, l2[x]) = Below(b, l[n])
        BY <2>2, <1>0, <1>1, <1>2, <1>7, <1>8
      <3>2. \A m \in Below(b, l[s]) : m \in Below(b, g[n]) /\ m \in L /\ m # n /\ m # s
        BY <1>1, <1>4, <1>5
      <3>3. \A m \in Below(b, l[s]) : k2[m] > k2[s]
        BY <3>2, <1>2, <1>3
      <3>4. \A m \in Below(b, l[n]) : k2[m] < k2[s]
        BY <1>2, <1>3, <1>4, <1>5
      <3> QED
        BY <2>2, <3>1, <3>3, <3>4
    <2>3. CASE x # n /\ x # s
      <3>1. g[x] # s /\ l[x] # s
        BY <2>3, <1>0, <1>1, OneFather
      <3>2. /\ g2[x] = g[x] /\ l2[x] = l[x] /\ k2[x] = k[x]
            /\ Below(b2, g[x]) = Below(b, g[x]) /\ Below(b2, l[x]) = Below(b, l[x])
        BY <2>3, <3>1, <1>2, <1>7
      <3>3. \A a \in L : a # s => (s \in b[a] <=> n \in b[a])
        BY <1>1 DEF Shape
      <3>4. /\ s \in Below(b, g[x]) <=> n \in Below(b, g[x])
            /\ s \in Below(b, l[x]) <=> n \in Below(b, l[x])
        BY <3>1, <3>3 DEF Below, Shape
      <3>5. \A m \in Below(b, g[x]) : k2[m] > k2[x]
        BY <3>2, <3>4, <1>2, <1>3, <1>4
      <3>6. \A m \in Below(b, l[x]) : k2[m] < k2[x]
        BY <3>2, <3>4, <1>2, <1>3, <1>4
      <3> QED
        BY <3>2, <3>5, <3>6
    <2> QED
      BY <2>1, <2>2, <2>3
  <1> QED
    BY <1>9 DEF Sorted

(* The links and the subtrees once the leaf n is the left son of c; a right*)
(* son is one in the mirror.                                               *)
LeafFather(f, c, n) == [f EXCEPT ![n] = c]

LeafSon(l, c, n) == [m \in Nodes |-> IF m = n THEN Null ELSE IF m = c THEN n ELSE l[m]]

LeafOther(g, n) == [m \in Nodes |-> IF m = n THEN Null ELSE g[m]]

LeafBelow(b, c, n) == [m \in Nodes |-> IF m = n THEN {n}
                                       ELSE IF c \in b[m] THEN b[m] \cup {n} ELSE b[m]]

(* How the subtrees grow with it. *)
Grown(c, n, L, b, l, g, b2, l2, g2) ==
    /\ Below(b2, l2[n]) = {} /\ Below(b2, g2[n]) = {}
    /\ \A x \in L : /\ Below(b2, l2[x]) \subseteq Below(b, l[x]) \cup {n}
                    /\ n \in Below(b2, l2[x]) => c \in Below(b, l[x]) \/ x = c
                    /\ Below(b2, g2[x]) \subseteq Below(b, g[x]) \cup {n}
                    /\ n \in Below(b2, g2[x]) => c \in Below(b, g[x])

(* A new leaf n under c. *)
LEMMA InsertShape ==
    ASSUME NEW r,
           NEW f \in [Nodes -> Nodes \cup {Null}], NEW l \in [Nodes -> Nodes \cup {Null}],
           NEW g \in [Nodes -> Nodes \cup {Null}], NEW L \in SUBSET Nodes,
           NEW b \in [Nodes -> SUBSET Nodes],
           Shape(r, f, l, g, L, b), NEW c \in L, l[c] = Null, NEW n \in Nodes, n \notin L,
           NEW f2, NEW l2, NEW g2, NEW b2,
           f2 = LeafFather(f, c, n), l2 = LeafSon(l, c, n), g2 = LeafOther(g, n),
           b2 = LeafBelow(b, c, n)
    PROVE  /\ Shape(r, f2, l2, g2, L \cup {n}, b2)
           /\ Grown(c, n, L, b, l, g, b2, l2, g2)
  <1>0. Null \notin Nodes
    BY KeysAssumption
  <1>. USE DEF LeafFather, LeafSon, LeafOther, LeafBelow
  <1>1. /\ \A m \in L : f2[m] = f[m] /\ g2[m] = g[m] /\ (m # c => l2[m] = l[m])
                        /\ b2[m] = IF c \in b[m] THEN b[m] \cup {n} ELSE b[m]
        /\ f2[n] = c /\ l2[n] = Null /\ g2[n] = Null /\ l2[c] = n /\ b2[n] = {n}
    OBVIOUS
  <1>2. \A m \in L : /\ l[m] # n /\ g[m] # n /\ n \notin b[m] /\ m \in b[m] /\ b[m] \subseteq L
                     /\ l[m] # Null => l[m] \in L
                     /\ g[m] # Null => g[m] \in L
    BY <1>0 DEF Shape
  <1>3. \A m \in L : /\ Below(b2, l[m]) = IF c \in Below(b, l[m]) THEN Below(b, l[m]) \cup {n} ELSE Below(b, l[m])
                     /\ Below(b2, g[m]) = IF c \in Below(b, g[m]) THEN Below(b, g[m]) \cup {n} ELSE Below(b, g[m])
    BY <1>1, <1>2 DEF Below
  <1>4. /\ Below(b2, l2[n]) = {} /\ Below(b2, g2[n]) = {}
        /\ Below(b2, l2[c]) = {n} /\ Below(b, l[c]) = {}
        /\ \A x \in L : g2[x] = g[x] /\ (x # c => l2[x] = l[x])
    BY <1>0, <1>1 DEF Below
  <1>5. \A x \in L : /\ Below(b2, l2[x]) \subseteq Below(b, l[x]) \cup {n}
                     /\ n \in Below(b2, l2[x]) => c \in Below(b, l[x]) \/ x = c
                     /\ Below(b2, g2[x]) \subseteq Below(b, g[x]) \cup {n}
                     /\ n \in Below(b2, g2[x]) => c \in Below(b, g[x])
    <2> SUFFICES ASSUME NEW x \in L
                 PROVE  /\ Below(b2, l2[x]) \subseteq Below(b, l[x]) \cup {n}
                        /\ n \in Below(b2, l2[x]) => c \in Below(b, l[x]) \/ x = c
                        /\ Below(b2, g2[x]) \subseteq Below(b, g[x]) \cup {n}
                        /\ n \in Below(b2, g2[x]) => c \in Below(b, g[x])
      OBVIOUS
    <2>1. n \notin Below(b, l[x]) /\ n \notin Below(b, g[x])
      BY <1>2 DEF Below
    <2>2. CASE x = c
      BY <2>1, <2>2, <1>3, <1>4
    <2>3. CASE x # c
      BY <2>1, <2>3, <1>3, <1>4
    <2> QED
      BY <2>2, <2>3
  <1>6. ASSUME NEW m \in L \cup {n}
        PROVE  /\ b2[m] \subseteq L \cup {n}
               /\ l2[m] # Null => l2[m] \in L \cup {n} /\ f2[l2[m]] = m
               /\ g2[m] # Null => g2[m] \in L \cup {n} /\ f2[g2[m]] = m
    BY <1>1, <1>2 DEF Shape
  <1>7. ASSUME NEW m \in L \cup {n}
        PROVE  /\ b2[m] = {m} \cup Below(b2, l2[m]) \cup Below(b2, g2[m])
               /\ m \notin Below(b2, l2[m]) /\ m \notin Below(b2, g2[m])
               /\ Below(b2, l2[m]) \cap Below(b2, g2[m]) = {}
    <2>1. CASE m = n
      BY <2>1, <1>1, <1>4
    <2>2. CASE m = c
      <3>1. b2[m] = b[m] \cup {n}
        BY <2>2, <1>1, <1>2
      <3>2. /\ b[m] = {m} \cup Below(b, g[m]) /\ m \notin Below(b, g[m])
        BY <2>2, <1>4 DEF Shape
      <3>3. n \notin Below(b, g[m]) /\ m # n
        BY <1>2, <2>2 DEF Below
      <3>4. Below(b2, l2[m]) = {n} /\ Below(b2, g2[m]) = Below(b, g[m])
        BY <3>2, <2>2, <1>3, <1>4
      <3> QED
        BY <3>1, <3>2, <3>3, <3>4
    <2>3. CASE m \in L /\ m # c
      <3>1. /\ b[m] = {m} \cup Below(b, l[m]) \cup Below(b, g[m])
            /\ m \notin Below(b, l[m]) /\ m \notin Below(b, g[m])
            /\ Below(b, l[m]) \cap Below(b, g[m]) = {}
        BY <2>3 DEF Shape
      <3>2. n \notin Below(b, g[m]) /\ n \notin Below(b, l[m]) /\ m # n
        BY <1>2, <2>3 DEF Below
      <3>3. /\ Below(b2, l[m]) = IF c \in Below(b, l[m]) THEN Below(b, l[m]) \cup {n} ELSE Below(b, l[m])
            /\ Below(b2, g[m]) = IF c \in Below(b, g[m]) THEN Below(b, g[m]) \cup {n} ELSE Below(b, g[m])
            /\ b2[m] = IF c \in b[m] THEN b[m] \cup {n} ELSE b[m]
        BY <2>3, <1>1, <1>3
      <3>4. m \notin Below(b2, l2[m]) /\ m \notin Below(b2, g2[m]) /\ l2[m] = l[m] /\ g2[m] = g[m]
        BY <2>3, <3>1, <3>2, <3>3, <1>4
      <3>5. b2[m] = {m} \cup Below(b2, l[m]) \cup Below(b2, g[m])
        BY <2>3, <3>1, <3>3
      <3>6. Below(b2, l[m]) \cap Below(b2, g[m]) = {}
        BY <3>1, <3>2, <3>3
      <3> QED
        BY <3>4, <3>5, <3>6
    <2> QED
      BY <2>1, <2>2, <2>3
  <1>8. ASSUME NEW m \in L \cup {n}, m # r
        PROVE  f2[m] \in L \cup {n} /\ (l2[f2[m]] = m \/ g2[f2[m]] = m)
    BY <1>0, <1>1, <1>8 DEF Shape
  <1>9. ASSUME NEW a \in L \cup {n}, NEW m \in b2[a]
        PROVE  /\ b2[m] \subseteq b2[a]
               /\ m # a => m # r /\ f2[m] \in b2[a]
    <2>1. \A x \in L : \A y \in b[x] : /\ b[y] \subseteq b[x]
                                       /\ y # x => y # r /\ f[y] \in b[x]
      BY DEF Shape
    <2>2. r # Null => r \in L
      BY DEF Shape
    <2>3. CASE a = n
      BY <2>3, <1>1
    <2>4. CASE a \in L /\ m = n
      BY <2>4, <1>0, <1>1, <1>2, <2>2
    <2>5. CASE a \in L /\ m \in b[a]
      BY <2>5, <2>1, <1>1, <1>2
    <2> QED
      BY <2>3, <2>4, <2>5, <1>1
  <1>10. r # Null => r \in L \cup {n} /\ b2[r] = L \cup {n} /\ f2[r] = Null
    BY <1>1 DEF Shape
  <1>11. r # Null
    BY DEF Shape
  <1>12. Shape(r, f2, l2, g2, L \cup {n}, b2)
    BY <1>6, <1>7, <1>8, <1>9, <1>10, <1>11 DEF Shape
  <1> QED
    BY <1>4, <1>5, <1>12 DEF Grown

(* The links and the subtrees without the node p, which was a leaf, or     *)
(* whose father c took over its sons.                                      *)
Unlinked(l, p) == [m \in Nodes |-> IF l[m] = p THEN Null ELSE l[m]]

Without(b, p) == [m \in Nodes |-> b[m] \ {p}]

TakenFather(f, l, g, c, p) == [m \in Nodes |-> IF m \in {l[p], g[p]} THEN c ELSE f[m]]

TakenSon(l, c, p) == [l EXCEPT ![c] = l[p]]

(* The tree that is left, how its subtrees have shrunk, all of them or all *)
(* but that of c, and where the climb starts.                              *)
Shrunk(p, L, b, l, g, b2, l2, g2) ==
    \A x \in L : /\ Below(b2, l2[x]) = Below(b, l[x]) \ {p}
                 /\ Below(b2, g2[x]) = Below(b, g[x]) \ {p}

Pruned(p, r, f, L, b, l, g, b2, l2, g2) ==
    /\ Shape(r, f, l2, g2, L \ {p}, b2)
    /\ Shrunk(p, L, b, l, g, b2, l2, g2)
    /\ f[p] \in L \ {p}

Adopted(c, p, r, f, L, b, l, g, f2, b2, l2, g2) ==
    /\ Shape(r, f2, l2, g2, L \ {p}, b2)
    /\ Shrunk(p, L \ {c}, b, l, g, b2, l2, g2)
    /\ Below(b2, l2[c]) = Below(b, l[p]) /\ Below(b2, g2[c]) = Below(b, g[p])
    /\ f[c] \in L \ {p}

(* A leaf p that is not the root goes. *)
LEMMA CutLeafShape ==
    ASSUME NEW r,
           NEW f \in [Nodes -> Nodes \cup {Null}], NEW l \in [Nodes -> Nodes \cup {Null}],
           NEW g \in [Nodes -> Nodes \cup {Null}], NEW L \in SUBSET Nodes,
           NEW b \in [Nodes -> SUBSET Nodes],
           Shape(r, f, l, g, L, b), NEW p \in L, p # r, l[p] = Null, g[p] = Null,
           NEW l2, NEW g2, NEW b2,
           l2 = Unlinked(l, p), g2 = Unlinked(g, p), b2 = Without(b, p)
    PROVE  Pruned(p, r, f, L, b, l, g, b2, l2, g2)
  <1>0. Null \notin Nodes
    BY KeysAssumption
  <1>. USE DEF Unlinked, Without
  <1>1. \A m \in L : /\ m \in b[m] /\ b[m] \subseteq L /\ b2[m] = b[m] \ {p}
                     /\ l[m] # Null => l[m] \in L
                     /\ g[m] # Null => g[m] \in L
    BY DEF Shape
  <1>2. b[p] = {p}
    BY DEF Shape, Below
  <1>3. \A x \in L : /\ Below(b2, l2[x]) = Below(b, l[x]) \ {p}
                     /\ Below(b2, g2[x]) = Below(b, g[x]) \ {p}
    BY <1>0, <1>1, <1>2 DEF Below
  <1>4. f[p] \in L \ {p}
    BY <1>0 DEF Shape
  <1>5. \A m \in L : m # r /\ m # p => f[m] # p
    BY <1>0 DEF Shape
  <1>6. ASSUME NEW m \in L \ {p}
        PROVE  /\ b2[m] \subseteq L \ {p}
               /\ l2[m] # Null => l2[m] \in L \ {p} /\ f[l2[m]] = m
               /\ g2[m] # Null => g2[m] \in L \ {p} /\ f[g2[m]] = m
    BY <1>1 DEF Shape
  <1>7. ASSUME NEW m \in L \ {p}
        PROVE  /\ b2[m] = {m} \cup Below(b2, l2[m]) \cup Below(b2, g2[m])
               /\ m \notin Below(b2, l2[m]) /\ m \notin Below(b2, g2[m])
               /\ Below(b2, l2[m]) \cap Below(b2, g2[m]) = {}
    <2>1. /\ b[m] = {m} \cup Below(b, l[m]) \cup Below(b, g[m])
          /\ m \notin Below(b, l[m]) /\ m \notin Below(b, g[m])
          /\ Below(b, l[m]) \cap Below(b, g[m]) = {}
      BY DEF Shape
    <2>2. b2[m] = {m} \cup (Below(b, l[m]) \ {p}) \cup (Below(b, g[m]) \ {p})
      BY <2>1, <1>1
    <2>3. Below(b2, l2[m]) = Below(b, l[m]) \ {p} /\ Below(b2, g2[m]) = Below(b, g[m]) \ {p}
      BY <1>3
    <2>4. m \notin Below(b2, l2[m]) /\ m \notin Below(b2, g2[m])
      BY <2>1, <2>3
    <2>5. b2[m] = {m} \cup Below(b2, l2[m]) \cup Below(b2, g2[m])
      BY <2>2, <2>3
    <2>6. Below(b2, l2[m]) \cap Below(b2, g2[m]) = {}
      BY <2>1, <2>3
    <2> QED
      BY <2>4, <2>5, <2>6
  <1>8. ASSUME NEW m \in L \ {p}, m # r
        PROVE  f[m] \in L \ {p} /\ (l2[f[m]] = m \/ g2[f[m]] = m)
    BY <1>0, <1>5, <1>8 DEF Shape
  <1>9. ASSUME NEW a \in L \ {p}, NEW m \in b2[a]
        PROVE  /\ b2[m] \subseteq b2[a]
               /\ m # a => m # r /\ f[m] \in b2[a]
    <2>1. \A x \in L : \A y \in b[x] : /\ b[y] \subseteq b[x]
                                       /\ y # x => y # r /\ f[y] \in b[x]
      BY DEF Shape
    <2> QED
      BY <2>1, <1>1, <1>5
  <1>10. r # Null => r \in L \ {p} /\ b2[r] = L \ {p} /\ f[r] = Null
    BY <1>1 DEF Shape
  <1>11. r # Null
    BY DEF Shape
  <1>12. Shape(r, f, l2, g2, L \ {p}, b2)
    BY <1>6, <1>7, <1>8, <1>9, <1>10, <1>11 DEF Shape
  <1> QED
    BY <1>3, <1>4, <1>12 DEF Pruned, Shrunk

(* A node p with the only son s takes over the sons of s, which goes. *)
LEMMA CutSonShape ==
    ASSUME NEW r,
           NEW f \in [Nodes -> Nodes \cup {Null}], NEW l \in [Nodes -> Nodes \cup {Null}],
           NEW g \in [Nodes -> Nodes \cup {Null}], NEW L \in SUBSET Nodes,
           NEW b \in [Nodes -> SUBSET Nodes],
           Shape(r, f, l, g, L, b), NEW p \in L, p # r, l[p] # Null, g[p] = Null,
           NEW f2, NEW l2, NEW g2, NEW b2,
           f2 = TakenFather(f, l, g, p, l[p]), l2 = TakenSon(l, p, l[p]),
           g2 = TakenSon(g, p, l[p]), b2 = Without(b, l[p])
    PROVE  Adopted(p, l[p], r, f, L, b, l, g, f2, b2, l2, g2)
  <1> DEFINE s == l[p]
  <1>0. Null \notin Nodes
    BY KeysAssumption
  <1>. USE DEF TakenFather, TakenSon, Without
  <1>1. /\ s \in L /\ f[s] = p /\ s # p /\ s # r /\ s \in Nodes /\ p \in Nodes
        /\ s \in b[s] /\ b[s] \subseteq b[p] /\ p \notin b[s] /\ p \in b[p] /\ b[s] = Below(b, s)
        /\ Below(b, l[s]) \subseteq b[s] /\ s \notin Below(b, l[s])
        /\ Below(b, g[s]) \subseteq b[s] /\ s \notin Below(b, g[s])
    BY <1>0, Sons
  <1>2. /\ \A m \in L : /\ m \in b[m] /\ b[m] \subseteq L /\ b2[m] = b[m] \ {s}
                        /\ l[m] # Null => l[m] \in L /\ f[l[m]] = m
                        /\ g[m] # Null => g[m] \in L /\ f[g[m]] = m
        /\ l2[p] = l[s] /\ g2[p] = g[s]
        /\ \A m \in L : m # p => l2[m] = l[m] /\ g2[m] = g[m]
    BY <1>1 DEF Shape
  <1>3. /\ \A m \in L : m # p => l[m] # s /\ g[m] # s
        /\ \A m \in L : m # s => /\ l[m] # Null => l[m] # l[s] /\ l[m] # g[s]
                                 /\ g[m] # Null => g[m] # l[s] /\ g[m] # g[s]
    BY <1>1, <1>2
  <1>4. l[s] # s /\ g[s] # s
    BY <1>0, <1>1, <1>2
  <1>5. \A m \in Nodes \cup {Null} : m # s => Below(b2, m) = Below(b, m) \ {s}
    BY DEF Below
  <1>6. /\ \A x \in L : x # p => /\ Below(b2, l2[x]) = Below(b, l[x]) \ {s}
                                 /\ Below(b2, g2[x]) = Below(b, g[x]) \ {s}
        /\ Below(b2, l2[p]) = Below(b, l[s]) /\ Below(b2, g2[p]) = Below(b, g[s])
    <2>1. l[s] \in Nodes \cup {Null} /\ g[s] \in Nodes \cup {Null}
      BY <1>1
    <2>2. Below(b2, l2[p]) = Below(b, l[s]) \ {s} /\ Below(b2, g2[p]) = Below(b, g[s]) \ {s}
      BY <2>1, <1>2, <1>4, <1>5
    <2>3. Below(b, l[s]) \ {s} = Below(b, l[s]) /\ Below(b, g[s]) \ {s} = Below(b, g[s])
      BY <1>1
    <2>4. \A x \in L : x # p => /\ Below(b2, l2[x]) = Below(b, l[x]) \ {s}
                                /\ Below(b2, g2[x]) = Below(b, g[x]) \ {s}
      BY <1>2, <1>3, <1>5
    <2> QED
      BY <2>2, <2>3, <2>4
  <1>7. f[p] \in L \ {s}
    <2>1. f[p] \in L /\ (l[f[p]] = p \/ g[f[p]] = p)
      BY DEF Shape
    <2>2. f[p] = s => p \in Below(b, l[s]) \/ p \in Below(b, g[s])
      BY <2>1, <1>0, <1>2 DEF Below
    <2> QED
      BY <2>1, <2>2, <1>1
  <1>8. ASSUME NEW m \in L \ {s}
        PROVE  /\ b2[m] \subseteq L \ {s}
               /\ l2[m] # Null => l2[m] \in L \ {s} /\ f2[l2[m]] = m
               /\ g2[m] # Null => g2[m] \in L \ {s} /\ f2[g2[m]] = m
    <2>1. CASE m = p
      BY <2>1, <1>1, <1>2, <1>4
    <2>2. CASE m # p
      BY <2>2, <1>2, <1>3
    <2> QED
      BY <2>1, <2>2
  <1>9. ASSUME NEW m \in L \ {s}
        PROVE  /\ b2[m] = {m} \cup Below(b2, l2[m]) \cup Below(b2, g2[m])
               /\ m \notin Below(b2, l2[m]) /\ m \notin Below(b2, g2[m])
               /\ Below(b2, l2[m]) \cap Below(b2, g2[m]) = {}
    <2>1. /\ b[m] = {m} \cup Below(b, l[m]) \cup Below(b, g[m])
          /\ m \notin Below(b, l[m]) /\ m \notin Below(b, g[m])
          /\ Below(b, l[m]) \cap Below(b, g[m]) = {}
      BY DEF Shape
    <2>2. CASE m = p
      <3>1. b[p] = {p} \cup b[s]
        BY <2>1, <2>2, <1>1 DEF Below
      <3>2. b[s] = {s} \cup Below(b, l[s]) \cup Below(b, g[s]) /\ Below(b, l[s]) \cap Below(b, g[s]) = {}
        BY <1>1 DEF Shape
      <3>3. b2[p] = b[p] \ {s}
        BY <1>2, <1>1
      <3>4. b2[p] = {p} \cup Below(b, l[s]) \cup Below(b, g[s])
        BY <3>1, <3>2, <3>3, <1>1
      <3>5. p \notin Below(b, l[s]) /\ p \notin Below(b, g[s])
        BY <1>1
      <3> QED
        BY <2>2, <3>2, <3>4, <3>5, <1>6
    <2>3. CASE m # p
      <3>1. b2[m] = {m} \cup (Below(b, l[m]) \ {s}) \cup (Below(b, g[m]) \ {s})
        BY <2>1, <1>2
      <3> QED
        BY <2>1, <2>3, <3>1, <1>6
    <2> QED
      BY <2>2, <2>3
  <1>10. \A m \in L : m # r /\ f[m] = s => m = l[s] \/ m = g[s]
    BY DEF Shape
  <1>11. \A m \in L : m # s => f2[m] = IF m = l[s] \/ m = g[s] THEN p ELSE f[m]
    OBVIOUS
  <1>12. ASSUME NEW m \in L \ {s}, m # r
         PROVE  f2[m] \in L \ {s} /\ (l2[f2[m]] = m \/ g2[f2[m]] = m)
    <2>1. CASE m = l[s] \/ m = g[s]
      BY <2>1, <1>1, <1>2, <1>11
    <2>2. CASE ~(m = l[s] \/ m = g[s])
      <3>1. f[m] \in L /\ (l[f[m]] = m \/ g[f[m]] = m) /\ f[m] # s
        BY <2>2, <1>10, <1>12 DEF Shape
      <3>2. f[m] # p
        BY <3>1, <1>0
      <3> QED
        BY <2>2, <3>1, <3>2, <1>2, <1>11
    <2> QED
      BY <2>1, <2>2
  <1>13. ASSUME NEW a \in L \ {s}, NEW m \in b2[a]
         PROVE  /\ b2[m] \subseteq b2[a]
                /\ m # a => m # r /\ f2[m] \in b2[a]
    <2>1. \A x \in L : \A y \in b[x] : /\ b[y] \subseteq b[x]
                                       /\ y # x => y # r /\ f[y] \in b[x]
      BY DEF Shape
    <2>2. m \in b[a] /\ m \in L /\ m # s
      BY <1>2
    <2>3. b2[m] \subseteq b2[a]
      BY <2>1, <2>2, <1>2
    <2>4. m # a => m # r /\ f[m] \in b[a]
      BY <2>1, <2>2
    <2>5. s \in b[a] => p \in b[a]
      BY <2>1, <1>1
    <2>6. m # a /\ (m = l[s] \/ m = g[s]) => f[m] = s /\ f2[m] = p
      BY <2>2, <1>0, <1>1, <1>2, <1>11
    <2>7. m # a /\ ~(m = l[s] \/ m = g[s]) => f[m] # s /\ f2[m] = f[m]
      BY <2>2, <2>4, <1>10, <1>11
    <2>8. b2[a] = b[a] \ {s}
      BY <1>2
    <2>9. m # a => f2[m] \in b[a] /\ f2[m] # s
      <3>1. CASE m = l[s] \/ m = g[s]
        BY <3>1, <2>4, <2>5, <2>6, <1>1
      <3>2. CASE ~(m = l[s] \/ m = g[s])
        BY <3>2, <2>4, <2>7
      <3> QED
        BY <3>1, <3>2
    <2> QED
      BY <2>3, <2>4, <2>8, <2>9
  <1>14. r # Null => r \in L \ {s} /\ b2[r] = L \ {s} /\ f2[r] = Null
    <2>1. r # Null => r \in L /\ b[r] = L /\ f[r] = Null
      BY DEF Shape
    <2>2. r # Null => r # l[s] /\ r # g[s]
      BY <2>1, <1>0, <1>1, <1>2
    <2> QED
      BY <2>1, <2>2, <1>1, <1>2, <1>11
  <1>15. r # Null
    BY DEF Shape
  <1>16. Shape(r, f2, l2, g2, L \ {s}, b2)
    BY <1>8, <1>9, <1>12, <1>13, <1>14, <1>15 DEF Shape
  <1> QED
    BY <1>6, <1>7, <1>16 DEF Adopted, Shrunk

-----------------------------------------------------------------------------
(* What a turn of a balancing loop can do to the tree. *)
Turned ==
    \/ UNCHANGED tree /\ (AfterRotation \/ Die)
    \/ left[cur] # Null /\ RightRotation(cur) /\ AfterRotation
    \/ right[cur] # Null /\ LeftRotation(cur) /\ AfterRotation
    \/ /\ left[cur] # Null /\ right[left[cur]] # Null
       /\ LeftRotation(left[cur]) /\ Goto("rotate_right", cur)
    \/ /\ right[cur] # Null /\ left[right[cur]] # Null
       /\ RightRotation(right[cur]) /\ Goto("rotate_left", cur)

LEMMA RotateTurns ==
    ASSUME TypeInv, cur \in Nodes, Rotate
    PROVE  Turned
  <1> DEFINE bf == BalanceFactor(cur)
             lf == BalanceFactor(left[cur])
  <1>0. Null \notin Nodes
    BY KeysAssumption
  <1>1. lf < 0 => left[cur] # Null
    BY DEF BalanceFactor
  <1>2. bf = -2 => right[cur] # Null
    BY <1>0 DEF TypeInv, BalanceFactor, Height
  <1>3. bf \in Int /\ lf \in Int
    BY <1>0 DEF TypeInv, BalanceFactor, Height
  <1>4. \/ bf = 2 /\ lf >= 0 /\ TurnRight(cur, AfterRotation)
        \/ bf = 2 /\ lf < 0 /\ TurnLeft(left[cur], Goto("rotate_right", cur))
        \/ bf = -2 /\ lf >= 0 /\ TurnLeft(cur, AfterRotation)
        \/ bf = -2 /\ lf < 0 /\ TurnRight(right[cur], Goto("rotate_left", cur))
        \/ AfterRotation /\ UNCHANGED tree
    BY <1>3 DEF Rotate
  <1> QED
    BY <1>1, <1>2, <1>4 DEF Turned, TurnRight, TurnLeft

LEMMA SecondTurns ==
    ASSUME SecondRotation
    PROVE  Turned /\ pc \in {"rotate_right", "rotate_left"}
  BY DEF SecondRotation, Turned, TurnRight, TurnLeft

LEMMA TurnedType ==
    ASSUME TypeInv, cur \in Nodes, Turned, pc \notin {"destroy", "closed"},
           UNCHANGED <<index, walk>>
    PROVE  TypeInv'
  <1>0. Null \notin Nodes /\ index' = index /\ walk' = walk
    BY KeysAssumption
  <1>1. ASSUME NEW n \in Nodes, left[n] # Null, RightRotation(n)
        PROVE  /\ root' = root /\ key' \in [Nodes -> Keys \cup {NoKey}] /\ height' \in [Nodes -> Nat]
               /\ father' \in [Nodes -> Nodes \cup {Null}] /\ left' \in [Nodes -> Nodes \cup {Null}]
               /\ right' \in [Nodes -> Nodes \cup {Null}]
    <2>1. left[n] \in Nodes
      BY <1>1 DEF TypeInv
    <2>2. \A m \in Nodes \cup {Null} : Height(m) \in Int /\ Height(m) >= -1
      BY <1>0 DEF TypeInv, Height
    <2>3. \A i, j \in Int : i >= -1 /\ j >= -1 => Maximum(i, j) + 1 \in Nat
      BY DEF Maximum
    <2>4. \A i \in Int, j \in Nat : i >= -1 => Maximum(i, j) + 1 \in Nat
      BY DEF Maximum
    <2>5. height' \in [Nodes -> Nat]
      BY <1>1, <2>1, <2>2, <2>3, <2>4 DEF TypeInv, RightRotation
    <2> QED
      BY <1>1, <2>1, <2>5 DEF TypeInv, RightRotation
  <1>2. ASSUME NEW n \in Nodes, right[n] # Null, LeftRotation(n)
        PROVE  /\ root' = root /\ key' \in [Nodes -> Keys \cup {NoKey}] /\ height' \in [Nodes -> Nat]
               /\ father' \in [Nodes -> Nodes \cup {Null}] /\ left' \in [Nodes -> Nodes \cup {Null}]
               /\ right' \in [Nodes -> Nodes \cup {Null}]
    <2>1. right[n] \in Nodes
      BY <1>2 DEF TypeInv
    <2>2. \A m \in Nodes \cup {Null} : Height(m) \in Int /\ Height(m) >= -1
      BY <1>0 DEF TypeInv, Height
    <2>3. \A i, j \in Int : i >= -1 /\ j >= -1 => Maximum(i, j) + 1 \in Nat
      BY DEF Maximum
    <2>4. \A i \in Int, j \in Nat : i >= -1 => Maximum(i, j) + 1 \in Nat
      BY DEF Maximum
    <2>5. height' \in [Nodes -> Nat]
      BY <1>2, <2>1, <2>2, <2>3, <2>4 DEF TypeInv, LeftRotation
    <2> QED
      BY <1>2, <2>1, <2>5 DEF TypeInv, LeftRotation
  <1>3. /\ root' \in Nodes \cup {Null} /\ key' \in [Nodes -> Keys \cup {NoKey}]
        /\ height' \in [Nodes -> Nat]
        /\ father' \in [Nodes -> Nodes \cup {Null}] /\ left' \in [Nodes -> Nodes \cup {Null}]
        /\ right' \in [Nodes -> Nodes \cup {Null}]
    <2>1. left[cur] # Null => left[cur] \in Nodes
      BY DEF TypeInv
    <2>2. right[cur] # Null => right[cur] \in Nodes
      BY DEF TypeInv
    <2>3. CASE UNCHANGED tree
      BY <2>3 DEF tree, TypeInv
    <2>4. CASE left[cur] # Null /\ RightRotation(cur)
      BY <2>4, <1>1 DEF TypeInv
    <2>5. CASE right[cur] # Null /\ LeftRotation(cur)
      BY <2>5, <1>2 DEF TypeInv
    <2>6. CASE left[cur] # Null /\ right[left[cur]] # Null /\ LeftRotation(left[cur])
      BY <2>6, <2>1, <1>2 DEF TypeInv
    <2>7. CASE right[cur] # Null /\ left[right[cur]] # Null /\ RightRotation(right[cur])
      BY <2>7, <2>2, <1>1 DEF TypeInv
    <2> QED
      BY <2>3, <2>4, <2>5, <2>6, <2>7 DEF Turned
  <1>4. /\ pc' \in {"idle", "balance_delete", "rotate_right", "rotate_left", "crashed"}
        /\ goal' \in {"none", "load", "lookup", "delete"} /\ arg' \in Keys \cup {NoKey}
        /\ cur' \in Nodes \cup {Null} /\ target' \in Nodes \cup {Null}
        /\ pc' \in {"rotate_right", "rotate_left"} => cur' \in Nodes
    BY DEF Turned, AfterRotation, Return, Goto, Die, TypeInv
  <1> QED
    BY <1>0, <1>3, <1>4 DEF TypeInv, index, walk

LEMMA CutType ==
    ASSUME TypeInv, NEW n \in Nodes, NEW ks \in [Nodes -> Keys \cup {NoKey}],
           NEW hs \in [Nodes -> Nat], Cut(n, ks, hs), pc \notin {"destroy", "closed"},
           UNCHANGED <<todo, kept, walk>>
    PROVE  TypeInv'
  <1>0. Null \notin Nodes /\ walk' = walk
    BY KeysAssumption
  <1> DEFINE s == IF left[n] # Null THEN left[n] ELSE right[n]
  <1>1. s \in Nodes \cup {Null}
    BY DEF TypeInv
  <1>2. /\ height' \in [Nodes -> Nat] /\ pc' = "balance_delete" /\ goal' = goal /\ arg' = arg
        /\ target' = target /\ cur' \in Nodes \cup {Null} /\ probed' \subseteq Keys
    BY DEF TypeInv, Cut, Goto
  <1>3. /\ root' \in Nodes \cup {Null} /\ key' \in [Nodes -> Keys \cup {NoKey}]
        /\ father' \in [Nodes -> Nodes \cup {Null}] /\ left' \in [Nodes -> Nodes \cup {Null}]
        /\ right' \in [Nodes -> Nodes \cup {Null}] /\ lost' \in BOOLEAN
    <2>1. CASE n = root
      BY <2>1 DEF TypeInv, Cut
    <2>2. CASE n # root /\ s = Null
      BY <2>2 DEF TypeInv, Cut
    <2>3. CASE n # root /\ s # Null
      <3>1. /\ key' = [ks EXCEPT ![n] = ks[s], ![s] = NoKey]
            /\ left' = [left EXCEPT ![n] = left[s]]
            /\ right' = [right EXCEPT ![n] = right[s]]
            /\ father' = [m \in Nodes |-> IF m \in {left[s], right[s]} THEN n ELSE father[m]]
            /\ UNCHANGED <<root, lost>>
        BY <2>3 DEF Cut
      <3> HIDE DEF s
      <3> QED
        BY <2>3, <3>1, <1>1 DEF TypeInv
    <2> QED
      BY <2>1, <2>2, <2>3
  <1> QED
    BY <1>0, <1>2, <1>3 DEF TypeInv, walk

(* Every step keeps the types, whatever the tree is like. *)
LEMMA TypeStep ==
    ASSUME TypeInv, [Next]_vars
    PROVE  TypeInv'
  <1>0. Null \notin Nodes /\ Asked \subseteq Keys
    BY KeysAssumption
  <1>1. CASE Load
    BY <1>1 DEF Load, TypeInv, tree, walk
  <1>2. ASSUME NEW k \in Asked, Lookup(k)
        PROVE  TypeInv'
    BY <1>0, <1>2 DEF Lookup, TypeInv, tree, index, walk
  <1>3. CASE SearchStep
    BY <1>3 DEF SearchStep, Goto, TypeInv, tree, index, walk
  <1>4. CASE Found
    BY <1>4 DEF Found, Return, TypeInv, tree, index, walk
  <1>5. CASE Missed
    BY <1>5 DEF Missed, Goto, TypeInv, tree, index, walk
  <1>6. CASE InsertStep
    BY <1>6 DEF InsertStep, Side, Goto, TypeInv, tree, index, walk
  <1>7. CASE InsertLeaf
    <2>1. NewNode \in Nodes
      BY <1>7 DEF InsertLeaf, NewNode
    <2>2. /\ key' \in [Nodes -> Keys \cup {NoKey}] /\ height' \in [Nodes -> Nat]
          /\ father' \in [Nodes -> Nodes \cup {Null}] /\ root' \in Nodes \cup {Null}
      BY <1>7, <2>1 DEF InsertLeaf, TypeInv
    <2>3. /\ left' \in [Nodes -> Nodes \cup {Null}] /\ right' \in [Nodes -> Nodes \cup {Null}]
      BY <1>7, <2>1 DEF InsertLeaf, TypeInv
    <2>4. kept' \subseteq Keys /\ probed' \subseteq Keys
      BY <1>7 DEF InsertLeaf, TypeInv
    <2> QED
      BY <1>7, <2>2, <2>3, <2>4 DEF InsertLeaf, Goto, TypeInv, walk
  <1>8. CASE BalanceInsert
    <2>1. CASE cur = Null
      BY <1>8, <2>1 DEF BalanceInsert, Return, TypeInv, tree, index, walk
    <2>2. CASE cur # Null /\ BalanceFactor(cur) \in {-1, 0, 1}
      <3>1. cur \in Nodes /\ UpdateHeight(cur) /\ Goto("balance_insert", father[cur])
        BY <1>8, <2>2 DEF BalanceInsert, TypeInv
      <3>2. height' \in [Nodes -> Nat]
        BY <3>1, <1>0 DEF UpdateHeight, TypeInv, Maximum, Height
      <3> QED
        BY <1>8, <2>2, <3>1, <3>2 DEF BalanceInsert, Goto, TypeInv, index, walk
    <2>3. CASE cur # Null /\ BalanceFactor(cur) \notin {-1, 0, 1}
      <3>1. cur \in Nodes /\ Rotate /\ pc \notin {"destroy", "closed"} /\ UNCHANGED <<index, walk>>
        BY <1>8, <2>3 DEF BalanceInsert, TypeInv
      <3> QED
        BY <3>1, RotateTurns, TurnedType
    <2> QED
      BY <2>1, <2>2, <2>3
  <1>9. CASE SecondRotation
    <2>1. cur \in Nodes /\ Turned /\ pc \notin {"destroy", "closed"} /\ UNCHANGED <<index, walk>>
      BY <1>9, SecondTurns DEF SecondRotation, TypeInv
    <2> QED
      BY <2>1, TurnedType
  <1>10. ASSUME NEW k \in Keys, Keep(k)
         PROVE  TypeInv'
    BY <1>10 DEF Keep, TypeInv, tree, call, walk
  <1>11. ASSUME NEW k \in Keys, Drop(k)
         PROVE  TypeInv'
    BY <1>11 DEF Drop, TypeInv, tree, index, walk
  <1>12. CASE Delete
    <2>1. CASE cur = Null
      BY <1>12, <2>1 DEF Delete, Die, TypeInv, tree, walk
    <2>2. CASE cur # Null /\ (left[cur] = Null \/ right[cur] = Null)
      <3>1. /\ cur \in Nodes /\ Cut(cur, key, height) /\ pc \notin {"destroy", "closed"}
            /\ UNCHANGED <<todo, kept, walk>>
        BY <1>12, <2>2 DEF Delete, TypeInv
      <3>2. key \in [Nodes -> Keys \cup {NoKey}] /\ height \in [Nodes -> Nat]
        BY DEF TypeInv
      <3> QED
        BY <3>1, <3>2, CutType
    <2>3. CASE cur # Null /\ ~(left[cur] = Null \/ right[cur] = Null)
      BY <1>12, <2>3 DEF Delete, TypeInv, tree, walk
    <2> QED
      BY <2>1, <2>2, <2>3
  <1>13. CASE PredStep
    BY <1>13 DEF PredStep, Goto, TypeInv, tree, index, walk
  <1>14. CASE SwapAndCut
    <2> DEFINE ks == [key EXCEPT ![target] = key[cur], ![cur] = key[target]]
               hs == [height EXCEPT ![target] = height[cur], ![cur] = height[target]]
    <2>1. /\ cur \in Nodes /\ Cut(cur, ks, hs) /\ pc \notin {"destroy", "closed"}
          /\ UNCHANGED <<todo, kept, walk>>
      BY <1>14 DEF SwapAndCut, TypeInv
    <2>2. ks \in [Nodes -> Keys \cup {NoKey}] /\ hs \in [Nodes -> Nat]
      BY <1>14 DEF SwapAndCut, TypeInv
    <2> HIDE DEF ks, hs
    <2> QED
      BY <2>1, <2>2, CutType
  <1>15. CASE BalanceDelete
    <2>1. CASE cur = Null
      BY <1>15, <2>1 DEF BalanceDelete, Return, TypeInv, tree, index, walk
    <2>2. CASE cur # Null /\ BalanceFactor(cur) \notin {-2, 2}
      <3>1. cur \in Nodes /\ UpdateHeight(cur) /\ Goto("balance_delete", father[cur])
        BY <1>15, <2>2 DEF BalanceDelete, TypeInv
      <3>2. height' \in [Nodes -> Nat]
        BY <3>1, <1>0 DEF UpdateHeight, TypeInv, Maximum, Height
      <3> QED
        BY <1>15, <2>2, <3>1, <3>2 DEF BalanceDelete, Goto, TypeInv, index, walk
    <2>3. CASE cur # Null /\ BalanceFactor(cur) \in {-2, 2}
      <3>1. cur \in Nodes /\ Rotate /\ pc \notin {"destroy", "closed"} /\ UNCHANGED <<index, walk>>
        BY <1>15, <2>3 DEF BalanceDelete, TypeInv
      <3> QED
        BY <3>1, RotateTurns, TurnedType
    <2> QED
      BY <2>1, <2>2, <2>3
  <1>16. CASE Close
    BY <1>16 DEF Close, Push, TypeInv, tree, index
  <1>17. CASE DestroyStep
    <2>1. Head(stack) \in Nodes /\ Tail(stack) \in Seq(Nodes)
      BY <1>17 DEF DestroyStep, TypeInv
    <2>2. \A m \in Nodes \cup {Null}, q \in Seq(Nodes) : Push(m, q) \in Seq(Nodes)
      BY DEF Push
    <2>3. stack' \in Seq(Nodes)
      BY <1>17, <2>1, <2>2 DEF DestroyStep, PushSons, TypeInv
    <2>4. order' \in Seq(Keys \cup {NoKey})
      BY <1>17, <2>1 DEF DestroyStep, TypeInv
    <2> QED
      BY <1>17, <2>3, <2>4 DEF DestroyStep, TypeInv, tree, call, index
  <1>18. CASE Closed
    BY <1>18 DEF Closed, TypeInv, tree, index, walk
  <1>19. CASE UNCHANGED vars
    BY <1>19 DEF vars, TypeInv
  <1> QED
    BY <1>1, <1>2, <1>3, <1>4, <1>5, <1>6, <1>7, <1>8, <1>9, <1>10, <1>11, <1>12, <1>13,
       <1>14, <1>15, <1>16, <1>17, <1>18, <1>19 DEF Next

-----------------------------------------------------------------------------
(* The steps that change the tree. *)

LEMMA LiveKeys ==
    ASSUME TypeInv
    PROVE  Live \in SUBSET Nodes /\ \A n \in Live : key[n] \in Keys
  BY DEF TypeInv, Live

LEMMA SwapHolds ==
    ASSUME NEW L \in SUBSET Nodes, NEW k \in [Nodes -> Keys \cup {NoKey}], NEW S,
           NEW m \in L, NEW n \in L, m # n, Holds(k, L, S)
    PROVE  Holds([k EXCEPT ![m] = k[n], ![n] = k[m]], L, S)
  <1> DEFINE k2 == [k EXCEPT ![m] = k[n], ![n] = k[m]]
  <1>1. /\ k2[m] = k[n] /\ k2[n] = k[m]
        /\ \A x \in L : x # m /\ x # n => k2[x] = k[x]
    OBVIOUS
  <1> HIDE DEF k2
  <1>2. \A x \in L : k2[x] \in S
    BY <1>1 DEF Holds
  <1>3. ASSUME NEW s \in S
        PROVE  \E x \in L : k2[x] = s
    <2>1. PICK x \in L : k[x] = s
      BY DEF Holds
    <2> QED
      BY <2>1, <1>1
  <1>4. \A x, y \in L : k2[x] = k2[y] => x = y
    BY <1>1 DEF Holds
  <1>5. Holds(k2, L, S)
    BY <1>2, <1>3, <1>4 DEF Holds
  <1> QED
    BY <1>5 DEF k2

LEMMA RightTurn ==
    ASSUME TypeInv, NEW b \in [Nodes -> SUBSET Nodes], Tree(b), NEW n \in Live, left[n] # Null,
           RightRotation(n), UNCHANGED <<kept, probed>>
    PROVE  Live' = Live /\ \E b2 \in [Nodes -> SUBSET Nodes] : Tree(b2)'
  <1> DEFINE l == left[n]
  <1>0. Null \notin Nodes /\ NoKey \notin Keys
    BY KeysAssumption
  <1>1. Live \in SUBSET Nodes /\ \A m \in Live : key[m] \in Keys
    BY LiveKeys
  <1>2. Shape(root, father, left, right, Live, b)
    BY DEF Tree
  <1>3. l \in Live /\ l # n /\ l \in Nodes /\ n \in Nodes
    BY <1>0, <1>1, <1>2, Sons
  <1>4. /\ key' = [key EXCEPT ![n] = key[l], ![l] = key[n]]
        /\ left' = [left EXCEPT ![n] = left[l], ![l] = right[l]]
        /\ right' = [right EXCEPT ![n] = l, ![l] = right[n]]
        /\ father' = [m \in Nodes |-> IF m = left[l] THEN n
                                     ELSE IF m = right[n] THEN l ELSE father[m]]
        /\ root' = root /\ Stored' = Stored
    BY DEF RightRotation, Stored
  <1>5. Live' = Live
    BY <1>0, <1>1, <1>3, <1>4 DEF Live, TypeInv
  <1>6. PICK b2 : b2 = [b EXCEPT ![l] = {l} \cup Below(b, right[l]) \cup Below(b, right[n])]
    OBVIOUS
  <1>7. b2 \in [Nodes -> SUBSET Nodes]
    BY <1>1, <1>2, <1>3, <1>6 DEF Below, Shape, TypeInv
  <1>8. /\ father \in [Nodes -> Nodes \cup {Null}] /\ left \in [Nodes -> Nodes \cup {Null}]
        /\ right \in [Nodes -> Nodes \cup {Null}] /\ key \in [Nodes -> Keys \cup {NoKey}]
    BY DEF TypeInv
  <1>9. Shape(root, father', left', right', Live, b2)
    <2>1. /\ father' = RisenFather(father, left, right, n) /\ left' = RisenSon(left, right, n)
          /\ right' = RisenOther(left, right, n) /\ b2 = RisenBelow(b, left, right, n)
      BY <1>4, <1>6 DEF RisenFather, RisenSon, RisenOther, RisenBelow
    <2> QED
      BY <2>1, <1>1, <1>2, <1>8, RotationShape
  <1>10. Sorted(key', left', right', Live, {}, b2)
    <2>1. Sorted(key, left, right, Live, {}, b)
      BY DEF Tree
    <2> QED
      BY <2>1, <1>1, <1>2, <1>4, <1>6, <1>8, RightRotationSorted
  <1>11. Holds(key', Live, Stored)
    BY <1>1, <1>3, <1>4, <1>8, SwapHolds DEF Tree
  <1>12. Tree(b2)'
    BY <1>4, <1>5, <1>9, <1>10, <1>11 DEF Tree
  <1> QED
    BY <1>5, <1>7, <1>12

LEMMA LeftTurn ==
    ASSUME TypeInv, NEW b \in [Nodes -> SUBSET Nodes], Tree(b), NEW n \in Live, right[n] # Null,
           LeftRotation(n), UNCHANGED <<kept, probed>>
    PROVE  Live' = Live /\ \E b2 \in [Nodes -> SUBSET Nodes] : Tree(b2)'
  <1> DEFINE r == right[n]
  <1>0. Null \notin Nodes /\ NoKey \notin Keys
    BY KeysAssumption
  <1>1. Live \in SUBSET Nodes /\ \A m \in Live : key[m] \in Keys
    BY LiveKeys
  <1>2. Shape(root, father, left, right, Live, b) /\ Shape(root, father, right, left, Live, b)
    BY Mirror DEF Tree
  <1>3. r \in Live /\ r # n /\ r \in Nodes /\ n \in Nodes
    BY <1>0, <1>1, <1>2, Sons
  <1>4. /\ key' = [key EXCEPT ![n] = key[r], ![r] = key[n]]
        /\ right' = [right EXCEPT ![n] = right[r], ![r] = left[r]]
        /\ left' = [left EXCEPT ![n] = r, ![r] = left[n]]
        /\ father' = [m \in Nodes |-> IF m = right[r] THEN n
                                     ELSE IF m = left[n] THEN r ELSE father[m]]
        /\ root' = root /\ Stored' = Stored
    BY DEF LeftRotation, Stored
  <1>5. Live' = Live
    BY <1>0, <1>1, <1>3, <1>4 DEF Live, TypeInv
  <1>6. PICK b2 : b2 = [b EXCEPT ![r] = {r} \cup Below(b, left[r]) \cup Below(b, left[n])]
    OBVIOUS
  <1>7. b2 \in [Nodes -> SUBSET Nodes]
    BY <1>1, <1>2, <1>3, <1>6 DEF Below, Shape, TypeInv
  <1>8. /\ father \in [Nodes -> Nodes \cup {Null}] /\ left \in [Nodes -> Nodes \cup {Null}]
        /\ right \in [Nodes -> Nodes \cup {Null}] /\ key \in [Nodes -> Keys \cup {NoKey}]
    BY DEF TypeInv
  <1>9. Shape(root, father', left', right', Live, b2)
    <2>1. /\ father' = RisenFather(father, right, left, n) /\ right' = RisenSon(right, left, n)
          /\ left' = RisenOther(right, left, n) /\ b2 = RisenBelow(b, right, left, n)
      BY <1>4, <1>6 DEF RisenFather, RisenSon, RisenOther, RisenBelow
    <2>2. Shape(root, father', right', left', Live, b2)
      BY <2>1, <1>1, <1>2, <1>8, RotationShape
    <2> QED
      BY <2>2, Mirror
  <1>10. Sorted(key', left', right', Live, {}, b2)
    <2>1. Sorted(key, left, right, Live, {}, b)
      BY DEF Tree
    <2> QED
      BY <2>1, <1>1, <1>2, <1>4, <1>6, <1>8, LeftRotationSorted
  <1>11. Holds(key', Live, Stored)
    BY <1>1, <1>3, <1>4, <1>8, SwapHolds DEF Tree
  <1>12. Tree(b2)'
    BY <1>4, <1>5, <1>9, <1>10, <1>11 DEF Tree
  <1> QED
    BY <1>5, <1>7, <1>12

(* The tree after a turn, and where the climb goes on. *)
LEMMA TurnedTree ==
    ASSUME TypeInv, NEW b \in [Nodes -> SUBSET Nodes], Tree(b), cur \in Live, Turned,
           UNCHANGED <<kept, probed>>
    PROVE  /\ Live' = Live /\ \E b2 \in [Nodes -> SUBSET Nodes] : Tree(b2)'
           /\ pc' \in {"idle", "balance_delete", "rotate_right", "rotate_left", "crashed"}
           /\ pc' = "balance_delete" /\ cur' # Null => cur' \in Live
           /\ pc' \in {"rotate_right", "rotate_left"} => cur' \in Live
           /\ pc' # "crashed" => goal' \in {goal, "none"} /\ (pc' = "idle" => goal' = "none")
  <1>0. Null \notin Nodes /\ Live \in SUBSET Nodes
    BY KeysAssumption, LiveKeys
  <1>1. Shape(root, father, left, right, Live, b)
    BY DEF Tree
  <1>2. father[cur] # Null => father[cur] \in Live
    BY <1>0, <1>1 DEF Shape
  <1>3. /\ pc' \in {"idle", "balance_delete", "rotate_right", "rotate_left", "crashed"}
        /\ pc' = "balance_delete" /\ cur' # Null => cur' \in Live
        /\ pc' \in {"rotate_right", "rotate_left"} => cur' \in Live
        /\ pc' # "crashed" => goal' \in {goal, "none"} /\ (pc' = "idle" => goal' = "none")
    BY <1>2 DEF Turned, AfterRotation, Return, Goto, Die
  <1>4. (left[cur] # Null => left[cur] \in Live) /\ (right[cur] # Null => right[cur] \in Live)
    BY <1>1 DEF Shape
  <1>5. Live' = Live /\ \E b2 \in [Nodes -> SUBSET Nodes] : Tree(b2)'
    <2>1. CASE UNCHANGED tree
      <3>1. Live' = Live /\ Tree(b)'
        BY <2>1 DEF tree, Live, Tree, Stored
      <3> QED
        BY <3>1
    <2>2. CASE left[cur] # Null /\ RightRotation(cur)
      BY <2>2, RightTurn
    <2>3. CASE right[cur] # Null /\ LeftRotation(cur)
      BY <2>3, LeftTurn
    <2>4. CASE left[cur] # Null /\ right[left[cur]] # Null /\ LeftRotation(left[cur])
      BY <2>4, <1>4, LeftTurn
    <2>5. CASE right[cur] # Null /\ left[right[cur]] # Null /\ RightRotation(right[cur])
      BY <2>5, <1>4, RightTurn
    <2> QED
      BY <2>1, <2>2, <2>3, <2>4, <2>5 DEF Turned
  <1> QED
    BY <1>3, <1>5

(* A new leaf, on the side of the key of the call. *)
LEMMA InsertTree ==
    ASSUME TypeInv, NEW b \in [Nodes -> SUBSET Nodes], Tree(b), InsertInv(b), InsertLeaf
    PROVE  /\ \E b2 \in [Nodes -> SUBSET Nodes] : Tree(b2)'
           /\ cur # Null => cur \in Live'
  <1> DEFINE n == NewNode
             Placed(b2) ==
                /\ Shape(root', father', left', right', Live \cup {n}, b2)
                /\ Below(b2, left'[n]) = {} /\ Below(b2, right'[n]) = {}
                /\ \A x \in Live : /\ Below(b2, left'[x]) \subseteq Below(b, left[x]) \cup {n}
                                   /\ n \in Below(b2, left'[x]) => arg < key[x]
                                   /\ Below(b2, right'[x]) \subseteq Below(b, right[x]) \cup {n}
                                   /\ n \in Below(b2, right'[x]) => arg > key[x]
  <1>0. Null \notin Nodes /\ NoKey \notin Keys /\ Keys \subseteq Int
    BY KeysAssumption
  <1>1. Live \in SUBSET Nodes /\ \A m \in Live : key[m] \in Keys
    BY LiveKeys
  <1>2. /\ Shape(root, father, left, right, Live, b) /\ Shape(root, father, right, left, Live, b)
        /\ Sorted(key, left, right, Live, {}, b) /\ Holds(key, Live, Stored)
    BY Mirror DEF Tree
  <1>3. n \in Nodes /\ key[n] = NoKey /\ n \notin Live /\ n # Null
    BY <1>0 DEF InsertLeaf, NewNode, Live
  <1>4. /\ key' = [key EXCEPT ![n] = arg] /\ father' = [father EXCEPT ![n] = cur]
        /\ left' = [m \in Nodes |-> IF m = n THEN Null
                    ELSE IF (cur # Null /\ arg <= key[cur]) /\ m = cur THEN n ELSE left[m]]
        /\ right' = [m \in Nodes |-> IF m = n THEN Null
                    ELSE IF (cur # Null /\ ~(arg <= key[cur])) /\ m = cur THEN n ELSE right[m]]
        /\ root' = (IF cur = Null THEN n ELSE root)
        /\ Stored' = Stored \cup {arg}
    BY DEF InsertLeaf, Stored
  <1>5. arg \in Keys /\ arg \notin Stored /\ (cur = Null => root = Null)
        /\ (cur # Null => cur \in Live /\ OnItsSide(cur, b))
    BY DEF InsertLeaf, InsertInv, TypeInv
  <1>6. /\ father \in [Nodes -> Nodes \cup {Null}] /\ left \in [Nodes -> Nodes \cup {Null}]
        /\ right \in [Nodes -> Nodes \cup {Null}] /\ key \in [Nodes -> Keys \cup {NoKey}]
    BY DEF TypeInv
  <1>7. Live' = Live \cup {n}
    BY <1>0, <1>3, <1>4, <1>5, <1>6 DEF Live
  <1>8. \E b2 \in [Nodes -> SUBSET Nodes] : Placed(b2)
    <2>1. CASE cur = Null
      <3>1. Live = {} /\ root' = n
        BY <2>1, <1>2, <1>4, <1>5 DEF Shape
      <3>2. left'[n] = Null /\ right'[n] = Null /\ father'[n] = Null
        BY <2>1, <1>3, <1>4, <1>6
      <3>3. PICK b2 : b2 = [m \in Nodes |-> {n}]
        OBVIOUS
      <3>4. Below(b2, left'[n]) = {} /\ Below(b2, right'[n]) = {} /\ b2[n] = {n}
        BY <3>2, <3>3, <1>3 DEF Below
      <3>5. Shape(root', father', left', right', Live \cup {n}, b2)
        BY <3>1, <3>2, <3>4, <1>3 DEF Shape
      <3>6. b2 \in [Nodes -> SUBSET Nodes]
        BY <3>3, <1>3
      <3> QED
        BY <3>1, <3>4, <3>5, <3>6
    <2>2. PICK b2 : b2 = LeafBelow(b, cur, n)
      OBVIOUS
    <2>3. b2 \in [Nodes -> SUBSET Nodes]
      BY <2>2, <1>3 DEF LeafBelow
    <2>4. CASE cur # Null /\ arg <= key[cur]
      <3>1. left[cur] = Null /\ cur \in Live /\ arg < key[cur]
        <4>1. left[cur] = Null /\ cur \in Live
          BY <2>4, <1>5 DEF InsertLeaf, Side
        <4>2. key[cur] \in Stored
          BY <4>1, <1>2 DEF Holds
        <4>3. key[cur] \in Int /\ arg \in Int /\ arg # key[cur]
          BY <4>1, <4>2, <1>0, <1>1, <1>5
        <4> QED
          BY <4>1, <4>3, <2>4
      <3>2. /\ father' = LeafFather(father, cur, n) /\ left' = LeafSon(left, cur, n)
            /\ right' = LeafOther(right, n) /\ root' = root
        BY <2>4, <1>4 DEF LeafFather, LeafSon, LeafOther
      <3>3. /\ Shape(root, father', left', right', Live \cup {n}, b2)
            /\ Grown(cur, n, Live, b, left, right, b2, left', right')
        <4>1. left[cur] = Null /\ cur \in Live /\ n \in Nodes /\ n \notin Live
          BY <1>3, <3>1
        <4> HIDE DEF n
        <4> QED
          BY <4>1, <1>1, <1>2, <1>6, <2>2, <3>2, InsertShape
      <3>4. Placed(b2)
        BY <3>1, <3>2, <3>3, <1>5, <2>4 DEF OnItsSide, Grown
      <3> QED
        BY <3>4, <2>3
    <2>5. CASE cur # Null /\ ~(arg <= key[cur])
      <3>1. right[cur] = Null /\ cur \in Live /\ arg > key[cur]
        <4>1. right[cur] = Null /\ cur \in Live
          BY <2>5, <1>5 DEF InsertLeaf, Side
        <4>2. key[cur] \in Int /\ arg \in Int
          BY <4>1, <1>0, <1>1, <1>5
        <4> QED
          BY <4>1, <4>2, <2>5
      <3>2. /\ father' = LeafFather(father, cur, n) /\ right' = LeafSon(right, cur, n)
            /\ left' = LeafOther(left, n) /\ root' = root
        BY <2>5, <1>4 DEF LeafFather, LeafSon, LeafOther
      <3>3. /\ Shape(root, father', right', left', Live \cup {n}, b2)
            /\ Grown(cur, n, Live, b, right, left, b2, right', left')
        <4>1. right[cur] = Null /\ cur \in Live /\ n \in Nodes /\ n \notin Live
          BY <1>3, <3>1
        <4> HIDE DEF n
        <4> QED
          BY <4>1, <1>1, <1>2, <1>6, <2>2, <3>2, InsertShape
      <3>4. Shape(root, father', left', right', Live \cup {n}, b2)
        BY <3>3, Mirror
      <3>5. Placed(b2)
        BY <3>1, <3>2, <3>3, <3>4, <1>5, <2>5 DEF OnItsSide, Grown
      <3> QED
        BY <3>5, <2>3
    <2> QED
      BY <2>1, <2>4, <2>5
  <1>9. PICK b2 \in [Nodes -> SUBSET Nodes] : Placed(b2)
    BY <1>8
  <1> HIDE DEF n
  <1>10. key'[n] = arg /\ \A m \in Live : m # n /\ key'[m] = key[m]
    BY <1>1, <1>3, <1>4, <1>6
  <1>11. \A x \in Live : /\ Below(b, left[x]) \subseteq Live /\ Below(b, right[x]) \subseteq Live
                         /\ \A m \in Below(b, left[x]) : key[m] < key[x]
                         /\ \A m \in Below(b, right[x]) : key[m] > key[x]
    BY <1>2 DEF Sorted, Shape, Below
  <1>12. Sorted(key', left', right', Live \cup {n}, {}, b2)
    BY <1>9, <1>10, <1>11 DEF Sorted
  <1>13. Holds(key', Live \cup {n}, Stored \cup {arg})
    BY <1>2, <1>5, <1>10 DEF Holds
  <1>14. Tree(b2)'
    BY <1>4, <1>7, <1>9, <1>12, <1>13 DEF Tree
  <1> QED
    BY <1>5, <1>7, <1>14

(* The cut of the node n, hollow in the order, with the keys ks. *)
LEMMA CutTree ==
    ASSUME TypeInv, NEW b \in [Nodes -> SUBSET Nodes], NEW n \in Live,
           NEW ks \in [Nodes -> Keys \cup {NoKey}], NEW hs, Cut(n, ks, hs),
           left[n] = Null \/ right[n] = Null, UNCHANGED kept,
           arg \in probed, kept \cap probed = {}, ks[n] = arg,
           \A m \in Nodes : ks[m] # NoKey <=> m \in Live,
           Shape(root, father, left, right, Live, b), Sorted(ks, left, right, Live, {n}, b),
           Holds(ks, Live, Stored)
    PROVE  \/ lost'
           \/ /\ cur' # Null => cur' \in Live'
              /\ \E b2 \in [Nodes -> SUBSET Nodes] : Tree(b2)'
  <1> DEFINE s == IF left[n] # Null THEN left[n] ELSE right[n]
  <1>0. Null \notin Nodes /\ NoKey \notin Keys /\ Keys \subseteq Int
    BY KeysAssumption
  <1>1. Live \in SUBSET Nodes /\ n \in Nodes
    BY LiveKeys
  <1>2. Shape(root, father, right, left, Live, b)
    BY Mirror
  <1>3. Stored' = Stored \ {arg} /\ cur' = father[n]
    BY DEF Cut, Goto, Stored
  <1>4. /\ father \in [Nodes -> Nodes \cup {Null}] /\ left \in [Nodes -> Nodes \cup {Null}]
        /\ right \in [Nodes -> Nodes \cup {Null}]
    BY DEF TypeInv
  <1>5. CASE n = root /\ s = Null
    <2>1. Live = {n} /\ father[n] = Null
      BY <1>0, <1>1, <1>5 DEF Shape, Below
    <2>2. key' = [m \in Nodes |-> NoKey] /\ root' = Null
      BY <1>5 DEF Cut
    <2>3. Live' = {}
      BY <2>2 DEF Live
    <2>4. Stored' = {}
      BY <2>1, <1>3 DEF Holds
    <2>5. Tree(b)'
      BY <2>2, <2>3, <2>4 DEF Tree, Shape, Sorted, Holds
    <2> QED
      BY <2>1, <2>5, <1>3
  <1>6. CASE n = root /\ s # Null
    BY <1>6 DEF Cut
  <1>7. CASE n # root /\ s = Null
    <2>1. left[n] = Null /\ right[n] = Null /\ n # root
      BY <1>7
    <2>2. /\ key' = [ks EXCEPT ![n] = NoKey] /\ father' = father /\ root' = root
          /\ left' = Unlinked(left, n) /\ right' = Unlinked(right, n)
      BY <1>7 DEF Cut, Unlinked
    <2>3. Live' = Live \ {n}
      BY <2>2, <1>0, <1>1 DEF Live
    <2>4. PICK b2 : b2 = Without(b, n)
      OBVIOUS
    <2>5. b2 \in [Nodes -> SUBSET Nodes]
      BY <2>4 DEF Without
    <2>6. /\ Shape(root, father, left', right', Live \ {n}, b2)
          /\ Shrunk(n, Live, b, left, right, b2, left', right')
          /\ father[n] \in Live \ {n}
      <3>1. Pruned(n, root, father, Live, b, left, right, b2, left', right')
        BY <1>1, <1>4, <2>1, <2>2, <2>4, CutLeafShape
      <3> QED
        BY <3>1 DEF Pruned
    <2>7. Sorted(key', left', right', Live \ {n}, {}, b2)
      <3>1. \A m \in Live \ {n} : key'[m] = ks[m]
        BY <2>2, <1>1
      <3>2. \A x \in Live : Below(b, left[x]) \subseteq Live /\ Below(b, right[x]) \subseteq Live
        BY DEF Shape, Below
      <3> QED
        BY <2>6, <3>1, <3>2 DEF Sorted, Shrunk
    <2>8. Holds(key', Live \ {n}, Stored \ {arg})
      BY <2>2, <1>1 DEF Holds
    <2>9. Tree(b2)'
      BY <2>2, <2>3, <2>6, <2>7, <2>8, <1>3 DEF Tree
    <2> QED
      BY <2>3, <2>5, <2>6, <2>9, <1>3
  <1>8. CASE n # root /\ s # Null
    <2>1. /\ key' = [ks EXCEPT ![n] = ks[s], ![s] = NoKey] /\ root' = root
          /\ left' = TakenSon(left, n, s) /\ right' = TakenSon(right, n, s)
          /\ father' = TakenFather(father, left, right, n, s)
      BY <1>8 DEF Cut, TakenSon, TakenFather
    <2>2. PICK b2 : b2 = Without(b, s)
      OBVIOUS
    <2>3. b2 \in [Nodes -> SUBSET Nodes]
      BY <2>2 DEF Without
    <2>4. Adopted(n, s, root, father, Live, b, left, right, father', b2, left', right')
      <3>1. CASE left[n] # Null
        <4>1. right[n] = Null /\ s = left[n] /\ left[n] # Null /\ n # root
          BY <3>1, <1>8
        <4> HIDE DEF s
        <4> QED
          BY <1>1, <1>4, <4>1, <2>1, <2>2, CutSonShape
      <3>2. CASE left[n] = Null
        <4>1. right[n] # Null /\ s = right[n] /\ left[n] = Null /\ n # root
          BY <3>2, <1>8
        <4> HIDE DEF s
        <4>2. father' = TakenFather(father, right, left, n, s)
          BY <2>1 DEF TakenFather
        <4>3. Adopted(n, s, root, father, Live, b, right, left, father', b2, right', left')
          BY <1>1, <1>2, <1>4, <4>1, <4>2, <2>1, <2>2, CutSonShape
        <4> QED
          BY <4>3, Mirror DEF Adopted, Shrunk
      <3> QED
        BY <3>1, <3>2
    <2>5. s \in Live /\ s # n /\ s \in b[n] /\ s \in b[s] /\ n \notin b[s]
      <3>1. Null \notin Live
        BY <1>0, <1>1
      <3>2. CASE left[n] # Null
        <4>1. s = left[n]
          BY <3>2
        <4> HIDE DEF s
        <4>2. s \in Live /\ s # n /\ s \in b[s] /\ b[s] \subseteq b[n] /\ n \notin b[s]
          BY <3>1, <3>2, <4>1, Sons
        <4> QED
          BY <4>2
      <3>3. CASE left[n] = Null
        <4>1. s = right[n] /\ right[n] # Null
          BY <3>3, <1>8
        <4> HIDE DEF s
        <4>2. s \in Live /\ s # n /\ s \in b[s] /\ b[s] \subseteq b[n] /\ n \notin b[s]
          BY <3>1, <4>1, <1>2, Sons
        <4> QED
          BY <4>2
      <3> QED
        BY <3>2, <3>3
    <2>6. key'[n] = ks[s] /\ \A m \in Live : m # n /\ m # s => key'[m] = ks[m]
      BY <2>1, <2>5, <1>1
    <2>7. Live' = Live \ {s}
      <3>1. ks[s] # NoKey /\ s \in Nodes
        BY <2>5, <1>1
      <3> HIDE DEF s
      <3> QED
        BY <3>1, <2>1, <2>5, <1>0, <1>1 DEF Live
    <2>8. Sorted(key', left', right', Live \ {s}, {}, b2)
      <3> HIDE DEF s
      <3>1. \A x \in Live : Below(b, left[x]) \subseteq Live /\ Below(b, right[x]) \subseteq Live
        BY DEF Shape, Below
      <3>2. \A x \in Live : /\ n \in Below(b, left[x]) => s \in Below(b, left[x])
                            /\ n \in Below(b, right[x]) => s \in Below(b, right[x])
        BY <2>5 DEF Shape, Below
      <3>3. /\ \A m \in Below(b, left[s]) : ks[m] < ks[s] /\ m \in Live /\ m # s /\ m # n
            /\ \A m \in Below(b, right[s]) : ks[m] > ks[s] /\ m \in Live /\ m # s /\ m # n
        <4>1. Below(b, left[s]) \subseteq b[s] \ {s} /\ Below(b, right[s]) \subseteq b[s] \ {s}
          BY <2>5 DEF Shape
        <4> QED
          BY <4>1, <3>1, <2>5 DEF Sorted
      <3>4. ASSUME NEW x \in Live \ {s}, x # n
            PROVE  /\ \A m \in Below(b2, left'[x]) : key'[m] < key'[x]
                   /\ \A m \in Below(b2, right'[x]) : key'[m] > key'[x]
        <4>1. /\ Below(b2, left'[x]) = Below(b, left[x]) \ {s}
              /\ Below(b2, right'[x]) = Below(b, right[x]) \ {s}
          BY <2>4, <3>4 DEF Adopted, Shrunk
        <4>2. /\ \A m \in Below(b, left[x]) : m # n => ks[m] < ks[x]
              /\ \A m \in Below(b, right[x]) : m # n => ks[m] > ks[x]
          BY <3>4 DEF Sorted
        <4> QED
          BY <4>1, <4>2, <3>1, <3>2, <3>4, <2>5, <2>6
      <3>5. /\ \A m \in Below(b2, left'[n]) : key'[m] < key'[n]
            /\ \A m \in Below(b2, right'[n]) : key'[m] > key'[n]
        BY <3>3, <2>4, <2>6 DEF Adopted
      <3> QED
        BY <3>4, <3>5 DEF Sorted
    <2>9. Holds(key', Live \ {s}, Stored \ {arg})
      <3> HIDE DEF s
      <3>1. \A m \in Live \ {s} : key'[m] \in Stored \ {arg}
        BY <2>5, <2>6 DEF Holds
      <3>2. ASSUME NEW k \in Stored \ {arg}
            PROVE  \E m \in Live \ {s} : key'[m] = k
        <4>1. PICK m \in Live : ks[m] = k
          BY DEF Holds
        <4> QED
          BY <4>1, <2>5, <2>6
      <3>3. \A x, y \in Live \ {s} : key'[x] = key'[y] => x = y
        BY <2>5, <2>6 DEF Holds
      <3> QED
        BY <3>1, <3>2, <3>3 DEF Holds
    <2>10. Tree(b2)'
      BY <2>1, <2>4, <2>7, <2>8, <2>9, <1>3 DEF Tree, Adopted
    <2> QED
      BY <2>3, <2>4, <2>7, <2>10, <1>3 DEF Adopted
  <1> QED
    BY <1>5, <1>6, <1>7, <1>8

-----------------------------------------------------------------------------
(* Each step keeps the invariant, unless it empties the tree or crashes. *)

(* The tree in plain terms: subtrees, their nodes and their keys. *)
LEMMA TreeFacts ==
    ASSUME TypeInv, NEW b \in [Nodes -> SUBSET Nodes], Tree(b)
    PROVE  /\ Live \in SUBSET Nodes /\ Null \notin Live /\ Keys \subseteq Int
           /\ \A n \in Live : key[n] \in Keys /\ key[n] \in Stored
           /\ \A k \in Stored : \E n \in Live : key[n] = k
           /\ \A m, n \in Live : key[m] = key[n] => m = n
           /\ root = Null => Live = {}
           /\ root # Null => root \in Live /\ Below(b, root) = Live
           /\ \A n \in Live : /\ left[n] # Null => left[n] \in Live /\ father[left[n]] = n
                              /\ right[n] # Null => right[n] \in Live /\ father[right[n]] = n
                              /\ father[n] # Null => father[n] \in Live
           /\ \A n \in Live : /\ b[n] = {n} \cup Below(b, left[n]) \cup Below(b, right[n])
                              /\ Below(b, n) = b[n] /\ b[n] \subseteq Live
                              /\ n \notin Below(b, left[n]) /\ n \notin Below(b, right[n])
                              /\ Below(b, left[n]) \cap Below(b, right[n]) = {}
                              /\ Below(b, left[n]) \subseteq Live /\ Below(b, right[n]) \subseteq Live
           /\ \A n \in Live : /\ \A m \in Below(b, left[n]) : key[m] < key[n]
                              /\ \A m \in Below(b, right[n]) : key[m] > key[n]
           /\ \A a \in Live : \A m \in b[a] : b[m] \subseteq b[a] /\ (m # a => m # root /\ father[m] \in b[a])
  <1>1. Null \notin Nodes /\ Keys \subseteq Int
    BY KeysAssumption
  <1>2. Live \in SUBSET Nodes /\ \A n \in Live : key[n] \in Keys
    BY LiveKeys
  <1>3. Shape(root, father, left, right, Live, b)
    BY DEF Tree
  <1>4. /\ \A n \in Live : key[n] \in Stored
        /\ \A k \in Stored : \E n \in Live : key[n] = k
        /\ \A m, n \in Live : key[m] = key[n] => m = n
    BY DEF Tree, Holds
  <1>5. \A n \in Live : /\ \A m \in Below(b, left[n]) : key[m] < key[n]
                        /\ \A m \in Below(b, right[n]) : key[m] > key[n]
    BY DEF Tree, Sorted
  <1>6. /\ root = Null => Live = {}
        /\ root # Null => root \in Live /\ Below(b, root) = Live
    BY <1>3 DEF Shape, Below
  <1>7. \A n \in Live : /\ left[n] # Null => left[n] \in Live /\ father[left[n]] = n
                        /\ right[n] # Null => right[n] \in Live /\ father[right[n]] = n
                        /\ father[n] # Null => father[n] \in Live
    BY <1>3 DEF Shape
  <1>8. \A n \in Live : /\ b[n] = {n} \cup Below(b, left[n]) \cup Below(b, right[n])
                        /\ b[n] \subseteq Live
                        /\ n \notin Below(b, left[n]) /\ n \notin Below(b, right[n])
                        /\ Below(b, left[n]) \cap Below(b, right[n]) = {}
    BY <1>3 DEF Shape
  <1>9. \A n \in Live : Below(b, left[n]) \subseteq Live /\ Below(b, right[n]) \subseteq Live
    BY <1>8
  <1>10. \A n \in Live : Below(b, n) = b[n]
    BY <1>1, <1>2 DEF Below
  <1>11. \A a \in Live : \A m \in b[a] : b[m] \subseteq b[a] /\ (m # a => m # root /\ father[m] \in b[a])
    BY <1>3 DEF Shape
  <1> QED
    BY <1>1, <1>2, <1>4, <1>5, <1>6, <1>7, <1>8, <1>9, <1>10, <1>11

(* The root is below no node. *)
LEMMA RootApart ==
    ASSUME TypeInv, NEW b \in [Nodes -> SUBSET Nodes], Tree(b), root # Null, NEW x \in Live
    PROVE  root \notin Below(b, left[x]) /\ root \notin Below(b, right[x])
  <1>1. Null \notin Live
    BY TreeFacts
  <1>2. Shape(root, father, left, right, Live, b) /\ Shape(root, father, right, left, Live, b)
    BY Mirror DEF Tree
  <1>3. left[x] # Null => left[x] # root /\ left[x] \in Live
    BY <1>1, <1>2, Sons
  <1>4. right[x] # Null => right[x] # root /\ right[x] \in Live
    BY <1>1, <1>2, Sons
  <1>5. \A a \in Live : a # root => root \notin b[a]
    BY TreeFacts
  <1> QED
    BY <1>3, <1>4, <1>5 DEF Below

(* A step that leaves the links alone keeps the tree. *)
LEMMA SameTree ==
    ASSUME NEW b, Tree(b), UNCHANGED <<root, key, father, left, right>>, Stored' = Stored
    PROVE  Tree(b)' /\ Live' = Live
  BY DEF Tree, Live

(* What a walk knows of where it is does not depend on the step. *)
LEMMA TurnedStep ==
    ASSUME TypeInv, TypeInv', NEW b \in [Nodes -> SUBSET Nodes], TreeInv(b), cur \in Live, Turned,
           UNCHANGED <<index, walk>>
    PROVE  pc' = "crashed" \/ \E b2 \in [Nodes -> SUBSET Nodes] : TreeInv(b2)'
  <1>1. Tree(b) /\ TodoInv /\ UNCHANGED <<kept, probed, todo>>
    BY DEF TreeInv, index
  <1>2. /\ Live' = Live /\ \E b2 \in [Nodes -> SUBSET Nodes] : Tree(b2)'
        /\ pc' \in {"idle", "balance_delete", "rotate_right", "rotate_left", "crashed"}
        /\ pc' = "balance_delete" /\ cur' # Null => cur' \in Live
        /\ pc' \in {"rotate_right", "rotate_left"} => cur' \in Live
        /\ pc' # "crashed" => goal' \in {goal, "none"} /\ (pc' = "idle" => goal' = "none")
    BY <1>1, TurnedTree
  <1>3. SUFFICES ASSUME pc' # "crashed"
                 PROVE  \E b2 \in [Nodes -> SUBSET Nodes] : TreeInv(b2)'
    OBVIOUS
  <1>4. PICK b2 \in [Nodes -> SUBSET Nodes] : Tree(b2)'
    BY <1>2
  <1>5. SearchInv(b2)' /\ InsertInv(b2)' /\ PredInv(b2)' /\ DestroyInv(b2)'
    BY <1>2 DEF SearchInv, InsertInv, PredInv, DestroyInv
  <1>6. ClimbInv'
    BY <1>2 DEF ClimbInv
  <1>7. TodoInv'
    BY <1>1, <1>2, <1>3 DEF TodoInv
  <1> QED
    BY <1>4, <1>5, <1>6, <1>7 DEF TreeInv

(* A call starts, or its search ends. *)
LEMMA CallStep ==
    ASSUME TypeInv, TypeInv', NEW b \in [Nodes -> SUBSET Nodes], TreeInv(b),
           \/ Load \/ (\E k \in Asked : Lookup(k)) \/ Found \/ Missed
           \/ (\E k \in Keys : Keep(k) \/ Drop(k))
    PROVE  TreeInv(b)'
  <1>0. Asked \subseteq Keys
    BY KeysAssumption
  <1>1. Tree(b) /\ TodoInv
    BY DEF TreeInv
  <1>2. root # Null => \A x \in Live : root \notin Below(b, left[x]) /\ root \notin Below(b, right[x])
    BY <1>1, RootApart
  <1>3. CASE Load
    <2>1. /\ pc' = "insert" /\ goal' = "load" /\ arg' = Head(todo) /\ cur' = root /\ todo' = Tail(todo)
          /\ todo # <<>> /\ UNCHANGED <<root, key, father, left, right, kept, probed>>
      BY <1>3 DEF Load, tree
    <2>2. Tree(b)' /\ Live' = Live
      BY <1>1, <2>1, SameTree DEF Stored
    <2>3. /\ \A i \in DOMAIN Tail(todo) : i + 1 \in DOMAIN todo /\ Tail(todo)[i] = todo[i + 1] /\ i + 1 # 1
          /\ Head(todo) = todo[1] /\ 1 \in DOMAIN todo
          /\ \A i, j \in DOMAIN Tail(todo) : i # j => i + 1 # j + 1
      BY <2>1 DEF TypeInv
    <2>4. TodoInv'
      BY <1>1, <2>1, <2>3 DEF TodoInv
    <2>5. arg' \notin Stored'
      BY <1>1, <2>1, <2>3 DEF TodoInv, Stored
    <2>6. InsertInv(b)'
      <3>1. root # Null => root \in Live
        BY <1>1, TreeFacts
      <3> QED
        BY <1>2, <2>1, <2>2, <2>5, <3>1 DEF InsertInv, OnItsSide
    <2> QED
      BY <2>1, <2>2, <2>4, <2>6 DEF TreeInv, SearchInv, ClimbInv, PredInv, DestroyInv
  <1>4. ASSUME NEW k \in Asked, Lookup(k)
        PROVE  TreeInv(b)'
    <2>1. /\ pc' = "search" /\ goal' = "lookup" /\ arg' = k /\ cur' = root /\ todo = <<>>
          /\ UNCHANGED <<root, key, father, left, right, kept, probed, todo>>
      BY <1>4 DEF Lookup, tree, index
    <2>2. Tree(b)' /\ Live' = Live
      BY <1>1, <2>1, SameTree DEF Stored
    <2>3. TodoInv'
      BY <1>1, <2>1 DEF TodoInv
    <2>4. SearchInv(b)'
      <3>1. root = Null => Live = {}
        BY <1>1, TreeFacts
      <3>2. root # Null => root \in Live /\ Below(b, root) = Live
        BY <1>1, TreeFacts
      <3> QED
        BY <2>1, <2>2, <3>1, <3>2 DEF SearchInv
    <2> QED
      BY <2>1, <2>2, <2>3, <2>4 DEF TreeInv, InsertInv, ClimbInv, PredInv, DestroyInv
  <1>5. CASE Found
    <2>1. pc' = "idle" /\ goal' = "none" /\ UNCHANGED <<root, key, father, left, right, kept, probed, todo>>
      BY <1>5 DEF Found, Return, tree, index
    <2>2. Tree(b)'
      BY <1>1, <2>1, SameTree DEF Stored
    <2>3. TodoInv'
      BY <1>1, <2>1 DEF TodoInv
    <2> QED
      BY <2>1, <2>2, <2>3 DEF TreeInv, SearchInv, InsertInv, ClimbInv, PredInv, DestroyInv
  <1>6. CASE Missed
    <2>1. /\ pc = "search" /\ goal = "lookup" /\ cur = Null /\ pc' = "insert" /\ goal' = goal
          /\ arg' = arg /\ cur' = root
          /\ UNCHANGED <<root, key, father, left, right, kept, probed, todo>>
      BY <1>6 DEF Missed, Goto, tree, index
    <2>2. Tree(b)' /\ Live' = Live /\ Stored' = Stored
      BY <1>1, <2>1, SameTree DEF Stored
    <2>3. TodoInv'
      BY <1>1, <2>1 DEF TodoInv
    <2>4. arg \notin Stored
      <3>1. \A n \in Live : key[n] # arg
        BY <2>1 DEF TreeInv, SearchInv, Below
      <3> QED
        BY <3>1, <1>1, TreeFacts
    <2>5. InsertInv(b)'
      <3>1. root # Null => root \in Live
        BY <1>1, TreeFacts
      <3> QED
        BY <1>2, <2>1, <2>2, <2>4, <3>1 DEF InsertInv, OnItsSide
    <2> QED
      BY <2>1, <2>2, <2>3, <2>5 DEF TreeInv, SearchInv, ClimbInv, PredInv, DestroyInv
  <1>7. ASSUME NEW k \in Keys, Keep(k)
        PROVE  TreeInv(b)'
    <2>1. /\ k \in probed /\ pc = "idle" /\ kept' = kept \cup {k} /\ probed' = probed \ {k}
          /\ UNCHANGED <<root, key, father, left, right, todo, pc, goal>>
      BY <1>7 DEF Keep, tree, call
    <2>2. Tree(b)'
      BY <1>1, <2>1, SameTree DEF Stored
    <2>3. TodoInv'
      BY <1>1, <2>1 DEF TodoInv
    <2> QED
      BY <2>1, <2>2, <2>3 DEF TreeInv, SearchInv, InsertInv, ClimbInv, PredInv, DestroyInv
  <1>8. ASSUME NEW k \in Keys, Drop(k)
        PROVE  TreeInv(b)'
    <2>1. /\ pc' = "search" /\ goal' = "delete" /\ arg' = k /\ cur' = root /\ k \in probed
          /\ UNCHANGED <<root, key, father, left, right, kept, probed, todo>>
      BY <1>8 DEF Drop, tree, index
    <2>2. Tree(b)' /\ Live' = Live
      BY <1>1, <2>1, SameTree DEF Stored
    <2>3. TodoInv'
      BY <1>1, <2>1 DEF TodoInv
    <2>4. SearchInv(b)'
      <3>1. root = Null => Live = {}
        BY <1>1, TreeFacts
      <3>2. root # Null => root \in Live /\ Below(b, root) = Live
        BY <1>1, TreeFacts
      <3> QED
        BY <2>1, <2>2, <3>1, <3>2 DEF SearchInv
    <2> QED
      BY <2>1, <2>2, <2>3, <2>4 DEF TreeInv, InsertInv, ClimbInv, PredInv, DestroyInv
  <1> QED
    BY <1>3, <1>4, <1>5, <1>6, <1>7, <1>8

(* A search, or a descent to a place for the key, goes on. *)
LEMMA DescentStep ==
    ASSUME TypeInv, TypeInv', NEW b \in [Nodes -> SUBSET Nodes], TreeInv(b),
           SearchStep \/ InsertStep \/ PredStep
    PROVE  TreeInv(b)'
  <1>1. Tree(b) /\ TodoInv
    BY DEF TreeInv
  <1>2. CASE SearchStep
    <2>1. /\ pc = "search" /\ cur # Null /\ key[cur] # arg /\ pc' = "search" /\ goal' = goal /\ arg' = arg
          /\ cur' = (IF arg < key[cur] THEN left[cur] ELSE right[cur])
          /\ UNCHANGED <<root, key, father, left, right, kept, probed, todo>>
      BY <1>2 DEF SearchStep, Goto, tree, index
    <2>2. Tree(b)' /\ Live' = Live
      BY <1>1, <2>1, SameTree DEF Stored
    <2>3. TodoInv'
      BY <1>1, <2>1 DEF TodoInv
    <2>4. /\ cur \in Live /\ \A n \in Live : key[n] = arg => n \in Below(b, cur)
          /\ goal = "delete" => arg \in probed
      BY <2>1 DEF TreeInv, SearchInv
    <2>5. cur' # Null => cur' \in Live
      BY <1>1, <2>1, <2>4, TreeFacts
    <2>6. arg \in Int /\ key[cur] \in Int
      <3>1. arg \in Keys
        BY <2>1 DEF TypeInv
      <3> QED
        BY <3>1, <1>1, <2>4, TreeFacts
    <2>7. ASSUME NEW n \in Live, key[n] = arg
          PROVE  n \in Below(b, cur')
      <3>1. n \in Below(b, cur)
        BY <2>4, <2>7
      <3>2. /\ Below(b, cur) = {cur} \cup Below(b, left[cur]) \cup Below(b, right[cur])
            /\ \A m \in Below(b, left[cur]) : key[m] < key[cur]
            /\ \A m \in Below(b, right[cur]) : key[m] > key[cur]
        BY <1>1, <2>4, TreeFacts
      <3>3. CASE arg < key[cur]
        BY <2>1, <2>6, <2>7, <3>1, <3>2, <3>3
      <3>4. CASE ~(arg < key[cur])
        BY <2>1, <2>6, <2>7, <3>1, <3>2, <3>4
      <3> QED
        BY <3>3, <3>4
    <2>8. SearchInv(b)'
      BY <2>1, <2>2, <2>4, <2>5, <2>7 DEF SearchInv
    <2> QED
      BY <2>1, <2>2, <2>3, <2>8 DEF TreeInv, InsertInv, ClimbInv, PredInv, DestroyInv
  <1>3. CASE InsertStep
    <2>1. /\ pc = "insert" /\ cur # Null /\ Side(cur) # Null /\ pc' = "insert" /\ goal' = goal /\ arg' = arg
          /\ cur' = Side(cur)
          /\ UNCHANGED <<root, key, father, left, right, kept, probed, todo>>
      BY <1>3 DEF InsertStep, Goto, tree, index
    <2>2. Tree(b)' /\ Live' = Live /\ Stored' = Stored
      BY <1>1, <2>1, SameTree DEF Stored
    <2>3. TodoInv'
      BY <1>1, <2>1 DEF TodoInv
    <2>4. arg \notin Stored /\ cur \in Live /\ OnItsSide(cur, b)
      BY <2>1 DEF TreeInv, InsertInv
    <2>5. arg \in Int /\ key[cur] \in Int /\ arg # key[cur]
      <3>1. arg \in Keys
        BY <2>1 DEF TypeInv
      <3> QED
        BY <3>1, <1>1, <2>4, TreeFacts
    <2>6. Side(cur) \in Live /\ father[Side(cur)] = cur
      BY <1>1, <2>1, <2>4, TreeFacts DEF Side
    <2>7. ASSUME NEW x \in Live
          PROVE  /\ Side(cur) \in Below(b, left[x]) => arg < key[x]
                 /\ Side(cur) \in Below(b, right[x]) => arg > key[x]
      <3>1. CASE x = cur
        <4>1. /\ left[cur] # Null => left[cur] \in Below(b, left[cur])
              /\ right[cur] # Null => right[cur] \in Below(b, right[cur])
              /\ Below(b, left[cur]) \cap Below(b, right[cur]) = {}
          BY <1>1, <2>4, TreeFacts
        <4>2. CASE arg <= key[cur]
          BY <2>1, <2>5, <3>1, <4>1, <4>2 DEF Side
        <4>3. CASE ~(arg <= key[cur])
          BY <2>1, <2>5, <3>1, <4>1, <4>3 DEF Side
        <4> QED
          BY <4>2, <4>3
      <3>2. CASE x # cur
        <4>1. /\ left[x] # Null => left[x] \in Live /\ father[left[x]] = x /\ Below(b, left[x]) = b[left[x]]
              /\ right[x] # Null => right[x] \in Live /\ father[right[x]] = x /\ Below(b, right[x]) = b[right[x]]
          BY <1>1, TreeFacts
        <4>2. \A a \in Live : \A m \in b[a] : m # a => father[m] \in b[a]
          BY <1>1, TreeFacts
        <4>3. /\ Side(cur) \in Below(b, left[x]) => cur \in Below(b, left[x])
              /\ Side(cur) \in Below(b, right[x]) => cur \in Below(b, right[x])
          BY <2>6, <3>2, <4>1, <4>2 DEF Below
        <4> QED
          BY <2>4, <4>3 DEF OnItsSide
      <3> QED
        BY <3>1, <3>2
    <2>8. InsertInv(b)'
      BY <2>1, <2>2, <2>4, <2>6, <2>7 DEF InsertInv, OnItsSide
    <2> QED
      BY <2>1, <2>2, <2>3, <2>8 DEF TreeInv, SearchInv, ClimbInv, PredInv, DestroyInv
  <1>4. CASE PredStep
    <2>1. /\ pc = "pred" /\ right[cur] # Null /\ pc' = "pred" /\ goal' = goal /\ arg' = arg
          /\ cur' = right[cur] /\ target' = target
          /\ UNCHANGED <<root, key, father, left, right, kept, probed, todo>>
      BY <1>4 DEF PredStep, Goto, tree, index
    <2>2. Tree(b)' /\ Live' = Live
      BY <1>1, <2>1, SameTree DEF Stored
    <2>3. TodoInv'
      BY <1>1, <2>1 DEF TodoInv
    <2>4. /\ target \in Live /\ key[target] = arg /\ arg \in probed
          /\ left[target] # Null /\ right[target] # Null
          /\ cur \in Below(b, left[target])
          /\ \A n \in Below(b, left[target]) : n = cur \/ key[n] < key[cur] \/ n \in Below(b, right[cur])
      BY <2>1 DEF TreeInv, PredInv
    <2>5. left[target] \in Live /\ Below(b, left[target]) = b[left[target]] /\ cur \in Live
      BY <1>1, <2>4, TreeFacts
    <2>6. /\ right[cur] \in Live /\ right[cur] \in Below(b, right[cur])
          /\ Below(b, right[cur]) \subseteq b[cur] /\ key[cur] < key[right[cur]]
          /\ Below(b, right[cur]) = {right[cur]} \cup Below(b, left[right[cur]]) \cup Below(b, right[right[cur]])
          /\ \A m \in Below(b, left[right[cur]]) : key[m] < key[right[cur]]
      BY <1>1, <2>1, <2>5, TreeFacts
    <2>7. right[cur] \in Below(b, left[target])
      <3>1. b[cur] \subseteq b[left[target]]
        BY <1>1, <2>4, <2>5, TreeFacts
      <3> QED
        BY <2>5, <2>6, <3>1
    <2>8. ASSUME NEW n \in Below(b, left[target])
          PROVE  n = right[cur] \/ key[n] < key[right[cur]] \/ n \in Below(b, right[right[cur]])
      <3>1. n \in Live
        BY <1>1, <2>4, TreeFacts
      <3>2. key[n] \in Int /\ key[cur] \in Int /\ key[right[cur]] \in Int
        BY <1>1, <2>5, <2>6, <3>1, TreeFacts
      <3> QED
        BY <2>4, <2>6, <2>8, <3>2
    <2>9. PredInv(b)'
      BY <2>1, <2>2, <2>4, <2>7, <2>8 DEF PredInv
    <2> QED
      BY <2>1, <2>2, <2>3, <2>9 DEF TreeInv, SearchInv, InsertInv, ClimbInv, DestroyInv
  <1> QED
    BY <1>2, <1>3, <1>4

(* A key goes in, and the climb starts. *)
LEMMA InsertedStep ==
    ASSUME TypeInv, TypeInv', NEW b \in [Nodes -> SUBSET Nodes], TreeInv(b), InsertLeaf
    PROVE  \E b2 \in [Nodes -> SUBSET Nodes] : TreeInv(b2)'
  <1>1. Tree(b) /\ InsertInv(b) /\ TodoInv
    BY DEF TreeInv
  <1>2. /\ pc = "insert" /\ pc' = "balance_insert" /\ goal' = goal /\ cur' = cur /\ arg' = arg
        /\ todo' = todo
        /\ IF goal = "load" THEN kept' = kept \cup {arg} /\ UNCHANGED probed
                            ELSE probed' = probed \cup {arg} /\ UNCHANGED kept
    BY DEF InsertLeaf, Goto
  <1>3. PICK b2 \in [Nodes -> SUBSET Nodes] : Tree(b2)' /\ (cur # Null => cur \in Live')
    BY <1>1, InsertTree
  <1>4. TodoInv'
    <2>1. arg \notin kept /\ arg \notin probed
      BY <1>1, <1>2 DEF InsertInv, Stored
    <2>2. goal \in {"load", "lookup", "delete"}
      BY <1>1, <1>2 DEF TodoInv, TypeInv
    <2>3. CASE goal = "load"
      <3>1. \A i \in DOMAIN todo : todo[i] # arg /\ todo[i] \notin kept
        BY <1>1, <1>2, <2>3 DEF TodoInv
      <3> QED
        BY <1>1, <1>2, <2>1, <2>3, <3>1 DEF TodoInv
    <2>4. CASE goal # "load"
      BY <1>1, <1>2, <2>1, <2>2, <2>4 DEF TodoInv
    <2> QED
      BY <2>3, <2>4
  <1>5. ClimbInv'
    BY <1>2, <1>3 DEF ClimbInv
  <1>6. SearchInv(b2)' /\ InsertInv(b2)' /\ PredInv(b2)' /\ DestroyInv(b2)'
    BY <1>2 DEF SearchInv, InsertInv, PredInv, DestroyInv
  <1> QED
    BY <1>3, <1>4, <1>5, <1>6 DEF TreeInv

(* A climb goes on. *)
LEMMA ClimbStep ==
    ASSUME TypeInv, TypeInv', NEW b \in [Nodes -> SUBSET Nodes], TreeInv(b),
           BalanceInsert \/ BalanceDelete \/ SecondRotation
    PROVE  pc' = "crashed" \/ \E b2 \in [Nodes -> SUBSET Nodes] : TreeInv(b2)'
  <1>1. Tree(b) /\ ClimbInv /\ TodoInv /\ pc \in {"balance_insert", "balance_delete", "rotate_right", "rotate_left"}
    BY DEF TreeInv, BalanceInsert, BalanceDelete, SecondRotation
  <1>2. UNCHANGED <<index, walk>>
    BY DEF BalanceInsert, BalanceDelete, SecondRotation
  <1>3. CASE Return /\ UNCHANGED tree
    <2>1. pc' = "idle" /\ goal' = "none" /\ UNCHANGED <<root, key, father, left, right, kept, probed, todo>>
      BY <1>2, <1>3 DEF Return, tree, index
    <2>2. Tree(b)'
      BY <1>1, <2>1, SameTree DEF Stored
    <2>3. TodoInv'
      BY <1>1, <2>1 DEF TodoInv
    <2>4. TreeInv(b)'
      BY <2>1, <2>2, <2>3 DEF TreeInv, SearchInv, InsertInv, ClimbInv, PredInv, DestroyInv
    <2> QED
      BY <2>4
  <1>4. CASE cur \in Live /\ Goto(pc, father[cur]) /\ UNCHANGED <<root, key, father, left, right>>
             /\ pc \in {"balance_insert", "balance_delete"}
    <2>1. /\ pc' = pc /\ goal' = goal /\ cur' = father[cur] /\ arg' = arg
          /\ UNCHANGED <<root, key, father, left, right, kept, probed, todo>>
      BY <1>2, <1>4 DEF Goto, index
    <2>2. Tree(b)' /\ Live' = Live
      BY <1>1, <2>1, SameTree DEF Stored
    <2>3. TodoInv'
      BY <1>1, <2>1 DEF TodoInv
    <2>4. ClimbInv'
      <3>1. father[cur] # Null => father[cur] \in Live
        BY <1>1, <1>4, TreeFacts
      <3> QED
        BY <1>4, <2>1, <2>2, <3>1 DEF ClimbInv
    <2>5. TreeInv(b)'
      BY <1>4, <2>1, <2>2, <2>3, <2>4 DEF TreeInv, SearchInv, InsertInv, PredInv, DestroyInv
    <2> QED
      BY <2>5
  <1>5. CASE cur \in Live /\ Turned
    BY <1>2, <1>5, TurnedStep
  <1>6. Live \in SUBSET Nodes
    BY LiveKeys
  <1>7. CASE SecondRotation
    <2>1. Turned /\ pc \in {"rotate_right", "rotate_left"}
      BY <1>7, SecondTurns
    <2> QED
      BY <1>1, <1>5, <2>1 DEF ClimbInv
  <1>8. CASE BalanceInsert \/ BalanceDelete
    <2>1. pc \in {"balance_insert", "balance_delete"}
      BY <1>8 DEF BalanceInsert, BalanceDelete
    <2>2. \/ cur = Null /\ Return /\ UNCHANGED tree
          \/ cur # Null /\ Goto(pc, father[cur]) /\ UNCHANGED <<root, key, father, left, right>>
          \/ cur # Null /\ Rotate
      BY <1>8 DEF BalanceInsert, BalanceDelete
    <2>3. cur # Null => cur \in Live /\ cur \in Nodes
      BY <1>1, <1>6, <2>1 DEF ClimbInv
    <2>4. cur # Null /\ Rotate => Turned
      BY <2>3, RotateTurns
    <2> QED
      BY <1>3, <1>4, <1>5, <2>1, <2>2, <2>3, <2>4
  <1> QED
    BY <1>7, <1>8

(* The node is found, and is cut or waits for its predecessor. *)
LEMMA DeleteStep ==
    ASSUME TypeInv, TypeInv', NEW b \in [Nodes -> SUBSET Nodes], TreeInv(b), Delete \/ SwapAndCut
    PROVE  lost' \/ pc' = "crashed" \/ \E b2 \in [Nodes -> SUBSET Nodes] : TreeInv(b2)'
  <1>1. Tree(b) /\ TodoInv
    BY DEF TreeInv
  <1>2. /\ Shape(root, father, left, right, Live, b) /\ Sorted(key, left, right, Live, {}, b)
        /\ Holds(key, Live, Stored) /\ kept \cap probed = {}
        /\ key \in [Nodes -> Keys \cup {NoKey}]
        /\ \A m \in Nodes : key[m] # NoKey <=> m \in Live
    BY <1>1 DEF Tree, TodoInv, TypeInv, Live
  <1>3. UNCHANGED <<todo, kept>>
    BY DEF Delete, SwapAndCut
  <1>4. ASSUME NEW n \in Live, NEW ks \in [Nodes -> Keys \cup {NoKey}], NEW hs, Cut(n, ks, hs),
               left[n] = Null \/ right[n] = Null, arg \in probed, ks[n] = arg,
               \A m \in Nodes : ks[m] # NoKey <=> m \in Live,
               Sorted(ks, left, right, Live, {n}, b), Holds(ks, Live, Stored)
        PROVE  lost' \/ \E b2 \in [Nodes -> SUBSET Nodes] : TreeInv(b2)'
    <2>1. \/ lost'
          \/ /\ cur' # Null => cur' \in Live'
             /\ \E b2 \in [Nodes -> SUBSET Nodes] : Tree(b2)'
      BY <1>2, <1>3, <1>4, CutTree
    <2>2. SUFFICES ASSUME ~lost'
                   PROVE  \E b2 \in [Nodes -> SUBSET Nodes] : TreeInv(b2)'
      OBVIOUS
    <2>3. PICK b2 \in [Nodes -> SUBSET Nodes] : Tree(b2)'
      BY <2>1, <2>2
    <2>4. pc' = "balance_delete" /\ goal' = goal /\ arg' = arg /\ probed' = probed \ {arg}
      BY <1>4 DEF Cut, Goto
    <2>5. TodoInv'
      BY <1>1, <1>3, <1>4, <2>4 DEF TodoInv
    <2>6. ClimbInv'
      BY <2>1, <2>2, <2>4 DEF ClimbInv
    <2>7. SearchInv(b2)' /\ InsertInv(b2)' /\ PredInv(b2)' /\ DestroyInv(b2)'
      BY <2>4 DEF SearchInv, InsertInv, PredInv, DestroyInv
    <2> QED
      BY <2>3, <2>5, <2>6, <2>7 DEF TreeInv
  <1>5. CASE Delete /\ cur = Null
    BY <1>5 DEF Delete, Die
  <1>6. CASE Delete /\ cur # Null /\ (left[cur] = Null \/ right[cur] = Null)
    <2>1. /\ Cut(cur, key, height) /\ cur \in Live /\ arg \in probed /\ key[cur] = arg
          /\ left[cur] = Null \/ right[cur] = Null
      BY <1>6 DEF Delete, TreeInv, SearchInv
    <2>2. Sorted(key, left, right, Live, {cur}, b)
      BY <1>2 DEF Sorted
    <2> QED
      BY <1>2, <1>4, <2>1, <2>2
  <1>7. CASE Delete /\ cur # Null /\ ~(left[cur] = Null \/ right[cur] = Null)
    <2>1. /\ pc = "search" /\ goal = "delete" /\ key[cur] = arg /\ pc' = "pred" /\ target' = cur
          /\ cur' = left[cur] /\ goal' = goal /\ arg' = arg
          /\ UNCHANGED <<root, key, father, left, right, kept, probed, todo>>
      BY <1>7 DEF Delete, tree
    <2>2. cur \in Live /\ arg \in probed
      BY <1>7, <2>1 DEF TreeInv, SearchInv
    <2>3. Tree(b)' /\ Live' = Live
      BY <1>1, <2>1, SameTree DEF Stored
    <2>4. TodoInv'
      BY <1>1, <2>1 DEF TodoInv
    <2>5. /\ Below(b, left[cur]) = {left[cur]} \cup Below(b, left[left[cur]]) \cup Below(b, right[left[cur]])
          /\ \A m \in Below(b, left[left[cur]]) : key[m] < key[left[cur]]
      BY <1>1, <1>7, <2>2, TreeFacts
    <2>6. PredInv(b)'
      BY <1>7, <2>1, <2>2, <2>3, <2>5 DEF PredInv
    <2>7. TreeInv(b)'
      BY <2>1, <2>3, <2>4, <2>6 DEF TreeInv, SearchInv, InsertInv, ClimbInv, DestroyInv
    <2> QED
      BY <2>7
  <1>8. CASE SwapAndCut
    <2> DEFINE ks == [key EXCEPT ![target] = key[cur], ![cur] = key[target]]
               hs == [height EXCEPT ![target] = height[cur], ![cur] = height[target]]
    <2>1. /\ pc = "pred" /\ right[cur] = Null /\ Cut(cur, ks, hs)
      BY <1>8 DEF SwapAndCut
    <2>2. /\ target \in Live /\ key[target] = arg /\ arg \in probed
          /\ left[target] # Null /\ cur \in Below(b, left[target])
          /\ \A n \in Below(b, left[target]) : n = cur \/ key[n] < key[cur]
      BY <2>1 DEF TreeInv, PredInv, Below
    <2>3. /\ Below(b, left[target]) \subseteq Live /\ target \notin Below(b, left[target])
          /\ Below(b, left[target]) \subseteq b[target]
          /\ \A m \in Below(b, right[target]) : key[m] > key[target]
          /\ key[cur] < key[target]
      BY <1>1, <2>2, TreeFacts
    <2>4. cur \in Live /\ cur # target /\ cur \in b[target] /\ cur \in Nodes /\ target \in Nodes
      BY <2>2, <2>3, LiveKeys
    <2>5. /\ ks[target] = key[cur] /\ ks[cur] = key[target]
          /\ \A m \in Nodes : m # target /\ m # cur => ks[m] = key[m]
          /\ ks \in [Nodes -> Keys \cup {NoKey}]
      BY <1>2, <2>4, LiveKeys
    <2>6. Holds(ks, Live, Stored)
      BY <1>2, <2>2, <2>4, LiveKeys, SwapHolds
    <2> HIDE DEF ks, hs
    <2>7. \A m \in Nodes : ks[m] # NoKey <=> m \in Live
      BY <1>2, <2>2, <2>4, <2>5
    <2>8. ASSUME NEW x \in Live \ {cur}
          PROVE  /\ \A m \in Below(b, left[x]) \ {cur} : ks[m] < ks[x]
                 /\ \A m \in Below(b, right[x]) \ {cur} : ks[m] > ks[x]
      <3>1. /\ \A m \in Below(b, left[x]) : key[m] < key[x]
            /\ \A m \in Below(b, right[x]) : key[m] > key[x]
            /\ Below(b, left[x]) \subseteq Live /\ Below(b, right[x]) \subseteq Live
        BY <1>1, TreeFacts
      <3>2. CASE x = target
        <4>1. \A m \in Below(b, left[x]) \ {cur} : m # target /\ ks[m] = key[m] /\ key[m] < key[cur]
          BY <3>1, <3>2, <2>2, <2>3, <2>5, LiveKeys
        <4>2. \A m \in Below(b, right[x]) : m # target /\ m # cur
          BY <1>1, <3>2, <2>2, TreeFacts
        <4>3. ASSUME NEW m \in Below(b, right[x])
              PROVE  ks[m] > key[cur]
          <5>1. key[m] \in Int /\ key[cur] \in Int /\ key[target] \in Int /\ key[m] > key[target]
            BY <1>1, <2>2, <2>3, <2>4, <3>1, <3>2, TreeFacts
          <5>2. ks[m] = key[m]
            BY <2>5, <3>1, <4>2, LiveKeys
          <5> QED
            BY <5>1, <5>2, <2>3
        <4> QED
          BY <4>1, <4>3, <3>2, <2>5
      <3>3. CASE x # target
        <4>1. ks[x] = key[x]
          BY <3>3, <2>5, LiveKeys
        <4>2. /\ left[x] # Null => left[x] \in Live /\ Below(b, left[x]) = b[left[x]]
              /\ right[x] # Null => right[x] \in Live /\ Below(b, right[x]) = b[right[x]]
              /\ \A a \in Live : \A m \in b[a] : b[m] \subseteq b[a]
          BY <1>1, TreeFacts
        <4>3. /\ target \in Below(b, left[x]) => cur \in Below(b, left[x])
              /\ target \in Below(b, right[x]) => cur \in Below(b, right[x])
          BY <4>2, <2>4 DEF Below
        <4> QED
          BY <3>1, <4>1, <4>3, <2>5, LiveKeys
      <3> QED
        BY <3>2, <3>3
    <2>9. Sorted(ks, left, right, Live, {cur}, b)
      BY <2>8 DEF Sorted
    <2> QED
      BY <1>4, <2>1, <2>2, <2>4, <2>5, <2>6, <2>7, <2>9
  <1> QED
    BY <1>5, <1>6, <1>7, <1>8

(* The sons of a node go on the stack. *)
LEMMA PushApart ==
    ASSUME TypeInv, NEW b \in [Nodes -> SUBSET Nodes], NEW s \in Seq(Nodes), Apart(s, b),
           NEW m \in Live \cup {Null}, Below(b, m) \cap Pending(s, b) = {}
    PROVE  /\ Push(m, s) \in Seq(Nodes) /\ Apart(Push(m, s), b)
           /\ Pending(Push(m, s), b) = Pending(s, b) \cup Below(b, m)
  <1>1. CASE m = Null
    BY <1>1 DEF Push, Below
  <1>2. CASE m # Null
    <2>1. m \in Live /\ m \in Nodes /\ Below(b, m) = b[m] /\ Push(m, s) = <<m>> \o s
      BY <1>2, LiveKeys DEF Push, Below
    <2>2. PICK t : t = <<m>> \o s
      OBVIOUS
    <2>3. t \in Seq(Nodes)
      BY <2>1, <2>2
    <2>4. /\ 1 \in DOMAIN t /\ t[1] = m
          /\ \A i \in DOMAIN t : i = 1 \/ (i - 1 \in DOMAIN s /\ t[i] = s[i - 1])
          /\ \A i \in DOMAIN s : i + 1 \in DOMAIN t /\ t[i + 1] = s[i]
          /\ \A i, j \in DOMAIN t : i # j => i - 1 # j - 1
      BY <2>1, <2>2
    <2>5. \A i \in DOMAIN s : b[s[i]] \cap b[m] = {}
      BY <2>1 DEF Pending
    <2>6. Apart(t, b)
      <3>1. \A i \in DOMAIN t : t[i] \in Live
        BY <2>1, <2>4 DEF Apart
      <3>2. ASSUME NEW i \in DOMAIN t, NEW j \in DOMAIN t, i # j
            PROVE  b[t[i]] \cap b[t[j]] = {}
        <4>1. CASE i = 1
          BY <3>2, <4>1, <2>4, <2>5
        <4>2. CASE j = 1
          BY <3>2, <4>2, <2>4, <2>5
        <4>3. CASE i # 1 /\ j # 1
          <5>1. /\ i - 1 \in DOMAIN s /\ t[i] = s[i - 1] /\ j - 1 \in DOMAIN s /\ t[j] = s[j - 1]
                /\ i - 1 # j - 1
            BY <3>2, <4>3, <2>4
          <5> QED
            BY <5>1 DEF Apart
        <4> QED
          BY <4>1, <4>2, <4>3
      <3> QED
        BY <3>1, <3>2 DEF Apart
    <2>7. Pending(t, b) = Pending(s, b) \cup b[m]
      <3>1. \A x \in Pending(t, b) : x \in Pending(s, b) \/ x \in b[m]
        BY <2>4 DEF Pending
      <3>2. \A x \in Pending(s, b) : x \in Pending(t, b)
        <4> SUFFICES ASSUME NEW i \in DOMAIN s, NEW x \in b[s[i]]
                     PROVE  x \in Pending(t, b)
          BY DEF Pending
        <4>1. i + 1 \in DOMAIN t /\ x \in b[t[i + 1]]
          BY <2>4
        <4> QED
          BY <4>1 DEF Pending
      <3>3. \A x \in b[m] : x \in Pending(t, b)
        BY <2>4 DEF Pending
      <3> QED
        BY <3>1, <3>2, <3>3
    <2> QED
      BY <2>1, <2>2, <2>3, <2>6, <2>7
  <1> QED
    BY <1>1, <1>2

(* The storage is closed. *)
LEMMA CloseStep ==
    ASSUME TypeInv, TypeInv', NEW b \in [Nodes -> SUBSET Nodes], TreeInv(b),
           Close \/ DestroyStep \/ Closed
    PROVE  TreeInv(b)'
  <1>1. Tree(b) /\ TodoInv
    BY DEF TreeInv
  <1>2. /\ UNCHANGED <<root, key, father, left, right, kept, probed, todo, goal, arg>>
        /\ pc \in {"idle", "destroy"} /\ pc' \in {"destroy", "closed"}
    BY DEF Close, DestroyStep, Closed, tree, index, call
  <1>3. Tree(b)' /\ Live' = Live /\ Stored' = Stored
    BY <1>1, <1>2, SameTree DEF Stored
  <1>4. TodoInv'
    BY <1>1, <1>2 DEF TodoInv
  <1>5. SearchInv(b)' /\ InsertInv(b)' /\ ClimbInv' /\ PredInv(b)'
    BY <1>2 DEF SearchInv, InsertInv, ClimbInv, PredInv
  <1>7. CASE Close
    <2>1. pc' = "destroy" /\ stack' = Push(root, <<>>) /\ order' = order /\ pc = "idle"
      BY <1>7 DEF Close
    <2>2. order = <<>>
      BY <2>1 DEF TypeInv
    <2>3. /\ root = Null => Live = {}
          /\ root # Null => root \in Live
          /\ Below(b, root) = Live
      BY <1>1, TreeFacts DEF Below
    <2>4. /\ <<>> \in Seq(Nodes) /\ Apart(<<>>, b) /\ Pending(<<>>, b) = {}
      BY DEF Apart, Pending
    <2>5. Apart(stack', b) /\ Pending(stack', b) = Live
      <3>1. root \in Live \cup {Null} /\ Below(b, root) \cap Pending(<<>>, b) = {}
        BY <2>3, <2>4
      <3>2. Apart(Push(root, <<>>), b) /\ Pending(Push(root, <<>>), b) = {} \cup Below(b, root)
        BY <2>4, <3>1, PushApart
      <3> QED
        BY <2>1, <2>3, <3>2
    <2>6. Apart(stack, b)' /\ Pending(stack, b)' = Live
      BY <2>5, <1>3 DEF Apart, Pending
    <2>7. DestroyInv(b)'
      BY <1>3, <2>1, <2>2, <2>6 DEF DestroyInv
    <2> QED
      BY <1>3, <1>4, <1>5, <2>7 DEF TreeInv
  <1>8. CASE DestroyStep
    <2> DEFINE n == Head(stack)
               rest == Tail(stack)
    <2>1. /\ pc = "destroy" /\ pc' = "destroy" /\ stack # <<>>
          /\ stack' = Push(right[n], Push(left[n], rest)) /\ order' = Append(order, key[n])
      BY <1>8 DEF DestroyStep, PushSons, call
    <2>2. /\ Apart(stack, b)
          /\ \A m \in Live : m \in Pending(stack, b) \/ \E i \in DOMAIN order : order[i] = key[m]
          /\ \A m \in Pending(stack, b) : \A i \in DOMAIN order : order[i] # key[m]
          /\ \A i, j \in DOMAIN order : order[i] = order[j] => i = j
          /\ \A i \in DOMAIN order : order[i] \in Stored
      BY <2>1 DEF TreeInv, DestroyInv
    <2>3. /\ rest \in Seq(Nodes) /\ n = stack[1] /\ 1 \in DOMAIN stack
          /\ \A i \in DOMAIN rest : i + 1 \in DOMAIN stack /\ rest[i] = stack[i + 1] /\ i + 1 # 1
          /\ \A i, j \in DOMAIN rest : i # j => i + 1 # j + 1
          /\ \A i \in DOMAIN stack : i = 1 \/ (i - 1 \in DOMAIN rest /\ stack[i] = rest[i - 1])
      <3>1. stack \in Seq(Nodes) /\ stack # <<>>
        BY <2>1 DEF TypeInv
      <3>2. /\ rest \in Seq(Nodes) /\ n = stack[1] /\ Len(stack) \in Nat /\ Len(stack) > 0
            /\ DOMAIN stack = 1 .. Len(stack) /\ DOMAIN rest = 1 .. (Len(stack) - 1)
            /\ \A i \in 1 .. (Len(stack) - 1) : rest[i] = stack[i + 1]
        BY <3>1
      <3> HIDE DEF n, rest
      <3>3. \A i \in DOMAIN stack : i = 1 \/ (i - 1 \in DOMAIN rest /\ stack[i] = rest[i - 1])
        BY <3>2
      <3> QED
        BY <3>2, <3>3
    <2> HIDE DEF n, rest
    <2>4. n \in Live /\ Apart(rest, b) /\ b[n] \cap Pending(rest, b) = {}
      BY <2>2, <2>3 DEF Apart, Pending
    <2>5. Pending(stack, b) = Pending(rest, b) \cup b[n]
      <3>1. \A x \in Pending(stack, b) : x \in Pending(rest, b) \/ x \in b[n]
        BY <2>3 DEF Pending
      <3>2. \A x \in Pending(rest, b) : x \in Pending(stack, b)
        <4> SUFFICES ASSUME NEW i \in DOMAIN rest, NEW x \in b[rest[i]]
                     PROVE  x \in Pending(stack, b)
          BY DEF Pending
        <4>1. i + 1 \in DOMAIN stack /\ x \in b[stack[i + 1]]
          BY <2>3
        <4> QED
          BY <4>1 DEF Pending
      <3>3. \A x \in b[n] : x \in Pending(stack, b)
        BY <2>3 DEF Pending
      <3> QED
        BY <3>1, <3>2, <3>3
    <2>6. /\ b[n] = {n} \cup Below(b, left[n]) \cup Below(b, right[n])
          /\ n \notin Below(b, left[n]) /\ n \notin Below(b, right[n])
          /\ Below(b, left[n]) \cap Below(b, right[n]) = {} /\ b[n] \subseteq Live
          /\ left[n] \in Live \cup {Null} /\ right[n] \in Live \cup {Null}
      BY <1>1, <2>4, TreeFacts
    <2>7. PICK mid : mid = Push(left[n], rest)
      OBVIOUS
    <2>8. mid \in Seq(Nodes) /\ Apart(mid, b) /\ Pending(mid, b) = Pending(rest, b) \cup Below(b, left[n])
      <3>1. Below(b, left[n]) \cap Pending(rest, b) = {}
        BY <2>4, <2>6
      <3> QED
        BY <2>3, <2>4, <2>6, <2>7, <3>1, PushApart
    <2>9. Apart(stack', b) /\ Pending(stack', b) = Pending(mid, b) \cup Below(b, right[n])
      <3>1. Below(b, right[n]) \cap Pending(mid, b) = {}
        BY <2>4, <2>6, <2>8
      <3> QED
        BY <2>1, <2>6, <2>7, <2>8, <3>1, PushApart
    <2>10. Pending(stack', b) = Pending(stack, b) \ {n}
      BY <2>4, <2>5, <2>6, <2>8, <2>9
    <2>11. Apart(stack, b)' /\ Pending(stack, b)' = Pending(stack, b) \ {n}
      BY <2>9, <2>10, <1>3 DEF Apart, Pending
    <2>12. n \in Pending(stack, b) /\ Pending(stack, b) \subseteq Live
      <3>1. \A i \in DOMAIN stack : b[stack[i]] \subseteq Live
        BY <2>2, <1>1, TreeFacts DEF Apart
      <3> QED
        BY <2>5, <2>6, <3>1 DEF Pending
    <2>13. /\ key[n] \in Stored /\ \A m \in Live : m # n => key[m] # key[n]
      BY <1>1, <2>4, TreeFacts
    <2>14. /\ DOMAIN order' = DOMAIN order \cup {Len(order) + 1} /\ order'[Len(order) + 1] = key[n]
           /\ \A i \in DOMAIN order : order'[i] = order[i] /\ i # Len(order) + 1
      <3>1. order \in Seq(Keys \cup {NoKey}) /\ key[n] \in Keys \cup {NoKey}
        BY <2>4, LiveKeys DEF TypeInv
      <3> QED
        BY <2>1, <3>1
    <2>15. \A m \in Live : \/ m \in Pending(stack, b) \ {n}
                           \/ \E i \in DOMAIN order' : order'[i] = key[m]
      BY <2>2, <2>14
    <2>16. \A m \in Pending(stack, b) \ {n} : \A i \in DOMAIN order' : order'[i] # key[m]
      BY <2>2, <2>12, <2>13, <2>14
    <2>17. \A i, j \in DOMAIN order' : order'[i] = order'[j] => i = j
      BY <2>2, <2>12, <2>14
    <2>18. \A i \in DOMAIN order' : order'[i] \in Stored
      BY <2>2, <2>13, <2>14
    <2>19. DestroyInv(b)'
      BY <1>2, <1>3, <2>1, <2>11, <2>15, <2>16, <2>17, <2>18 DEF DestroyInv
    <2> QED
      BY <1>3, <1>4, <1>5, <2>19 DEF TreeInv
  <1>9. CASE Closed
    <2>1. pc = "destroy" /\ stack = <<>> /\ pc' = "closed" /\ stack' = stack /\ order' = order
      BY <1>9 DEF Closed, walk
    <2>2. Apart(stack, b)' = Apart(stack, b) /\ Pending(stack, b)' = Pending(stack, b)
      BY <2>1, <1>3 DEF Apart, Pending
    <2>3. DestroyInv(b)'
      BY <1>2, <1>3, <2>1, <2>2 DEF TreeInv, DestroyInv
    <2> QED
      BY <1>3, <1>4, <1>5, <2>3 DEF TreeInv
  <1> QED
    BY <1>7, <1>8, <1>9

-----------------------------------------------------------------------------
LEMMA InitIInv == Init => IInv
  <1> SUFFICES ASSUME Init
               PROVE  IInv
    OBVIOUS
  <1>1. TypeInv
    <2>1. todo \in Seq(Keys) /\ stack \in Seq(Nodes) /\ order \in Seq(Keys \cup {NoKey})
      BY FilesAssumption DEF Init
    <2>2. /\ root = Null /\ arg = NoKey /\ cur = Null /\ target = Null /\ pc = "idle" /\ goal = "none"
          /\ kept = {} /\ probed = {} /\ lost = FALSE /\ stack = <<>> /\ order = <<>>
          /\ key \in [Nodes -> Keys \cup {NoKey}] /\ height \in [Nodes -> Nat]
          /\ father \in [Nodes -> Nodes \cup {Null}] /\ left \in [Nodes -> Nodes \cup {Null}]
          /\ right \in [Nodes -> Nodes \cup {Null}]
      BY DEF Init
    <2> QED
      BY <2>1, <2>2 DEF TypeInv
  <1>2. PICK b : b = [n \in Nodes |-> {}]
    OBVIOUS
  <1>3. b \in [Nodes -> SUBSET Nodes] /\ Live = {} /\ Stored = {}
    BY <1>2 DEF Init, Live, Stored
  <1>4. Tree(b)
    BY <1>3 DEF Init, Tree, Shape, Sorted, Holds
  <1>5. TodoInv
    BY FilesAssumption DEF Init, TodoInv
  <1>6. SearchInv(b) /\ InsertInv(b) /\ ClimbInv /\ PredInv(b) /\ DestroyInv(b)
    BY DEF Init, SearchInv, InsertInv, ClimbInv, PredInv, DestroyInv
  <1> QED
    BY <1>1, <1>3, <1>4, <1>5, <1>6 DEF IInv, TreeInv

LEMMA StepIInv == IInv /\ [Next]_vars => IInv'
  <1> SUFFICES ASSUME IInv, [Next]_vars
               PROVE  IInv'
    OBVIOUS
  <1>1. TypeInv /\ TypeInv'
    BY TypeStep DEF IInv
  <1>2. CASE lost
    <2>1. lost'
      BY <1>2 DEF vars, Next, Load, Lookup, SearchStep, Found, Missed, InsertStep, InsertLeaf,
         BalanceInsert, SecondRotation, Keep, Drop, Delete, PredStep, SwapAndCut, Cut, BalanceDelete,
         Close, DestroyStep, Closed, index
    <2> QED
      BY <1>1, <2>1 DEF IInv
  <1>3. CASE pc = "crashed"
    <2>1. UNCHANGED vars
      BY <1>3 DEF Next, Load, Lookup, SearchStep, Found, Missed, InsertStep, InsertLeaf,
         BalanceInsert, SecondRotation, Keep, Drop, Delete, PredStep, SwapAndCut, BalanceDelete,
         Close, DestroyStep, Closed
    <2>2. pc' = "crashed"
      BY <1>3, <2>1 DEF vars
    <2> QED
      BY <1>1, <2>2 DEF IInv
  <1>4. CASE ~lost /\ pc # "crashed"
    <2>1. PICK b \in [Nodes -> SUBSET Nodes] : TreeInv(b)
      BY <1>4 DEF IInv
    <2>2. CASE \/ Load \/ (\E k \in Asked : Lookup(k)) \/ Found \/ Missed
               \/ (\E k \in Keys : Keep(k) \/ Drop(k))
      BY <1>1, <2>1, <2>2, CallStep DEF IInv
    <2>3. CASE SearchStep \/ InsertStep \/ PredStep
      BY <1>1, <2>1, <2>3, DescentStep DEF IInv
    <2>4. CASE InsertLeaf
      BY <1>1, <2>1, <2>4, InsertedStep DEF IInv
    <2>5. CASE BalanceInsert \/ BalanceDelete \/ SecondRotation
      BY <1>1, <2>1, <2>5, ClimbStep DEF IInv
    <2>6. CASE Delete \/ SwapAndCut
      BY <1>1, <2>1, <2>6, DeleteStep DEF IInv
    <2>7. CASE Close \/ DestroyStep \/ Closed
      BY <1>1, <2>1, <2>7, CloseStep DEF IInv
    <2>8. CASE UNCHANGED vars
      <3>1. TreeInv(b)'
        BY <2>1, <2>8 DEF vars, TreeInv, Tree, Live, Stored, SearchInv, InsertInv, OnItsSide, ClimbInv,
           PredInv, TodoInv, DestroyInv, Apart
      <3> QED
        BY <1>1, <2>1, <3>1 DEF IInv
    <2> QED
      BY <2>2, <2>3, <2>4, <2>5, <2>6, <2>7, <2>8 DEF Next
  <1> QED
    BY <1>2, <1>3, <1>4

(* The variables have their types, and until the tree is emptied with keys *)
(* below its root the links make one search tree of the keys of the index, *)
(* each in one node (avl_tree_insert, avl_tree_delete, the rotations).     *)
THEOREM TreeAlways == Spec => []IInv
  BY InitIInv, StepIInv, PTL DEF Spec

(* A search for a key of the index ends at its node, a search for another  *)
(* key at none, whatever was inserted and deleted before                   *)
(* (avl_tree_search_node).                                                 *)
THEOREM SearchAlwaysFinds == Spec => []SearchFinds
  <1>1. IInv => SearchFinds
    <2> SUFFICES ASSUME IInv, pc = "search", ~lost
                 PROVE  /\ cur = Null => arg \notin Stored
                        /\ cur # Null /\ key[cur] = arg => arg \in Stored
      BY DEF SearchFinds
    <2>1. PICK b \in [Nodes -> SUBSET Nodes] : Tree(b) /\ SearchInv(b)
      BY DEF IInv, TreeInv
    <2>2. TypeInv
      BY DEF IInv
    <2>3. ASSUME cur = Null
          PROVE  arg \notin Stored
      <3>1. \A n \in Live : key[n] # arg
        BY <2>1, <2>3 DEF SearchInv, Below
      <3> QED
        BY <2>1, <2>2, <3>1, TreeFacts
    <2>4. ASSUME cur # Null, key[cur] = arg
          PROVE  arg \in Stored
      BY <2>1, <2>2, <2>4, TreeFacts DEF SearchInv
    <2> QED
      BY <2>3, <2>4
  <1> QED
    BY <1>1, TreeAlways, PTL

(* index_table_destroy destroys the record of each key of the index once.  *)
THEOREM DestroyAlwaysOnce == Spec => []DestroysEachOnce
  <1>1. IInv => DestroysEachOnce
    <2> SUFFICES ASSUME IInv, ~lost
                 PROVE  DestroysEachOnce
      BY DEF DestroysEachOnce
    <2>1. TypeInv
      BY DEF IInv
    <2>2. CASE pc \notin {"destroy", "closed"}
      <3>1. order = <<>>
        BY <2>1, <2>2 DEF TypeInv
      <3> QED
        BY <2>2, <3>1 DEF DestroysEachOnce
    <2>3. CASE pc \in {"destroy", "closed"}
      <3>1. PICK b \in [Nodes -> SUBSET Nodes] : Tree(b) /\ DestroyInv(b)
        BY <2>3 DEF IInv, TreeInv
      <3>2. /\ \A i, j \in DOMAIN order : order[i] = order[j] => i = j
            /\ \A i \in DOMAIN order : order[i] \in Stored
        BY <2>3, <3>1 DEF DestroyInv
      <3>3. ASSUME pc = "closed", NEW k \in Stored
            PROVE  k \in {order[i] : i \in DOMAIN order}
        <4>1. PICK n \in Live : key[n] = k
          BY <2>1, <3>1, TreeFacts
        <4>2. Pending(stack, b) = {}
          BY <3>1, <3>3 DEF DestroyInv, Pending
        <4> QED
          BY <3>1, <3>3, <4>1, <4>2 DEF DestroyInv
      <3> QED
        BY <3>2, <3>3 DEF DestroysEachOnce
    <2> QED
      BY <2>2, <2>3
  <1> QED
    BY <1>1, TreeAlways, PTL

-----------------------------------------------------------------------------
(* One key without a value at a time: what its node looks like.            *)

Leaf(n) == left[n] = Null /\ right[n] = Null

(* The node n of a key without a value is a leaf as it is made; the first  *)
(* half of a double rotation may lift it, the second gives it two sons.    *)
Placed(n) ==
    /\ pc = "balance_insert" => Leaf(n) /\ height[n] = 0
    /\ pc = "rotate_right" =>
           \/ n # cur /\ n # left[cur] /\ Leaf(n)
           \/ n # cur /\ n = left[cur] /\ left[n] # Null
    /\ pc = "rotate_left" =>
           \/ n # cur /\ n # right[cur] /\ Leaf(n)
           \/ n # cur /\ n = right[cur] /\ right[n] # Null
    /\ pc \notin {"balance_insert", "rotate_right", "rotate_left", "crashed"} =>
           (left[n] = Null <=> right[n] = Null)

ProbedInv ==
    /\ \A i, j \in probed : i = j
    /\ \A n \in Nodes : key[n] \in probed => Placed(n)
    /\ pc \in {"search", "insert"} /\ goal = "lookup" => arg \in Stored \/ probed = {}
    /\ pc \in {"insert", "balance_insert"} => goal # "delete"
    /\ pc = "balance_delete" => probed = {}
    /\ pc \in {"rotate_right", "rotate_left"} /\ goal = "delete" => probed = {}

(* Which node has which key and which sons after a rotation. *)
LEMMA RightMoves ==
    ASSUME TypeInv, NEW n \in Nodes, left[n] \in Nodes, left[n] # n, RightRotation(n)
    PROVE  /\ key'[n] = key[left[n]] /\ key'[left[n]] = key[n]
           /\ left'[n] = left[left[n]] /\ right'[n] = left[n]
           /\ left'[left[n]] = right[left[n]] /\ right'[left[n]] = right[n]
           /\ \A x \in Nodes : x # n /\ x # left[n] =>
                 key'[x] = key[x] /\ left'[x] = left[x] /\ right'[x] = right[x]
  BY DEF TypeInv, RightRotation

LEMMA LeftMoves ==
    ASSUME TypeInv, NEW n \in Nodes, right[n] \in Nodes, right[n] # n, LeftRotation(n)
    PROVE  /\ key'[n] = key[right[n]] /\ key'[right[n]] = key[n]
           /\ right'[n] = right[right[n]] /\ left'[n] = right[n]
           /\ right'[right[n]] = left[right[n]] /\ left'[right[n]] = left[n]
           /\ \A x \in Nodes : x # n /\ x # right[n] =>
                 key'[x] = key[x] /\ right'[x] = right[x] /\ left'[x] = left[x]
  BY DEF TypeInv, LeftRotation

(* The nodes of a rotation differ. *)
LEMMA Grandsons ==
    ASSUME TypeInv, NEW b \in [Nodes -> SUBSET Nodes], Tree(b), NEW n \in Live
    PROVE  /\ n \in Nodes /\ Null \notin Nodes
           /\ left[n] # Null => /\ left[n] \in Live /\ left[n] \in Nodes /\ left[n] # n
                                /\ right[left[n]] # Null =>
                                      /\ right[left[n]] \in Nodes /\ right[left[n]] # left[n]
                                      /\ right[left[n]] # n
           /\ right[n] # Null => /\ right[n] \in Live /\ right[n] \in Nodes /\ right[n] # n
                                 /\ left[right[n]] # Null =>
                                       /\ left[right[n]] \in Nodes /\ left[right[n]] # right[n]
                                       /\ left[right[n]] # n
  <1>1. Null \notin Nodes /\ Null \notin Live /\ n \in Nodes
    BY KeysAssumption, LiveKeys DEF Live
  <1>2. Shape(root, father, left, right, Live, b) /\ Shape(root, father, right, left, Live, b)
    BY Mirror DEF Tree
  <1>3. \A m \in Live : left[m] # Null =>
           left[m] \in Live /\ left[m] # m /\ left[m] \in b[left[m]] /\ b[left[m]] \subseteq b[m] /\ m \notin b[left[m]]
    BY <1>1, <1>2, Sons
  <1>4. \A m \in Live : right[m] # Null =>
           right[m] \in Live /\ right[m] # m /\ right[m] \in b[right[m]] /\ b[right[m]] \subseteq b[m] /\ m \notin b[right[m]]
    BY <1>1, <1>2, Sons
  <1> QED
    BY <1>1, <1>3, <1>4 DEF Live


(* A single rotation of the node out of balance: the new leaf is neither   *)
(* that node nor, being of height 0, the son that rises.                   *)
LEMMA ProbedRight ==
    ASSUME TypeInv, ProbedInv, pc = "balance_insert", cur \in Nodes, left[cur] \in Nodes,
           left[cur] # cur, height[left[cur]] > 0, RightRotation(cur), NEW x \in Nodes, key'[x] \in probed
    PROVE  Leaf(x)'
  <1>1. \A n \in Nodes : key[n] \in probed => Leaf(n) /\ height[n] = 0
    BY DEF ProbedInv, Placed
  <1>2. Null \notin Nodes
    BY KeysAssumption
  <1>3. key[cur] \notin probed /\ key[left[cur]] \notin probed
    BY <1>1, <1>2 DEF Leaf
  <1>4. x # cur /\ x # left[cur]
    BY <1>3, RightMoves
  <1> QED
    BY <1>1, <1>4, RightMoves DEF Leaf

LEMMA ProbedLeft ==
    ASSUME TypeInv, ProbedInv, pc = "balance_insert", cur \in Nodes, right[cur] \in Nodes,
           right[cur] # cur, height[right[cur]] > 0, LeftRotation(cur), NEW x \in Nodes, key'[x] \in probed
    PROVE  Leaf(x)'
  <1>1. \A n \in Nodes : key[n] \in probed => Leaf(n) /\ height[n] = 0
    BY DEF ProbedInv, Placed
  <1>2. Null \notin Nodes
    BY KeysAssumption
  <1>3. key[cur] \notin probed /\ key[right[cur]] \notin probed
    BY <1>1, <1>2 DEF Leaf
  <1>4. x # cur /\ x # right[cur]
    BY <1>3, LeftMoves
  <1> QED
    BY <1>1, <1>4, LeftMoves DEF Leaf

(* The first half of a double rotation: the new leaf may be the one that   *)
(* rises, and has a son then.                                              *)
LEMMA ProbedLeftRight ==
    ASSUME TypeInv, ProbedInv, pc = "balance_insert", cur \in Nodes, left[cur] \in Nodes,
           right[left[cur]] \in Nodes, left[cur] # cur, right[left[cur]] # left[cur],
           right[left[cur]] # cur, LeftRotation(left[cur]), Goto("rotate_right", cur),
           NEW x \in Nodes, key'[x] \in probed
    PROVE  Placed(x)'
  <1>1. \A n \in Nodes : key[n] \in probed => Leaf(n)
    BY DEF ProbedInv, Placed
  <1>2. Null \notin Nodes
    BY KeysAssumption
  <1>3. key[cur] \notin probed /\ key[left[cur]] \notin probed
    BY <1>1, <1>2 DEF Leaf
  <1>4. /\ cur' = cur /\ pc' = "rotate_right" /\ left'[cur] = left[cur] /\ key'[cur] = key[cur]
        /\ key'[right[left[cur]]] = key[left[cur]]
    BY LeftMoves DEF Goto
  <1>5. x # cur /\ x # right[left[cur]]
    BY <1>3, <1>4
  <1>6. CASE x = left[cur]
    <2>1. left'[x] = right[left[cur]]
      BY <1>6, LeftMoves
    <2> QED
      BY <1>2, <1>4, <1>5, <1>6, <2>1 DEF Placed
  <1>7. CASE x # left[cur]
    <2>1. key'[x] = key[x] /\ left'[x] = left[x] /\ right'[x] = right[x]
      BY <1>5, <1>7, LeftMoves
    <2>2. Leaf(x)'
      BY <1>1, <2>1 DEF Leaf
    <2> QED
      BY <1>4, <1>5, <1>7, <2>2 DEF Placed
  <1> QED
    BY <1>6, <1>7

LEMMA ProbedRightLeft ==
    ASSUME TypeInv, ProbedInv, pc = "balance_insert", cur \in Nodes, right[cur] \in Nodes,
           left[right[cur]] \in Nodes, right[cur] # cur, left[right[cur]] # right[cur],
           left[right[cur]] # cur, RightRotation(right[cur]), Goto("rotate_left", cur),
           NEW x \in Nodes, key'[x] \in probed
    PROVE  Placed(x)'
  <1>1. \A n \in Nodes : key[n] \in probed => Leaf(n)
    BY DEF ProbedInv, Placed
  <1>2. Null \notin Nodes
    BY KeysAssumption
  <1>3. key[cur] \notin probed /\ key[right[cur]] \notin probed
    BY <1>1, <1>2 DEF Leaf
  <1>4. /\ cur' = cur /\ pc' = "rotate_left" /\ right'[cur] = right[cur] /\ key'[cur] = key[cur]
        /\ key'[left[right[cur]]] = key[right[cur]]
    BY RightMoves DEF Goto
  <1>5. x # cur /\ x # left[right[cur]]
    BY <1>3, <1>4
  <1>6. CASE x = right[cur]
    <2>1. right'[x] = left[right[cur]]
      BY <1>6, RightMoves
    <2> QED
      BY <1>2, <1>4, <1>5, <1>6, <2>1 DEF Placed
  <1>7. CASE x # right[cur]
    <2>1. key'[x] = key[x] /\ right'[x] = right[x] /\ left'[x] = left[x]
      BY <1>5, <1>7, RightMoves
    <2>2. Leaf(x)'
      BY <1>1, <2>1 DEF Leaf
    <2> QED
      BY <1>4, <1>5, <1>7, <2>2 DEF Placed
  <1> QED
    BY <1>6, <1>7

(* The second half: a node that rose gets its second son.                  *)
LEMMA ProbedSecondRight ==
    ASSUME TypeInv, ProbedInv, pc = "rotate_right", cur \in Nodes, left[cur] \in Nodes,
           left[cur] # cur, RightRotation(cur), NEW x \in Nodes, key'[x] \in probed
    PROVE  (left[x] = Null <=> right[x] = Null)'
  <1>1. \A n \in Nodes : key[n] \in probed =>
           \/ n # cur /\ n # left[cur] /\ Leaf(n)
           \/ n # cur /\ n = left[cur] /\ left[n] # Null
    BY DEF ProbedInv, Placed
  <1>2. Null \notin Nodes
    BY KeysAssumption
  <1>3. x # left[cur]
    BY <1>1, RightMoves
  <1>4. CASE x = cur
    BY <1>1, <1>2, <1>4, RightMoves
  <1>5. CASE x # cur
    BY <1>1, <1>3, <1>5, RightMoves DEF Leaf
  <1> QED
    BY <1>4, <1>5

LEMMA ProbedSecondLeft ==
    ASSUME TypeInv, ProbedInv, pc = "rotate_left", cur \in Nodes, right[cur] \in Nodes,
           right[cur] # cur, LeftRotation(cur), NEW x \in Nodes, key'[x] \in probed
    PROVE  (right[x] = Null <=> left[x] = Null)'
  <1>1. \A n \in Nodes : key[n] \in probed =>
           \/ n # cur /\ n # right[cur] /\ Leaf(n)
           \/ n # cur /\ n = right[cur] /\ right[n] # Null
    BY DEF ProbedInv, Placed
  <1>2. Null \notin Nodes
    BY KeysAssumption
  <1>3. x # right[cur]
    BY <1>1, LeftMoves
  <1>4. CASE x = cur
    BY <1>1, <1>2, <1>4, LeftMoves
  <1>5. CASE x # cur
    BY <1>1, <1>3, <1>5, LeftMoves DEF Leaf
  <1> QED
    BY <1>4, <1>5

LEMMA ProbedRotate ==
    ASSUME TypeInv, ProbedInv, NEW b \in [Nodes -> SUBSET Nodes], Tree(b),
           pc = "balance_insert", cur \in Live, Rotate, UNCHANGED <<index, walk>>
    PROVE  ProbedInv'
  <1>0. /\ Null \notin Nodes /\ cur \in Nodes /\ probed' = probed /\ goal # "delete"
        /\ \A i, j \in probed : i = j
        /\ \A n \in Nodes : key[n] \in probed => Leaf(n)
    BY Grandsons DEF index, ProbedInv, Placed
  <1>1. /\ left[cur] # Null => left[cur] \in Nodes /\ left[cur] # cur
        /\ right[cur] # Null => right[cur] \in Nodes /\ right[cur] # cur
    BY Grandsons
  <1>2. BalanceFactor(cur) \in Int /\ BalanceFactor(left[cur]) \in Int
    BY <1>0 DEF TypeInv, BalanceFactor, Height
  <1>3. AfterRotation => pc' = "idle" /\ goal' = "none"
    BY <1>0 DEF AfterRotation, Return
  <1>4. Die => pc' = "crashed"
    BY DEF Die
  <1>5. Goto("rotate_right", cur) => pc' = "rotate_right" /\ cur' = cur /\ goal' = goal
    BY DEF Goto
  <1>6. Goto("rotate_left", cur) => pc' = "rotate_left" /\ cur' = cur /\ goal' = goal
    BY DEF Goto
  <1>7. /\ pc' \in {"idle", "rotate_right", "rotate_left", "crashed"}
        /\ pc' \in {"rotate_right", "rotate_left"} => goal' = goal
        /\ \A x \in Nodes : key'[x] \in probed => Placed(x)'
    <2>1. CASE BalanceFactor(cur) = 2 /\ BalanceFactor(left[cur]) >= 0
      <3>1. TurnRight(cur, AfterRotation)
        BY <1>2, <2>1 DEF Rotate
      <3>2. CASE left[cur] = Null
        BY <3>1, <3>2, <1>4 DEF TurnRight, Placed
      <3>3. CASE left[cur] # Null
        <4>1. height[left[cur]] > 0
          BY <1>0, <1>1, <2>1, <3>3 DEF BalanceFactor, Height, TypeInv
        <4>2. RightRotation(cur) /\ AfterRotation
          BY <3>1, <3>3 DEF TurnRight
        <4>3. \A x \in Nodes : key'[x] \in probed => Leaf(x)'
          BY <1>0, <1>1, <3>3, <4>1, <4>2, ProbedRight
        <4> QED
          BY <1>3, <4>2, <4>3 DEF Placed, Leaf
      <3> QED
        BY <3>2, <3>3
    <2>2. CASE BalanceFactor(cur) = 2 /\ BalanceFactor(left[cur]) < 0
      <3>1. TurnLeft(left[cur], Goto("rotate_right", cur))
        BY <1>2, <2>2 DEF Rotate
      <3>2. CASE right[left[cur]] = Null
        BY <3>1, <3>2, <1>4 DEF TurnLeft, Placed
      <3>3. CASE right[left[cur]] # Null
        <4>1. left[cur] # Null
          BY <2>2 DEF BalanceFactor
        <4>2. /\ right[left[cur]] \in Nodes /\ right[left[cur]] # left[cur]
              /\ right[left[cur]] # cur
          BY <3>3, <4>1, Grandsons
        <4>3. LeftRotation(left[cur]) /\ Goto("rotate_right", cur)
          BY <3>1, <3>3 DEF TurnLeft
        <4>4. \A x \in Nodes : key'[x] \in probed => Placed(x)'
          BY <1>0, <1>1, <4>1, <4>2, <4>3, ProbedLeftRight
        <4> QED
          BY <1>5, <4>3, <4>4
      <3> QED
        BY <3>2, <3>3
    <2>3. CASE BalanceFactor(cur) = -2 /\ BalanceFactor(left[cur]) >= 0
      <3>1. TurnLeft(cur, AfterRotation)
        BY <1>2, <2>3 DEF Rotate
      <3>2. CASE right[cur] = Null
        BY <3>1, <3>2, <1>4 DEF TurnLeft, Placed
      <3>3. CASE right[cur] # Null
        <4>1. height[right[cur]] > 0
          BY <1>0, <1>1, <2>3, <3>3 DEF BalanceFactor, Height, TypeInv
        <4>2. LeftRotation(cur) /\ AfterRotation
          BY <3>1, <3>3 DEF TurnLeft
        <4>3. \A x \in Nodes : key'[x] \in probed => Leaf(x)'
          BY <1>0, <1>1, <3>3, <4>1, <4>2, ProbedLeft
        <4> QED
          BY <1>3, <4>2, <4>3 DEF Placed, Leaf
      <3> QED
        BY <3>2, <3>3
    <2>4. CASE BalanceFactor(cur) = -2 /\ BalanceFactor(left[cur]) < 0
      <3>1. TurnRight(right[cur], Goto("rotate_left", cur))
        BY <1>2, <2>4 DEF Rotate
      <3>2. CASE left[right[cur]] = Null
        BY <3>1, <3>2, <1>4 DEF TurnRight, Placed
      <3>3. CASE left[right[cur]] # Null
        <4>1. right[cur] # Null
          BY <1>0, <2>4 DEF BalanceFactor, Height, TypeInv
        <4>2. /\ left[right[cur]] \in Nodes /\ left[right[cur]] # right[cur]
              /\ left[right[cur]] # cur
          BY <3>3, <4>1, Grandsons
        <4>3. RightRotation(right[cur]) /\ Goto("rotate_left", cur)
          BY <3>1, <3>3 DEF TurnRight
        <4>4. \A x \in Nodes : key'[x] \in probed => Placed(x)'
          BY <1>0, <1>1, <4>1, <4>2, <4>3, ProbedRightLeft
        <4> QED
          BY <1>6, <4>3, <4>4
      <3> QED
        BY <3>2, <3>3
    <2>5. CASE ~(BalanceFactor(cur) \in {-2, 2})
      <3>1. AfterRotation /\ UNCHANGED tree
        BY <1>2, <2>5 DEF Rotate
      <3> QED
        BY <1>0, <1>3, <3>1 DEF tree, Placed, Leaf
    <2> QED
      BY <1>2, <2>1, <2>2, <2>3, <2>4, <2>5
  <1> QED
    BY <1>0, <1>7 DEF ProbedInv

LEMMA ProbedSecond ==
    ASSUME TypeInv, ProbedInv, NEW b \in [Nodes -> SUBSET Nodes], Tree(b), cur \in Live,
           SecondRotation
    PROVE  ProbedInv'
  <1>0. /\ Null \notin Nodes /\ cur \in Nodes /\ probed' = probed
        /\ \A i, j \in probed : i = j
        /\ goal = "delete" => probed = {}
    BY Grandsons DEF index, ProbedInv, SecondRotation
  <1>1. /\ left[cur] # Null => left[cur] \in Nodes /\ left[cur] # cur
        /\ right[cur] # Null => right[cur] \in Nodes /\ right[cur] # cur
    BY Grandsons
  <1>2. Die => pc' = "crashed"
    BY DEF Die
  <1>3. AfterRotation => pc' = "idle" \/ (pc' = "balance_delete" /\ probed = {})
    BY <1>0 DEF AfterRotation, Return, Goto
  <1>4. /\ pc' = "crashed" \/ pc' = "idle" \/ (pc' = "balance_delete" /\ probed = {})
        /\ \A x \in Nodes : key'[x] \in probed => Placed(x)'
    <2>1. CASE pc = "rotate_right"
      <3>1. TurnRight(cur, AfterRotation)
        BY <2>1 DEF SecondRotation
      <3>2. CASE left[cur] = Null
        BY <1>2, <3>1, <3>2 DEF TurnRight, Placed
      <3>3. CASE left[cur] # Null
        <4>1. RightRotation(cur) /\ AfterRotation
          BY <3>1, <3>3 DEF TurnRight
        <4>2. \A x \in Nodes : key'[x] \in probed => (left[x] = Null <=> right[x] = Null)'
          BY <1>0, <1>1, <2>1, <3>3, <4>1, ProbedSecondRight
        <4> QED
          BY <1>3, <4>1, <4>2 DEF Placed
      <3> QED
        BY <3>2, <3>3
    <2>2. CASE pc = "rotate_left"
      <3>1. TurnLeft(cur, AfterRotation)
        BY <2>2 DEF SecondRotation
      <3>2. CASE right[cur] = Null
        BY <1>2, <3>1, <3>2 DEF TurnLeft, Placed
      <3>3. CASE right[cur] # Null
        <4>1. LeftRotation(cur) /\ AfterRotation
          BY <3>1, <3>3 DEF TurnLeft
        <4>2. \A x \in Nodes : key'[x] \in probed => (left[x] = Null <=> right[x] = Null)'
          BY <1>0, <1>1, <2>2, <3>3, <4>1, ProbedSecondLeft
        <4> QED
          BY <1>3, <4>1, <4>2 DEF Placed
      <3> QED
        BY <3>2, <3>3
    <2> QED
      BY <2>1, <2>2 DEF SecondRotation
  <1> QED
    BY <1>0, <1>4 DEF ProbedInv

(* Where no key is without a value there is nothing to show. *)
LEMMA NoneProbed ==
    ASSUME probed' = {}, pc' \in {"insert", "balance_insert"} => goal' # "delete"
    PROVE  ProbedInv'
  BY DEF ProbedInv

(* Steps that leave the sons alone and are no part of a climb.             *)
LEMMA SameProbed ==
    ASSUME ProbedInv, UNCHANGED <<key, left, right>>, probed' \subseteq probed,
           pc \in {"idle", "search", "insert", "pred", "destroy", "closed"},
           pc' \in {"idle", "search", "insert", "pred", "destroy", "closed", "crashed"},
           pc' \in {"search", "insert"} /\ goal' = "lookup" => arg' \in Stored' \/ probed' = {},
           pc' = "insert" => goal' # "delete"
    PROVE  ProbedInv'
  <1>1. \A n \in Nodes : key[n] \in probed => (left[n] = Null <=> right[n] = Null)
    BY DEF ProbedInv, Placed
  <1>2. \A n \in Nodes : key'[n] \in probed' => Placed(n)'
    BY <1>1 DEF Placed
  <1> QED
    BY <1>2 DEF ProbedInv

LEMMA StepProbed ==
    ASSUME MaxProbed <= 1, IInv, ~lost, ProbedInv, [Next]_vars
    PROVE  ~lost' /\ ProbedInv'
  <1>0. /\ TypeInv /\ Null \notin Nodes /\ NoKey \notin Keys /\ MaxProbed \in Nat
        /\ \A i, j \in probed : i = j
        /\ \A n \in Nodes : key[n] \in probed => Placed(n)
    BY KeysAssumption DEF IInv, ProbedInv
  <1>1. CASE UNCHANGED vars
    BY <1>1 DEF vars, ProbedInv, Placed, Leaf, Stored
  <1>2. CASE pc = "crashed" /\ Next
    BY <1>2 DEF Next, Load, Lookup, SearchStep, Found, Missed, InsertStep, InsertLeaf, BalanceInsert,
       SecondRotation, Keep, Drop, Delete, PredStep, SwapAndCut, BalanceDelete, Close, DestroyStep, Closed
  <1>3. CASE pc # "crashed" /\ Next
    <2>1. PICK b \in [Nodes -> SUBSET Nodes] : TreeInv(b)
      BY <1>3 DEF IInv
    <2>2. Tree(b) /\ SearchInv(b) /\ InsertInv(b) /\ ClimbInv /\ PredInv(b) /\ TodoInv
      BY <2>1 DEF TreeInv
    <2>3. CASE Load
      BY <2>3, SameProbed DEF Load, tree, walk
    <2>4. ASSUME NEW k \in Asked, Lookup(k)
          PROVE  ~lost' /\ ProbedInv'
      <3>1. k \in Stored \/ probed = {}
        <4>1. ASSUME probed # {}
              PROVE  Cardinality(probed) = 1
          <5>1. PICK i : i \in probed
            BY <4>1
          <5>2. probed = {i}
            BY <1>0, <5>1
          <5> QED
            BY <5>2, FS_Singleton
        <4> QED
          BY <1>0, <2>4, <4>1 DEF Lookup
      <3>2. /\ UNCHANGED <<key, left, right, kept, probed, lost>> /\ pc = "idle" /\ pc' = "search"
            /\ arg' = k
        BY <2>4 DEF Lookup, tree, index
      <3>3. k \in Stored' \/ probed' = {}
        BY <3>1, <3>2 DEF Stored
      <3> QED
        BY <3>2, <3>3, SameProbed
    <2>5. CASE SearchStep \/ Found \/ Missed \/ InsertStep
      <3>1. /\ UNCHANGED <<key, left, right, kept, probed, lost>>
            /\ pc \in {"search", "insert"} /\ pc' \in {"idle", "search", "insert"}
            /\ pc' # "idle" => arg' = arg /\ goal' = goal /\ (pc = "insert" \/ pc' = "search" \/ goal = "lookup")
        BY <2>5 DEF SearchStep, Found, Missed, InsertStep, Goto, Return, tree, index
      <3>2. Stored' = Stored
        BY <3>1 DEF Stored
      <3>3. pc' \in {"search", "insert"} /\ goal' = "lookup" => arg' \in Stored' \/ probed' = {}
        BY <3>1, <3>2 DEF ProbedInv
      <3>4. pc' = "insert" => goal' # "delete"
        BY <2>5, <3>1 DEF ProbedInv, Missed, SearchStep, Found, InsertStep, Goto, Return
      <3> QED
        BY <3>1, <3>3, <3>4, SameProbed
    <2>6. CASE InsertLeaf
      <3>1. /\ pc = "insert" /\ lost' = lost /\ pc' = "balance_insert" /\ goal' = goal /\ goal # "delete"
            /\ arg \notin Stored /\ arg \in Keys
        BY <2>2, <2>6 DEF InsertLeaf, Goto, ProbedInv, InsertInv, TypeInv, IInv
      <3>2. CASE goal = "load"
        <4>1. probed' = {}
          BY <2>2, <2>6, <3>2 DEF InsertLeaf, TodoInv
        <4> QED
          BY <3>1, <3>2, <4>1, NoneProbed
      <3>3. CASE goal # "load"
        <4>1. goal = "lookup"
          BY <1>0, <2>2, <3>1, <3>3 DEF TypeInv, TodoInv
        <4>2. probed' = {arg}
          BY <2>6, <3>1, <4>1 DEF InsertLeaf, ProbedInv
        <4>3. ASSUME NEW x \in Nodes, key'[x] = arg
              PROVE  Placed(x)'
          <5>1. x = NewNode
            <6>1. x # NewNode => key[x] = arg
              BY <1>0, <2>6, <4>3 DEF InsertLeaf, TypeInv
            <6>2. x # NewNode => x \in Live
              BY <1>0, <3>1, <6>1 DEF Live
            <6> QED
              BY <1>0, <2>2, <3>1, <6>1, <6>2, TreeFacts
          <5>2. left'[x] = Null /\ right'[x] = Null /\ height'[x] = 0
            BY <1>0, <2>6, <5>1 DEF InsertLeaf, TypeInv
          <5> QED
            BY <3>1, <5>2 DEF Placed, Leaf
        <4> QED
          BY <3>1, <4>2, <4>3 DEF ProbedInv
      <3> QED
        BY <3>2, <3>3
    <2>7. CASE BalanceInsert
      <3>1. /\ pc = "balance_insert" /\ lost' = lost /\ probed' = probed /\ goal # "delete"
            /\ \A n \in Nodes : key[n] \in probed => Leaf(n) /\ height[n] = 0
        BY <1>0, <2>7 DEF BalanceInsert, index, ProbedInv, Placed
      <3>2. CASE cur = Null
        <4>1. pc' = "idle" /\ UNCHANGED tree
          BY <2>7, <3>2 DEF BalanceInsert, Return
        <4> QED
          BY <1>0, <3>1, <4>1 DEF ProbedInv, Placed, Leaf, tree
      <3>3. CASE cur # Null /\ BalanceFactor(cur) \in {-1, 0, 1}
        <4>1. /\ cur \in Nodes /\ pc' = "balance_insert" /\ goal' = goal
              /\ UNCHANGED <<key, left, right>> /\ UpdateHeight(cur)
          BY <1>0, <2>7, <3>3 DEF BalanceInsert, Goto, TypeInv
        <4>2. ASSUME NEW x \in Nodes, key[x] \in probed
              PROVE  height'[x] = 0
          <5>1. x # cur => height'[x] = height[x]
            BY <1>0, <4>1 DEF UpdateHeight, TypeInv
          <5>2. x = cur => height'[x] = 0
            BY <1>0, <3>1, <4>1, <4>2 DEF UpdateHeight, TypeInv, Leaf, Height, Maximum
          <5> QED
            BY <3>1, <4>2, <5>1, <5>2
        <4> QED
          BY <1>0, <3>1, <4>1, <4>2 DEF ProbedInv, Placed, Leaf
      <3>4. CASE cur # Null /\ BalanceFactor(cur) \notin {-1, 0, 1}
        <4>1. Rotate /\ UNCHANGED <<index, walk>> /\ cur \in Live
          BY <2>2, <2>7, <3>1, <3>4 DEF BalanceInsert, ClimbInv
        <4> QED
          BY <1>0, <2>2, <3>1, <4>1, ProbedRotate
      <3> QED
        BY <3>2, <3>3, <3>4
    <2>8. CASE SecondRotation
      <3>1. cur \in Live /\ lost' = lost
        BY <2>2, <2>8 DEF SecondRotation, ClimbInv, index
      <3> QED
        BY <1>0, <2>2, <2>8, <3>1, ProbedSecond
    <2>9. ASSUME NEW k \in Keys, Keep(k) \/ Drop(k)
          PROVE  ~lost' /\ ProbedInv'
      <3>1. /\ UNCHANGED <<key, left, right, lost>> /\ probed' \subseteq probed /\ pc = "idle"
            /\ \/ pc' = "idle"
               \/ pc' = "search" /\ goal' = "delete"
        BY <2>9 DEF Keep, Drop, tree, call, index
      <3> QED
        BY <3>1, SameProbed
    <2>10. CASE Delete
      <3>1. pc = "search" /\ goal = "delete" /\ arg \in probed
        BY <2>2, <2>10 DEF Delete, SearchInv
      <3>2. CASE cur # Null /\ (left[cur] = Null \/ right[cur] = Null)
        <4>1. Cut(cur, key, height) /\ cur \in Nodes /\ key[cur] = arg
          BY <1>0, <2>10, <3>2 DEF Delete, TypeInv
        <4>2. left[cur] = Null /\ right[cur] = Null
          BY <1>0, <3>1, <3>2, <4>1 DEF Placed
        <4>3. ~lost' /\ pc' = "balance_delete" /\ probed' = probed \ {arg}
          BY <4>1, <4>2 DEF Cut, Goto
        <4> QED
          BY <1>0, <3>1, <4>3, NoneProbed
      <3>3. CASE ~(cur # Null /\ (left[cur] = Null \/ right[cur] = Null))
        <4>1. /\ UNCHANGED <<key, left, right, probed, lost>> /\ pc' \in {"pred", "crashed"}
          BY <2>10, <3>3 DEF Delete, Die, tree
        <4> QED
          BY <3>1, <4>1, SameProbed
      <3> QED
        BY <3>2, <3>3
    <2>11. CASE PredStep
      <3>1. /\ UNCHANGED <<key, left, right, probed, lost>> /\ pc = "pred" /\ pc' = "pred"
        BY <2>11 DEF PredStep, Goto, tree, index
      <3> QED
        BY <3>1, SameProbed
    <2>12. CASE SwapAndCut
      <3>1. /\ arg \in probed /\ target \in Live /\ cur \in Below(b, left[target])
        BY <2>2, <2>12 DEF SwapAndCut, PredInv
      <3>2. cur # root
        BY <1>0, <2>2, <3>1, TreeFacts
      <3>3. ~lost' /\ pc' = "balance_delete" /\ probed' = probed \ {arg}
        BY <2>12, <3>2 DEF SwapAndCut, Cut, Goto
      <3> QED
        BY <1>0, <3>1, <3>3, NoneProbed
    <2>13. CASE BalanceDelete
      <3>1. pc = "balance_delete" /\ probed = {} /\ probed' = {} /\ lost' = lost
        BY <2>13 DEF BalanceDelete, ProbedInv, index
      <3>2. pc' \notin {"insert", "balance_insert"}
        <4>1. cur \in Nodes /\ Rotate => pc' \in {"idle", "balance_delete", "rotate_right", "rotate_left", "crashed"}
          BY <1>0, RotateTurns DEF Turned, AfterRotation, Goto, Return, Die
        <4> QED
          BY <1>0, <2>13, <4>1 DEF BalanceDelete, Goto, Return, TypeInv
      <3> QED
        BY <3>1, <3>2, NoneProbed
    <2>14. CASE Close \/ DestroyStep \/ Closed
      <3>1. /\ UNCHANGED <<key, left, right, probed, lost>> /\ pc \in {"idle", "destroy"}
            /\ pc' \in {"destroy", "closed"}
        BY <2>14 DEF Close, DestroyStep, Closed, tree, index, call
      <3> QED
        BY <3>1, SameProbed
    <2> QED
      BY <1>3, <2>3, <2>4, <2>5, <2>6, <2>7, <2>8, <2>9, <2>10, <2>11, <2>12, <2>13, <2>14 DEF Next
  <1> QED
    BY <1>1, <1>2, <1>3

(* As long as one key at a time is without a value, no deletion empties    *)
(* the index: a root that avl_tree_cut takes has no sons                   *)
(* (avl_tree_cut_one_son_node).                                            *)
THEOREM OneProbedNeverLost ==
    ASSUME MaxProbed <= 1
    PROVE  Spec => []~lost
  <1> DEFINE I == IInv /\ ~lost /\ ProbedInv
  <1>1. Init => I
    <2> SUFFICES ASSUME Init
                 PROVE  ~lost /\ ProbedInv
      BY InitIInv
    <2> QED
      BY DEF Init, ProbedInv
  <1>2. I /\ [Next]_vars => I'
    BY StepIInv, StepProbed
  <1>3. I => ~lost
    OBVIOUS
  <1> QED
    BY <1>1, <1>2, <1>3, PTL DEF Spec

=============================================================================
