---------------------------- MODULE StorageProofs ----------------------------
(***************************************************************************)
(* What the registries of devices and volumes keep and what the disk       *)
(* driver and the file system read and write, for every computer the       *)
(* kernel may boot on.                                                     *)
(***************************************************************************)
EXTENDS Ext2, FiniteSetTheorems, WellFoundedInduction, SequenceTheorems, TLAPS

\* A sequence with another element at its end.
LEMMA AppendFacts ==
  ASSUME NEW S, NEW s \in Seq(S), NEW e
  PROVE  /\ Append(s, e) \in Seq(S \cup {e})
         /\ Len(Append(s, e)) = Len(s) + 1 /\ Len(s) \in Nat
         /\ \A i \in 1 .. Len(s) : Append(s, e)[i] = s[i]
         /\ Append(s, e)[Len(s) + 1] = e
<1>1. s \in Seq(S \cup {e})
  OBVIOUS
<1>2. QED
  BY <1>1

\* Two sequences one after the other.
LEMMA ConcatFacts ==
  ASSUME NEW S, NEW s \in Seq(S), NEW t \in Seq(S)
  PROVE  /\ s \o t \in Seq(S)
         /\ Len(s) \in Nat /\ Len(t) \in Nat /\ Len(s \o t) = Len(s) + Len(t)
         /\ \A i \in 1 .. Len(s) : (s \o t)[i] = s[i]
         /\ \A i \in 1 .. Len(t) : (s \o t)[Len(s) + i] = t[i]
OBVIOUS

-----------------------------------------------------------------------------
(* Induction and recursion from the last node of a tree to the first.      *)

\* Every set of natural numbers but the empty one has a least element.
LEMMA LeastNatural ==
  ASSUME NEW T \in SUBSET Nat, T # {}
  PROVE  \E m \in T : \A k \in T : m <= k
<1> DEFINE R == OpToRel(<, Nat)
<1>1. IsWellFoundedOn(R, Nat)
  BY NatLessThanWellFounded
<1>2. \A i, j \in Nat : <<i, j>> \in R <=> i < j
  BY DEF OpToRel
<1> HIDE DEF R
<1>3. PICK x \in T : \A y \in T : ~(<<y, x>> \in R)
  BY <1>1, WFMin
<1>4. ASSUME NEW k \in T PROVE x <= k
  <2>1. ~(k < x)
    BY <1>2, <1>3
  <2>2. QED
    BY <2>1
<1>5. QED
  BY <1>4

\* What holds for a node whenever it holds for the nodes behind it holds for all.
LEMMA Backwards ==
  ASSUME NEW n \in Nat, NEW T, \A k \in 1 .. n : (\A j \in k + 1 .. n : j \in T) => k \in T
  PROVE  1 .. n \subseteq T
<1> DEFINE U == {m \in Nat : m < n /\ n - m \notin T}
<1>1. SUFFICES ASSUME NEW i \in 1 .. n, i \notin T PROVE FALSE
  OBVIOUS
<1>2. n - i \in U
  BY <1>1
<1>3. PICK m \in U : \A k \in U : m <= k
  <2>1. U \in SUBSET Nat /\ U # {}
    BY <1>2
  <2> HIDE DEF U
  <2>2. QED
    BY <2>1, LeastNatural
<1>4. n - m \in 1 .. n /\ n - m \notin T
  BY <1>3
<1>5. \A j \in n - m + 1 .. n : j \in T
  <2>1. TAKE j \in n - m + 1 .. n
  <2>2. n - j \in Nat /\ n - j < m /\ n - j < n /\ n - (n - j) = j
    BY <1>3
  <2>3. n - j \notin U
    BY <1>3, <2>2
  <2>4. QED
    BY <2>2, <2>3
<1>6. QED
  BY <1>4, <1>5

\* g[k] only looks at what a function says of 0 and of the nodes behind k.
LooksBehind(g, X, n) ==
  \A k \in 1 .. n : \A v, w \in [0 .. n -> X] :
    v[0] = w[0] /\ (\A j \in k + 1 .. n : v[j] = w[j]) => g[k][v] = g[k][w]

\* w is d for 0 and what g makes of w for the nodes.
Recurses(w, X, d, g, n) ==
  w \in [0 .. n -> X] /\ w[0] = d /\ \A k \in 1 .. n : w[k] = g[k][w]

\* A function that is defined that way exists.
LEMMA RecursionExists ==
  ASSUME NEW n \in Nat, NEW X, NEW d \in X, NEW g \in [1 .. n -> [[0 .. n -> X] -> X]],
         LooksBehind(g, X, n)
  PROVE  \E w : Recurses(w, X, d, g, n)
<1> DEFINE Has(i) == \E w \in [0 .. n -> X] : w[0] = d /\ \A k \in i .. n : w[k] = g[k][w]
           T == {i \in 1 .. n : Has(i)}
<1>1. ASSUME NEW i \in 1 .. n + 1, Has(i), i > 1 PROVE Has(i - 1)
  <2>1. PICK w \in [0 .. n -> X] : w[0] = d /\ \A k \in i .. n : w[k] = g[k][w]
    BY <1>1
  <2> DEFINE v == [w EXCEPT ![i - 1] = g[i - 1][w]]
  <2>2. i - 1 \in 1 .. n /\ g[i - 1][w] \in X
    BY <1>1
  <2>3. v \in [0 .. n -> X] /\ v[0] = d /\ v[i - 1] = g[i - 1][w] /\ \A k \in i .. n : v[k] = w[k]
    BY <2>1, <2>2
  <2> HIDE DEF v
  <2>4. ASSUME NEW k \in i - 1 .. n PROVE v[k] = g[k][v]
    <3>1. k \in 1 .. n /\ v[0] = w[0] /\ \A j \in k + 1 .. n : v[j] = w[j]
      BY <2>1, <2>2, <2>3
    <3>2. g[k][v] = g[k][w]
      BY <2>3, <3>1 DEF LooksBehind
    <3>3. CASE k = i - 1
      BY <2>3, <3>2, <3>3
    <3>4. CASE k \in i .. n
      BY <2>1, <2>3, <3>2, <3>4
    <3>5. QED
      BY <3>3, <3>4
  <2>5. QED
    BY <2>3, <2>4
<1>2. Has(n + 1)
  <2>1. [k \in 0 .. n |-> d] \in [0 .. n -> X] /\ [k \in 0 .. n |-> d][0] = d
    OBVIOUS
  <2>2. n + 1 .. n = {}
    OBVIOUS
  <2>3. QED
    BY <2>1, <2>2
<1> HIDE DEF Has
<1>3. ASSUME NEW k \in 1 .. n, \A j \in k + 1 .. n : j \in T PROVE k \in T
  <2>1. CASE k = n
    <3>1. Has(n + 1 - 1)
      BY <1>1, <1>2, <2>1
    <3>2. QED
      BY <2>1, <3>1
  <2>2. CASE k < n
    <3>1. k + 1 \in 1 .. n + 1 /\ Has(k + 1) /\ k + 1 > 1
      BY <1>3, <2>2
    <3>2. Has(k + 1 - 1)
      BY <1>1, <3>1
    <3>3. QED
      BY <3>2
  <2>3. QED
    BY <2>1, <2>2
<1>4. 1 .. n \subseteq T
  BY <1>3, Backwards
<1>5. Has(1)
  <2>1. CASE n = 0
    BY <1>2, <2>1
  <2>2. CASE n > 0
    BY <1>4, <2>2
  <2>3. QED
    BY <2>1, <2>2
<1>6. QED
  BY <1>5 DEF Has, Recurses

-----------------------------------------------------------------------------
(* The tree of devices.                                                    *)

\* A tree is a sequence of nodes.
Shaped(t) ==
  /\ \E S : t \in Seq(S)
  /\ \A i \in 1 .. Len(t) : {"parent", "children", "next"} \subseteq DOMAIN t[i]

\* The links of a node lead to nodes that were created later.
Forward(t) ==
  \A i \in 1 .. Len(t) :
    /\ t[i].children = 0 \/ t[i].children \in i + 1 .. Len(t)
    /\ t[i].next = 0 \/ t[i].next \in i + 1 .. Len(t)

\* Children have their node as parent, siblings have one parent, and every node but
\* the root has one.
Families(t) ==
  /\ \A i \in 1 .. Len(t) :
       /\ t[i].children # 0 => t[t[i].children].parent = i
       /\ t[i].next # 0 => t[t[i].next].parent = t[i].parent
  /\ \A i \in 2 .. Len(t) : t[i].parent \in 1 .. Len(t)
  /\ Len(t) > 0 /\ t[1].next = 0 /\ t[1].parent = 0

\* Every node but the root is the first child or the next sibling of a node,
Reached(t) ==
  \A m \in 2 .. Len(t) : \E i \in 1 .. Len(t) : t[i].children = m \/ t[i].next = m

\* and of one node only.
Once(t) ==
  \A i, j \in 1 .. Len(t) :
    /\ t[i].children # 0 /\ t[i].children = t[j].children => i = j
    /\ t[i].next # 0 /\ t[i].next = t[j].next => i = j
    /\ t[i].children # 0 => t[i].children # t[j].next

\* The tree that generic_tree_insert builds.
IsTree(t) == Shaped(t) /\ Forward(t) /\ Families(t) /\ Reached(t) /\ Once(t)

\* The next sibling of a node with the parent p has that parent as well.
Siblings(t, p) ==
  \A i \in 1 .. Len(t) : t[i].next # 0 /\ t[i].parent = p => t[t[i].next].parent = p

\* The search for the last sibling ends: at a node without a next one and with the
\* same parent.
LEMMA LastSiblingFacts ==
  ASSUME NEW t, Len(t) \in Nat, DOMAIN t = 1 .. Len(t), Forward(t), NEW p, Siblings(t, p),
         NEW c \in 1 .. Len(t), t[c].parent = p
  PROVE  /\ LastSibling(t, c) \in c .. Len(t)
         /\ t[LastSibling(t, c)].next = 0 /\ t[LastSibling(t, c)].parent = p
<1> DEFINE n == Len(t)
           X == 0 .. n
           g == [k \in 1 .. n |-> [w \in [0 .. n -> X] |-> IF t[k].next = 0 THEN k ELSE w[t[k].next]]]
           Is(f) == f = [k \in DOMAIN t |-> IF t[k].next = NULL THEN k ELSE f[t[k].next]]
           last == CHOOSE f : Is(f)
<1>1. \A k \in 1 .. n : t[k].next = 0 \/ t[k].next \in k + 1 .. n
  BY DEF Forward
<1>2. n \in Nat /\ g \in [1 .. n -> [[0 .. n -> X] -> X]] /\ LooksBehind(g, X, n) /\ 0 \in X
  <2>1. ASSUME NEW k \in 1 .. n, NEW w \in [0 .. n -> X]
        PROVE  (IF t[k].next = 0 THEN k ELSE w[t[k].next]) \in X
    BY <1>1
  <2>2. g \in [1 .. n -> [[0 .. n -> X] -> X]]
    BY <2>1
  <2>3. LooksBehind(g, X, n)
    BY <1>1 DEF LooksBehind
  <2>4. 0 \in X /\ n \in Nat
    OBVIOUS
  <2> HIDE DEF n, g, X
  <2>5. QED
    BY <2>2, <2>3, <2>4
<1>3. PICK w : Recurses(w, X, 0, g, n)
  <2> HIDE DEF n, g, X
  <2>1. QED
    BY <1>2, RecursionExists
<1>4. \E f : Is(f)
  <2> DEFINE f == [k \in 1 .. n |-> w[k]]
  <2>1. \A k \in 1 .. n : f[k] = IF t[k].next = NULL THEN k ELSE f[t[k].next]
    BY <1>1, <1>3 DEF Recurses, NULL
  <2>2. Is(f)
    BY <2>1
  <2> HIDE DEF f, Is
  <2>3. QED
    BY <2>2
<1>5. Is(last)
  <2> HIDE DEF Is
  <2>1. QED
    BY <1>4
<1>6. LastSibling(t, c) = last[c]
  BY DEF LastSibling
<1> HIDE DEF last
<1>7. \A k \in 1 .. n : last[k] = IF t[k].next = 0 THEN k ELSE last[t[k].next]
  BY <1>5 DEF NULL
<1> DEFINE T == {k \in 1 .. n : t[k].parent = p =>
                    last[k] \in k .. n /\ t[last[k]].next = 0 /\ t[last[k]].parent = p}
<1>8. ASSUME NEW k \in 1 .. n, \A j \in k + 1 .. n : j \in T PROVE k \in T
  BY <1>1, <1>7, <1>8 DEF Siblings
<1> HIDE DEF T
<1>9. 1 .. n \subseteq T
  BY <1>8, Backwards
<1>10. QED
  BY <1>6, <1>9 DEF T

\* A sequence with one element replaced.
Replaced(x, s, i, e) == x = [s EXCEPT ![i] = e]
OfLength(x, S, n) == x \in Seq(S) /\ Len(x) = n

\* It is a sequence.
LEMMA ExceptFacts ==
  ASSUME NEW S, NEW n, NEW s, OfLength(s, S, n), NEW i, NEW e, NEW x, Replaced(x, s, i, e)
  PROVE  OfLength(x, S \cup {e}, n)
<1>1. s \in [1 .. n -> S \cup {e}] /\ n \in Nat
  BY DEF OfLength
<1>2. x \in [1 .. n -> S \cup {e}]
  BY <1>1 DEF Replaced
<1>3. QED
  BY <1>1, <1>2 DEF OfLength

\* The node that generic_tree_create_node makes has no links yet.
LEMMA CreateNodeFacts ==
  ASSUME NEW t, IsTree(t), NEW device, NEW v, v = CreateNode(t, device)
  PROVE  /\ Len(t) \in Nat /\ DOMAIN t = 1 .. Len(t) /\ Len(v) = Len(t) + 1
         /\ \E S : v \in Seq(S)
         /\ \A i \in 1 .. Len(t) : v[i] = t[i]
         /\ v[Len(t) + 1].children = 0 /\ v[Len(t) + 1].next = 0 /\ v[Len(t) + 1].parent = 0
         /\ \A i \in 1 .. Len(t) + 1 : {"parent", "children", "next"} \subseteq DOMAIN v[i]
<1> DEFINE e == [parent |-> NULL, children |-> NULL, next |-> NULL,
                 name |-> device.name, type |-> device.type, bus |-> device.bus,
                 data |-> device.data]
<1>1. v = Append(t, e)
  BY DEF CreateNode
<1>2. PICK S : t \in Seq(S)
  BY DEF IsTree, Shaped
<1>3. e.children = 0 /\ e.next = 0 /\ e.parent = 0 /\ {"parent", "children", "next"} \subseteq DOMAIN e
  BY DEF NULL
<1> HIDE DEF e
<1>4. /\ v \in Seq(S \cup {e})
      /\ Len(v) = Len(t) + 1 /\ Len(t) \in Nat
      /\ \A i \in 1 .. Len(t) : v[i] = t[i]
      /\ v[Len(t) + 1] = e
  BY <1>1, <1>2, AppendFacts
<1>5. DOMAIN t = 1 .. Len(t)
  BY <1>2
<1>6. \A i \in 1 .. Len(t) + 1 : i = Len(t) + 1 \/ i \in 1 .. Len(t)
  BY <1>4
<1>7. QED
  BY <1>3, <1>4, <1>5, <1>6 DEF IsTree, Shaped

\* What an insertion changes: the new node gets its parent, and either it becomes
\* the parent's first child,
FirstChild(t, u, p) ==
  /\ t[p].children = 0
  /\ \A i \in 1 .. Len(t) : /\ u[i].children = IF i = p THEN Len(t) + 1 ELSE t[i].children
                            /\ u[i].next = t[i].next

\* or it comes behind the last one.
LastChild(t, u, p) ==
  \E l \in 1 .. Len(t) :
    /\ t[l].next = 0 /\ t[l].parent = p
    /\ \A i \in 1 .. Len(t) : /\ u[i].children = t[i].children
                              /\ u[i].next = IF i = l THEN Len(t) + 1 ELSE t[i].next

\* generic_tree_insert sets one of these links and nothing else but the parent.
LEMMA InsertLinks ==
  ASSUME NEW t, IsTree(t), NEW p \in 1 .. Len(t), NEW device,
         NEW u, u = Insert(CreateNode(t, device), p, Len(t) + 1)
  PROVE  /\ Shaped(u) /\ Len(u) = Len(t) + 1 /\ Len(t) \in Nat
         /\ u[Len(t) + 1].children = 0 /\ u[Len(t) + 1].next = 0 /\ u[Len(t) + 1].parent = p
         /\ \A i \in 1 .. Len(t) : u[i].parent = t[i].parent
         /\ FirstChild(t, u, p) \/ LastChild(t, u, p)
<1> DEFINE n == Len(t)
<1>1. PICK v : v = CreateNode(t, device)
  OBVIOUS
<1>2. /\ n \in Nat /\ Len(v) = n + 1
      /\ \E S : v \in Seq(S)
      /\ \A i \in 1 .. n : v[i] = t[i]
      /\ v[n + 1].children = 0 /\ v[n + 1].next = 0 /\ v[n + 1].parent = 0
      /\ \A i \in 1 .. n + 1 : {"parent", "children", "next"} \subseteq DOMAIN v[i]
  BY <1>1, CreateNodeFacts
<1>3. DOMAIN v = 1 .. n + 1
  BY <1>2
<1> HIDE DEF n
<1>4. p \in 1 .. n /\ v[p] = t[p]
  BY <1>2 DEF n
<1>5. CASE v[p].children = NULL
  <2> DEFINE e == [v[p] EXCEPT !.children = n + 1]
             x == [v EXCEPT ![p] = e]
             f == [x[n + 1] EXCEPT !.parent = p]
  <2>1. u = [x EXCEPT ![n + 1] = f]
    BY <1>1, <1>5 DEF Insert, n
  <2>2. PICK S : v \in Seq(S)
    BY <1>2
  <2>3. p # n + 1 /\ n + 1 \in 1 .. n + 1 /\ p \in 1 .. n + 1
    BY <1>2, <1>4
  <2>4. /\ e.children = n + 1 /\ e.next = v[p].next /\ e.parent = v[p].parent
        /\ {"parent", "children", "next"} \subseteq DOMAIN e
    BY <1>2, <2>3
  <2>5. x[n + 1] = v[n + 1] /\ x[p] = e /\ \A i \in 1 .. n : i # p => x[i] = v[i]
    BY <1>2, <1>3, <2>3
  <2>6. /\ f.children = 0 /\ f.next = 0 /\ f.parent = p
        /\ {"parent", "children", "next"} \subseteq DOMAIN f
    BY <1>2, <2>3, <2>5
  <2>7. OfLength(x, S \cup {e}, n + 1)
    <3>1. Replaced(x, v, p, e)
      BY DEF Replaced
    <3>2. OfLength(v, S, n + 1)
      BY <1>2, <2>2 DEF OfLength
    <3> HIDE DEF e, x
    <3>3. QED
      BY ONLY <3>1, <3>2, ExceptFacts
  <2>8. DOMAIN x = 1 .. n + 1
    BY <1>3
  <2> HIDE DEF e, x, f
  <2>9. OfLength(u, (S \cup {e}) \cup {f}, n + 1)
    <3>1. Replaced(u, x, n + 1, f)
      BY <2>1 DEF Replaced
    <3>2. QED
      BY ONLY <3>1, <2>7, ExceptFacts
  <2>10. u[n + 1] = f /\ u[p] = e /\ \A i \in 1 .. n : i # p => u[i] = t[i]
    BY <1>2, <2>1, <2>3, <2>5, <2>8
  <2>11. Shaped(u)
    <3>1. \A i \in 1 .. n + 1 : i = n + 1 \/ i = p \/ (i \in 1 .. n /\ i # p)
      BY <1>2
    <3>2. \A i \in 1 .. n + 1 : {"parent", "children", "next"} \subseteq DOMAIN u[i]
      BY <1>2, <2>4, <2>6, <2>10, <3>1
    <3>3. QED
      BY <2>9, <3>2 DEF Shaped, OfLength
  <2>12. FirstChild(t, u, p)
    BY <1>4, <1>5, <2>4, <2>10 DEF FirstChild, NULL, n
  <2>13. \A i \in 1 .. n : u[i].parent = t[i].parent
    BY <1>4, <2>4, <2>10
  <2>14. QED
    BY <1>2, <2>6, <2>9, <2>10, <2>11, <2>12, <2>13 DEF n, OfLength
<1>6. CASE v[p].children # NULL
  <2> DEFINE c == v[p].children
             l == LastSibling(v, c)
             e == [v[l] EXCEPT !.next = n + 1]
             x == [v EXCEPT ![l] = e]
             f == [x[n + 1] EXCEPT !.parent = p]
  <2>1. u = [x EXCEPT ![n + 1] = f]
    BY <1>1, <1>6 DEF Insert, n
  <2>2. PICK S : v \in Seq(S)
    BY <1>2
  <2>3. l \in c .. n + 1 /\ v[l].next = 0 /\ v[l].parent = p /\ c \in 1 .. n
    <3>1. c \in 1 .. n /\ t[c].parent = p
      BY <1>4, <1>6, <1>2 DEF NULL, n, IsTree, Forward, Families
    <3>2. \A i \in 1 .. n : /\ t[i].children = 0 \/ t[i].children \in i + 1 .. n
                            /\ t[i].next = 0 \/ t[i].next \in i + 1 .. n
                            /\ t[i].next # 0 => t[t[i].next].parent = t[i].parent
      BY DEF n, IsTree, Forward, Families
    <3>3. \A i \in 1 .. n + 1 : i = n + 1 \/ i \in 1 .. n
      BY <1>2
    <3>4. \A i \in 1 .. n : \A j \in i + 1 .. n : j \in 1 .. n /\ j \in i + 1 .. n + 1
      BY <1>2
    <3>5. Forward(v)
      BY <1>2, <3>2, <3>3, <3>4 DEF Forward
    <3>6. Siblings(v, p)
      BY <1>2, <3>2, <3>3, <3>4 DEF Siblings
    <3>7. c \in 1 .. Len(v) /\ v[c].parent = p
      BY <1>2, <3>1
    <3>8. l = LastSibling(v, c) /\ Len(v) \in Nat /\ DOMAIN v = 1 .. Len(v) /\ Len(v) = n + 1
      BY <1>2, <1>3
    <3> HIDE DEF c, l
    <3>9. l \in c .. Len(v) /\ v[l].next = 0 /\ v[l].parent = p
      BY ONLY <3>5, <3>6, <3>7, <3>8, LastSiblingFacts
    <3>10. QED
      BY <3>1, <3>8, <3>9
  <2> HIDE DEF c, l
  <2>4. l \in 1 .. n /\ v[l] = t[l] /\ l # n + 1 /\ n + 1 \in 1 .. n + 1 /\ l \in 1 .. n + 1
    <3>1. l # n + 1
      BY <1>2, <1>4, <2>3
    <3>2. QED
      BY <1>2, <2>3, <3>1
  <2>5. /\ e.next = n + 1 /\ e.children = v[l].children /\ e.parent = v[l].parent
        /\ {"parent", "children", "next"} \subseteq DOMAIN e
    BY <1>2, <2>4
  <2>6. x[n + 1] = v[n + 1] /\ x[l] = e /\ \A i \in 1 .. n : i # l => x[i] = v[i]
    BY <1>2, <1>3, <2>4
  <2>7. /\ f.children = 0 /\ f.next = 0 /\ f.parent = p
        /\ {"parent", "children", "next"} \subseteq DOMAIN f
    BY <1>2, <2>4, <2>6
  <2>8. OfLength(x, S \cup {e}, n + 1)
    <3>1. Replaced(x, v, l, e)
      BY DEF Replaced
    <3>2. OfLength(v, S, n + 1)
      BY <1>2, <2>2 DEF OfLength
    <3> HIDE DEF e, x
    <3>3. QED
      BY ONLY <3>1, <3>2, ExceptFacts
  <2>9. DOMAIN x = 1 .. n + 1
    BY <1>3
  <2> HIDE DEF e, x, f
  <2>10. OfLength(u, (S \cup {e}) \cup {f}, n + 1)
    <3>1. Replaced(u, x, n + 1, f)
      BY <2>1 DEF Replaced
    <3>2. QED
      BY ONLY <3>1, <2>8, ExceptFacts
  <2>11. u[n + 1] = f /\ u[l] = e /\ \A i \in 1 .. n : i # l => u[i] = t[i]
    BY <1>2, <2>1, <2>4, <2>6, <2>9
  <2>12. Shaped(u)
    <3>1. \A i \in 1 .. n + 1 : i = n + 1 \/ i = l \/ (i \in 1 .. n /\ i # l)
      BY <1>2
    <3>2. \A i \in 1 .. n + 1 : {"parent", "children", "next"} \subseteq DOMAIN u[i]
      BY <1>2, <2>5, <2>7, <2>11, <3>1
    <3>3. QED
      BY <2>10, <3>2 DEF Shaped, OfLength
  <2>13. LastChild(t, u, p)
    BY <2>3, <2>4, <2>5, <2>11 DEF LastChild, n
  <2>14. \A i \in 1 .. n : u[i].parent = t[i].parent
    BY <2>4, <2>5, <2>11
  <2>15. QED
    BY <1>2, <2>7, <2>10, <2>11, <2>12, <2>13, <2>14 DEF n, OfLength
<1>7. QED
  BY <1>5, <1>6

\* generic_tree_insert keeps a tree: the new node is reached, from one node only.
LEMMA InsertKeepsTree ==
  ASSUME NEW t, IsTree(t), NEW p \in 1 .. Len(t), NEW device
  PROVE  IsTree(Insert(CreateNode(t, device), p, Len(t) + 1))
<1>1. PICK u : u = Insert(CreateNode(t, device), p, Len(t) + 1)
  OBVIOUS
<1> DEFINE n == Len(t)
<1>2. /\ Shaped(u) /\ Len(u) = n + 1 /\ n \in Nat
      /\ u[n + 1].children = 0 /\ u[n + 1].next = 0 /\ u[n + 1].parent = p
      /\ \A i \in 1 .. n : u[i].parent = t[i].parent
      /\ FirstChild(t, u, p) \/ LastChild(t, u, p)
  BY <1>1, InsertLinks
<1>3. /\ \A i \in 1 .. n :
           /\ t[i].children = 0 \/ t[i].children \in i + 1 .. n
           /\ t[i].next = 0 \/ t[i].next \in i + 1 .. n
      /\ p \in 1 .. n
  BY DEF IsTree, Forward
<1>4. /\ \A i \in 1 .. n :
           /\ t[i].children # 0 => t[t[i].children].parent = i
           /\ t[i].next # 0 => t[t[i].next].parent = t[i].parent
      /\ \A i \in 2 .. n : t[i].parent \in 1 .. n
      /\ n > 0 /\ t[1].next = 0 /\ t[1].parent = 0
  BY DEF IsTree, Families
<1>5. \A m \in 2 .. n : \E i \in 1 .. n : t[i].children = m \/ t[i].next = m
  BY DEF IsTree, Reached
<1>6. \A i, j \in 1 .. n :
        /\ t[i].children # 0 /\ t[i].children = t[j].children => i = j
        /\ t[i].next # 0 /\ t[i].next = t[j].next => i = j
        /\ t[i].children # 0 => t[i].children # t[j].next
  BY DEF IsTree, Once
\* Up to n the links are the old ones, but for that of one node to n + 1.
<1>7. /\ \A i \in 1 .. n :
           /\ u[i].children = t[i].children \/ (t[i].children = 0 /\ u[i].children = n + 1 /\ i = p)
           /\ u[i].next = t[i].next \/ (t[i].next = 0 /\ u[i].next = n + 1 /\ t[i].parent = p)
      /\ \E i \in 1 .. n : u[i].children = n + 1 \/ u[i].next = n + 1
      /\ \A i, j \in 1 .. n :
           /\ u[i].children = n + 1 /\ u[j].children = n + 1 => i = j
           /\ u[i].next = n + 1 /\ u[j].next = n + 1 => i = j
           /\ u[i].children = n + 1 => u[j].next # n + 1
  <2>1. \A i \in 1 .. n : t[i].children # n + 1 /\ t[i].next # n + 1
    BY <1>2, <1>3
  <2>2. CASE FirstChild(t, u, p)
    BY <1>2, <1>3, <2>1, <2>2 DEF FirstChild
  <2>3. CASE LastChild(t, u, p)
    <3>1. PICK l \in 1 .. n :
            /\ t[l].next = 0 /\ t[l].parent = p
            /\ \A i \in 1 .. n : /\ u[i].children = t[i].children
                                 /\ u[i].next = IF i = l THEN n + 1 ELSE t[i].next
      BY <2>3 DEF LastChild
    <3>2. QED
      BY <1>2, <2>1, <3>1
  <2>4. QED
    BY <1>2, <2>2, <2>3
<1> HIDE DEF n
<1>8. \A i \in 1 .. n + 1 : i = n + 1 \/ i \in 1 .. n
  BY <1>2
<1>9. Forward(u)
  <2>1. \A i \in 1 .. n :
          /\ u[i].children = 0 \/ u[i].children \in i + 1 .. n + 1
          /\ u[i].next = 0 \/ u[i].next \in i + 1 .. n + 1
    <3>1. TAKE i \in 1 .. n
    <3>2. \A j \in i + 1 .. n : j \in i + 1 .. n + 1
      BY <1>2
    <3>3. n + 1 \in i + 1 .. n + 1
      BY <1>2
    <3>4. QED
      BY <1>3, <1>7, <3>2, <3>3
  <2>2. QED
    BY <1>2, <1>8, <2>1 DEF Forward
<1>10. Families(u)
  <2>1. \A i \in 1 .. n :
          /\ u[i].children # 0 => u[u[i].children].parent = i
          /\ u[i].next # 0 => u[u[i].next].parent = u[i].parent
    <3>1. TAKE i \in 1 .. n
    <3>2. t[i].children # 0 => t[i].children \in 1 .. n
      BY <1>2, <1>3
    <3>3. t[i].next # 0 => t[i].next \in 1 .. n
      BY <1>2, <1>3
    <3>4. /\ t[i].children # 0 => t[t[i].children].parent = i
          /\ t[i].next # 0 => t[t[i].next].parent = t[i].parent
      BY <1>4
    <3>5. /\ u[i].children = t[i].children \/ (u[i].children = n + 1 /\ i = p)
          /\ u[i].next = t[i].next \/ (u[i].next = n + 1 /\ t[i].parent = p)
          /\ u[n + 1].parent = p /\ \A j \in 1 .. n : u[j].parent = t[j].parent
      BY <1>2, <1>7
    <3>6. QED
      BY ONLY <3>2, <3>3, <3>4, <3>5, i \in 1 .. n
  <2>2. \A i \in 2 .. n + 1 : u[i].parent \in 1 .. n + 1
    <3>1. \A i \in 2 .. n + 1 : i = n + 1 \/ (i \in 2 .. n /\ i \in 1 .. n)
      BY <1>2
    <3>2. \A i \in 1 .. n : i \in 1 .. n + 1
      BY <1>2
    <3>3. QED
      BY <1>2, <1>3, <1>4, <3>1, <3>2
  <2>3. u[1].next = 0 /\ u[1].parent = 0
    <3>1. 1 \in 1 .. n
      BY <1>2, <1>4
    <3>2. p # 0
      BY <1>2, <1>3
    <3>3. QED
      BY <1>2, <1>7, <1>4, <3>1, <3>2
  <2>4. QED
    BY <1>2, <1>8, <2>1, <2>2, <2>3 DEF Families
<1>11. Reached(u)
  <2>1. ASSUME NEW m \in 2 .. n + 1 PROVE \E i \in 1 .. n : u[i].children = m \/ u[i].next = m
    <3>1. CASE m = n + 1
      BY <1>7, <3>1
    <3>2. CASE m \in 2 .. n
      <4>1. PICK i \in 1 .. n : t[i].children = m \/ t[i].next = m
        BY <1>5, <3>2
      <4>2. m # 0
        BY <3>2
      <4>3. QED
        BY <1>7, <4>1, <4>2
    <3>3. QED
      BY <1>2, <3>1, <3>2
  <2>2. \A i \in 1 .. n : i \in 1 .. n + 1
    BY <1>2
  <2>3. QED
    BY <1>2, <2>1, <2>2 DEF Reached
<1>12. Once(u)
  <2>1. \A i, j \in 1 .. n :
          /\ u[i].children # 0 /\ u[i].children = u[j].children => i = j
          /\ u[i].next # 0 /\ u[i].next = u[j].next => i = j
          /\ u[i].children # 0 => u[i].children # u[j].next
    <3>1. \A i \in 1 .. n : t[i].children # n + 1 /\ t[i].next # n + 1
      BY <1>2, <1>3
    <3>2. n + 1 # 0
      BY <1>2
    <3>3. QED
      BY <1>6, <1>7, <3>1, <3>2
  <2>2. \A i, j \in 1 .. n + 1 :
          /\ u[i].children # 0 /\ u[i].children = u[j].children => i = j
          /\ u[i].next # 0 /\ u[i].next = u[j].next => i = j
          /\ u[i].children # 0 => u[i].children # u[j].next
    BY <1>2, <1>8, <2>1
  <2>3. QED
    BY <1>2, <2>2 DEF Once
<1>13. QED
  BY <1>1, <1>2, <1>9, <1>10, <1>11, <1>12 DEF IsTree

-----------------------------------------------------------------------------
(* The walk along the tree.                                                *)

\* What generic_tree_foreach appends for a node: the node, what is below it, and its
\* next siblings with what is below them.
IsWalk(s, t) ==
  s = [k \in 0 .. Len(t) |->
         IF k = NULL THEN <<>> ELSE <<k>> \o s[t[k].children] \o s[t[k].next]]

\* The walk ends, and Foreach delivers it.
LEMMA WalkExists ==
  ASSUME NEW t, IsTree(t)
  PROVE  \E s : IsWalk(s, t) /\ Foreach(t, Root) = <<Root>> \o s[t[Root].children]
<1> DEFINE n == Len(t)
           X == Seq(1 .. n)
           g == [k \in 1 .. n |-> [w \in [0 .. n -> X] |->
                   <<k>> \o w[t[k].children] \o w[t[k].next]]]
           s == CHOOSE s : IsWalk(s, t)
<1>1. n \in Nat /\ \A k \in 1 .. n :
                     /\ t[k].children = 0 \/ t[k].children \in k + 1 .. n
                     /\ t[k].next = 0 \/ t[k].next \in k + 1 .. n
  BY DEF IsTree, Shaped, Forward
<1>2. \A k \in 1 .. n : t[k].children \in 0 .. n /\ t[k].next \in 0 .. n
  BY <1>1
<1>3. g \in [1 .. n -> [[0 .. n -> X] -> X]] /\ LooksBehind(g, X, n) /\ <<>> \in X
  <2>1. ASSUME NEW k \in 1 .. n, NEW w \in [0 .. n -> X]
        PROVE  <<k>> \o w[t[k].children] \o w[t[k].next] \in X
    <3>1. w[t[k].children] \in X /\ w[t[k].next] \in X /\ <<k>> \in X
      BY <1>2
    <3>2. QED
      BY <3>1
  <2>2. g \in [1 .. n -> [[0 .. n -> X] -> X]]
    BY <2>1
  <2>3. ASSUME NEW k \in 1 .. n, NEW v \in [0 .. n -> X], NEW w \in [0 .. n -> X],
               v[0] = w[0], \A j \in k + 1 .. n : v[j] = w[j]
        PROVE  g[k][v] = g[k][w]
    <3>1. v[t[k].children] = w[t[k].children] /\ v[t[k].next] = w[t[k].next]
      BY <1>1, <2>3
    <3>2. QED
      BY <3>1
  <2> HIDE DEF n, X, g
  <2>4. LooksBehind(g, X, n)
    BY <2>3 DEF LooksBehind
  <2>5. <<>> \in X
    BY DEF X
  <2>6. QED
    BY <2>2, <2>4, <2>5
<1>4. PICK w : Recurses(w, X, <<>>, g, n)
  <2> HIDE DEF n, X, g
  <2>1. QED
    BY <1>1, <1>3, RecursionExists
<1>5. IsWalk(w, t)
  <2>1. w \in [0 .. n -> X] /\ w[0] = <<>> /\ \A k \in 1 .. n : w[k] = g[k][w]
    BY <1>4 DEF Recurses
  <2>2. ASSUME NEW k \in 0 .. n
        PROVE  w[k] = IF k = NULL THEN <<>> ELSE <<k>> \o w[t[k].children] \o w[t[k].next]
    <3>1. CASE k = 0
      BY <2>1, <3>1 DEF NULL
    <3>2. CASE k \in 1 .. n
      <4>1. g[k][w] = <<k>> \o w[t[k].children] \o w[t[k].next]
        BY <2>1, <3>2
      <4> HIDE DEF X, g, n
      <4>2. w[k] = g[k][w]
        BY <2>1, <3>2
      <4>3. k # 0
        BY <1>1, <3>2
      <4>4. QED
        BY <4>1, <4>2, <4>3 DEF NULL
    <3>3. QED
      BY <3>1, <3>2, <1>1
  <2> HIDE DEF X, g
  <2>3. QED
    BY <2>1, <2>2 DEF IsWalk
<1>6. IsWalk(s, t)
  BY <1>5
<1>7. Foreach(t, Root) = <<Root>> \o s[t[Root].children]
  BY DEF Foreach, IsWalk
<1>8. QED
  BY <1>6, <1>7

\* The values of the walk.
LEMMA WalkParts ==
  ASSUME NEW t, IsTree(t), NEW s, IsWalk(s, t)
  PROVE  /\ Len(t) \in Nat /\ s[0] = <<>>
         /\ \A k \in 1 .. Len(t) : /\ s[k] = <<k>> \o s[t[k].children] \o s[t[k].next]
                                   /\ t[k].children \in 0 .. Len(t) /\ t[k].next \in 0 .. Len(t)
         /\ \A k \in 0 .. Len(t) : s[k] \in Seq(1 .. Len(t))
<1> DEFINE n == Len(t)
           X == Seq(1 .. n)
           T == {k \in 1 .. n : s[k] \in X}
<1>1. n \in Nat /\ \A k \in 1 .. n :
                     /\ t[k].children = 0 \/ t[k].children \in k + 1 .. n
                     /\ t[k].next = 0 \/ t[k].next \in k + 1 .. n
  BY DEF IsTree, Shaped, Forward
<1>2. \A k \in 1 .. n : t[k].children \in 0 .. n /\ t[k].next \in 0 .. n
  BY <1>1
<1>3. s[0] = <<>> /\ \A k \in 1 .. n : s[k] = <<k>> \o s[t[k].children] \o s[t[k].next]
  <2>1. s = [k \in 0 .. n |->
               IF k = NULL THEN <<>> ELSE <<k>> \o s[t[k].children] \o s[t[k].next]]
    BY DEF IsWalk
  <2>2. 0 \in 0 .. n /\ \A k \in 1 .. n : k \in 0 .. n /\ k # 0
    BY <1>1
  <2> HIDE DEF n
  <2>3. \A k \in 0 .. n :
          s[k] = IF k = NULL THEN <<>> ELSE <<k>> \o s[t[k].children] \o s[t[k].next]
    BY <2>1
  <2>4. QED
    BY <2>2, <2>3 DEF NULL
<1>4. ASSUME NEW k \in 1 .. n, \A j \in k + 1 .. n : j \in T PROVE k \in T
  <2>1. s[0] \in X /\ <<k>> \in X
    BY <1>3
  <2>2. s[t[k].children] \in X /\ s[t[k].next] \in X
    BY <1>1, <1>4, <2>1
  <2>3. <<k>> \o s[t[k].children] \o s[t[k].next] \in X
    BY <2>1, <2>2
  <2>4. QED
    BY <1>3, <2>3
<1> HIDE DEF T
<1>5. 1 .. n \subseteq T
  BY <1>1, <1>4, Backwards
<1>6. ASSUME NEW k \in 0 .. n PROVE s[k] \in X
  <2>1. CASE k = 0
    <3>1. <<>> \in X
      OBVIOUS
    <3> HIDE DEF X
    <3>2. QED
      BY <1>3, <2>1, <3>1
  <2>2. CASE k \in 1 .. n
    BY <1>5, <2>2 DEF T
  <2>3. QED
    BY <1>1, <2>1, <2>2
<1>7. QED
  BY <1>1, <1>2, <1>3, <1>6

\* The elements of two sequences one after the other.
LEMMA ConcatSets ==
  ASSUME NEW S, NEW q \in Seq(S), NEW r \in Seq(S)
  PROVE  ToSet(q \o r) = ToSet(q) \cup ToSet(r)
<1>1. /\ q \o r \in Seq(S)
      /\ Len(q) \in Nat /\ Len(r) \in Nat /\ Len(q \o r) = Len(q) + Len(r)
      /\ \A i \in 1 .. Len(q) : (q \o r)[i] = q[i]
      /\ \A i \in 1 .. Len(r) : (q \o r)[Len(q) + i] = r[i]
  BY ConcatFacts
<1>2. DOMAIN (q \o r) = 1 .. Len(q) + Len(r) /\ DOMAIN q = 1 .. Len(q) /\ DOMAIN r = 1 .. Len(r)
  BY <1>1
<1>3. ASSUME NEW e \in ToSet(q \o r) PROVE e \in ToSet(q) \cup ToSet(r)
  <2>1. PICK i \in 1 .. Len(q) + Len(r) : e = (q \o r)[i]
    BY <1>2 DEF ToSet
  <2>2. CASE i \in 1 .. Len(q)
    BY <1>1, <1>2, <2>1, <2>2 DEF ToSet
  <2>3. CASE i > Len(q)
    <3>1. i - Len(q) \in 1 .. Len(r) /\ Len(q) + (i - Len(q)) = i
      BY <1>1, <2>3
    <3>2. e = r[i - Len(q)]
      BY <1>1, <2>1, <3>1
    <3>3. QED
      BY <1>2, <3>1, <3>2 DEF ToSet
  <2>4. QED
    BY <1>1, <2>2, <2>3
<1>4. ASSUME NEW e \in ToSet(q) PROVE e \in ToSet(q \o r)
  <2>1. PICK i \in 1 .. Len(q) : e = q[i]
    BY <1>2 DEF ToSet
  <2>2. i \in 1 .. Len(q) + Len(r)
    BY <1>1
  <2>3. QED
    BY <1>1, <1>2, <2>1, <2>2 DEF ToSet
<1>5. ASSUME NEW e \in ToSet(r) PROVE e \in ToSet(q \o r)
  <2>1. PICK i \in 1 .. Len(r) : e = r[i]
    BY <1>2 DEF ToSet
  <2>2. Len(q) + i \in 1 .. Len(q) + Len(r)
    BY <1>1
  <2>3. QED
    BY <1>1, <1>2, <2>1, <2>2 DEF ToSet
<1>6. QED
  BY <1>3, <1>4, <1>5

\* A node followed by what is below it and by what is beside it.
LEMMA ConcatThreeSets ==
  ASSUME NEW S, NEW k \in S, NEW a \in Seq(S), NEW b \in Seq(S)
  PROVE  ToSet(<<k>> \o a \o b) = {k} \cup ToSet(a) \cup ToSet(b)
<1>1. <<k>> \in Seq(S) /\ ToSet(<<k>>) = {k}
  BY DEF ToSet
<1>2. PICK q : q = <<k>>
  OBVIOUS
<1>3. q \in Seq(S) /\ ToSet(q) = {k}
  BY <1>1, <1>2
<1>4. PICK r : r = q \o a
  OBVIOUS
<1>5. r \in Seq(S)
  BY <1>3, <1>4, ConcatFacts
<1>6. ToSet(r) = ToSet(q) \cup ToSet(a)
  BY <1>3, <1>4, ConcatSets
<1>7. ToSet(r \o b) = ToSet(r) \cup ToSet(b)
  BY <1>5, ConcatSets
<1>8. QED
  BY <1>2, <1>3, <1>4, <1>6, <1>7

\* What a node's part of the walk visits: E[k] is closed under the links,
SetsOf(E, t) ==
  /\ E[0] = {}
  /\ \A k \in 1 .. Len(t) : /\ E[k] = {k} \cup E[t[k].children] \cup E[t[k].next]
                            /\ E[k] \subseteq k .. Len(t)

\* The walk from a node visits the node, what is below it and what is beside it.
LEMMA WalkSets ==
  ASSUME NEW t, IsTree(t), NEW s, IsWalk(s, t)
  PROVE  SetsOf([k \in 0 .. Len(t) |-> ToSet(s[k])], t)
<1> DEFINE n == Len(t)
           E == [k \in 0 .. n |-> ToSet(s[k])]
           T == {k \in 1 .. n : E[k] \subseteq k .. n}
<1>1. /\ n \in Nat /\ s[0] = <<>>
      /\ \A k \in 1 .. n : /\ s[k] = <<k>> \o s[t[k].children] \o s[t[k].next]
                           /\ t[k].children \in 0 .. n /\ t[k].next \in 0 .. n
      /\ \A k \in 0 .. n : s[k] \in Seq(1 .. n)
  BY WalkParts
<1>2. \A k \in 1 .. n : /\ t[k].children = 0 \/ t[k].children \in k + 1 .. n
                        /\ t[k].next = 0 \/ t[k].next \in k + 1 .. n
  BY DEF IsTree, Forward
<1>3. E[0] = {}
  BY <1>1 DEF ToSet
<1>4. ASSUME NEW k \in 1 .. n PROVE E[k] = {k} \cup E[t[k].children] \cup E[t[k].next]
  <2>0. t[k].children \in 0 .. n /\ t[k].next \in 0 .. n
    BY ONLY <1>1, k \in 1 .. n
  <2>1. t[k].children \in 0 .. n /\ t[k].next \in 0 .. n /\ k \in 0 .. n
    BY <2>0
  <2>2. s[t[k].children] \in Seq(1 .. n) /\ s[t[k].next] \in Seq(1 .. n)
    BY <1>1, <2>1
  <2>3. E[k] = ToSet(s[k])
    BY <2>1
  <2>4. E[t[k].children] = ToSet(s[t[k].children]) /\ E[t[k].next] = ToSet(s[t[k].next])
    BY <2>1
  <2> HIDE DEF E, n
  <2>5. s[k] = <<k>> \o s[t[k].children] \o s[t[k].next]
    BY <1>1
  <2>6. ToSet(<<k>> \o s[t[k].children] \o s[t[k].next]) =
          {k} \cup ToSet(s[t[k].children]) \cup ToSet(s[t[k].next])
    <3> DEFINE a == s[t[k].children]
               b == s[t[k].next]
               Y == 1 .. n
    <3>1. a \in Seq(Y) /\ b \in Seq(Y) /\ k \in Y
      BY <2>2
    <3> HIDE DEF a, b, Y
    <3>2. ToSet(<<k>> \o a \o b) = {k} \cup ToSet(a) \cup ToSet(b)
      BY ONLY <3>1, ConcatThreeSets
    <3>3. QED
      BY <3>2 DEF a, b
  <2>7. QED
    BY <2>3, <2>4, <2>5, <2>6
<1> HIDE DEF E
<1>5. ASSUME NEW k \in 1 .. n, \A j \in k + 1 .. n : j \in T PROVE k \in T
  <2>1. \A j \in k + 1 .. n : j .. n \subseteq k .. n
    BY <1>1
  <2>2. E[t[k].children] \subseteq k .. n /\ E[t[k].next] \subseteq k .. n
    BY <1>2, <1>3, <1>5, <2>1
  <2>3. k \in k .. n
    BY <1>1
  <2>4. E[k] \subseteq k .. n
    BY <1>4, <2>2, <2>3
  <2>5. QED
    BY <2>4
<1> HIDE DEF T
<1>6. 1 .. n \subseteq T
  BY <1>1, <1>5, Backwards
<1>7. SetsOf(E, t)
  BY <1>3, <1>4, <1>6 DEF T, SetsOf
<1>8. QED
  BY <1>7 DEF E

\* and so the walk from the root visits every node.
LEMMA AllVisited ==
  ASSUME NEW t, IsTree(t), NEW E, SetsOf(E, t)
  PROVE  E[1] = 1 .. Len(t)
<1> DEFINE n == Len(t)
           Closed(A) == \A i \in A : /\ t[i].children # 0 => t[i].children \in A
                                     /\ t[i].next # 0 => t[i].next \in A
           T == {k \in 1 .. n : Closed(E[k])}
<1>1. /\ n \in Nat /\ n > 0
      /\ \A k \in 1 .. n : /\ t[k].children = 0 \/ t[k].children \in k + 1 .. n
                           /\ t[k].next = 0 \/ t[k].next \in k + 1 .. n
  BY DEF IsTree, Shaped, Forward, Families
<1>2. \A k \in 1 .. n : \A j \in k + 1 .. n : j \in 1 .. n /\ j > k
  BY <1>1
<1>3. /\ E[0] = {}
      /\ \A k \in 1 .. n : /\ E[k] = {k} \cup E[t[k].children] \cup E[t[k].next]
                           /\ E[k] \subseteq k .. n
  BY DEF SetsOf
<1>4. \A k \in 1 .. n : k \in E[k]
  BY <1>3
<1>5. ASSUME NEW k \in 1 .. n, \A j \in k + 1 .. n : j \in T PROVE k \in T
  <2>1. Closed(E[0])
    BY <1>3
  <2>2. Closed(E[t[k].children]) /\ Closed(E[t[k].next])
    BY <1>1, <1>5, <2>1
  <2>3. /\ t[k].children # 0 => t[k].children \in E[t[k].children]
        /\ t[k].next # 0 => t[k].next \in E[t[k].next]
    BY <1>1, <1>2, <1>4
  <2>4. Closed(E[k])
    BY <1>3, <2>2, <2>3
  <2>5. QED
    BY <2>4
<1>6. Closed(E[1])
  <2> HIDE DEF T
  <2>1. 1 .. n \subseteq T
    BY <1>1, <1>5, Backwards
  <2>2. 1 \in 1 .. n
    BY <1>1
  <2>3. QED
    BY <2>1, <2>2 DEF T
<1>7. ASSUME NEW m0 \in 1 .. n, m0 \notin E[1] PROVE FALSE
  <2> DEFINE U == {m \in Nat : m \in 1 .. n /\ m \notin E[1]}
  <2>1. U \in SUBSET Nat /\ U # {}
    BY <1>7
  <2>2. PICK m \in U : \A k \in U : m <= k
    <3> HIDE DEF U
    <3>1. QED
      BY <2>1, LeastNatural
  <2>3. m \in 1 .. n /\ m \notin E[1]
    OBVIOUS
  <2>4. m # 1
    BY <1>4, <1>1, <2>3
  <2>5. PICK i \in 1 .. n : t[i].children = m \/ t[i].next = m
    <3>1. m \in 2 .. n
      BY <2>3, <2>4
    <3>2. QED
      BY <3>1 DEF IsTree, Reached
  <2>6. i < m
    BY <1>1, <2>3, <2>5
  <2>7. i \in E[1]
    BY <2>2, <2>6
  <2>8. m \in E[1]
    BY <1>6, <2>3, <2>5, <2>7
  <2>9. QED
    BY <2>3, <2>8
<1>8. E[1] \subseteq 1 .. n
  BY <1>1, <1>3
<1>9. QED
  BY <1>7, <1>8

\* What is below a node is not among what its next siblings bring.
LEMMA ApartVisited ==
  ASSUME NEW t, IsTree(t), NEW E, SetsOf(E, t), NEW k \in 1 .. Len(t)
  PROVE  E[t[k].children] \cap E[t[k].next] = {}
<1> DEFINE n == Len(t)
           Follows(A, r) == \A m \in A : m # r =>
                              \E i \in A : t[i].children = m \/ t[i].next = m
           T == {j \in 1 .. n : Follows(E[j], j)}
<1>1. /\ n \in Nat
      /\ \A j \in 1 .. n : /\ t[j].children = 0 \/ t[j].children \in j + 1 .. n
                           /\ t[j].next = 0 \/ t[j].next \in j + 1 .. n
  BY DEF IsTree, Shaped, Forward
<1>2. \A j \in 1 .. n : \A i \in j + 1 .. n : i \in 1 .. n /\ i > j
  BY <1>1
<1>3. /\ E[0] = {}
      /\ \A j \in 1 .. n : /\ E[j] = {j} \cup E[t[j].children] \cup E[t[j].next]
                           /\ E[j] \subseteq j .. n
  BY DEF SetsOf
<1>4. ASSUME NEW j \in 1 .. n, \A i \in j + 1 .. n : i \in T PROVE j \in T
  <2>1. Follows(E[t[j].children], t[j].children) /\ Follows(E[t[j].next], t[j].next)
    BY <1>1, <1>3, <1>4
  <2>2. E[j] = {j} \cup E[t[j].children] \cup E[t[j].next]
    BY <1>3
  <2>3. ASSUME NEW m \in E[j], m # j PROVE \E i \in E[j] : t[i].children = m \/ t[i].next = m
    <3>1. CASE m = t[j].children \/ m = t[j].next
      BY <2>2, <3>1
    <3>2. CASE m # t[j].children /\ m # t[j].next
      BY <2>1, <2>2, <2>3, <3>2
    <3>3. QED
      BY <3>1, <3>2
  <2>4. QED
    BY <2>3
<1>5. \A j \in 1 .. n : Follows(E[j], j)
  <2> HIDE DEF T
  <2>1. 1 .. n \subseteq T
    BY <1>1, <1>4, Backwards
  <2>2. QED
    BY <2>1 DEF T
<1> HIDE DEF T, Follows
<1> DEFINE c == t[k].children
           x == t[k].next
           U == {m \in Nat : m \in E[c] /\ m \in E[x]}
<1>6. SUFFICES ASSUME NEW m0, m0 \in E[c], m0 \in E[x] PROVE FALSE
  OBVIOUS
<1>7. c \in k + 1 .. n /\ x \in k + 1 .. n /\ c \in 1 .. n /\ x \in 1 .. n
  BY <1>1, <1>2, <1>3, <1>6
<1>8. E[c] \subseteq c .. n /\ E[x] \subseteq x .. n /\ k \notin E[c] /\ k \notin E[x]
  BY <1>1, <1>3, <1>7
<1>9. PICK m \in U : \A j \in U : m <= j
  <2>1. U \in SUBSET Nat /\ U # {}
    BY <1>6, <1>7, <1>8
  <2> HIDE DEF U
  <2>2. QED
    BY <2>1, LeastNatural
<1>10. m \in E[c] /\ m \in E[x] /\ m # 0
  BY <1>7, <1>8, <1>9
<1>11. \A i, j \in 1 .. n :
         /\ t[i].children # 0 /\ t[i].children = t[j].children => i = j
         /\ t[i].next # 0 /\ t[i].next = t[j].next => i = j
         /\ t[i].children # 0 => t[i].children # t[j].next
  BY DEF IsTree, Once
<1>12. Follows(E[c], c) /\ Follows(E[x], x)
  BY <1>5, <1>7
<1>13. E[c] \subseteq 1 .. n /\ E[x] \subseteq 1 .. n
  BY <1>7, <1>8
<1>14. CASE m = c
  <2>1. m # x
    BY <1>11, <1>7, <1>14
  <2>2. PICK i \in E[x] : t[i].children = m \/ t[i].next = m
    BY <1>10, <1>12, <2>1 DEF Follows
  <2>3. i = k
    BY <1>7, <1>10, <1>11, <1>13, <1>14, <2>2
  <2>4. QED
    BY <1>8, <2>3
<1>15. CASE m = x
  <2>1. m # c
    BY <1>11, <1>7, <1>15
  <2>2. PICK i \in E[c] : t[i].children = m \/ t[i].next = m
    BY <1>10, <1>12, <2>1 DEF Follows
  <2>3. i = k
    BY <1>7, <1>10, <1>11, <1>13, <1>15, <2>2
  <2>4. QED
    BY <1>8, <2>3
<1>16. CASE m # c /\ m # x
  <2>1. PICK i \in E[c] : t[i].children = m \/ t[i].next = m
    BY <1>10, <1>12, <1>16 DEF Follows
  <2>2. PICK j \in E[x] : t[j].children = m \/ t[j].next = m
    BY <1>10, <1>12, <1>16 DEF Follows
  <2>3. i = j
    <3>1. i \in 1 .. n /\ j \in 1 .. n /\ m # 0
      BY <1>10, <1>13, <2>1, <2>2
    <3> HIDE DEF n
    <3>2. QED
      BY ONLY <1>11, <2>1, <2>2, <3>1
  <2>4. i < m /\ i \in Nat
    <3>1. i \in 1 .. n /\ m # 0 /\ n \in Nat
      BY <1>1, <1>10, <1>13, <2>1
    <3> HIDE DEF n
    <3>2. m \in i + 1 .. n
      BY ONLY <1>1, <2>1, <3>1
    <3>3. QED
      BY ONLY <3>1, <3>2
  <2>5. i \in U
    BY <2>3, <2>4
  <2>6. m <= i
    BY <1>9, <2>5
  <2>7. QED
    BY <1>9, <2>4, <2>6
<1>17. QED
  BY <1>14, <1>15, <1>16

\* Two sequences without a repetition and without a common element have none
\* together.
LEMMA ConcatInjective ==
  ASSUME NEW S, NEW q \in Seq(S), NEW r \in Seq(S), IsInjective(q), IsInjective(r),
         ToSet(q) \cap ToSet(r) = {}
  PROVE  IsInjective(q \o r)
<1>1. /\ q \o r \in Seq(S)
      /\ Len(q) \in Nat /\ Len(r) \in Nat /\ Len(q \o r) = Len(q) + Len(r)
      /\ \A i \in 1 .. Len(q) : (q \o r)[i] = q[i]
      /\ \A i \in 1 .. Len(r) : (q \o r)[Len(q) + i] = r[i]
  BY ConcatFacts
<1>2. DOMAIN (q \o r) = 1 .. Len(q) + Len(r) /\ DOMAIN q = 1 .. Len(q) /\ DOMAIN r = 1 .. Len(r)
  BY <1>1
<1>3. ASSUME NEW i \in 1 .. Len(q) + Len(r), i \notin 1 .. Len(q)
      PROVE  /\ i - Len(q) \in 1 .. Len(r) /\ (q \o r)[i] = r[i - Len(q)]
             /\ r[i - Len(q)] \in ToSet(r)
  <2>1. i - Len(q) \in 1 .. Len(r) /\ Len(q) + (i - Len(q)) = i
    BY <1>1, <1>3
  <2>2. QED
    BY <1>1, <1>2, <2>1 DEF ToSet
<1>4. \A i \in 1 .. Len(q) : (q \o r)[i] \in ToSet(q)
  BY <1>1, <1>2 DEF ToSet
<1>5. ASSUME NEW i \in 1 .. Len(q) + Len(r), NEW j \in 1 .. Len(q) + Len(r),
             (q \o r)[i] = (q \o r)[j]
      PROVE  i = j
  <2>1. CASE i \in 1 .. Len(q) /\ j \in 1 .. Len(q)
    BY <1>1, <1>2, <1>5, <2>1 DEF IsInjective
  <2>2. CASE i \in 1 .. Len(q) /\ j \notin 1 .. Len(q)
    BY <1>3, <1>4, <1>5, <2>2
  <2>3. CASE i \notin 1 .. Len(q) /\ j \in 1 .. Len(q)
    BY <1>3, <1>4, <1>5, <2>3
  <2>4. CASE i \notin 1 .. Len(q) /\ j \notin 1 .. Len(q)
    <3>1. r[i - Len(q)] = r[j - Len(q)]
      BY <1>3, <1>5, <2>4
    <3>2. i - Len(q) \in 1 .. Len(r) /\ j - Len(q) \in 1 .. Len(r)
      BY <1>3, <2>4
    <3>3. i - Len(q) = j - Len(q)
      BY <1>2, <3>1, <3>2 DEF IsInjective
    <3>4. QED
      BY <1>1, <3>3
  <2>5. QED
    BY <2>1, <2>2, <2>3, <2>4
<1>6. QED
  BY <1>2, <1>5 DEF IsInjective

\* The elements of q have the parent p or one that comes before them.
ParentsFirst(q, p, t) ==
  \A i \in 1 .. Len(q) : t[q[i]].parent = p \/ \E j \in 1 .. i - 1 : q[j] = t[q[i]].parent

\* Two sequences with parents first make one, if the second has its parents in both.
LEMMA ConcatParents ==
  ASSUME NEW S, NEW k \in S, NEW a \in Seq(S), NEW b \in Seq(S), NEW t,
         ParentsFirst(a, k, t), ParentsFirst(b, t[k].parent, t)
  PROVE  ParentsFirst(<<k>> \o a \o b, t[k].parent, t)
<1>1. PICK h : h = <<k>>
  OBVIOUS
<1>2. h \in Seq(S) /\ Len(h) = 1 /\ h[1] = k
  BY <1>1
<1>3. PICK q : q = h \o a
  OBVIOUS
<1>4. /\ q \in Seq(S) /\ Len(a) \in Nat /\ Len(q) = 1 + Len(a)
      /\ q[1] = k /\ \A i \in 1 .. Len(a) : q[1 + i] = a[i]
  <2>1. /\ q \in Seq(S) /\ Len(h) \in Nat /\ Len(a) \in Nat /\ Len(q) = Len(h) + Len(a)
        /\ \A i \in 1 .. Len(h) : q[i] = h[i]
        /\ \A i \in 1 .. Len(a) : q[Len(h) + i] = a[i]
    <3>1. /\ h \o a \in Seq(S)
          /\ Len(h) \in Nat /\ Len(a) \in Nat /\ Len(h \o a) = Len(h) + Len(a)
          /\ \A i \in 1 .. Len(h) : (h \o a)[i] = h[i]
          /\ \A i \in 1 .. Len(a) : (h \o a)[Len(h) + i] = a[i]
      <4>1. h \in Seq(S)
        BY <1>2
      <4>2. QED
        BY ONLY <4>1, a \in Seq(S), ConcatFacts
    <3>2. QED
      BY ONLY <1>3, <3>1
  <2>2. QED
    BY ONLY <1>2, <2>1
<1>5. PICK r : r = q \o b
  OBVIOUS
<1>6. /\ Len(b) \in Nat /\ Len(r) = Len(q) + Len(b)
      /\ \A i \in 1 .. Len(q) : r[i] = q[i]
      /\ \A i \in 1 .. Len(b) : r[Len(q) + i] = b[i]
  <2>1. /\ q \o b \in Seq(S)
        /\ Len(q) \in Nat /\ Len(b) \in Nat /\ Len(q \o b) = Len(q) + Len(b)
        /\ \A i \in 1 .. Len(q) : (q \o b)[i] = q[i]
        /\ \A i \in 1 .. Len(b) : (q \o b)[Len(q) + i] = b[i]
    <3>1. q \in Seq(S)
      BY <1>4
    <3>2. QED
      BY ONLY <3>1, b \in Seq(S), ConcatFacts
  <2>2. QED
    BY ONLY <1>5, <2>1
<1>7. ASSUME NEW i \in 1 .. Len(r)
      PROVE  t[r[i]].parent = t[k].parent \/ \E j \in 1 .. i - 1 : r[j] = t[r[i]].parent
  <2>1. CASE i = 1
    <3>1. r[1] = k
      BY <1>4, <1>6
    <3>2. QED
      BY <2>1, <3>1
  <2>2. CASE i \in 2 .. 1 + Len(a)
    <3> DEFINE m == i - 1
    <3>1. m \in 1 .. Len(a) /\ 1 + m = i /\ i \in 1 .. Len(q)
      BY <1>4, <2>2
    <3> HIDE DEF m
    <3>2. r[i] = a[m]
      BY <1>4, <1>6, <3>1
    <3>3. CASE t[a[m]].parent = k
      <4>1. r[1] = k /\ 1 \in 1 .. i - 1
        BY <1>4, <1>6, <2>2
      <4>2. QED
        BY <3>2, <3>3, <4>1
    <3>4. CASE \E j \in 1 .. m - 1 : a[j] = t[a[m]].parent
      <4>1. PICK j \in 1 .. m - 1 : a[j] = t[a[m]].parent
        BY <3>4
      <4>2. j \in 1 .. Len(a) /\ 1 + j \in 1 .. i - 1 /\ 1 + j \in 1 .. Len(q)
        BY <1>4, <3>1, <4>1
      <4>3. r[1 + j] = a[j]
        BY <1>4, <1>6, <4>2
      <4>4. QED
        BY <3>2, <4>1, <4>2, <4>3
    <3>5. QED
      BY <3>1, <3>3, <3>4 DEF ParentsFirst
  <2>3. CASE i > 1 + Len(a)
    <3> DEFINE m == i - Len(q)
    <3>1. m \in 1 .. Len(b) /\ Len(q) + m = i
      BY <1>4, <1>6, <2>3
    <3> HIDE DEF m
    <3>2. r[i] = b[m]
      BY <1>6, <3>1
    <3>3. CASE t[b[m]].parent = t[k].parent
      BY <3>2, <3>3
    <3>4. CASE \E j \in 1 .. m - 1 : b[j] = t[b[m]].parent
      <4>1. PICK j \in 1 .. m - 1 : b[j] = t[b[m]].parent
        BY <3>4
      <4>2. j \in 1 .. Len(b) /\ Len(q) + j \in 1 .. i - 1
        BY <1>4, <1>6, <3>1, <4>1
      <4>3. r[Len(q) + j] = b[j]
        BY <1>6, <4>2
      <4>4. QED
        BY <3>2, <4>1, <4>2, <4>3
    <3>5. QED
      BY <3>1, <3>3, <3>4 DEF ParentsFirst
  <2>4. QED
    BY <1>4, <1>6, <2>1, <2>2, <2>3
<1>8. r = <<k>> \o a \o b
  BY <1>1, <1>3, <1>5
<1>9. QED
  BY <1>7, <1>8 DEF ParentsFirst

\* The walk visits no node twice, and none before its parent.
LEMMA WalkOrder ==
  ASSUME NEW t, IsTree(t), NEW s, IsWalk(s, t)
  PROVE  \A k \in 1 .. Len(t) : IsInjective(s[k]) /\ ParentsFirst(s[k], t[k].parent, t)
<1> DEFINE n == Len(t)
           E == [k \in 0 .. n |-> ToSet(s[k])]
           T == {k \in 1 .. n : IsInjective(s[k]) /\ ParentsFirst(s[k], t[k].parent, t)}
<1>1. /\ n \in Nat /\ s[0] = <<>>
      /\ \A k \in 1 .. n : /\ s[k] = <<k>> \o s[t[k].children] \o s[t[k].next]
                           /\ t[k].children \in 0 .. n /\ t[k].next \in 0 .. n
      /\ \A k \in 0 .. n : s[k] \in Seq(1 .. n)
  BY WalkParts
<1>2. \A k \in 1 .. n : /\ t[k].children = 0 \/ t[k].children \in k + 1 .. n
                        /\ t[k].next = 0 \/ t[k].next \in k + 1 .. n
  BY DEF IsTree, Forward
<1>3. \A k \in 1 .. n : /\ t[k].children # 0 => t[t[k].children].parent = k
                        /\ t[k].next # 0 => t[t[k].next].parent = t[k].parent
  BY DEF IsTree, Families
<1>4. PICK e : e = E
  OBVIOUS
<1>5. /\ SetsOf(e, t)
      /\ \A k \in 0 .. n : e[k] = ToSet(s[k])
  BY <1>4, WalkSets
<1>6. IsInjective(s[0]) /\ \A p : ParentsFirst(s[0], p, t)
  <2>1. DOMAIN s[0] = {} /\ 1 .. Len(s[0]) = {}
    BY <1>1
  <2>2. QED
    BY <2>1 DEF IsInjective, ParentsFirst
<1> HIDE DEF n, E
<1>7. ASSUME NEW k \in 1 .. n, \A j \in k + 1 .. n : j \in T PROVE k \in T
  <2> DEFINE c == t[k].children
             x == t[k].next
             a == s[c]
             b == s[x]
             Y == 1 .. n
  <2>1. c \in 0 .. n /\ x \in 0 .. n /\ (c = 0 \/ c \in k + 1 .. n) /\ (x = 0 \/ x \in k + 1 .. n)
    BY <1>1, <1>2
  <2>2. a \in Seq(Y) /\ b \in Seq(Y) /\ k \in Y /\ s[k] = <<k>> \o a \o b
    BY <1>1, <2>1
  <2>3. IsInjective(a) /\ IsInjective(b)
    BY <1>6, <1>7, <2>1
  <2>4. ParentsFirst(a, k, t)
    <3>1. CASE c = 0
      BY <1>6, <3>1
    <3>2. CASE c \in k + 1 .. n
      <4>1. ParentsFirst(a, t[c].parent, t)
        BY <1>7, <3>2
      <4>2. t[c].parent = k
        BY <1>3, <3>2
      <4>3. QED
        BY <4>1, <4>2
    <3>3. QED
      BY <2>1, <3>1, <3>2
  <2>5. ParentsFirst(b, t[k].parent, t)
    <3>1. CASE x = 0
      BY <1>6, <3>1
    <3>2. CASE x \in k + 1 .. n
      <4>1. ParentsFirst(b, t[x].parent, t)
        BY <1>7, <3>2
      <4>2. t[x].parent = t[k].parent
        BY <1>3, <3>2
      <4>3. QED
        BY <4>1, <4>2
    <3>3. QED
      BY <2>1, <3>1, <3>2
  <2>6. ToSet(a) \cap ToSet(b) = {}
    <3>1. e[c] = ToSet(a) /\ e[x] = ToSet(b)
      BY <1>5, <2>1
    <3>2. e[c] \cap e[x] = {}
      BY <1>5, ApartVisited DEF n
    <3>3. QED
      BY <3>1, <3>2
  <2>7. k \notin ToSet(a) /\ k \notin ToSet(b)
    <3>1. \A j \in 1 .. n : e[j] \subseteq j .. n
      BY <1>5 DEF SetsOf, n
    <3>2. e[0] = {}
      BY <1>5 DEF SetsOf
    <3>3. k \notin e[c] /\ k \notin e[x]
      <4>1. \A j \in k + 1 .. n : j \in 1 .. n /\ k \notin j .. n
        BY <1>1
      <4>2. QED
        BY <2>1, <3>1, <3>2, <4>1
    <3>4. QED
      BY <1>5, <2>1, <3>3
  <2> HIDE DEF a, b, c, x, Y
  <2>8. ParentsFirst(<<k>> \o a \o b, t[k].parent, t)
    BY ONLY <2>2, <2>4, <2>5, ConcatParents
  <2>9. IsInjective(<<k>> \o a \o b)
    <3>1. PICK h : h = <<k>>
      OBVIOUS
    <3>2. h \in Seq(Y) /\ ToSet(h) = {k} /\ IsInjective(h)
      BY <2>2, <3>1 DEF ToSet, IsInjective
    <3>3. PICK q : q = h \o a
      OBVIOUS
    <3>4. q \in Seq(Y) /\ ToSet(q) = ToSet(h) \cup ToSet(a)
      BY <2>2, <3>2, <3>3, ConcatFacts, ConcatSets
    <3>5. ToSet(h) \cap ToSet(a) = {}
      BY <2>7, <3>2
    <3>6. IsInjective(q)
      BY <2>2, <2>3, <3>2, <3>3, <3>5, ConcatInjective
    <3>7. ToSet(q) \cap ToSet(b) = {}
      BY <2>6, <2>7, <3>2, <3>4
    <3>8. IsInjective(q \o b)
      BY <2>2, <2>3, <3>4, <3>6, <3>7, ConcatInjective
    <3>9. QED
      BY <3>1, <3>3, <3>8
  <2>10. QED
    BY <2>2, <2>8, <2>9
<1> HIDE DEF T
<1>8. 1 .. n \subseteq T
  BY <1>1, <1>7, Backwards
<1>9. QED
  BY <1>8 DEF T, n

\* generic_tree_foreach visits every node of a tree, each once and after its parent.
LEMMA ForeachOrder ==
  ASSUME NEW t, IsTree(t), NEW q, q = Foreach(t, Root)
  PROVE  /\ q \in Seq(1 .. Len(t)) /\ ToSet(q) = 1 .. Len(t) /\ Len(q) = Len(t)
         /\ \A k \in 2 .. Len(q) : \E j \in 1 .. k - 1 : q[j] = t[q[k]].parent
<1> DEFINE n == Len(t)
<1>1. PICK s : IsWalk(s, t) /\ Foreach(t, Root) = <<Root>> \o s[t[Root].children]
  BY WalkExists
<1>2. /\ n \in Nat /\ s[0] = <<>>
      /\ \A k \in 1 .. n : /\ s[k] = <<k>> \o s[t[k].children] \o s[t[k].next]
                           /\ t[k].children \in 0 .. n /\ t[k].next \in 0 .. n
      /\ \A k \in 0 .. n : s[k] \in Seq(1 .. n)
  BY <1>1, WalkParts
<1>3. n > 0 /\ t[1].next = 0 /\ t[1].parent = 0
  BY DEF IsTree, Families
<1>4. \A i \in 2 .. n : t[i].parent \in 1 .. n
  BY DEF IsTree, Families
<1> DEFINE e == [k \in 0 .. n |-> ToSet(s[k])]
<1>5. SetsOf(e, t)
  BY <1>1, WalkSets
<1>6. e[1] = ToSet(s[1])
  BY <1>2, <1>3
<1> HIDE DEF e
<1>7. ToSet(s[1]) = 1 .. n
  BY <1>5, <1>6, AllVisited
<1> HIDE DEF n
<1>15. t[1].children \in 0 .. n
  <2>1. \A k \in 1 .. n : t[k].children \in 0 .. n
    BY ONLY <1>2
  <2>2. 1 \in 1 .. n
    BY ONLY <1>2, <1>3
  <2>3. QED
    BY ONLY <2>1, <2>2
<1>8. q = s[1] /\ q \in Seq(1 .. n)
  <2> DEFINE a == <<1>> \o s[t[1].children]
  <2>1. 1 \in 1 .. n /\ 1 \in 0 .. n /\ t[1].children \in 0 .. n
    BY <1>2, <1>3, <1>15
  <2>2. s[1] = a \o s[0]
    BY <1>2, <1>3, <2>1
  <2>3. s[t[1].children] \in Seq(1 .. n) /\ s[1] \in Seq(1 .. n)
    BY <1>2, <2>1
  <2>4. a \in Seq(1 .. n)
    <3> DEFINE b == s[t[1].children]
               Y == 1 .. n
    <3>1. <<1>> \in Seq(Y) /\ b \in Seq(Y)
      BY <2>1, <2>3
    <3> HIDE DEF b, Y
    <3>2. <<1>> \o b \in Seq(Y)
      BY <3>1
    <3>3. QED
      BY <3>2 DEF b, Y
  <2>5. q = a
    BY <1>1 DEF Root
  <2> HIDE DEF a
  <2>6. a \o <<>> = a
    BY <2>4
  <2>7. QED
    BY <1>2, <2>2, <2>3, <2>5, <2>6
<1>9. IsInjective(q) /\ ParentsFirst(q, 0, t)
  <2>1. 1 \in 1 .. n
    BY <1>2, <1>3
  <2>2. IsInjective(s[1]) /\ ParentsFirst(s[1], t[1].parent, t)
    BY <1>1, <2>1, WalkOrder DEF n
  <2>3. QED
    BY <1>3, <1>8, <2>2
<1>10. Len(q) \in Nat /\ DOMAIN q = 1 .. Len(q) /\ \A k \in 1 .. Len(q) : q[k] \in 1 .. n
  <2> DEFINE Y == 1 .. n
  <2>1. q \in Seq(Y)
    BY <1>8
  <2> HIDE DEF Y
  <2>2. Len(q) \in Nat /\ DOMAIN q = 1 .. Len(q) /\ \A k \in 1 .. Len(q) : q[k] \in Y
    BY ONLY <2>1
  <2>3. QED
    BY <2>2 DEF Y
<1>11. ToSet(q) = 1 .. n
  BY <1>7, <1>8
<1>12. Len(q) = n
  <2> DEFINE S == 1 .. Len(q)
             Y == 1 .. n
  <2>1. q \in [S -> Y]
    BY <1>8, <1>10
  <2>2. \A y \in Y : \E i \in S : q[i] = y
    BY <1>10, <1>11 DEF ToSet
  <2>3. ExistsBijection(S, Y)
    BY <1>9, <2>1, <2>2 DEF ExistsBijection, Bijection, Injection, Surjection
  <2>4. IsFiniteSet(S) /\ Cardinality(S) = Len(q) /\ Cardinality(Y) = n
    <3>1. IsFiniteSet(S) /\ Cardinality(S) = IF 1 > Len(q) THEN 0 ELSE Len(q) - 1 + 1
      <4>1. PICK m : m = Len(q)
        OBVIOUS
      <4>2. 1 \in Int /\ m \in Int
        BY <1>10, <4>1
      <4>3. IsFiniteSet(1 .. m) /\ Cardinality(1 .. m) = IF 1 > m THEN 0 ELSE m - 1 + 1
        BY ONLY <4>2, FS_Interval
      <4>4. QED
        BY <4>1, <4>3
    <3>2. Cardinality(Y) = IF 1 > n THEN 0 ELSE n - 1 + 1
      BY <1>2, FS_Interval
    <3>3. QED
      BY <1>2, <1>10, <3>1, <3>2
  <2> HIDE DEF S, Y
  <2>5. Cardinality(Y) = Cardinality(S)
    BY <2>3, <2>4, FS_Bijection
  <2>6. QED
    BY <2>4, <2>5
<1>13. ASSUME NEW k \in 2 .. Len(q) PROVE \E j \in 1 .. k - 1 : q[j] = t[q[k]].parent
  <2>1. q[1] = 1
    <3>1. PICK i \in 1 .. Len(q) : q[i] = 1
      <4>1. 1 \in ToSet(q)
        BY <1>2, <1>3, <1>11
      <4>2. QED
        BY <1>10, <4>1 DEF ToSet
    <3>2. q = <<1>> \o s[t[1].children] /\ s[t[1].children] \in Seq(1 .. n)
      <4>1. t[1].children \in 0 .. n
        BY <1>15
      <4>2. QED
        BY <1>1, <1>2, <4>1 DEF Root
    <3> DEFINE b == s[t[1].children]
    <3> HIDE DEF b
    <3>3. (<<1>> \o b)[1] = 1
      <4>1. b \in Seq(1 .. n)
        BY <3>2 DEF b
      <4>2. QED
        BY <4>1
    <3>4. QED
      BY <3>2, <3>3 DEF b
  <2>2. q[k] # 1 /\ q[k] \in 1 .. n
    <3>1. 1 \in DOMAIN q /\ k \in DOMAIN q
      BY <1>10
    <3>2. QED
      BY <1>9, <1>10, <2>1, <3>1 DEF IsInjective
  <2>3. t[q[k]].parent # 0
    <3>1. q[k] \in 2 .. n
      BY <1>2, <2>2
    <3>2. QED
      BY <1>2, <1>4, <3>1
  <2>4. k \in 1 .. Len(q)
    BY <1>10
  <2>5. QED
    BY <1>9, <2>3, <2>4 DEF ParentsFirst
<1>14. QED
  BY <1>8, <1>11, <1>12, <1>13 DEF n

\* What is left of a sequence behind the first k.
Rest(q, k) == [i \in 1 .. Len(q) - k |-> q[k + i]]

\* The rest shrinks by its first element.
LEMMA RestFacts ==
  ASSUME NEW S, NEW q \in Seq(S)
  PROVE  /\ Rest(q, 0) = q /\ Rest(q, Len(q)) = <<>>
         /\ \A k \in 0 .. Len(q) - 1 : Rest(q, k) = <<q[k + 1]>> \o Rest(q, k + 1)
         /\ \A k \in 0 .. Len(q) : Rest(q, k) \in Seq(S)
<1>1. Len(q) \in Nat /\ q \in [1 .. Len(q) -> S]
  OBVIOUS
<1>2. ASSUME NEW k \in 0 .. Len(q)
      PROVE  /\ Rest(q, k) \in Seq(S) /\ Len(Rest(q, k)) = Len(q) - k
             /\ \A i \in 1 .. Len(q) - k : Rest(q, k)[i] = q[k + i]
  <2>1. Len(q) - k \in Nat
    BY <1>1
  <2>2. \A i \in 1 .. Len(q) - k : q[k + i] \in S
    BY <1>1
  <2>3. Rest(q, k) \in [1 .. Len(q) - k -> S]
    BY <2>2 DEF Rest
  <2>4. \A i \in 1 .. Len(q) - k : Rest(q, k)[i] = q[k + i]
    BY DEF Rest
  <2>5. \A m \in Nat : \A x \in [1 .. m -> S] : x \in Seq(S) /\ Len(x) = m
    OBVIOUS
  <2> DEFINE m == Len(q) - k
  <2> HIDE DEF Rest, m
  <2>6. Rest(q, k) \in Seq(S) /\ Len(Rest(q, k)) = m
    BY ONLY <2>1, <2>3, <2>5 DEF m
  <2>7. QED
    BY <2>4, <2>6 DEF m
<1>3. ASSUME NEW x \in Seq(S), NEW y \in Seq(S), Len(x) = Len(y), \A i \in 1 .. Len(x) : x[i] = y[i]
      PROVE  x = y
  BY <1>3
<1>4. Rest(q, 0) = q
  <2>1. 0 \in 0 .. Len(q) /\ Len(q) - 0 = Len(q) /\ \A i \in 1 .. Len(q) : 0 + i = i
    BY <1>1
  <2>2. /\ Rest(q, 0) \in Seq(S) /\ Len(Rest(q, 0)) = Len(q)
        /\ \A i \in 1 .. Len(q) : Rest(q, 0)[i] = q[i]
    BY <1>2, <2>1
  <2>3. QED
    BY <1>3, <2>2
<1>5. Rest(q, Len(q)) = <<>>
  <2>1. Len(q) \in 0 .. Len(q) /\ Len(q) - Len(q) = 0
    BY <1>1
  <2>2. Rest(q, Len(q)) \in Seq(S) /\ Len(Rest(q, Len(q))) = 0
    BY <1>2, <2>1
  <2>3. QED
    BY <2>2
<1>6. ASSUME NEW k \in 0 .. Len(q) - 1 PROVE Rest(q, k) = <<q[k + 1]>> \o Rest(q, k + 1)
  <2>1. k \in 0 .. Len(q) /\ k + 1 \in 0 .. Len(q) /\ k + 1 \in 1 .. Len(q)
    BY <1>1
  <2>2. PICK r : r = Rest(q, k + 1)
    OBVIOUS
  <2>3. PICK h : h = <<q[k + 1]>>
    OBVIOUS
  <2>4. h \in Seq(S) /\ Len(h) = 1 /\ h[1] = q[k + 1]
    BY <1>1, <2>1, <2>3
  <2>5. /\ r \in Seq(S) /\ Len(r) = Len(q) - (k + 1)
        /\ \A i \in 1 .. Len(q) - (k + 1) : r[i] = q[k + 1 + i]
    BY <1>2, <2>1, <2>2
  <2>6. /\ h \o r \in Seq(S) /\ Len(h \o r) = Len(h) + Len(r)
        /\ \A i \in 1 .. Len(h) : (h \o r)[i] = h[i]
        /\ \A i \in 1 .. Len(r) : (h \o r)[Len(h) + i] = r[i]
    <3>1. h \in Seq(S)
      BY <2>4
    <3>2. r \in Seq(S)
      BY <2>5
    <3>3. QED
      BY ONLY <3>1, <3>2, ConcatFacts
  <2>7. Len(h \o r) = Len(q) - k
    BY <1>1, <2>4, <2>5, <2>6
  <2>8. ASSUME NEW i \in 1 .. Len(q) - k PROVE (h \o r)[i] = q[k + i]
    <3>1. CASE i = 1
      BY <2>4, <2>6, <3>1
    <3>2. CASE i # 1
      <4>1. i - 1 \in 1 .. Len(r) /\ i - 1 \in 1 .. Len(q) - (k + 1)
        BY <1>1, <2>5, <3>2
      <4>2. (h \o r)[1 + (i - 1)] = r[i - 1] /\ r[i - 1] = q[k + 1 + (i - 1)]
        BY <2>4, <2>5, <2>6, <4>1
      <4>3. 1 + (i - 1) = i /\ k + 1 + (i - 1) = k + i
        BY <1>1
      <4>4. QED
        BY <4>2, <4>3
    <3>3. QED
      BY <3>1, <3>2
  <2>9. /\ Rest(q, k) \in Seq(S) /\ Len(Rest(q, k)) = Len(q) - k
        /\ \A i \in 1 .. Len(q) - k : Rest(q, k)[i] = q[k + i]
    BY <1>2, <2>1
  <2>10. Rest(q, k) = h \o r
    BY <1>3, <2>6, <2>7, <2>8, <2>9
  <2>11. QED
    BY <2>2, <2>3, <2>10
<1>7. QED
  BY <1>2, <1>4, <1>5, <1>6

\* Asking for one device after the other delivers the walk.
LEMMA ListedInOrder ==
  ASSUME IsTree(device_tree)
  PROVE  LsDevFrom(0) = Foreach(device_tree, Root)
<1>1. PICK q : q = Foreach(device_tree, Root)
  OBVIOUS
<1> DEFINE Y == 1 .. Len(device_tree)
           L == Len(q)
           Is(f) == f = [k \in 0 .. Len(Foreach(device_tree, Root)) |->
                           IF LsDev(k) = NULL THEN <<>> ELSE <<LsDev(k)>> \o f[k + 1]]
           from == CHOOSE f : Is(f)
<1>2. q \in Seq(Y) /\ 0 \notin Y
  BY <1>1, ForeachOrder
<1>3. L \in Nat /\ \A i \in 1 .. L : q[i] \in Y
  <2> HIDE DEF Y
  <2>1. QED
    BY <1>2
<1>4. \A k \in 0 .. L : LsDev(k) = IF k < L THEN q[k + 1] ELSE NULL
  BY <1>1 DEF LsDev
<1>5. /\ \A k \in 0 .. L - 1 : LsDev(k) = q[k + 1] /\ LsDev(k) # NULL
      /\ LsDev(L) = NULL
  <2>1. \A k \in 0 .. L - 1 : k \in 0 .. L /\ k < L /\ k + 1 \in 1 .. L
    BY <1>3
  <2>2. L \in 0 .. L /\ ~(L < L)
    BY <1>3
  <2>3. \A i \in 1 .. L : q[i] # NULL
    <3> HIDE DEF Y, L
    <3>1. QED
      BY <1>2, <1>3 DEF NULL
  <2> HIDE DEF L
  <2>4. QED
    BY <1>4, <2>1, <2>2, <2>3
<1> HIDE DEF Y, L
<1>6. /\ Rest(q, 0) = q /\ Rest(q, L) = <<>>
      /\ \A k \in 0 .. L - 1 : Rest(q, k) = <<q[k + 1]>> \o Rest(q, k + 1)
  BY <1>2, RestFacts DEF L
<1>7. Is([k \in 0 .. L |-> Rest(q, k)])
  <2> DEFINE f == [k \in 0 .. L |-> Rest(q, k)]
  <2>1. ASSUME NEW k \in 0 .. L
        PROVE  f[k] = IF LsDev(k) = NULL THEN <<>> ELSE <<LsDev(k)>> \o f[k + 1]
    <3>1. CASE k = L
      BY <1>3, <1>5, <1>6, <3>1
    <3>2. CASE k # L
      <4>1. k \in 0 .. L - 1 /\ k + 1 \in 0 .. L
        BY <1>3, <3>2
      <4>2. f[k] = Rest(q, k) /\ f[k + 1] = Rest(q, k + 1)
        BY <4>1
      <4> HIDE DEF f
      <4>3. QED
        BY <1>5, <1>6, <4>1, <4>2
    <3>3. QED
      BY <3>1, <3>2
  <2>2. 0 .. L = 0 .. Len(Foreach(device_tree, Root))
    BY <1>1 DEF L
  <2>3. f = [k \in 0 .. L |-> f[k]]
    OBVIOUS
  <2> HIDE DEF f
  <2>4. Is(f)
    BY <2>1, <2>2, <2>3
  <2> HIDE DEF Is
  <2>5. QED
    BY <2>4 DEF f
<1>8. Is(from)
  <2>1. \E f : Is(f)
    BY <1>7
  <2> HIDE DEF Is
  <2>2. QED
    BY <2>1
<1>9. LsDevFrom(0) = from[0]
  BY DEF LsDevFrom
<1>10. \A k \in 0 .. L :
         from[k] = IF LsDev(k) = NULL THEN <<>> ELSE <<LsDev(k)>> \o from[k + 1]
  <2>1. 0 .. L = 0 .. Len(Foreach(device_tree, Root))
    BY <1>1 DEF L
  <2> HIDE DEF from
  <2>2. QED
    BY <1>8, <2>1
<1> HIDE DEF Is, from
<1> DEFINE T == {k \in 1 .. L + 1 : from[k - 1] = Rest(q, k - 1)}
<1>11. ASSUME NEW k \in 1 .. L + 1, \A j \in k + 1 .. L + 1 : j \in T PROVE k \in T
  <2>1. k - 1 \in 0 .. L
    BY <1>3
  <2>2. CASE k = L + 1
    <3>1. k - 1 = L
      BY <1>3, <2>2
    <3>2. from[L] = <<>>
      BY <1>5, <1>10, <2>1, <3>1
    <3>3. QED
      BY <1>6, <3>1, <3>2
  <2>3. CASE k # L + 1
    <3>1. k - 1 \in 0 .. L - 1 /\ k + 1 \in k + 1 .. L + 1 /\ k - 1 + 1 = k /\ k + 1 - 1 = k
      BY <1>3, <2>3
    <3>2. from[k] = Rest(q, k)
      BY <1>11, <3>1
    <3>3. from[k - 1] = <<q[k]>> \o from[k]
      BY <1>5, <1>10, <2>1, <3>1
    <3>4. Rest(q, k - 1) = <<q[k]>> \o Rest(q, k)
      BY <1>6, <3>1
    <3>5. QED
      BY <3>2, <3>3, <3>4
  <2>4. QED
    BY <2>2, <2>3
<1> HIDE DEF T
<1>12. 1 .. L + 1 \subseteq T
  <2>1. L + 1 \in Nat
    BY <1>3
  <2>2. QED
    BY <1>11, <2>1, Backwards
<1>13. from[0] = Rest(q, 0)
  <2>1. 1 \in 1 .. L + 1 /\ 1 - 1 = 0
    BY <1>3
  <2>2. QED
    BY <1>12, <2>1 DEF T
<1>14. QED
  BY <1>1, <1>6, <1>9, <1>13

\* A tree is listed completely.
LEMMA TreeListed ==
  ASSUME IsTree(device_tree)
  PROVE  DevicesListedOnce
<1>1. PICK q : q = Foreach(device_tree, Root)
  OBVIOUS
<1>2. LsDevFrom(0) = q
  BY <1>1, ListedInOrder
<1>3. /\ ToSet(q) = 1 .. Len(device_tree) /\ Len(q) = Len(device_tree)
      /\ \A k \in 2 .. Len(q) : \E j \in 1 .. k - 1 : q[j] = device_tree[q[k]].parent
  BY <1>1, ForeachOrder
<1>4. DOMAIN device_tree = 1 .. Len(device_tree)
  BY DEF IsTree, Shaped
<1>5. QED
  BY <1>2, <1>3, <1>4 DEF DevicesListedOnce

-----------------------------------------------------------------------------
(* The registry of devices.                                                *)

\* What is found is a node.
LEMMA FindFacts ==
  ASSUME NEW t, IsTree(t), NEW fits
  PROVE  Find(t, fits) = NULL \/ Find(t, fits) \in 1 .. Len(t)
<1>1. PICK order : order = Foreach(t, Root)
  OBVIOUS
<1> DEFINE Y == 1 .. Len(t)
           I == {i \in 1 .. Len(order) : order[i] \in fits}
           k == IF I # {} THEN Min(I) ELSE 0
<1>2. order \in Seq(Y)
  BY <1>1, ForeachOrder
<1>3. Find(t, fits) = IF k = 0 THEN NULL ELSE order[k]
  BY <1>1 DEF Find, SelectInSeq
<1>4. CASE I = {}
  BY <1>3, <1>4
<1>5. CASE I # {}
  <2>1. I \in SUBSET Nat
    OBVIOUS
  <2>2. \E x \in I : \A y \in I : x <= y
    <3> HIDE DEF I
    <3>1. QED
      BY <1>5, <2>1, LeastNatural
  <2>3. Min(I) \in I
    <3> HIDE DEF I
    <3>1. QED
      BY <2>2 DEF Min
  <2>4. k \in 1 .. Len(order)
    BY <1>5, <2>3
  <2> HIDE DEF k, I, Y
  <2>5. order[k] \in Y
    BY <1>2, <2>4
  <2>6. k # 0
    BY <2>4
  <2>7. QED
    BY <1>3, <2>5, <2>6 DEF Y
<1>6. QED
  BY <1>4, <1>5

\* device_register keeps a tree, whatever the parent is.
LEMMA RegisterKeepsTree ==
  ASSUME NEW t, IsTree(t), NEW parent, NEW device
  PROVE  IsTree(DeviceRegister(t, parent, device))
<1>1. PICK found : found = IF parent = NULL THEN Root ELSE Find(t, {parent})
  OBVIOUS
<1>2. DeviceRegister(t, parent, device) =
        IF found = NULL THEN t ELSE Insert(CreateNode(t, device), found, Len(t) + 1)
  BY <1>1 DEF DeviceRegister
<1>3. Len(t) \in Nat /\ Len(t) > 0
  BY DEF IsTree, Shaped, Families
<1>4. found = NULL \/ found \in 1 .. Len(t)
  BY <1>1, <1>3, FindFacts DEF Root
<1>5. QED
  BY <1>2, <1>4, InsertKeepsTree

\* The tree that device_init makes.
LEMMA ComputerIsTree == IsTree(Computer)
<1> DEFINE e == [parent |-> NULL, children |-> NULL, next |-> NULL,
                 name |-> <<"Computer">>, type |-> "reserved", bus |-> "reserved", data |-> NULL]
<1>1. Computer = Append(<<>>, e)
  BY DEF Computer, CreateNode, Device
<1>2. e.children = 0 /\ e.next = 0 /\ e.parent = 0 /\ {"parent", "children", "next"} \subseteq DOMAIN e
  BY DEF NULL
<1> HIDE DEF e
<1>3. Computer = <<e>>
  BY <1>1
<1>4. PICK t : t = Computer
  OBVIOUS
<1>5. t \in Seq({e}) /\ Len(t) = 1 /\ t[1] = e
  BY <1>3, <1>4
<1>6. \A i \in 1 .. 1 : i = 1
  OBVIOUS
<1>7. Shaped(t) /\ Forward(t)
  BY <1>2, <1>5, <1>6 DEF Shaped, Forward
<1>8. Families(t) /\ Reached(t) /\ Once(t)
  <2>1. 2 .. 1 = {}
    OBVIOUS
  <2>2. QED
    BY <1>2, <1>5, <1>6, <2>1 DEF Families, Reached, Once
<1>9. QED
  BY <1>4, <1>7, <1>8 DEF IsTree

\* Another name and type leave a tree as it is.
LEMMA RelabelKeepsTree ==
  ASSUME NEW t, IsTree(t), NEW n, NEW name, NEW type
  PROVE  IsTree([t EXCEPT ![n].name = name, ![n].type = type])
<1> DEFINE e == [t[n] EXCEPT !.name = name]
           v == [t EXCEPT ![n] = e]
           f == [v[n] EXCEPT !.type = type]
           u == [v EXCEPT ![n] = f]
<1>1. PICK S : t \in Seq(S)
  BY DEF IsTree, Shaped
<1>2. Len(t) \in Nat /\ DOMAIN t = 1 .. Len(t)
  BY <1>1
<1>3. u = [t EXCEPT ![n].name = name, ![n].type = type]
  OBVIOUS
<1>4. OfLength(v, S \cup {e}, Len(t))
  <2>1. Replaced(v, t, n, e)
    BY DEF Replaced
  <2>2. OfLength(t, S, Len(t))
    BY <1>1 DEF OfLength
  <2> HIDE DEF v, e
  <2>3. QED
    BY ONLY <2>1, <2>2, ExceptFacts
<1>5. OfLength(u, (S \cup {e}) \cup {f}, Len(t))
  <2>1. Replaced(u, v, n, f)
    BY DEF Replaced
  <2> HIDE DEF u, v, e, f
  <2>2. QED
    BY ONLY <1>4, <2>1, ExceptFacts
<1>6. ASSUME NEW i \in 1 .. Len(t)
      PROVE  /\ u[i].children = t[i].children /\ u[i].next = t[i].next /\ u[i].parent = t[i].parent
             /\ {"parent", "children", "next"} \subseteq DOMAIN u[i]
  <2>1. {"parent", "children", "next"} \subseteq DOMAIN t[i]
    BY DEF IsTree, Shaped
  <2>2. CASE i # n
    <3>1. u[i] = t[i]
      BY <1>2, <2>2
    <3>2. QED
      BY <2>1, <3>1
  <2>3. CASE i = n
    <3>1. /\ e.children = t[i].children /\ e.next = t[i].next /\ e.parent = t[i].parent
          /\ {"parent", "children", "next"} \subseteq DOMAIN e
      BY <2>1, <2>3
    <3>2. v[n] = e /\ DOMAIN v = DOMAIN t
      BY <1>2, <2>3
    <3>3. /\ f.children = e.children /\ f.next = e.next /\ f.parent = e.parent
          /\ {"parent", "children", "next"} \subseteq DOMAIN f
      <4> HIDE DEF e
      <4>1. QED
        BY <3>1, <3>2
    <3>4. u[i] = f
      BY <1>2, <2>3, <3>2
    <3>5. QED
      BY <3>1, <3>3, <3>4
  <2>4. QED
    BY <2>2, <2>3
<1> HIDE DEF u, v, e, f
<1>7. Shaped(u)
  BY <1>5, <1>6 DEF Shaped, OfLength
<1>8. Forward(u)
  BY <1>5, <1>6 DEF Forward, IsTree, OfLength
<1>9. Families(u)
  <2>1. \A i \in 1 .. Len(t) : \A j \in i + 1 .. Len(t) : j \in 1 .. Len(t)
    BY <1>2
  <2>2. \A i \in 1 .. Len(t) :
          /\ t[i].children # 0 => t[i].children \in 1 .. Len(t) /\ t[t[i].children].parent = i
          /\ t[i].next # 0 => t[i].next \in 1 .. Len(t) /\ t[t[i].next].parent = t[i].parent
    BY <2>1 DEF IsTree, Forward, Families
  <2>3. Len(t) > 0 /\ t[1].next = 0 /\ t[1].parent = 0 /\ 1 \in 1 .. Len(t)
    BY <1>2 DEF IsTree, Families
  <2>4. \A i \in 2 .. Len(t) : i \in 1 .. Len(t) /\ t[i].parent \in 1 .. Len(t)
    BY <1>2 DEF IsTree, Families
  <2>5. QED
    BY <1>5, <1>6, <2>2, <2>3, <2>4 DEF Families, OfLength
<1>10. Reached(u)
  BY <1>5, <1>6 DEF Reached, IsTree, OfLength
<1>11. Once(u)
  BY <1>5, <1>6 DEF Once, IsTree, OfLength
<1>12. QED
  BY <1>3, <1>7, <1>8, <1>9, <1>10, <1>11 DEF IsTree

\* The functions of a slot that the scan reaches are finitely many.
LEMMA FunctionsCounted ==
  ASSUME machine \in Machines, NEW slot \in DOMAIN machine.pci
  PROVE  Cardinality(PciFunctions(slot)) \in Nat
<1>1. machine.pci[slot] \in Seq([present : BOOLEAN, multi : BOOLEAN, sata : BOOLEAN,
                                 header : Nat, bar5 : STRING])
  BY DevicesAssumption
<1> DEFINE all == DOMAIN machine.pci[slot]
<1>2. all = 1 .. Len(machine.pci[slot]) /\ Len(machine.pci[slot]) \in Nat
  BY <1>1
<1>3. IsFiniteSet(all)
  BY <1>2, FS_Interval
<1>4. PciFunctions(slot) \subseteq all
  BY DEF PciFunctions
<1> HIDE DEF all
<1>5. IsFiniteSet(PciFunctions(slot))
  BY <1>3, <1>4, FS_Subset
<1>6. QED
  BY <1>5, FS_CardinalityType

\* Registering the functions of a slot keeps a tree.
LEMMA PciInitSlotKeepsTree ==
  ASSUME machine \in Machines, IsTree(device_tree), PciInitSlot
  PROVE  IsTree(device_tree')
<1> DEFINE count == Cardinality(PciFunctions(cursor))
           device(f) == Device(PciDeviceName(cursor, f), "unknown", "pci", <<cursor, f>>)
           slotDevice == Len(device_tree) + 1
           step(tree, f) == DeviceRegister(tree, IF f = 1 THEN NULL ELSE slotDevice, device(f))
           Is(w, m) == w = [f \in 0 .. m |-> IF f = 0 THEN device_tree ELSE step(w[f - 1], f)]
           trees == CHOOSE w : Is(w, count)
<1>1. device_tree' = trees[count]
  BY DEF PciInitSlot
<1>2. count \in Nat
  BY FunctionsCounted DEF PciInitSlot
<1> HIDE DEF count, step
<1>3. \A m \in Nat : \E w : Is(w, m)
  <2> DEFINE U == {m \in Nat : ~\E w : Is(w, m)}
  <2>1. SUFFICES ASSUME U # {} PROVE FALSE
    OBVIOUS
  <2>2. PICK m \in U : \A k \in U : m <= k
    <3>1. U \in SUBSET Nat
      OBVIOUS
    <3> HIDE DEF U
    <3>2. QED
      BY <2>1, <3>1, LeastNatural
  <2>3. CASE m = 0
    <3> DEFINE w == [f \in 0 .. 0 |-> device_tree]
    <3>1. w = [f \in 0 .. 0 |-> IF f = 0 THEN device_tree ELSE step(w[f - 1], f)]
      OBVIOUS
    <3>2. Is(w, 0)
      BY <3>1
    <3> HIDE DEF w, Is
    <3>3. QED
      BY <2>2, <2>3, <3>2
  <2>4. CASE m > 0
    <3>1. m - 1 \in Nat /\ m - 1 \notin U /\ m \in Nat
      <4>1. m \in Nat /\ ~(m <= m - 1) /\ m - 1 \in Nat
        BY <2>4
      <4> HIDE DEF U
      <4>2. QED
        BY <2>2, <4>1
    <3>2. PICK v : Is(v, m - 1)
      BY <3>1
    <3> DEFINE w == [f \in 0 .. m |-> IF f = m THEN step(v[m - 1], m) ELSE v[f]]
    <3>3. \A f \in 0 .. m - 1 : v[f] = IF f = 0 THEN device_tree ELSE step(v[f - 1], f)
      BY <3>2
    <3>4. \A f \in 0 .. m - 1 : f \in 0 .. m /\ f # m /\ w[f] = v[f]
      BY <3>1
    <3>5. w[m] = step(v[m - 1], m) /\ m - 1 \in 0 .. m - 1
      BY <3>1
    <3>6. w = [f \in 0 .. m |-> w[f]]
      OBVIOUS
    <3> HIDE DEF w, Is
    <3>7. ASSUME NEW f \in 0 .. m PROVE w[f] = IF f = 0 THEN device_tree ELSE step(w[f - 1], f)
      <4>1. CASE f = m
        <5>1. w[m - 1] = v[m - 1]
          BY <3>4, <3>5
        <5>2. QED
          BY <2>4, <3>5, <4>1, <5>1
      <4>2. CASE f # m
        <5>1. f \in 0 .. m - 1 /\ (f # 0 => f - 1 \in 0 .. m - 1)
          BY <3>1, <4>2
        <5>2. QED
          BY <3>3, <3>4, <5>1
      <4>3. QED
        BY <4>1, <4>2
    <3>8. Is(w, m)
      BY <3>6, <3>7 DEF Is
    <3>9. QED
      BY <2>2, <3>8
  <2>5. QED
    BY <2>2, <2>3, <2>4
<1>4. Is(trees, count)
  <2> HIDE DEF Is
  <2>1. QED
    BY <1>2, <1>3
<1> HIDE DEF trees
<1>5. \A f \in 0 .. count : trees[f] = IF f = 0 THEN device_tree ELSE step(trees[f - 1], f)
  BY <1>4
<1> HIDE DEF Is
<1>6. \A f \in 0 .. count : IsTree(trees[f])
  <2> DEFINE U == {f \in Nat : f \in 0 .. count /\ ~IsTree(trees[f])}
  <2>1. SUFFICES ASSUME U # {} PROVE FALSE
    BY <1>2
  <2>2. PICK f \in U : \A k \in U : f <= k
    <3>1. U \in SUBSET Nat
      OBVIOUS
    <3> HIDE DEF U
    <3>2. QED
      BY <2>1, <3>1, LeastNatural
  <2>3. f \in 0 .. count /\ ~IsTree(trees[f])
    BY <2>2
  <2>4. f # 0
    BY <1>5, <2>3
  <2>5. f - 1 \in 0 .. count /\ f - 1 \notin U
    BY <1>2, <2>2, <2>3, <2>4
  <2>6. IsTree(trees[f - 1])
    BY <2>5
  <2>7. IsTree(step(trees[f - 1], f))
    BY <2>6, RegisterKeepsTree DEF step
  <2>8. trees[f] = step(trees[f - 1], f)
    BY <1>5, <2>3, <2>4
  <2>9. QED
    BY <2>3, <2>7, <2>8
<1>7. QED
  BY <1>1, <1>2, <1>6

\* The registry is a tree at all times.
DevicesInv == machine \in Machines /\ IsTree(device_tree)

\* device_init makes a tree.
LEMMA DevicesInit == Init => DevicesInv
  BY ComputerIsTree DEF Init, StorageInit, DevicesInv

\* Every driver keeps it a tree, and nothing else changes it.
LEMMA DevicesNext == DevicesInv /\ [Next]_vars => DevicesInv'
<1> SUFFICES ASSUME DevicesInv, [Next]_vars PROVE DevicesInv'
  OBVIOUS
<1>1. machine \in Machines /\ IsTree(device_tree)
  BY DEF DevicesInv
<1> USE <1>1 DEF DevicesInv
<1>2. CASE InitrdInit
  BY <1>2, RegisterKeepsTree DEF InitrdInit
<1>3. CASE VgaInit
  BY <1>3, RegisterKeepsTree DEF VgaInit
<1>4. CASE Ps2KeyboardInit
  BY <1>4, RegisterKeepsTree DEF Ps2KeyboardInit
<1>5. CASE PciInitSlot
  <2>1. machine' = machine
    BY <1>5 DEF PciInitSlot
  <2>2. QED
    BY <1>5, <2>1, PciInitSlotKeepsTree
<1>6. CASE SataInit
  <2>1. \/ \E n : device_tree' = [device_tree EXCEPT ![n].name = <<"AHCI SATA Controller">>,
                                                     ![n].type = "controller"]
        \/ device_tree' = device_tree
    BY <1>6 DEF SataInit
  <2>2. machine' = machine
    BY <1>6 DEF SataInit
  <2>3. ASSUME NEW n, device_tree' = [device_tree EXCEPT ![n].name = <<"AHCI SATA Controller">>,
                                                          ![n].type = "controller"]
        PROVE  IsTree(device_tree')
    <3>1. IsTree([device_tree EXCEPT ![n].name = <<"AHCI SATA Controller">>, ![n].type = "controller"])
      BY <1>1, RelabelKeepsTree
    <3>2. QED
      BY <2>3, <3>1
  <2>4. QED
    BY <2>1, <2>2, <2>3
<1>7. CASE AtaInitRegister
  BY <1>7, RegisterKeepsTree DEF AtaInitRegister
<1>8. CASE UNCHANGED <<machine, device_tree>>
  BY <1>8
<1>9. QED
  <2>1. CASE Boot
    BY <2>1, <1>2, <1>3, <1>4, <1>5, <1>6, <1>7, <1>8
       DEF Boot, BootNext, PciInitDone, AtaInitProbe, InitConsole
  <2>2. CASE Halt \/ UNCHANGED vars
    BY <2>2, <1>8 DEF Halt, vars, deviceVars
  <2>3. CASE \E id \in ShortId : Mount(id)
    BY <2>3, <1>8 DEF Mount, deviceVars
  <2>4. CASE Unmount \/ Open \/ Close \/ List
    BY <2>4, <1>8 DEF Unmount, Open, Close, List, deviceVars
  <2>5. CASE \E name \in Names : Walk(name)
    BY <2>5, <1>8 DEF Walk, deviceVars
  <2>6. CASE \E size \in ReadSizes : Read(size)
    BY <2>6, <1>8 DEF Read, deviceVars
  <2>7. CASE WriteElsewhere
    BY <2>7, <1>8 DEF WriteElsewhere, Write
  <2>8. QED
    BY <2>1, <2>2, <2>3, <2>4, <2>5, <2>6, <2>7 DEF Next, Use

\* On every computer, whatever the drivers have registered, lsdev lists every device,
\* once and below one that it has listed before (generic_tree_insert,
\* generic_tree_foreach, syscall_lsdev).
THEOREM DevicesStayListed == Spec => []DevicesListedOnce
<1>1. DevicesInv => DevicesListedOnce
  BY TreeListed DEF DevicesInv
<1>2. QED
  BY DevicesInit, DevicesNext, <1>1, PTL DEF Spec

-----------------------------------------------------------------------------
(* The registry of volumes.                                                *)

\* Where a volume lies.
Place(v) == <<v.drive, v.offset, v.size>>

\* A list of volumes: their ids differ, and each lies at one of the places in P.
Listed(list, P) ==
  /\ \E S : list \in Seq(S)
  /\ \A i, j \in 1 .. Len(list) : list[i].id = list[j].id => i = j
  /\ \A i \in 1 .. Len(list) : Place(list[i]) \in P

\* A volume that gets a free id can be appended.
LEMMA RegisteredListed ==
  ASSUME NEW P, NEW list, Listed(list, P), NEW v, Place(v) \in P, NEW l \in Registered(list, v)
  PROVE  Listed(l, P)
<1>1. PICK id \in GenerateShortId(list) :
        l = Append(list, [id |-> id, name |-> v.name, drive |-> v.drive, offset |-> v.offset, size |-> v.size])
  BY DEF Registered
<1> DEFINE e == [id |-> id, name |-> v.name, drive |-> v.drive, offset |-> v.offset, size |-> v.size]
<1>2. e.id = id /\ Place(e) = Place(v)
  BY DEF Place
<1>3. l = Append(list, e)
  BY <1>1
<1>4. PICK S : list \in Seq(S)
  BY DEF Listed
<1>5. DOMAIN list = 1 .. Len(list)
  BY <1>4
<1>6. \A i \in 1 .. Len(list) : list[i].id # id
  BY <1>5 DEF GenerateShortId
<1> HIDE DEF e
<1>7. /\ l \in Seq(S \cup {e}) /\ Len(l) = Len(list) + 1 /\ Len(list) \in Nat
      /\ \A i \in 1 .. Len(list) : l[i] = list[i]
      /\ l[Len(list) + 1] = e
  BY <1>3, <1>4, AppendFacts
<1>8. \A i \in 1 .. Len(list) + 1 : i \in 1 .. Len(list) \/ i = Len(list) + 1
  BY <1>7
<1>9. /\ \A i, j \in 1 .. Len(list) : list[i].id = list[j].id => i = j
      /\ \A i \in 1 .. Len(list) : Place(list[i]) \in P
  BY DEF Listed
<1>10. \A i, j \in 1 .. Len(list) + 1 : l[i].id = l[j].id => i = j
  BY <1>2, <1>6, <1>7, <1>8, <1>9
<1>11. \A i \in 1 .. Len(list) + 1 : Place(l[i]) \in P
  BY <1>2, <1>7, <1>8, <1>9
<1>12. QED
  BY <1>7, <1>10, <1>11 DEF Listed

\* What a device brings: the places of its partitions or of the whole device.
Brings(d, name, P) ==
  \A mbr \in MbrRead(d) :
    IF MbrProbe(mbr)
    THEN \A i \in 1 .. 4 : mbr.partitions[i].type # 0 =>
                             Place(PartitionVolume(d, name, mbr.partitions[i], i)) \in P
    ELSE Place(DeviceVolume(d, name)) \in P

\* volume_register_device
LEMMA RegisterDeviceListed ==
  ASSUME NEW P, Listed(volumes, P), NEW d, NEW name, Brings(d, name, P), VolumeRegisterDevice(d, name)
  PROVE  Listed(volumes', P)
<1>0. PICK mbr \in MbrRead(d) :
        volumes' \in IF MbrProbe(mbr)
                     THEN (CHOOSE w : w = [i \in 0 .. 4 |->
                             IF i = 0 THEN {volumes}
                             ELSE IF mbr.partitions[i].type = 0 THEN w[i - 1]
                             ELSE UNION {Registered(list, PartitionVolume(d, name, mbr.partitions[i], i)) :
                                           list \in w[i - 1]}])[4]
                     ELSE Registered(volumes, DeviceVolume(d, name))
  BY DEF VolumeRegisterDevice
<1> DEFINE entry(i) == mbr.partitions[i]
           with(X, i) == UNION {Registered(list, PartitionVolume(d, name, entry(i), i)) : list \in X}
           step(X, i) == IF entry(i).type = 0 THEN X ELSE with(X, i)
           Is(w) == w = [i \in 0 .. 4 |-> IF i = 0 THEN {volumes}
                                          ELSE IF entry(i).type = 0 THEN w[i - 1]
                                          ELSE UNION {Registered(list, PartitionVolume(d, name, entry(i), i)) : list \in w[i - 1]}]
           lists == CHOOSE w : Is(w)
<1>1. volumes' \in IF MbrProbe(mbr) THEN lists[4] ELSE Registered(volumes, DeviceVolume(d, name))
  BY <1>0
<1>2. ASSUME ~MbrProbe(mbr) PROVE Listed(volumes', P)
  BY <1>1, <1>2, RegisteredListed DEF Brings
<1>3. ASSUME MbrProbe(mbr) PROVE Listed(volumes', P)
  <2>1. \A i \in 1 .. 4 : entry(i).type # 0 => Place(PartitionVolume(d, name, entry(i), i)) \in P
    BY <1>3 DEF Brings
  <2>2. volumes' \in lists[4]
    BY <1>1, <1>3
  <2>3. \E w : Is(w)
    <3> DEFINE S0 == {volumes}
               S1 == step(S0, 1)
               S2 == step(S1, 2)
               S3 == step(S2, 3)
               S4 == step(S3, 4)
               w == [i \in 0 .. 4 |-> IF i = 0 THEN S0 ELSE IF i = 1 THEN S1 ELSE IF i = 2 THEN S2
                                      ELSE IF i = 3 THEN S3 ELSE S4]
    <3>1. w[0] = S0 /\ w[1] = S1 /\ w[2] = S2 /\ w[3] = S3 /\ w[4] = S4
      <4> HIDE DEF S0, S1, S2, S3, S4
      <4>1. QED
        OBVIOUS
    <3>2. /\ S0 = {volumes} /\ S1 = step(S0, 1) /\ S2 = step(S1, 2)
          /\ S3 = step(S2, 3) /\ S4 = step(S3, 4)
      OBVIOUS
    <3>3. w = [i \in 0 .. 4 |-> w[i]]
      <4> HIDE DEF S0, S1, S2, S3, S4
      <4>1. QED
        OBVIOUS
    <3> HIDE DEF S0, S1, S2, S3, S4, w, step
    <3>4. \A i \in 0 .. 4 : w[i] = IF i = 0 THEN {volumes} ELSE step(w[i - 1], i)
      <4>1. \A i \in 0 .. 4 : i = 0 \/ i = 1 \/ i = 2 \/ i = 3 \/ i = 4
        OBVIOUS
      <4>2. 1 - 1 = 0 /\ 2 - 1 = 1 /\ 3 - 1 = 2 /\ 4 - 1 = 3
        OBVIOUS
      <4>3. QED
        BY <3>1, <3>2, <4>1, <4>2
    <3> HIDE DEF with, entry
    <3>5. w = [i \in 0 .. 4 |-> IF i = 0 THEN {volumes} ELSE step(w[i - 1], i)]
      BY <3>3, <3>4
    <3>6. Is(w)
      BY <3>5 DEF step, with
    <3> HIDE DEF Is
    <3>7. QED
      BY <3>6
  <2>4. Is(lists)
    <3> HIDE DEF Is
    <3>1. QED
      BY <2>3
  <2> HIDE DEF lists
  <2>5. \A i \in 0 .. 4 : lists[i] = IF i = 0 THEN {volumes} ELSE step(lists[i - 1], i)
    BY <2>4
  <2> HIDE DEF Is, entry, step
  <2>6. ASSUME NEW i \in 1 .. 4, NEW X, \A l \in X : Listed(l, P)
        PROVE  \A l \in step(X, i) : Listed(l, P)
    <3>1. CASE entry(i).type = 0
      BY <2>6, <3>1 DEF step
    <3>2. CASE entry(i).type # 0
      <4>1. PICK v : v = PartitionVolume(d, name, entry(i), i)
        OBVIOUS
      <4>2. Place(v) \in P
        BY <2>1, <3>2, <4>1
      <4>3. step(X, i) = UNION {Registered(list, v) : list \in X}
        BY <3>2, <4>1 DEF step
      <4>4. ASSUME NEW l \in step(X, i) PROVE Listed(l, P)
        <5>1. PICK list \in X : l \in Registered(list, v)
          BY <4>3
        <5>2. QED
          BY <2>6, <4>2, <5>1, RegisteredListed
      <4>5. QED
        BY <4>4
    <3>3. QED
      BY <3>1, <3>2
  <2>7. lists[0] = {volumes} /\ lists[1] = step(lists[0], 1) /\ lists[2] = step(lists[1], 2)
        /\ lists[3] = step(lists[2], 3) /\ lists[4] = step(lists[3], 4)
    BY <2>5
  <2>8. \A l \in lists[0] : Listed(l, P)
    BY <2>7
  <2>9. \A l \in lists[1] : Listed(l, P)
    BY <2>6, <2>7, <2>8
  <2>10. \A l \in lists[2] : Listed(l, P)
    BY <2>6, <2>7, <2>9
  <2>11. \A l \in lists[3] : Listed(l, P)
    BY <2>6, <2>7, <2>10
  <2>12. \A l \in lists[4] : Listed(l, P)
    BY <2>6, <2>7, <2>11
  <2>13. QED
    BY <2>2, <2>12
<1>4. QED
  BY <1>2, <1>3

\* More places do no harm.
LEMMA ListedMore ==
  ASSUME NEW list, NEW P, NEW Q, Listed(list, P), P \subseteq Q
  PROVE  Listed(list, Q)
BY DEF Listed

\* The volumes have ids of their own at all times.
VolumesInv == \E P : Listed(volumes, P)

\* volume_register_device keeps them apart.
LEMMA RegisterDeviceAddressable ==
  ASSUME VolumesInv, NEW d, NEW name, VolumeRegisterDevice(d, name)
  PROVE  VolumesInv'
<1>1. PICK P : Listed(volumes, P)
  BY DEF VolumesInv
<1> DEFINE Q == P \cup {Place(DeviceVolume(d, name))}
                  \cup {Place(PartitionVolume(d, name, mbr.partitions[i], i)) :
                          mbr \in MbrRead(d), i \in 1 .. 4}
<1>2. Listed(volumes, Q)
  BY <1>1, ListedMore
<1>3. Brings(d, name, Q)
  BY DEF Brings
<1> HIDE DEF Q
<1>4. Listed(volumes', Q)
  BY <1>2, <1>3, RegisterDeviceListed
<1>5. QED
  BY <1>4 DEF VolumesInv

\* There are no volumes yet.
LEMMA VolumesInit == Init => VolumesInv
<1> SUFFICES ASSUME Init PROVE VolumesInv
  OBVIOUS
<1>1. volumes = <<>>
  BY DEF Init, StorageInit
<1>2. <<>> \in Seq({}) /\ Len(<<>>) = 0 /\ 1 .. 0 = {}
  OBVIOUS
<1>3. Listed(volumes, {})
  BY <1>1, <1>2 DEF Listed
<1>4. QED
  BY <1>3 DEF VolumesInv

\* Only the drivers register volumes.
LEMMA VolumesNext == VolumesInv /\ [Next]_vars => VolumesInv'
<1> SUFFICES ASSUME VolumesInv, [Next]_vars PROVE VolumesInv'
  OBVIOUS
<1>1. CASE UNCHANGED volumes
  BY <1>1 DEF VolumesInv
<1>2. CASE InitrdInit
  BY <1>1, <1>2, RegisterDeviceAddressable DEF InitrdInit
<1>3. CASE AtaInitRegister
  BY <1>1, <1>3, RegisterDeviceAddressable DEF AtaInitRegister
<1>4. QED
  <2>1. CASE Boot
    BY <2>1, <1>1, <1>2, <1>3
       DEF Boot, BootNext, AtaInitProbe, InitConsole, storageVars
  <2>2. CASE Halt \/ UNCHANGED vars
    BY <2>2, <1>1 DEF Halt, vars, storageVars
  <2>3. CASE \E id \in ShortId : Mount(id)
    BY <2>3, <1>1 DEF Mount, storageVars
  <2>4. CASE Unmount \/ Open \/ Close \/ List
    BY <2>4, <1>1 DEF Unmount, Open, Close, List, storageVars
  <2>5. CASE \E name \in Names : Walk(name)
    BY <2>5, <1>1 DEF Walk, storageVars
  <2>6. CASE \E size \in ReadSizes : Read(size)
    BY <2>6, <1>1 DEF Read, storageVars
  <2>7. CASE WriteElsewhere
    BY <2>7, <1>1 DEF WriteElsewhere, Write
  <2>8. QED
    BY <2>1, <2>2, <2>3, <2>4, <2>5, <2>6, <2>7 DEF Next, Use

\* The first element that fits is the only one.
LEMMA IdLeadsBack ==
  ASSUME VolumesInv, NEW i \in DOMAIN volumes
  PROVE  LsVol(i - 1) = i /\ VolumeFindById(volumes[i].id) = i
<1> DEFINE I == {j \in 1 .. Len(volumes) : volumes[j].id = volumes[i].id}
<1>1. /\ \E S : volumes \in Seq(S)
      /\ \A j, k \in 1 .. Len(volumes) : volumes[j].id = volumes[k].id => j = k
  BY DEF VolumesInv, Listed
<1>2. i \in 1 .. Len(volumes) /\ Len(volumes) \in Nat
  BY <1>1
<1>3. I = {i}
  BY <1>1, <1>2
<1>4. VolumeFindById(volumes[i].id) = IF I # {} THEN Min(I) ELSE 0
  BY DEF VolumeFindById, SelectInSeq
<1>5. Min({i}) = i
  BY <1>2 DEF Min
<1> HIDE DEF I
<1>6. VolumeFindById(volumes[i].id) = i
  BY <1>3, <1>4, <1>5
<1>7. LsVol(i - 1) = i
  BY <1>2 DEF LsVol
<1>8. QED
  BY <1>6, <1>7

\* On every computer, the id that lsvol shows for a volume leads to this volume and to
\* no other (generate_short_id with volume_id_exists, volume_find_by_id).
THEOREM VolumesStayAddressable == Spec => []VolumesAddressable
<1>1. VolumesInv => VolumesAddressable
  BY IdLeadsBack DEF VolumesAddressable
<1>2. QED
  BY VolumesInit, VolumesNext, <1>1, PTL DEF Spec

-----------------------------------------------------------------------------
(* The sectors of a range.                                                 *)

\* Quotient and remainder.
LEMMA Quotient ==
  ASSUME NEW a \in Int, NEW s \in Nat \ {0}
  PROVE  a \div s \in Int /\ a % s \in 0 .. s - 1 /\ a = (a \div s) * s + (a % s)
<1>1. a % s \in 0 .. s - 1
  BY Z3
<1>2. a \div s \in Int
  BY Z3
<1>3. a % s = a - s * (a \div s)
  BY Z3
<1>4. s * (a \div s) = (a \div s) * s /\ s * (a \div s) \in Int
  BY <1>2
<1>5. QED
  BY <1>1, <1>2, <1>3, <1>4

\* Multiples of a sector are as far apart as the sectors.
LEMMA Multiples ==
  ASSUME NEW x \in Int, NEW y \in Int, NEW s \in Nat \ {0}
  PROVE  /\ x * s \in Int /\ y * s \in Int
         /\ x < y => x * s + s <= y * s
         /\ (x + 1) * s = x * s + s
         /\ (x - y) * s = x * s - y * s
<1>1. /\ x * s \in Int /\ y * s \in Int
      /\ (x + 1) * s = x * s + s
      /\ (x - y) * s = x * s - y * s
  OBVIOUS
<1>2. ASSUME x < y PROVE x * s + s <= y * s
  <2>1. (y - x - 1) * s >= 0
    BY <1>2
  <2>2. (y - x - 1) * s = y * s - x * s - s
    OBVIOUS
  <2>3. QED
    BY <1>1, <2>1, <2>2
<1>3. QED
  BY <1>1, <1>2

\* A position c, the p-th cell of sector l, in a range that begins with a sector or
\* stays in one: whether it is in the range is seen from where it lies in its
\* sector, and so is how far it is from the beginning of the range.
InSector(s, at, size, c, first, b, last, l, p) ==
  /\ first \in Nat /\ last \in Int /\ b \in 0 .. s - 1 /\ last >= first - 1
  /\ l \in Nat /\ p \in 1 .. s /\ l * s \in Nat /\ c = l * s + p
  /\ c > at => l >= first
  /\ c <= at + size => l <= last
  /\ l \in first .. last =>
       /\ (p > b /\ p <= b + (IF l = last THEN ((at + size - 1) % s) - b + 1 ELSE s - b))
            <=> (c > at /\ c <= at + size)
       /\ c > at => (l - first) * (s - b) + p - b = c - at

\* The arithmetic of ata_read and ata_write, which count sectors from 0.
LEMMA SectorArithmetic ==
  ASSUME NEW s \in Nat \ {0}, NEW at \in Nat, NEW size \in Nat, NEW c \in Nat \ {0},
         NEW first, first = at \div s, NEW b, b = at % s, NEW last, last = (at + size - 1) \div s,
         b = 0 \/ first = last,
         NEW l, l = (c - 1) \div s, NEW p, p = ((c - 1) % s) + 1
  PROVE  InSector(s, at, size, c, first, b, last, l, p)
<1> DEFINE r == (at + size - 1) % s
<1>1. first \in Int /\ b \in 0 .. s - 1 /\ at = first * s + b
  BY Quotient
<1>2. last \in Int /\ r \in 0 .. s - 1 /\ at + size - 1 = last * s + r
  <2>1. at + size - 1 \in Int
    OBVIOUS
  <2>2. QED
    BY <2>1, Quotient
<1>3. l \in Int /\ p - 1 \in 0 .. s - 1 /\ c - 1 = l * s + (p - 1) /\ p \in Int
  <2>1. c - 1 \in Int
    OBVIOUS
  <2> DEFINE q == (c - 1) % s
  <2>2. l \in Int /\ q \in 0 .. s - 1 /\ c - 1 = l * s + q
    BY <2>1, Quotient
  <2> HIDE DEF q
  <2>3. p = q + 1
    BY DEF q
  <2>4. QED
    BY <2>2, <2>3
<1> HIDE DEF r
<1>4. \A x, y \in Int : /\ x * s \in Int /\ y * s \in Int
                        /\ x < y => x * s + s <= y * s
                        /\ (x + 1) * s = x * s + s
                        /\ (x - y) * s = x * s - y * s
  BY Multiples
<1>5. first \in Nat /\ l \in Nat
  <2>1. first < 0 => first * s + s <= 0 * s
    BY <1>1, <1>4
  <2>2. l < 0 => l * s + s <= 0 * s
    BY <1>3, <1>4
  <2>3. 0 * s = 0
    OBVIOUS
  <2>4. first * s \in Int /\ l * s \in Int
    BY <1>1, <1>3, <1>4
  <2>5. QED
    BY ONLY <1>1, <1>3, <2>1, <2>2, <2>3, <2>4, at \in Nat, c \in Nat \ {0}, s \in Nat \ {0}
<1> DEFINE F == first * s
           L == l * s
           M == last * s
<1>6. F \in Int /\ L \in Int /\ M \in Int
  BY <1>1, <1>2, <1>3, <1>4
<1>7. /\ l < first => L + s <= F
      /\ last < l => M + s <= L
      /\ first < l => F + s <= L
      /\ l < last => L + s <= M
      /\ last + 1 < first => M + s + s <= F
  <2>1. last + 1 < first => (last + 1) * s + s <= F
    BY <1>1, <1>2, <1>4
  <2>2. (last + 1) * s = M + s
    BY <1>2, <1>4
  <2>3. QED
    BY <1>1, <1>2, <1>3, <1>4, <2>1, <2>2
<1>8. L \in Nat
  BY <1>5
<1>9. l = first => L = F
  OBVIOUS
<1>10. l = last => L = M
  OBVIOUS
<1>11. first = last => F = M
  OBVIOUS
<1>12. at = F + b /\ at + size - 1 = M + r /\ c = L + p /\ p \in 1 .. s
  BY <1>1, <1>2, <1>3, <1>6
<1>13. (l - first) * s = L - F
  BY <1>1, <1>3, <1>4
<1> HIDE DEF F, L, M
<1>14. last >= first - 1
  BY ONLY <1>1, <1>2, <1>6, <1>7, <1>12, at \in Nat, size \in Nat, s \in Nat \ {0}
<1>15. c > at => l >= first
  BY ONLY <1>1, <1>3, <1>6, <1>7, <1>12, at \in Nat, s \in Nat \ {0}
<1>16. c <= at + size => l <= last
  BY ONLY <1>2, <1>3, <1>6, <1>7, <1>12, at \in Nat, size \in Nat, s \in Nat \ {0}
<1>17. ASSUME l \in first .. last
       PROVE  /\ (p > b /\ p <= b + (IF l = last THEN r - b + 1 ELSE s - b))
                   <=> (c > at /\ c <= at + size)
              /\ c > at => (l - first) * (s - b) + p - b = c - at
  <2>1. CASE b = 0
    <3>1. (l - first) * (s - b) = L - F
      BY <1>13, <2>1
    <3>2. (l - first) * (s - b) + p - b = c - at
      BY ONLY <1>1, <1>3, <1>6, <1>12, <2>1, <3>1
    <3>3. c > at /\ p > b
      BY ONLY <1>1, <1>3, <1>6, <1>7, <1>9, <1>12, <1>17, <2>1, s \in Nat \ {0}
    <3>4. CASE l = last
      BY ONLY <1>2, <1>3, <1>6, <1>10, <1>12, <2>1, <3>2, <3>3, <3>4, at \in Nat, size \in Nat
    <3>5. CASE l < last
      <4>1. p <= b + (s - b)
        BY ONLY <1>12, <2>1, s \in Nat \ {0}
      <4>2. c <= at + size
        BY ONLY <1>2, <1>3, <1>6, <1>7, <1>12, <3>5, at \in Nat, size \in Nat, s \in Nat \ {0}
      <4>3. l # last
        BY ONLY <1>2, <1>3, <3>5
      <4>4. QED
        BY <3>2, <3>3, <4>1, <4>2, <4>3
    <3>6. QED
      BY ONLY <1>2, <1>3, <1>17, <3>4, <3>5, <1>1
  <2>2. CASE b # 0
    <3>1. first = last /\ l = first
      BY <1>1, <1>2, <1>3, <1>17, <2>2
    <3>2. (l - first) * (s - b) = 0
      BY <1>1, <3>1
    <3>3. L = F /\ M = F
      BY ONLY <1>9, <1>11, <3>1
    <3>4. (l - first) * (s - b) + p - b = c - at
      BY ONLY <1>1, <1>3, <1>6, <1>12, <3>2, <3>3
    <3>5. QED
      BY ONLY <1>1, <1>2, <1>3, <1>6, <1>12, <3>1, <3>3, <3>4, at \in Nat, size \in Nat
  <2>3. QED
    BY <2>1, <2>2
<1>18. L = l * s
  BY DEF L
<1>19. QED
  BY <1>1, <1>2, <1>5, <1>8, <1>12, <1>14, <1>15, <1>16, <1>17, <1>18 DEF r, InSector

\* What fits in a word is not cut.
LEMMA WrapSmall ==
  ASSUME NEW n \in 0 .. Word - 1
  PROVE  Wrap(n) = n
<1> DEFINE w == Word
<1>1. w \in Nat \ {0} /\ n \in 0 .. w - 1
  BY VolumesAssumption
<1> HIDE DEF w
<1>2. n % w = n
  BY <1>1, Z3
<1>3. QED
  BY <1>2 DEF Wrap, w

\* What does not is.
LEMMA WrapFacts ==
  ASSUME NEW n \in Int
  PROVE  Wrap(n) \in 0 .. Word - 1 /\ (n >= 0 => Wrap(n) <= n)
<1> DEFINE w == Word
<1>1. w \in Nat \ {0}
  BY VolumesAssumption
<1> HIDE DEF w
<1> DEFINE q == n \div w
           r == n % w
<1>2. q \in Int /\ r \in 0 .. w - 1 /\ n = q * w + r
  BY <1>1, Quotient
<1> HIDE DEF q, r
<1>3. n >= 0 => r <= n
  <2>1. q < 0 => q * w + w <= 0 * w
    BY <1>1, <1>2, Multiples
  <2>2. 0 <= q => 0 <= q * w
    BY <1>1, <1>2
  <2>3. q * w \in Int /\ 0 * w = 0
    BY <1>1, <1>2
  <2>4. QED
    BY ONLY <1>1, <1>2, <2>1, <2>2, <2>3, n \in Int
<1>4. QED
  BY <1>2, <1>3 DEF r, w, Wrap

-----------------------------------------------------------------------------
(* Writing to a drive.                                                     *)

\* A disk is a sequence, if not always of the cells it had.
Disks == Drive \cup {Ramdisk}

\* Every disk has as many cells as it had when the kernel booted.
DisksShaped ==
  /\ disk = [d \in Disks |-> disk[d]]
  /\ \A d \in Disks : /\ DOMAIN disk[d] = 1 .. Len(machine.disk[d]) /\ Len(machine.disk[d]) \in Nat
                      /\ disk[d] = [c \in DOMAIN disk[d] |-> disk[d][c]]

\* A sector of the range as ata_write alters it.
Altered(d, at, cells, k) ==
  [p \in 1 .. SectorSize |->
     IF p > Begin(at) /\ p <= Begin(at) + Moved(at, Len(cells), FirstSector(at) + k)
     THEN cells[k * (SectorSize - Begin(at)) + p - Begin(at)]
     ELSE ReadSector(d, FirstSector(at) + k)[p]]

\* Ranges that ata_write handles, see SectorSafe, and whose end it can count.
Handled(at, cells) ==
  /\ at + Len(cells) \in 1 .. Word
  /\ Begin(at) = 0 \/ FirstSector(at) = LastSector(at, Len(cells))

\* What a position of the disk gets from the altered sector.
LEMMA AlteredCell ==
  ASSUME DisksShaped, NEW d \in Drive, IsMaster(d), NEW at \in Nat, NEW cells, Len(cells) \in Nat,
         Handled(at, cells), NEW c \in DOMAIN disk[d], NEW k \in Nat,
         (c - 1) \div SectorSize = FirstSector(at) + k,
         FirstSector(at) + k <= LastSector(at, Len(cells))
  PROVE  Altered(d, at, cells, k)[((c - 1) % SectorSize) + 1] =
           IF c > at /\ c <= at + Len(cells) THEN cells[c - at] ELSE disk[d][c]
<1> DEFINE s == SectorSize
           size == Len(cells)
           first == at \div s
           last == (at + size - 1) \div s
           b == at % s
           l == (c - 1) \div s
           p == ((c - 1) % s) + 1
<1>1. s \in Nat \ {0} /\ c \in Nat \ {0} /\ d \in Disks
  <2>1. d \in Disks
    BY DEF Disks
  <2>2. c \in 1 .. Len(machine.disk[d]) /\ Len(machine.disk[d]) \in Nat
    BY <2>1 DEF DisksShaped
  <2>3. c \in Nat \ {0}
    BY ONLY <2>2
  <2>4. QED
    BY <2>1, <2>3, VolumesAssumption
<1>0. Wrap(at + size - 1) = at + size - 1
  <2>1. at + size - 1 \in 0 .. Word - 1
    <3>1. at + size \in 1 .. Word /\ Word \in Nat
      BY VolumesAssumption DEF Handled
    <3>2. at \in Int /\ size \in Int
      OBVIOUS
    <3> HIDE DEF size
    <3>3. QED
      BY ONLY <3>1, <3>2
  <2>2. QED
    BY <2>1, WrapSmall
<1>2. FirstSector(at) = first /\ LastSector(at, size) = last /\ Begin(at) = b
  BY <1>0 DEF FirstSector, LastSector, Begin
<1>3. InSector(s, at, size, c, first, b, last, l, p)
  <2>1. b = 0 \/ first = last
    BY <1>2 DEF Handled
  <2>2. size \in Nat
    OBVIOUS
  <2>3. first = at \div s /\ b = at % s /\ last = (at + size - 1) \div s
    OBVIOUS
  <2>4. l = (c - 1) \div s /\ p = ((c - 1) % s) + 1
    OBVIOUS
  <2> HIDE DEF s, size, first, last, b, l, p
  <2>5. QED
    BY ONLY <1>1, <2>1, <2>2, <2>3, <2>4, at \in Nat, SectorArithmetic
<1>4. Moved(at, size, first + k) = IF first + k = last THEN ((at + size - 1) % s) - b + 1 ELSE s - b
  BY <1>0, <1>2 DEF Moved
<1>5. l = first + k /\ l <= last
  BY <1>2
<1>6. Altered(d, at, cells, k)[p] =
        IF p > b /\ p <= b + Moved(at, size, first + k)
        THEN cells[k * (s - b) + p - b] ELSE ReadSector(d, first + k)[p]
  <2>1. p \in 1 .. s
    BY <1>3 DEF InSector
  <2>2. QED
    BY <1>2, <2>1 DEF Altered
<1>7. ReadSector(d, first + k)[p] = disk[d][c]
  <2>1. Selected(d) = d
    BY DEF Selected, IoBase, IsMaster, Drive
  <2>2. p \in 1 .. s /\ l * s + p = c
    BY <1>3 DEF InSector
  <2> HIDE DEF l, p
  <2>3. ReadSector(d, l)[p] = disk[d][c]
    BY <2>1, <2>2 DEF ReadSector
  <2>4. QED
    BY <1>5, <2>3
<1> HIDE DEF s, size, first, last, b, l, p
<1>8. l \in first .. last
  BY <1>3, <1>5 DEF InSector
<1>9. (p > b /\ p <= b + Moved(at, size, first + k)) <=> (c > at /\ c <= at + size)
  BY <1>3, <1>4, <1>5, <1>8 DEF InSector
<1>10. c > at => k * (s - b) + p - b = c - at
  <2>1. l - first = k
    BY <1>3, <1>5 DEF InSector
  <2>2. QED
    BY <1>3, <1>8, <2>1 DEF InSector
<1>11. Altered(d, at, cells, k)[p] = IF c > at /\ c <= at + size THEN cells[c - at] ELSE disk[d][c]
  BY <1>6, <1>7, <1>9, <1>10
<1>12. QED
  BY <1>11 DEF p, s, size

\* Where a position of the disk lies with respect to a range.
LEMMA CellOfRange ==
  ASSUME DisksShaped, NEW d \in Drive, NEW at \in Nat, NEW cells, Len(cells) \in Nat,
         Handled(at, cells), NEW c \in DOMAIN disk[d]
  PROVE  /\ FirstSector(at) \in Nat /\ LastSector(at, Len(cells)) \in Int
         /\ LastSector(at, Len(cells)) >= FirstSector(at) - 1
         /\ c \in Nat \ {0} /\ (c - 1) \div SectorSize \in Nat
         /\ c > at => (c - 1) \div SectorSize >= FirstSector(at)
         /\ c <= at + Len(cells) => (c - 1) \div SectorSize <= LastSector(at, Len(cells))
<1> DEFINE s == SectorSize
           size == Len(cells)
           first == at \div s
           last == (at + size - 1) \div s
           b == at % s
           l == (c - 1) \div s
           p == ((c - 1) % s) + 1
<1>1. s \in Nat \ {0} /\ c \in Nat \ {0}
  <2>1. d \in Disks
    BY DEF Disks
  <2>2. c \in 1 .. Len(machine.disk[d]) /\ Len(machine.disk[d]) \in Nat
    BY <2>1 DEF DisksShaped
  <2>3. c \in Nat \ {0}
    BY ONLY <2>2
  <2>4. QED
    BY <2>3, VolumesAssumption
<1>0. Wrap(at + size - 1) = at + size - 1
  <2>1. at + size - 1 \in 0 .. Word - 1
    <3>1. at + size \in 1 .. Word /\ Word \in Nat
      BY VolumesAssumption DEF Handled
    <3>2. at \in Int /\ size \in Int
      OBVIOUS
    <3> HIDE DEF size
    <3>3. QED
      BY ONLY <3>1, <3>2
  <2>2. QED
    BY <2>1, WrapSmall
<1>2. FirstSector(at) = first /\ LastSector(at, size) = last /\ Begin(at) = b
  BY <1>0 DEF FirstSector, LastSector, Begin
<1>3. (b = 0 \/ first = last) /\ size \in Nat
  BY <1>2 DEF Handled
<1>4. first = at \div s /\ b = at % s /\ last = (at + size - 1) \div s
  OBVIOUS
<1>5. l = (c - 1) \div s /\ p = ((c - 1) % s) + 1
  OBVIOUS
<1> HIDE DEF s, size, first, last, b, l, p
<1>6. InSector(s, at, size, c, first, b, last, l, p)
  BY ONLY <1>1, <1>3, <1>4, <1>5, at \in Nat, SectorArithmetic
<1>7. /\ first \in Nat /\ last \in Int /\ last >= first - 1 /\ l \in Nat
      /\ c > at => l >= first
      /\ c <= at + size => l <= last
  BY ONLY <1>6 DEF InSector
<1>8. FirstSector(at) = first /\ LastSector(at, Len(cells)) = last /\ (c - 1) \div SectorSize = l
  BY <1>2 DEF size, l, s
<1>9. Len(cells) = size
  BY DEF size
<1>10. QED
  BY ONLY <1>1, <1>7, <1>8, <1>9

\* The same for a range without a position on the disk.
LEMMA SectorsOfRange ==
  ASSUME NEW at \in Nat, NEW cells, Len(cells) \in Nat, Handled(at, cells)
  PROVE  /\ FirstSector(at) \in Nat /\ LastSector(at, Len(cells)) \in Int
         /\ LastSector(at, Len(cells)) >= FirstSector(at) - 1
<1> DEFINE s == SectorSize
           size == Len(cells)
           first == at \div s
           last == (at + size - 1) \div s
           b == at % s
           l == (1 - 1) \div s
           p == ((1 - 1) % s) + 1
<1>1. s \in Nat \ {0} /\ 1 \in Nat \ {0}
  BY VolumesAssumption
<1>0. Wrap(at + size - 1) = at + size - 1
  <2>1. at + size - 1 \in 0 .. Word - 1
    <3>1. at + size \in 1 .. Word /\ Word \in Nat
      BY VolumesAssumption DEF Handled
    <3>2. at \in Int /\ size \in Int
      OBVIOUS
    <3> HIDE DEF size
    <3>3. QED
      BY ONLY <3>1, <3>2
  <2>2. QED
    BY <2>1, WrapSmall
<1>2. FirstSector(at) = first /\ LastSector(at, size) = last /\ Begin(at) = b
  BY <1>0 DEF FirstSector, LastSector, Begin
<1>3. (b = 0 \/ first = last) /\ size \in Nat
  BY <1>2 DEF Handled
<1>4. first = at \div s /\ b = at % s /\ last = (at + size - 1) \div s
  OBVIOUS
<1>5. l = (1 - 1) \div s /\ p = ((1 - 1) % s) + 1
  OBVIOUS
<1> HIDE DEF s, size, first, last, b, l, p
<1>6. InSector(s, at, size, 1, first, b, last, l, p)
  BY ONLY <1>1, <1>3, <1>4, <1>5, at \in Nat, SectorArithmetic
<1>7. first \in Nat /\ last \in Int /\ last >= first - 1
  BY ONLY <1>6 DEF InSector
<1>8. LastSector(at, Len(cells)) = last
  BY <1>2 DEF size
<1>9. QED
  BY ONLY <1>2, <1>7, <1>8

\* A natural number in sectors.
LEMMA SectorOf ==
  ASSUME NEW n \in Nat
  PROVE  /\ n \div SectorSize \in Nat /\ n % SectorSize \in 0 .. SectorSize - 1
         /\ n = (n \div SectorSize) * SectorSize + (n % SectorSize)
<1> DEFINE s == SectorSize
<1>1. s \in Nat \ {0}
  BY VolumesAssumption
<1> HIDE DEF s
<1> DEFINE q == n \div s
           r == n % s
<1>2. q \in Int /\ r \in 0 .. s - 1 /\ n = q * s + r
  BY <1>1, Quotient
<1>3. q < 0 => q * s + s <= 0 * s
  BY <1>1, <1>2, Multiples
<1>4. 0 * s = 0 /\ q * s \in Int
  BY <1>1, <1>2
<1> HIDE DEF q, r
<1>5. q >= 0
  BY ONLY <1>1, <1>2, <1>3, <1>4, n \in Nat
<1>6. QED
  BY <1>2, <1>5 DEF q, r, s

\* A position of a disk is a natural number.
LEMMA PositionOf ==
  ASSUME DisksShaped, NEW e \in Disks, NEW c \in DOMAIN disk[e]
  PROVE  c \in Nat /\ c - 1 \in Nat
<1>1. c \in 1 .. Len(machine.disk[e]) /\ Len(machine.disk[e]) \in Nat
  BY DEF DisksShaped
<1>2. QED
  BY ONLY <1>1

\* The drive that is reached is one.
LEMMA SelectedDrive ==
  ASSUME DisksShaped, NEW d \in Drive
  PROVE  Selected(d) \in Drive /\ Selected(d) \in Disks /\ DOMAIN disk = Disks
<1>1. Selected(d) \in Drive
  BY DEF Selected, IoBase, Drive
<1>2. DOMAIN [e \in Disks |-> disk[e]] = Disks
  OBVIOUS
<1>3. QED
  BY <1>1, <1>2 DEF DisksShaped, Disks

\* The drive when the sectors of the range before sector l have been written back.
Rewritten(d, at, cells, l) ==
  [c \in DOMAIN disk[Selected(d)] |->
     IF FirstSector(at) <= (c - 1) \div SectorSize /\ (c - 1) \div SectorSize < l
     THEN Altered(d, at, cells, ((c - 1) \div SectorSize) - FirstSector(at))[((c - 1) % SectorSize) + 1]
     ELSE disk[Selected(d)][c]]
WrittenUpTo(d, at, cells, l) == [disk EXCEPT ![Selected(d)] = Rewritten(d, at, cells, l)]

\* Writing one more sector.
LEMMA WriteOneSector ==
  ASSUME DisksShaped, NEW d \in Drive, NEW at \in Nat, NEW cells, NEW k \in Nat
  PROVE  WriteSector(WrittenUpTo(d, at, cells, FirstSector(at) + k), d, FirstSector(at) + k,
                     Altered(d, at, cells, k)) =
           WrittenUpTo(d, at, cells, FirstSector(at) + k + 1)
<1> DEFINE e == Selected(d)
           l == FirstSector(at) + k
           x == Rewritten(d, at, cells, l)
           y == Rewritten(d, at, cells, l + 1)
           v == WrittenUpTo(d, at, cells, l)
           a == Altered(d, at, cells, k)
           z == [c \in DOMAIN x |-> IF (c - 1) \div SectorSize = l
                                    THEN a[((c - 1) % SectorSize) + 1] ELSE x[c]]
<1>1. e \in Disks /\ DOMAIN disk = Disks
  BY SelectedDrive
<1>2. FirstSector(at) \in Nat /\ l \in Nat
  BY SectorOf DEF FirstSector
<1>3. v = [disk EXCEPT ![e] = x]
  BY DEF WrittenUpTo
<1>4. v[e] = x
  BY <1>1, <1>3
<1>5. WriteSector(v, d, l, a) = [v EXCEPT ![e] = z]
  <2> HIDE DEF x, v, a, l
  <2>1. WriteSector(v, d, l, a) =
          [v EXCEPT ![e] = [c \in DOMAIN v[e] |-> IF (c - 1) \div SectorSize = l
                                               THEN a[((c - 1) % SectorSize) + 1] ELSE v[e][c]]]
    BY DEF WriteSector
  <2>2. QED
    BY <1>4, <2>1
<1>6. z = y
  <2>1. DOMAIN x = DOMAIN disk[e] /\ DOMAIN y = DOMAIN disk[e]
    BY DEF Rewritten
  <2>2. ASSUME NEW c \in DOMAIN disk[e] PROVE z[c] = y[c]
    <3> DEFINE m == (c - 1) \div SectorSize
               first == FirstSector(at)
               new(j) == Altered(d, at, cells, j)[((c - 1) % SectorSize) + 1]
    <3>1. m \in Nat
      BY <1>1, PositionOf, SectorOf
    <3>2. /\ x[c] = IF first <= m /\ m < l THEN new(m - first) ELSE disk[e][c]
          /\ y[c] = IF first <= m /\ m < l + 1 THEN new(m - first) ELSE disk[e][c]
      BY DEF Rewritten
    <3>3. z[c] = IF m = l THEN new(k) ELSE x[c]
      BY <2>1
    <3>4. l = first + k
      OBVIOUS
    <3> HIDE DEF x, y, z, m, l, new, first
    <3>5. CASE m = l
      <4>1. m - first = k /\ first <= m /\ m < l + 1
        BY <1>2, <3>1, <3>4, <3>5 DEF first
      <4>2. QED
        BY <3>2, <3>3, <3>5, <4>1
    <3>6. CASE m # l
      <4>1. m < l <=> m < l + 1
        BY <1>2, <3>1, <3>6
      <4>2. QED
        BY <3>2, <3>3, <3>6, <4>1
    <3>7. QED
      BY <3>5, <3>6
  <2>3. z = [c \in DOMAIN disk[e] |-> z[c]]
    BY <2>1
  <2>4. y = [c \in DOMAIN disk[e] |-> y[c]]
    BY <2>1 DEF Rewritten
  <2> HIDE DEF y, z
  <2>5. QED
    BY <2>2, <2>3, <2>4
<1> HIDE DEF x, y, v, a, z, e
<1>7. [v EXCEPT ![e] = y] = [disk EXCEPT ![e] = y]
  BY <1>1, <1>3
<1>8. QED
  BY <1>5, <1>6, <1>7 DEF v, a, y, l, e, WrittenUpTo

\* ata_write rewrites the sectors of the range, each once.
LEMMA AtaWriteIs ==
  ASSUME DisksShaped, NEW d \in Drive, NEW at \in Nat, NEW cells,
         LastSector(at, Len(cells)) \in Int, FirstSector(at) <= LastSector(at, Len(cells)),
         ~AtaRefuses(d, at, Len(cells))
  PROVE  AtaWrite(d, at, cells) = WrittenUpTo(d, at, cells, LastSector(at, Len(cells)) + 1)
<1> DEFINE first == FirstSector(at)
           last == LastSector(at, Len(cells))
           K == last - first + 1
           Is(w) == w = [k \in 0 .. LastSector(at, Len(cells)) - FirstSector(at) + 1 |->
                           IF k = 0 THEN disk
                           ELSE WriteSector(w[k - 1], d, FirstSector(at) + k - 1, Altered(d, at, cells, k - 1))]
           after == CHOOSE w : Is(w)
           Z(k) == WrittenUpTo(d, at, cells, first + k)
<1>1. first \in Nat /\ last \in Int /\ K \in Nat /\ ~(last < first) /\ first + K = last + 1
  <2>1. first \in Nat
    BY SectorOf DEF FirstSector
  <2>2. last \in Int /\ first <= last
    OBVIOUS
  <2> HIDE DEF first, last
  <2>3. QED
    BY <2>1, <2>2
<1>2. Selected(d) \in Disks /\ disk = [e \in Disks |-> disk[e]]
      /\ disk[Selected(d)] = [c \in DOMAIN disk[Selected(d)] |-> disk[Selected(d)][c]]
  BY SelectedDrive DEF DisksShaped
<1>3. AtaWrite(d, at, cells) = after[K]
  BY <1>1 DEF AtaWrite, Altered
<1>4. Z(0) = disk
  <2> DEFINE x == Rewritten(d, at, cells, first + 0)
             e == Selected(d)
  <2>1. ASSUME NEW c \in DOMAIN disk[e] PROVE x[c] = disk[e][c]
    <3>1. (c - 1) \div SectorSize \in Nat
      BY <1>2, PositionOf, SectorOf
    <3>2. ~(first <= (c - 1) \div SectorSize /\ (c - 1) \div SectorSize < first + 0)
      BY <1>1, <3>1
    <3>3. QED
      BY <3>2 DEF Rewritten
  <2>2. x = [c \in DOMAIN disk[e] |-> x[c]]
    BY DEF Rewritten
  <2> HIDE DEF x
  <2>3. x = disk[e]
    BY <1>2, <2>1, <2>2
  <2>4. [disk EXCEPT ![e] = disk[e]] = disk
    BY <1>2
  <2>5. QED
    BY <2>3, <2>4 DEF WrittenUpTo, x
<1>5. Z(K) = WrittenUpTo(d, at, cells, last + 1)
  BY <1>1
<1>6. ASSUME NEW k \in 1 .. K
      PROVE  Z(k) = WriteSector(Z(k - 1), d, FirstSector(at) + k - 1, Altered(d, at, cells, k - 1))
  <2>1. k - 1 \in Nat
    BY <1>1
  <2>2. FirstSector(at) + k - 1 = FirstSector(at) + (k - 1) /\ FirstSector(at) + (k - 1) + 1 = first + k
    BY <1>1
  <2>3. WriteSector(WrittenUpTo(d, at, cells, FirstSector(at) + (k - 1)), d, FirstSector(at) + (k - 1),
                    Altered(d, at, cells, k - 1)) =
          WrittenUpTo(d, at, cells, FirstSector(at) + (k - 1) + 1)
    BY <2>1, WriteOneSector
  <2>4. QED
    BY <2>2, <2>3
<1> HIDE DEF Z
<1>7. Is(after)
  <2> DEFINE w == [k \in 0 .. K |-> Z(k)]
  <2>1. ASSUME NEW k \in 0 .. K
        PROVE  w[k] = IF k = 0 THEN disk
                      ELSE WriteSector(w[k - 1], d, FirstSector(at) + k - 1, Altered(d, at, cells, k - 1))
    <3>1. CASE k = 0
      BY <1>4, <3>1
    <3>2. CASE k # 0
      <4>1. k \in 1 .. K /\ k - 1 \in 0 .. K
        BY <1>1, <3>2
      <4>2. w[k] = Z(k) /\ w[k - 1] = Z(k - 1)
        BY <4>1
      <4> HIDE DEF w
      <4>3. QED
        BY <1>6, <3>2, <4>1, <4>2
    <3>3. QED
      BY <3>1, <3>2
  <2>2. w = [k \in 0 .. K |-> w[k]]
    OBVIOUS
  <2> HIDE DEF w
  <2>3. Is(w)
    BY <2>1, <2>2
  <2>4. \E u : Is(u)
    BY <2>3
  <2> HIDE DEF Is
  <2>5. QED
    BY <2>4
<1> HIDE DEF after
<1>8. \A k \in 0 .. K :
        after[k] = IF k = 0 THEN disk
                   ELSE WriteSector(after[k - 1], d, FirstSector(at) + k - 1, Altered(d, at, cells, k - 1))
  BY <1>7
<1> HIDE DEF Is, K
<1>9. \A k \in 0 .. K : after[k] = Z(k)
  <2> DEFINE U == {k \in Nat : k \in 0 .. K /\ after[k] # Z(k)}
  <2>1. SUFFICES ASSUME U # {} PROVE FALSE
    BY <1>1
  <2>2. PICK k \in U : \A j \in U : k <= j
    <3>1. U \in SUBSET Nat
      OBVIOUS
    <3> HIDE DEF U
    <3>2. QED
      BY <2>1, <3>1, LeastNatural
  <2>3. k \in 0 .. K /\ after[k] # Z(k)
    BY <2>2
  <2>4. k # 0
    <3>1. after[0] = disk
      BY <1>1, <1>8
    <3>2. QED
      BY <1>4, <2>3, <3>1
  <2>5. k - 1 \in 0 .. K /\ k - 1 \in Nat /\ ~(k <= k - 1) /\ k \in 1 .. K
    BY <1>1, <2>3, <2>4
  <2>6. after[k - 1] = Z(k - 1)
    <3>1. k - 1 \notin U
      <4> HIDE DEF U
      <4>1. QED
        BY <2>2, <2>5
    <3>2. QED
      BY <2>5, <3>1
  <2>7. after[k] = WriteSector(after[k - 1], d, FirstSector(at) + k - 1, Altered(d, at, cells, k - 1))
    BY <1>8, <2>3, <2>4
  <2>8. QED
    BY <1>6, <2>3, <2>5, <2>6, <2>7
<1>10. K \in 0 .. K
  BY <1>1
<1>11. QED
  BY <1>3, <1>5, <1>9, <1>10

\* The cells of the range, all of them and nothing else.
CellsWritten(d, at, cells) ==
  [c \in DOMAIN disk[d] |-> IF c > at /\ c <= at + Len(cells) THEN cells[c - at] ELSE disk[d][c]]

\* ata_write puts the cells of a range that it handles in their places.
LEMMA AtaWriteFacts ==
  ASSUME DisksShaped, NEW d \in Drive, IsMaster(d), NEW at \in Nat, NEW cells, Len(cells) \in Nat \ {0},
         Handled(at, cells), ~AtaRefuses(d, at, Len(cells))
  PROVE  AtaWrite(d, at, cells) = [disk EXCEPT ![d] = CellsWritten(d, at, cells)]
<1> DEFINE first == FirstSector(at)
           last == LastSector(at, Len(cells))
           x == Rewritten(d, at, cells, last + 1)
           y == CellsWritten(d, at, cells)
<1>1. first \in Nat /\ last \in Int /\ first <= last
  <2>1. first \in Nat /\ last \in Int
    BY SectorsOfRange
  <2>2. first = last \/ Begin(at) = 0
    BY DEF Handled
  <2>3. CASE Begin(at) = 0
    <3> DEFINE s == SectorSize
               e == at + Len(cells) - 1
    <3>1. s \in Nat \ {0} /\ e \in Nat /\ e >= at
      BY VolumesAssumption
    <3>2. Wrap(e) = e
      <4>1. at + Len(cells) \in 1 .. Word /\ Word \in Nat
        BY VolumesAssumption DEF Handled
      <4>2. e \in 0 .. Word - 1
        BY <4>1
      <4>3. QED
        BY <4>2, WrapSmall
    <3>3. last = e \div s /\ first = at \div s
      BY <3>2 DEF LastSector, FirstSector
    <3>4. /\ at \div s \in Nat /\ at = (at \div s) * s + (at % s) /\ at % s \in 0 .. s - 1
          /\ e \div s \in Nat /\ e = (e \div s) * s + (e % s) /\ e % s \in 0 .. s - 1
      BY <3>1, SectorOf
    <3> DEFINE f == at \div s
               l == e \div s
    <3>5. l < f => l * s + s <= f * s
      BY <3>1, <3>4, Multiples
    <3>6. f * s \in Int /\ l * s \in Int
      BY <3>1, <3>4
    <3> DEFINE F == f * s
               L == l * s
               b == at % s
               r == e % s
    <3>7. F \in Int /\ L \in Int /\ b \in 0 .. s - 1 /\ r \in 0 .. s - 1 /\ at = F + b /\ e = L + r
          /\ (l < f => L + s <= F)
      BY <3>4, <3>5, <3>6
    <3> HIDE DEF F, L, b, r, f, l, e, s
    <3>8. ~(l < f)
      BY ONLY <3>1, <3>7, at \in Nat
    <3>9. QED
      BY <2>1, <3>3, <3>8 DEF f, l
  <2>4. QED
    BY <2>1, <2>2, <2>3
<1>2. AtaWrite(d, at, cells) = WrittenUpTo(d, at, cells, last + 1)
  BY <1>1, AtaWriteIs
<1>3. Selected(d) = d /\ d \in Disks
  BY DEF Selected, IoBase, IsMaster, Drive, Disks
<1>4. ASSUME NEW c \in DOMAIN disk[d] PROVE x[c] = y[c]
  <2> DEFINE m == (c - 1) \div SectorSize
  <2>1. /\ m \in Nat /\ c \in Nat
        /\ c > at => m >= first
        /\ c <= at + Len(cells) => m <= last
    BY CellOfRange
  <2>2. x[c] = IF first <= m /\ m < last + 1
               THEN Altered(d, at, cells, m - first)[((c - 1) % SectorSize) + 1] ELSE disk[d][c]
    BY <1>3 DEF Rewritten
  <2>3. y[c] = IF c > at /\ c <= at + Len(cells) THEN cells[c - at] ELSE disk[d][c]
    BY DEF CellsWritten
  <2>4. CASE first <= m /\ m < last + 1
    <3> DEFINE k == m - first
    <3>1. k \in Nat /\ m = first + k /\ first + k <= last
      BY <1>1, <2>1, <2>4
    <3>2. Altered(d, at, cells, k)[((c - 1) % SectorSize) + 1] =
            IF c > at /\ c <= at + Len(cells) THEN cells[c - at] ELSE disk[d][c]
      <4> HIDE DEF k
      <4>1. QED
        BY <3>1, AlteredCell
    <3>3. QED
      BY <2>2, <2>3, <2>4, <3>2
  <2>5. CASE ~(first <= m /\ m < last + 1)
    <3>1. ~(c > at /\ c <= at + Len(cells))
      BY <1>1, <2>1, <2>5
    <3>2. QED
      BY <2>2, <2>3, <2>5, <3>1
  <2>6. QED
    BY <2>4, <2>5
<1>5. x = [c \in DOMAIN disk[d] |-> x[c]] /\ y = [c \in DOMAIN disk[d] |-> y[c]]
  BY <1>3 DEF Rewritten, CellsWritten
<1> HIDE DEF x, y
<1>6. x = y
  BY <1>4, <1>5
<1>7. QED
  BY <1>2, <1>3, <1>6 DEF WrittenUpTo, x, y

\* Whatever is written, the disks keep their size.
SameShape(new) ==
  /\ new = [d \in Disks |-> new[d]]
  /\ \A d \in Disks : /\ DOMAIN new[d] = DOMAIN disk[d]
                      /\ new[d] = [c \in DOMAIN new[d] |-> new[d][c]]

\* Nothing has changed but the n cells behind the first `at' of disk e.
OnlyWithin(new, e, at, n) ==
  /\ SameShape(new)
  /\ \A f \in Disks : \A c \in DOMAIN disk[f] :
       ~(f = e /\ c > at /\ c <= at + n) => new[f][c] = disk[f][c]

\* What ata_write moves of a sector lies in the range.  e is the position of its last
\* cell, counted from 0, if that has not wrapped.
LEMMA MovedInRange ==
  ASSUME NEW s \in Nat \ {0}, NEW at \in Nat, NEW e \in Nat, NEW l \in Nat, NEW p \in 1 .. s,
         at \div s <= l, l <= e \div s, p > at % s,
         p <= (at % s) + (IF l = e \div s THEN (e % s) - (at % s) + 1 ELSE s - (at % s))
  PROVE  l * s + p > at /\ l * s + p <= e + 1
<1> DEFINE f == at \div s
           b == at % s
           m == e \div s
           r == e % s
<1>0. at \in Int /\ e \in Int
  OBVIOUS
<1>1. f \in Int /\ b \in 0 .. s - 1 /\ at = f * s + b
  BY ONLY <1>0, Quotient, s \in Nat \ {0}
<1>2. m \in Int /\ r \in 0 .. s - 1 /\ e = m * s + r
  BY ONLY <1>0, Quotient, s \in Nat \ {0}
<1>3. /\ f < l => f * s + s <= l * s
      /\ l < m => l * s + s <= m * s
      /\ f * s \in Int /\ l * s \in Int /\ m * s \in Int
  BY <1>1, <1>2, Multiples
<1> DEFINE F == f * s
           L == l * s
           M == m * s
<1>4. /\ F \in Int /\ L \in Int /\ M \in Int /\ at = F + b /\ e = M + r
      /\ f < l => F + s <= L
      /\ l < m => L + s <= M
      /\ f = l => F = L
      /\ l = m => L = M
  BY <1>1, <1>2, <1>3
<1>5. f <= l /\ l <= m /\ p > b /\ p <= b + (IF l = m THEN r - b + 1 ELSE s - b)
  OBVIOUS
<1> HIDE DEF F, L, M, f, b, m, r
<1>6. L + p > at
  BY ONLY <1>1, <1>4, <1>5, s \in Nat \ {0}, l \in Nat, p \in 1 .. s
<1>7. L + p <= e + 1
  BY ONLY <1>1, <1>2, <1>4, <1>5, s \in Nat \ {0}, l \in Nat, p \in 1 .. s
<1>8. QED
  BY <1>6, <1>7 DEF L

\* ata_write leaves everything outside the range alone, also when it ends in the middle
\* of a sector, leaves gaps or wraps, and whichever drive is reached.
LEMMA AtaWriteStays ==
  ASSUME DisksShaped, NEW d \in Drive, NEW at \in Nat, NEW cells, Len(cells) \in Nat,
         AtaRefuses(d, at, Len(cells)) \/ at + Len(cells) # 0
  PROVE  OnlyWithin(AtaWrite(d, at, cells), Selected(d), at, Len(cells))
<1> DEFINE first == FirstSector(at)
           last == LastSector(at, Len(cells))
           e == Selected(d)
           n == Len(cells)
<1>1. SameShape(disk) /\ OnlyWithin(disk, e, at, n)
  BY DEF SameShape, OnlyWithin, DisksShaped
<1>2. CASE AtaRefuses(d, at, n) \/ last < first
  <2>1. AtaWrite(d, at, cells) = disk
    BY <1>2 DEF AtaWrite
  <2>2. QED
    BY <1>1, <2>1
<1>3. CASE ~AtaRefuses(d, at, n) /\ ~(last < first)
  <2> DEFINE end == Wrap(at + n - 1)
             x == Rewritten(d, at, cells, last + 1)
             new == [disk EXCEPT ![e] = x]
  <2>1. end \in Nat /\ end + 1 <= at + n
    <3>1. at + n - 1 \in Nat /\ at + n \in Nat
      BY <1>3
    <3>2. end \in 0 .. Word - 1 /\ end <= at + n - 1 /\ Word \in Nat
      BY <3>1, WrapFacts, VolumesAssumption
    <3> HIDE DEF end
    <3>3. QED
      BY <3>1, <3>2
  <2>2. last = end \div SectorSize /\ last \in Nat /\ first \in Nat /\ first <= last
    <3>1. last = end \div SectorSize
      BY DEF LastSector
    <3>2. last \in Nat /\ first \in Nat
      BY <2>1, <3>1, SectorOf DEF FirstSector
    <3> HIDE DEF last, first, end
    <3>3. QED
      BY <1>3, <3>1, <3>2
  <2>3. AtaWrite(d, at, cells) = new
    BY <1>3, <2>2, AtaWriteIs DEF WrittenUpTo
  <2>4. e \in Disks /\ DOMAIN disk = Disks /\ disk = [f \in Disks |-> disk[f]]
    BY SelectedDrive DEF DisksShaped
  <2>5. ASSUME NEW c \in DOMAIN disk[e], ~(c > at /\ c <= at + n) PROVE x[c] = disk[e][c]
    <3> DEFINE s == SectorSize
               l == (c - 1) \div s
               p == ((c - 1) % s) + 1
    <3>1. s \in Nat \ {0} /\ c \in Nat /\ c - 1 \in Nat
      BY <2>4, PositionOf, VolumesAssumption
    <3>2. l \in Nat /\ p \in 1 .. s /\ l * s + p = c
      <4>1. l \in Nat /\ (c - 1) % s \in 0 .. s - 1 /\ c - 1 = l * s + ((c - 1) % s)
        BY <3>1, SectorOf
      <4> DEFINE r == (c - 1) % s
                 L == l * s
      <4>2. L \in Int /\ r \in 0 .. s - 1 /\ c - 1 = L + r /\ p = r + 1
        BY <3>1, <4>1
      <4> HIDE DEF r, L, p
      <4>3. p \in 1 .. s /\ L + p = c
        BY <3>1, <4>2
      <4>4. QED
        BY <4>1, <4>3 DEF L
    <3>3. x[c] = IF first <= l /\ l < last + 1 THEN Altered(d, at, cells, l - first)[p] ELSE disk[e][c]
      BY DEF Rewritten
    <3>4. CASE first <= l /\ l < last + 1
      <4>1. l <= last /\ first + (l - first) = l
        BY <2>2, <3>2, <3>4
      <4>2. Altered(d, at, cells, l - first)[p] =
              IF p > Begin(at) /\ p <= Begin(at) + Moved(at, n, l)
              THEN cells[(l - first) * (s - Begin(at)) + p - Begin(at)]
              ELSE ReadSector(d, l)[p]
        <5> HIDE DEF l, p
        <5>1. QED
          BY <3>2, <4>1 DEF Altered
      <4>3. ~(p > Begin(at) /\ p <= Begin(at) + Moved(at, n, l))
        <5> SUFFICES ASSUME p > Begin(at), p <= Begin(at) + Moved(at, n, l) PROVE FALSE
          OBVIOUS
        <5>1. /\ p > at % s
              /\ p <= (at % s) + (IF l = end \div s THEN (end % s) - (at % s) + 1 ELSE s - (at % s))
          BY <2>2 DEF Begin, Moved
        <5>2. at \div s <= l /\ l <= end \div s
          BY <2>2, <3>4, <4>1 DEF FirstSector
        <5> HIDE DEF l, p, s, end
        <5>3. l * s + p > at /\ l * s + p <= end + 1
          BY <2>1, <3>1, <3>2, <5>1, <5>2, MovedInRange
        <5>4. c > at /\ c <= end + 1
          BY <3>2, <5>3
        <5>5. c <= at + n
          BY <2>1, <3>1, <5>4
        <5>6. QED
          BY <2>5, <5>4, <5>5
      <4>4. ReadSector(d, l)[p] = disk[e][c]
        <5> HIDE DEF l, p
        <5>1. QED
          BY <3>2 DEF ReadSector
      <4>5. QED
        BY <3>3, <3>4, <4>2, <4>3, <4>4
    <3>5. QED
      BY <3>3, <3>4
  <2>6. x = [c \in DOMAIN disk[e] |-> x[c]] /\ DOMAIN x = DOMAIN disk[e]
    BY DEF Rewritten
  <2> HIDE DEF x, e
  <2>7. new[e] = x /\ (\A f \in Disks \ {e} : new[f] = disk[f]) /\ new = [f \in Disks |-> new[f]]
    BY <2>4
  <2> HIDE DEF new
  <2>8. SameShape(new)
    <3>1. \A f \in Disks : disk[f] = [c \in DOMAIN disk[f] |-> disk[f][c]]
      BY DEF DisksShaped
    <3>2. QED
      BY <2>6, <2>7, <3>1 DEF SameShape
  <2>9. ASSUME NEW f \in Disks, NEW c \in DOMAIN disk[f], ~(f = e /\ c > at /\ c <= at + n)
        PROVE  new[f][c] = disk[f][c]
    <3>1. CASE f = e
      BY <2>5, <2>7, <2>9, <3>1
    <3>2. CASE f # e
      BY <2>7, <3>2
    <3>3. QED
      BY <3>1, <3>2
  <2>10. QED
    BY <2>3, <2>8, <2>9 DEF OnlyWithin, e
<1>4. QED
  BY <1>2, <1>3

\* Where the first sector begins and ends.
LEMMA FromTheStart ==
  ASSUME NEW s \in Nat \ {0}
  PROVE  0 \div s = 0 /\ (0 + s - 1) \div s = 0 /\ 0 % s = 0 /\ (0 + s - 1) % s = s - 1
<1>1. ASSUME NEW a \in 0 .. s - 1 PROVE a \div s = 0 /\ a % s = a
  <2>1. a \in Int
    OBVIOUS
  <2> DEFINE q == a \div s
             r == a % s
  <2>2. q \in Int /\ r \in 0 .. s - 1 /\ a = q * s + r
    BY <2>1, Quotient
  <2> HIDE DEF q, r
  <2>3. /\ q < 0 => q * s + s <= 0 * s
        /\ 0 < q => 0 * s + s <= q * s
    <3>1. 0 \in Int
      OBVIOUS
    <3>2. QED
      BY <2>2, <3>1, Multiples
  <2>4. q = 0
    BY <2>2, <2>3
  <2>5. q = 0 /\ r = a
    BY <2>2, <2>4
  <2>6. QED
    BY <2>5 DEF q, r
<1>2. 0 \in 0 .. s - 1 /\ 0 + s - 1 \in 0 .. s - 1
  OBVIOUS
<1>3. 0 + s - 1 = s - 1
  OBVIOUS
<1>4. QED
  BY ONLY <1>1, <1>2, <1>3

\* What a read of the first sector moves.
LEMMA FirstSectorFacts ==
  /\ FirstSector(0) = 0 /\ LastSector(0, SectorSize) = 0
  /\ Begin(0) = 0 /\ Moved(0, SectorSize, 0) = SectorSize
<1> DEFINE s == SectorSize
<1>1. s \in Nat \ {0}
  BY VolumesAssumption
<1>0. Wrap(0 + s - 1) = 0 + s - 1
  <2>1. 0 + s - 1 \in 0 .. Word - 1
    BY VolumesAssumption
  <2>2. QED
    BY <2>1, WrapSmall
<1>2. FirstSector(0) = 0 \div s /\ LastSector(0, s) = (0 + s - 1) \div s /\ Begin(0) = 0 % s
  BY <1>0 DEF FirstSector, LastSector, Begin
<1>3. Moved(0, s, 0) = IF 0 = LastSector(0, s) THEN ((0 + s - 1) % s) - Begin(0) + 1 ELSE s - Begin(0)
  BY <1>0 DEF Moved
<1> HIDE DEF s
<1>4. FirstSector(0) = 0 /\ LastSector(0, s) = 0 /\ Begin(0) = 0
  BY ONLY <1>1, <1>2, FromTheStart
<1>5. (0 + s - 1) % s = s - 1
  BY ONLY <1>1, FromTheStart
<1>6. Moved(0, s, 0) = s
  BY ONLY <1>1, <1>3, <1>4, <1>5
<1>7. QED
  BY <1>4, <1>6 DEF s

\* A sequence of one piece is flattened to the piece.
LEMMA FlattenOne ==
  ASSUME NEW piece
  PROVE  FlattenSeq(<<piece>>) = piece
<1> DEFINE q == <<piece>>
           Is(w) == w = [i \in 1 .. Len(q) |-> IF i = 1 THEN q[i] ELSE w[i - 1] \o q[i]]
           flatten == CHOOSE w : Is(w)
           one == [i \in 1 .. 1 |-> piece]
<1>1. Len(q) = 1 /\ q[1] = piece
  OBVIOUS
<1>2. FlattenSeq(q) = flatten[1]
  BY <1>1 DEF FlattenSeq
<1> HIDE DEF q
<1>3. Is(one)
  <2>1. ASSUME NEW i \in 1 .. 1
        PROVE  one[i] = IF i = 1 THEN q[i] ELSE one[i - 1] \o q[i]
    <3>1. i = 1
      OBVIOUS
    <3>2. QED
      BY <1>1, <3>1
  <2>2. one = [i \in 1 .. 1 |-> one[i]]
    OBVIOUS
  <2> HIDE DEF one
  <2>3. QED
    BY <1>1, <2>1, <2>2
<1> HIDE DEF one
<1>4. Is(flatten)
  <2>1. \E w : Is(w)
    BY <1>3
  <2> HIDE DEF Is
  <2>2. QED
    BY <2>1
<1> HIDE DEF flatten
<1>5. flatten[1] = piece
  <2>1. 1 \in 1 .. Len(q)
    BY <1>1
  <2>2. flatten[1] = q[1]
    BY <1>4, <2>1
  <2>3. QED
    BY <1>1, <2>2
<1>6. QED
  BY <1>2, <1>5 DEF q

\* A slice from the start begins as the sequence does.
LEMMA SliceFirst ==
  ASSUME NEW q, NEW n \in Nat \ {0}
  PROVE  Slice(q, 0, n)[1] = q[1]
<1> DEFINE T == {q[i] : i \in 1 .. n}
<1>1. Slice(q, 0, n) = SubSeq(q, 1, n)
  <2>1. 0 + 1 = 1 /\ 0 + n = n
    OBVIOUS
  <2>2. QED
    BY <2>1 DEF Slice
<1>2. \A i \in 1 .. n : q[i] \in T
  OBVIOUS
<1>3. 1 \in Int /\ n \in Int /\ 1 \in 1 .. n - 1 + 1 /\ 1 + 1 - 1 = 1
  OBVIOUS
<1> HIDE DEF T
<1>4. SubSeq(q, 1, n)[1] = q[1 + 1 - 1]
  BY <1>2, <1>3, SubSeqProperties
<1>5. QED
  BY <1>1, <1>3, <1>4

\* The first cell that ata_read delivers of a whole sector is the first on the disk
\* that it reaches, if this has any.
LEMMA ReadFirst ==
  ASSUME NEW d \in Drive, ~AtaRefuses(d, 0, SectorSize)
  PROVE  AtaRead(d, 0, SectorSize)[1] =
           IF 1 \in DOMAIN disk[Selected(d)] THEN disk[Selected(d)][1] ELSE Noise
<1> DEFINE s == SectorSize
           piece == Slice(ReadSector(d, 0), 0, s)
           f == [k \in 1 .. LastSector(0, s) - FirstSector(0) + 1 |->
                   LET sector == FirstSector(0) + k - 1
                   IN Slice(ReadSector(d, sector), Begin(0), Moved(0, s, sector))]
<1>1. AtaRead(d, 0, s) = FlattenSeq(f)
  BY DEF AtaRead
<1>2. s \in Nat \ {0}
  BY VolumesAssumption
<1>3. f = <<piece>>
  <2>1. LastSector(0, s) - FirstSector(0) + 1 = 1
    BY FirstSectorFacts
  <2>2. ASSUME NEW k \in 1 .. 1 PROVE f[k] = piece
    <3>1. FirstSector(0) + k - 1 = 0
      BY FirstSectorFacts
    <3>2. f[k] = Slice(ReadSector(d, FirstSector(0) + k - 1), Begin(0), Moved(0, s, FirstSector(0) + k - 1))
      BY <2>1
    <3> HIDE DEF f
    <3>3. QED
      BY <3>1, <3>2, FirstSectorFacts
  <2>3. f = [k \in 1 .. 1 |-> f[k]]
    BY <2>1
  <2>4. <<piece>> = [k \in 1 .. 1 |-> piece]
    <3> HIDE DEF piece
    <3>1. QED
      OBVIOUS
  <2> HIDE DEF f, piece
  <2>5. QED
    BY <2>2, <2>3, <2>4
<1>4. piece[1] = ReadSector(d, 0)[1]
  <2> DEFINE R == ReadSector(d, 0)
  <2> HIDE DEF R, s
  <2>1. Slice(R, 0, s)[1] = R[1]
    BY <1>2, SliceFirst
  <2>2. QED
    BY <2>1 DEF R, s
<1>5. ReadSector(d, 0)[1] = IF 1 \in DOMAIN disk[Selected(d)] THEN disk[Selected(d)][1] ELSE Noise
  <2>1. 0 * s + 1 = 1 /\ 1 \in 1 .. s
    BY <1>2
  <2> HIDE DEF s
  <2>2. QED
    BY <2>1 DEF ReadSector, s
<1> HIDE DEF piece, f
<1>6. FlattenSeq(f) = piece
  BY <1>3, FlattenOne
<1>7. QED
  BY <1>1, <1>4, <1>5, <1>6

\* Where volumes lie: on the ramdisk, or on a drive that was probed, at a place that a
\* word can name.
GoodPlace(q) ==
  \/ q[1] = Ramdisk
  \/ /\ q[1] \in Drive /\ machine.drives[q[1]].kind = "disk"
     /\ ata_devices[q[1]] = AtaProbe(q[1])
     /\ q[2] \in 0 .. Word - 1 /\ q[3] \in 0 .. Word - 1

\* The probe has set what the driver knows of the drive it is at.
CursorProbed == cursor \in Drive /\ ata_devices[cursor] = AtaProbe(cursor)

\* The volumes have ids of their own and lie where they may.
WellPlaced == \E P : Listed(volumes, P) /\ \A q \in P : GoodPlace(q)

\* What the drivers know at all times: the drives as the probe has found them, the
\* disks unwritten as long as the kernel boots, the volumes where they belong.
StorageInv ==
  /\ machine \in Machines
  /\ DisksShaped
  /\ stage \notin {"up", "overrun"} => disk = machine.disk
  /\ stage = "ata found" => CursorProbed
  /\ ata_devices = [d \in Drive |-> ata_devices[d]]
  /\ WellPlaced

\* A drive is a disk other than the ramdisk.
LEMMA NotRamdisk ==
  ASSUME NEW d \in Drive
  PROVE  d # Ramdisk /\ d \in Disks
BY DEF Drive, Ramdisk, Disks

\* A record of what the driver knows of a drive.
LEMMA DriveRecord ==
  \A r, a, b, c : r = [present |-> a, lba_supported |-> b, size |-> c] =>
                    r.present = a /\ r.lba_supported = b /\ r.size = c
OBVIOUS

\* What the probe finds out about a disk.
LEMMA ProbeFacts ==
  ASSUME NEW d \in Drive
  PROVE  /\ AtaProbe(d).present => machine.drives[d].kind = "disk"
         /\ machine.drives[d].kind = "disk" =>
              /\ AtaProbe(d).present = TRUE /\ AtaProbe(d).lba_supported = machine.drives[d].lba
              /\ AtaProbe(d).size = Wrap(Len(machine.disk[d]))
<1>1. 2 * IoBase(d) + (IF IsMaster(d) THEN 0 ELSE 1) = d
  BY DEF IoBase, IsMaster, Drive
<1>2. AtaProbe(d) = IF machine.drives[d].kind # "disk"
                    THEN [present |-> FALSE, lba_supported |-> FALSE, size |-> 0]
                    ELSE [present |-> TRUE, lba_supported |-> machine.drives[d].lba,
                          size |-> Wrap(Len(machine.disk[d]))]
  BY <1>1 DEF AtaProbe
<1>3. CASE machine.drives[d].kind # "disk"
  <2>1. AtaProbe(d) = [present |-> FALSE, lba_supported |-> FALSE, size |-> 0]
    BY <1>2, <1>3
  <2>2. AtaProbe(d).present = FALSE
    BY <2>1, DriveRecord, Zenon
  <2>3. QED
    BY <1>3, <2>2
<1>4. CASE machine.drives[d].kind = "disk"
  <2> DEFINE lba == machine.drives[d].lba
             size == Wrap(Len(machine.disk[d]))
  <2>1. AtaProbe(d) = [present |-> TRUE, lba_supported |-> lba, size |-> size]
    BY <1>2, <1>4
  <2> HIDE DEF lba, size
  <2>2. AtaProbe(d).present = TRUE /\ AtaProbe(d).lba_supported = lba /\ AtaProbe(d).size = size
    BY <2>1, DriveRecord, Zenon
  <2>3. QED
    BY <1>4, <2>2 DEF lba, size
<1>5. QED
  BY <1>3, <1>4

\* What mbr_read may take for a boot record.
Records == {Noise} \cup UNION {{disk[e][c] : c \in DOMAIN disk[e]} : e \in Disks}

\* It is a cell of a disk, if not noise.
LEMMA RecordRead ==
  ASSUME DisksShaped, NEW d \in Drive
  PROVE  MbrRead(d) \subseteq Records
<1>1. Noise \in Records /\ (\A e \in Disks : \A c \in DOMAIN disk[e] : disk[e][c] \in Records)
  BY DEF Records
<1>2. MbrRead(d) = LET cells == AtaRead(d, 0, SectorSize)
                   IN IF cells # <<>> THEN {cells[1]}
                      ELSE {Noise} \cup {disk[e][1] : e \in {f \in DOMAIN disk : disk[f] # <<>>}}
  BY NotRamdisk DEF MbrRead, DriverRead
<1>3. ASSUME NEW e \in DOMAIN disk, disk[e] # <<>> PROVE disk[e][1] \in Records
  <2>1. e \in Disks
    <3>1. DOMAIN [f \in Disks |-> disk[f]] = Disks
      OBVIOUS
    <3>2. QED
      BY <3>1 DEF DisksShaped
  <2> DEFINE n == Len(machine.disk[e])
             q == disk[e]
  <2>2. DOMAIN q = 1 .. n /\ n \in Nat /\ q = [c \in DOMAIN q |-> q[c]] /\ q # <<>>
    BY <1>3, <2>1 DEF DisksShaped
  <2> HIDE DEF n, q
  <2>3. n # 0
    <3> SUFFICES ASSUME n = 0 PROVE FALSE
      OBVIOUS
    <3>1. q = [c \in 1 .. 0 |-> q[c]]
      BY <2>2
    <3>2. q \in Seq({}) /\ Len(q) = 0
      BY <3>1
    <3>3. q = <<>>
      BY <3>2
    <3>4. QED
      BY <2>2, <3>3
  <2>4. 1 \in DOMAIN q
    BY <2>2, <2>3
  <2>5. QED
    BY <1>1, <2>1, <2>4 DEF q
<1>4. CASE AtaRead(d, 0, SectorSize) = <<>>
  BY <1>1, <1>2, <1>3, <1>4
<1>5. CASE AtaRead(d, 0, SectorSize) # <<>>
  <2>1. ~AtaRefuses(d, 0, SectorSize)
    BY <1>5 DEF AtaRead
  <2>2. Selected(d) \in Disks
    BY SelectedDrive
  <2>3. AtaRead(d, 0, SectorSize)[1] \in Records
    BY <1>1, <2>1, <2>2, ReadFirst
  <2>4. QED
    BY <1>2, <1>5, <2>3
<1>6. QED
  BY <1>4, <1>5

\* The numbers in a partition table are natural.
LEMMA RecordFacts ==
  ASSUME machine \in Machines, disk = machine.disk, NEW mbr \in Records, "partitions" \in DOMAIN mbr
  PROVE  \A i \in 1 .. 4 : mbr.partitions[i].lba_start \in Nat /\ mbr.partitions[i].sectors \in Nat
<1>1. mbr # Noise
  BY DEF Noise
<1>2. PICK e \in Disks : \E c \in DOMAIN disk[e] : mbr = disk[e][c]
  BY <1>1 DEF Records
<1>3. mbr \in UNION {ToSet(machine.disk[f]) : f \in Drive \cup {Ramdisk}}
  BY <1>2 DEF Disks, ToSet
<1>4. QED
  BY <1>3, VolumesAssumption

\* Nothing is written and nothing registered yet.
LEMMA StorageStart == Init => StorageInv
<1> SUFFICES ASSUME Init PROVE StorageInv
  OBVIOUS
<1>1. machine \in Machines /\ disk = machine.disk /\ stage = "initrd" /\ volumes = <<>>
  BY DEF Init, StorageInit
<1>2. ata_devices = [d \in Drive |-> ata_devices[d]]
  BY DEF Init, StorageInit
<1>3. DisksShaped
  <2>1. PICK S : machine.disk \in [Disks -> Seq(S)]
    <3>1. machine.disk \in [Drive \cup {Ramdisk} ->
                              Seq(UNION {ToSet(machine.disk[d]) : d \in Drive \cup {Ramdisk}})]
      BY <1>1, VolumesAssumption
    <3>2. QED
      BY <3>1 DEF Disks
  <2>2. disk = [d \in Disks |-> disk[d]]
    BY <1>1, <2>1
  <2>3. ASSUME NEW d \in Disks
        PROVE  /\ DOMAIN disk[d] = 1 .. Len(machine.disk[d]) /\ Len(machine.disk[d]) \in Nat
               /\ disk[d] = [c \in DOMAIN disk[d] |-> disk[d][c]]
    <3>1. machine.disk[d] \in Seq(S)
      BY <2>1
    <3>2. disk[d] = machine.disk[d]
      BY <1>1
    <3>3. QED
      BY <3>1, <3>2
  <2>4. QED
    BY <2>2, <2>3 DEF DisksShaped
<1>4. WellPlaced
  <2>1. <<>> \in Seq({}) /\ Len(<<>>) = 0 /\ 1 .. 0 = {}
    OBVIOUS
  <2>2. Listed(volumes, {})
    BY <1>1, <2>1 DEF Listed
  <2>3. QED
    BY <2>2 DEF WellPlaced
<1>5. stage # "ata found"
  BY <1>1
<1>6. QED
  BY <1>1, <1>2, <1>3, <1>4, <1>5 DEF StorageInv

\* Steps that leave the storage alone.
LEMMA StorageUntouched ==
  ASSUME StorageInv, UNCHANGED <<machine, ata_devices, disk, volumes>>,
         stage \in {"up", "overrun"} => stage' \in {"up", "overrun"},
         stage' = "ata found" => UNCHANGED <<stage, cursor>>
  PROVE  StorageInv'
<1>1. DisksShaped'
  BY DEF StorageInv, DisksShaped
<1>2. \A d \in Drive : AtaProbe(d)' = AtaProbe(d)
  BY DEF AtaProbe
<1>3. WellPlaced'
  <2>1. PICK P : Listed(volumes, P) /\ \A q \in P : GoodPlace(q)
    BY DEF StorageInv, WellPlaced
  <2>2. \A q \in P : GoodPlace(q)'
    BY <1>2, <2>1 DEF GoodPlace
  <2>3. Listed(volumes', P)
    BY <2>1
  <2>4. QED
    BY <2>2, <2>3 DEF WellPlaced
<1>4. stage' = "ata found" => CursorProbed'
  <2>1. SUFFICES ASSUME stage' = "ata found" PROVE CursorProbed'
    OBVIOUS
  <2>2. stage = "ata found" /\ cursor' = cursor
    BY <2>1
  <2>3. CursorProbed
    BY <2>2 DEF StorageInv
  <2>4. QED
    BY <2>2, <2>3 DEF CursorProbed, AtaProbe
<1>5. stage' \notin {"up", "overrun"} => disk' = machine'.disk
  BY DEF StorageInv
<1>6. machine' \in Machines /\ ata_devices' = [d \in Drive |-> ata_devices'[d]]
  BY DEF StorageInv
<1>7. QED
  BY <1>1, <1>3, <1>4, <1>5, <1>6 DEF StorageInv

\* ata_device_probe
LEMMA StorageProbed ==
  ASSUME StorageInv, AtaInitProbe
  PROVE  StorageInv'
<1>1. /\ stage = "ata" /\ cursor \in Drive
      /\ ata_devices' = [ata_devices EXCEPT ![cursor] = AtaProbe(cursor)]
      /\ stage' = "ata found"
      /\ machine' = machine /\ cursor' = cursor /\ disk' = disk /\ volumes' = volumes
  BY DEF AtaInitProbe
<1>2. \A d : AtaProbe(d)' = AtaProbe(d)
  BY <1>1 DEF AtaProbe
<1>4. ata_devices = [d \in Drive |-> ata_devices[d]]
  BY DEF StorageInv
<1>5. /\ ata_devices'[cursor] = AtaProbe(cursor)
      /\ \A d \in Drive : ata_devices[d] = AtaProbe(d) => ata_devices'[d] = AtaProbe(d)
      /\ ata_devices' = [d \in Drive |-> ata_devices'[d]]
  BY <1>1, <1>4
<1>6. WellPlaced'
  <2>1. PICK P : Listed(volumes, P) /\ \A q \in P : GoodPlace(q)
    BY DEF StorageInv, WellPlaced
  <2>2. \A q \in P : GoodPlace(q)'
    BY <1>1, <1>2, <1>5, <2>1 DEF GoodPlace
  <2>3. Listed(volumes', P)
    BY <1>1, <2>1
  <2>4. QED
    BY <2>2, <2>3 DEF WellPlaced
<1>7. DisksShaped' /\ disk' = machine'.disk /\ machine' \in Machines
  BY <1>1 DEF StorageInv, DisksShaped
<1>8. CursorProbed'
  BY <1>1, <1>5 DEF CursorProbed, AtaProbe
<1>9. QED
  BY <1>1, <1>5, <1>6, <1>7, <1>8 DEF StorageInv

\* What a step that registers a device must show.
LEMMA StorageRegistered ==
  ASSUME StorageInv, NEW P, Listed(volumes', P), \A q \in P : GoodPlace(q),
         UNCHANGED <<machine, ata_devices, disk>>, stage \notin {"up", "overrun"}, stage' # "ata found"
  PROVE  StorageInv'
<1>1. DisksShaped'
  BY DEF StorageInv, DisksShaped
<1>2. \A d \in Drive : AtaProbe(d)' = AtaProbe(d)
  BY DEF AtaProbe
<1>3. \A q \in P : GoodPlace(q)'
  BY <1>2 DEF GoodPlace
<1>4. WellPlaced'
  BY <1>3 DEF WellPlaced
<1>5. disk' = machine'.disk /\ machine' \in Machines /\ ata_devices' = [d \in Drive |-> ata_devices'[d]]
  BY DEF StorageInv
<1>6. QED
  BY <1>1, <1>4, <1>5 DEF StorageInv

\* initrd_init
LEMMA StorageWithRamdisk ==
  ASSUME StorageInv, InitrdInit
  PROVE  StorageInv'
<1>1. /\ stage = "initrd" /\ stage' = "vga"
      /\ machine' = machine /\ ata_devices' = ata_devices /\ disk' = disk /\ cursor' = cursor
  BY DEF InitrdInit
<1>2. stage \notin {"up", "overrun"} /\ stage' # "ata found"
  BY <1>1
<1>3. CASE machine.initrd
  <2> DEFINE name == <<"Initial Ramdisk">>
             mine == {Place(DeviceVolume(Ramdisk, name))} \cup
                     {Place(PartitionVolume(Ramdisk, name, mbr.partitions[i], i)) :
                        mbr \in MbrRead(Ramdisk), i \in 1 .. 4}
  <2>1. PICK P : Listed(volumes, P) /\ \A q \in P : GoodPlace(q)
    BY DEF StorageInv, WellPlaced
  <2>2. \A q \in mine : GoodPlace(q)
    BY DEF GoodPlace, Place, DeviceVolume, PartitionVolume
  <2>4. VolumeRegisterDevice(Ramdisk, name)
    BY <1>3 DEF InitrdInit
  <2> HIDE DEF name
  <2>3. Brings(Ramdisk, name, P \cup mine)
    <3>1. Place(DeviceVolume(Ramdisk, name)) \in P \cup mine
      OBVIOUS
    <3>2. \A mbr \in MbrRead(Ramdisk) : \A i \in 1 .. 4 :
            Place(PartitionVolume(Ramdisk, name, mbr.partitions[i], i)) \in P \cup mine
      OBVIOUS
    <3> HIDE DEF mine
    <3>3. QED
      BY <3>1, <3>2, Zenon DEF Brings
  <2> HIDE DEF mine
  <2>5. Listed(volumes, P \cup mine)
    BY <2>1, ListedMore
  <2>6. Listed(volumes', P \cup mine)
    BY <2>3, <2>4, <2>5, RegisterDeviceListed
  <2>7. \A q \in P \cup mine : GoodPlace(q)
    BY <2>1, <2>2
  <2>8. QED
    BY <1>1, <1>2, <2>6, <2>7, StorageRegistered
<1>4. CASE ~machine.initrd
  <2>1. volumes' = volumes
    BY <1>4 DEF InitrdInit
  <2>2. QED
    BY <1>1, <1>2, <2>1, StorageUntouched
<1>5. QED
  BY <1>3, <1>4

\* What a drive brings that was just probed.
LEMMA DriveBrings ==
  ASSUME NEW d \in Drive, NEW name, StorageInv, disk = machine.disk,
         ata_devices[d] = AtaProbe(d), machine.drives[d].kind = "disk"
  PROVE  \E Q : Brings(d, name, Q) /\ \A q \in Q : GoodPlace(q)
<1> DEFINE whole == Place(DeviceVolume(d, name))
           part(mbr, i) == Place(PartitionVolume(d, name, mbr.partitions[i], i))
           all == {whole} \cup {part(mbr, i) : mbr \in MbrRead(d), i \in 1 .. 4}
           Q == {q \in all : GoodPlace(q)}
<1>1. d # Ramdisk /\ d \in Disks
  BY NotRamdisk
<1>2. GoodPlace(whole)
  <2>1. DriverTotalSize(d) = Wrap(Len(machine.disk[d])) /\ Len(machine.disk[d]) \in Nat
    BY <1>1, ProbeFacts DEF DriverTotalSize, StorageInv, DisksShaped
  <2>2. DriverTotalSize(d) \in 0 .. Word - 1 /\ 0 \in 0 .. Word - 1
    <3>1. Word \in Nat /\ Word > 0
      BY VolumesAssumption
    <3>2. Len(machine.disk[d]) \in Int
      BY <2>1
    <3>3. DriverTotalSize(d) \in 0 .. Word - 1
      BY <2>1, <3>2, WrapFacts
    <3>4. QED
      BY <3>1, <3>3
  <2>3. whole = <<d, 0, DriverTotalSize(d)>>
    BY DEF Place, DeviceVolume
  <2> HIDE DEF whole
  <2>4. whole[1] = d /\ whole[2] = 0 /\ whole[3] = DriverTotalSize(d)
    BY <2>3
  <2>5. QED
    BY <2>2, <2>4 DEF GoodPlace
<1>3. ASSUME NEW mbr \in MbrRead(d), MbrProbe(mbr), NEW i \in 1 .. 4 PROVE GoodPlace(part(mbr, i))
  <2> DEFINE entry == mbr.partitions[i]
             q == part(mbr, i)
  <2>1. machine \in Machines /\ mbr \in Records
    BY <1>3, RecordRead DEF StorageInv
  <2>2. entry.lba_start \in Nat /\ entry.sectors \in Nat
    BY <1>3, <2>1, RecordFacts DEF MbrProbe
  <2>3. q = <<d, Wrap(entry.lba_start * SectorSize), Wrap(entry.sectors * SectorSize)>>
    BY <1>1 DEF Place, PartitionVolume, DriverSectorSize
  <2> HIDE DEF entry, q
  <2>4. entry.lba_start * SectorSize \in Int /\ entry.sectors * SectorSize \in Int
    <3>1. SectorSize \in Nat \ {0}
      BY VolumesAssumption
    <3>2. entry.lba_start \in Int /\ entry.sectors \in Int
      BY <2>2
    <3>3. QED
      BY <3>1, <3>2, Multiples
  <2>5. /\ q[1] = d /\ q[2] = Wrap(entry.lba_start * SectorSize)
        /\ q[3] = Wrap(entry.sectors * SectorSize)
    BY <2>3
  <2>6. q[2] \in 0 .. Word - 1 /\ q[3] \in 0 .. Word - 1
    BY <2>4, <2>5, WrapFacts
  <2>7. GoodPlace(q)
    BY <2>5, <2>6 DEF GoodPlace
  <2>8. QED
    BY <2>7 DEF q
<1> HIDE DEF whole, part
<1>4. whole \in Q /\ \A mbr \in MbrRead(d) : MbrProbe(mbr) => \A i \in 1 .. 4 : part(mbr, i) \in Q
  <2>1. whole \in all /\ \A mbr \in MbrRead(d), i \in 1 .. 4 : part(mbr, i) \in all
    OBVIOUS
  <2> HIDE DEF all
  <2>2. QED
    BY <1>2, <1>3, <2>1
<1> HIDE DEF all
<1>5. \A q \in Q : GoodPlace(q)
  OBVIOUS
<1> HIDE DEF Q
<1>6. Brings(d, name, Q)
  BY <1>4 DEF Brings, whole, part
<1>7. QED
  BY <1>5, <1>6

\* ata_init registers a drive
LEMMA StorageWithDrive ==
  ASSUME StorageInv, AtaInitRegister
  PROVE  StorageInv'
<1>1. /\ stage = "ata found" /\ stage' \in {"ata", "sata"}
      /\ machine' = machine /\ ata_devices' = ata_devices /\ disk' = disk
  BY DEF AtaInitRegister
<1>2. stage \notin {"up", "overrun"} /\ stage' # "ata found"
  BY <1>1
<1>3. cursor \in Drive /\ ata_devices[cursor] = AtaProbe(cursor)
  BY <1>1 DEF StorageInv, CursorProbed
<1>4. CASE ata_devices[cursor].present
  <2>1. machine.drives[cursor].kind = "disk"
    BY <1>3, <1>4, ProbeFacts DEF StorageInv
  <2>2. PICK Q : Brings(cursor, DriveName(cursor), Q) /\ \A q \in Q : GoodPlace(q)
    <3>1. disk = machine.disk
      BY <1>2 DEF StorageInv
    <3>2. QED
      BY <1>3, <2>1, <3>1, DriveBrings
  <2>3. PICK P : Listed(volumes, P) /\ \A q \in P : GoodPlace(q)
    BY DEF StorageInv, WellPlaced
  <2>4. Brings(cursor, DriveName(cursor), P \cup Q)
    BY <2>2 DEF Brings
  <2>5. VolumeRegisterDevice(cursor, DriveName(cursor))
    BY <1>4 DEF AtaInitRegister
  <2>6. Listed(volumes, P \cup Q)
    BY <2>3, ListedMore
  <2>7. Listed(volumes', P \cup Q)
    BY <2>4, <2>5, <2>6, RegisterDeviceListed
  <2>8. \A q \in P \cup Q : GoodPlace(q)
    BY <2>2, <2>3
  <2>9. QED
    BY <1>1, <1>2, <2>7, <2>8, StorageRegistered
<1>5. CASE ~ata_devices[cursor].present
  <2>1. volumes' = volumes
    BY <1>5 DEF AtaInitRegister
  <2>2. QED
    BY <1>1, <1>2, <2>1, StorageUntouched
<1>6. QED
  BY <1>4, <1>5

\* The piece of a sequence that is written.
LEMMA SliceFacts ==
  ASSUME NEW q, NEW n \in Nat
  PROVE  Len(Slice(q, 0, n)) = n /\ \A j \in 1 .. n : Slice(q, 0, n)[j] = q[j]
<1> DEFINE T == {q[i] : i \in 1 .. n}
<1>1. Slice(q, 0, n) = SubSeq(q, 1, n)
  <2>1. 0 + 1 = 1 /\ 0 + n = n
    OBVIOUS
  <2>2. QED
    BY <2>1 DEF Slice
<1>2. \A i \in 1 .. n : q[i] \in T
  OBVIOUS
<1>3. 1 \in Int /\ n \in Int /\ n - 1 + 1 = n
  OBVIOUS
<1> HIDE DEF T
<1>4. /\ Len(SubSeq(q, 1, n)) = IF 1 <= n THEN n - 1 + 1 ELSE 0
      /\ \A i \in 1 .. n - 1 + 1 : SubSeq(q, 1, n)[i] = q[1 + i - 1]
  BY <1>2, <1>3, SubSeqProperties
<1>5. (IF 1 <= n THEN n - 1 + 1 ELSE 0) = n
  OBVIOUS
<1>6. ASSUME NEW j \in 1 .. n PROVE SubSeq(q, 1, n)[j] = q[j]
  <2>1. j \in 1 .. n - 1 + 1 /\ 1 + j - 1 = j
    OBVIOUS
  <2>2. QED
    BY <1>4, <2>1
<1>7. QED
  BY <1>1, <1>4, <1>5, <1>6

\* The disks as the owner of the volume expects them after a write, see
\* WritesStayInVolume.
RightlyWritten(new, v, offset, cells) ==
  \A d \in DOMAIN disk : \A c \in DOMAIN disk[d] :
    IF /\ d # Ramdisk /\ d = Selected(v.drive)
       /\ c > Target(v, offset) /\ c <= Target(v, offset) + Fitting(v, offset, Len(cells))
    THEN Addressable(v) /\ SectorSafe(Target(v, offset), Fitting(v, offset, Len(cells))) =>
           new[d][c] = cells[c - Target(v, offset)]
    ELSE new[d][c] = disk[d][c]

\* Where a volume lies that is in the registry.
LEMMA VolumeLies ==
  ASSUME StorageInv, NEW i \in DOMAIN volumes
  PROVE  GoodPlace(<<volumes[i].drive, volumes[i].offset, volumes[i].size>>)
<1>1. PICK P : Listed(volumes, P) /\ \A q \in P : GoodPlace(q)
  BY DEF StorageInv, WellPlaced
<1>2. DOMAIN volumes = 1 .. Len(volumes)
  BY <1>1 DEF Listed
<1>3. Place(volumes[i]) \in P
  BY <1>1, <1>2 DEF Listed
<1>4. QED
  BY <1>1, <1>3 DEF Place

\* A volume on a drive, and a range of it.
LEMMA RangeFacts ==
  ASSUME StorageInv, NEW i \in DOMAIN volumes, volumes[i].drive # Ramdisk,
         NEW offset \in Nat, offset <= volumes[i].size, NEW size \in Nat
  PROVE  LET v == volumes[i]
             at == Target(v, offset)
             n == Fitting(v, offset, size)
         IN /\ v.drive \in Drive /\ machine.drives[v.drive].kind = "disk"
            /\ ata_devices[v.drive] = AtaProbe(v.drive)
            /\ v.offset \in Nat /\ v.size \in Nat /\ v.size < Word
            /\ at \in Nat /\ n \in Nat /\ n <= size /\ n <= v.size - offset
            /\ Addressable(v) =>
                 /\ IsMaster(v.drive) /\ at = v.offset + offset
                 /\ Len(machine.disk[v.drive]) \in Nat
                 /\ at + n <= Len(machine.disk[v.drive]) /\ at + n < Word
                 /\ ~AtaRefuses(v.drive, at, n)
<1> DEFINE v == volumes[i]
           d == v.drive
           q == <<v.drive, v.offset, v.size>>
           at == Target(v, offset)
           n == Fitting(v, offset, size)
<1>1. q[1] = v.drive /\ q[2] = v.offset /\ q[3] = v.size
  OBVIOUS
<1>2. GoodPlace(q)
  BY VolumeLies
<1> HIDE DEF q
<1>3. /\ d \in Drive /\ machine.drives[d].kind = "disk" /\ ata_devices[d] = AtaProbe(d)
      /\ v.offset \in 0 .. Word - 1 /\ v.size \in 0 .. Word - 1
  BY <1>1, <1>2 DEF GoodPlace
<1>4. Word \in Nat /\ offset <= v.size
  BY VolumesAssumption
<1>5. v.offset \in Nat /\ v.size \in Nat /\ v.size < Word
  <2> HIDE DEF v
  <2>1. QED
    BY <1>3, <1>4
<1>6. at \in 0 .. Word - 1
  <2>1. v.offset + offset \in Int
    <3> HIDE DEF v
    <3>1. QED
      BY <1>5
  <2>2. QED
    BY <2>1, WrapFacts DEF Target
<1>7. at \in Nat
  BY <1>4, <1>6
<1>8. n \in Nat /\ n <= size /\ n <= v.size - offset
  <2> HIDE DEF v
  <2>1. QED
    BY <1>4, <1>5 DEF Fitting
<1>9. ASSUME Addressable(v)
      PROVE  /\ IsMaster(d) /\ at = v.offset + offset
             /\ Len(machine.disk[d]) \in Nat
             /\ at + n <= Len(machine.disk[d]) /\ at + n < Word
             /\ ~AtaRefuses(d, at, n)
  <2> DEFINE m == Len(machine.disk[d])
             o == v.offset
             z == v.size
  <2>1. m \in Nat
    BY <1>3, NotRamdisk DEF StorageInv, DisksShaped
  <2>2. IsMaster(d) /\ machine.drives[d].lba /\ m < Word /\ o + z <= m
    BY <1>9 DEF Addressable
  <2>3. o \in Nat /\ z \in Nat /\ offset <= z /\ n \in Nat /\ n <= z - offset
    BY <1>4, <1>5, <1>8
  <2> HIDE DEF m, o, z, n
  <2>4. o + offset \in 0 .. Word - 1
    BY <1>4, <2>1, <2>2, <2>3
  <2>5. at = o + offset
    BY <2>4, WrapSmall DEF Target, o
  <2> HIDE DEF at
  <2>6. at + n <= m /\ at + n < Word /\ at + n \in 0 .. Word - 1
    BY <1>4, <2>1, <2>2, <2>3, <2>5
  <2>7. /\ ata_devices[d].present = TRUE /\ ata_devices[d].lba_supported = machine.drives[d].lba
        /\ ata_devices[d].size = Wrap(m)
    BY <1>3, ProbeFacts DEF m
  <2>8. Wrap(m) = m /\ Wrap(at + n) = at + n
    <3>1. m \in 0 .. Word - 1
      BY <1>4, <2>1, <2>2
    <3>2. QED
      BY <2>6, <3>1, WrapSmall
  <2>9. ~(ata_devices[d].size < Wrap(at + n))
    BY <1>4, <2>1, <2>6, <2>7, <2>8
  <2>10. ~AtaRefuses(d, at, n)
    BY <2>2, <2>7, <2>9 DEF AtaRefuses
  <2>11. QED
    BY <2>1, <2>2, <2>5, <2>6, <2>10 DEF m, o
<1>10. QED
  BY <1>3, <1>5, <1>7, <1>8, <1>9

\* What volume_write hands to the driver.
LEMMA CutFacts ==
  ASSUME NEW size \in Nat, size < Word, NEW offset \in Nat, offset <= size, NEW cells,
         Len(cells) \in Nat, offset + Len(cells) < Word,
         NEW v, v.size = size
  PROVE  LET cut == IF Wrap(offset + Len(cells)) > v.size THEN Slice(cells, 0, v.size - offset)
                    ELSE cells
         IN /\ Len(cut) = Fitting(v, offset, Len(cells))
            /\ \A j \in 1 .. Fitting(v, offset, Len(cells)) : cut[j] = cells[j]
<1> DEFINE l == Len(cells)
           n == Fitting(v, offset, l)
           room == size - offset
           cut == IF Wrap(offset + Len(cells)) > v.size THEN Slice(cells, 0, v.size - offset) ELSE cells
<1>1. Wrap(offset + l) = offset + l
  <2>1. offset + l \in 0 .. Word - 1
    BY VolumesAssumption
  <2>2. QED
    BY <2>1, WrapSmall
<1>2. room \in Nat /\ n = IF l > room THEN room ELSE l
  BY DEF Fitting
<1>3. cut = IF offset + l > size THEN Slice(cells, 0, room) ELSE cells
  BY <1>1
<1>4. l \in Nat /\ (offset + l > size <=> l > room)
  OBVIOUS
<1> HIDE DEF room, cut, n
<1>5. Len(cut) = n /\ \A j \in 1 .. n : cut[j] = cells[j]
  <2>1. CASE offset + l > size
    <3>1. cut = Slice(cells, 0, room) /\ n = room /\ room <= l
      BY <1>2, <1>3, <1>4, <2>1
    <3>2. QED
      BY <1>2, <1>4, <3>1, SliceFacts
  <2>2. CASE ~(offset + l > size)
    <3>1. cut = cells /\ n = l
      BY <1>2, <1>3, <1>4, <2>2
    <3>2. QED
      BY <3>1
  <2>3. QED
    BY <2>1, <2>2
<1>6. QED
  BY <1>5 DEF cut, n

\* volume_write, when the driver does not overrun its buffers.
LEMMA VolumeWriteFacts ==
  ASSUME StorageInv, NEW i \in DOMAIN volumes, NEW offset \in WriteOffsets,
         offset <= volumes[i].size, NEW cells \in Writes,
         LET v == volumes[i]
             n == Fitting(v, offset, Len(cells))
         IN ~( /\ v.drive # Ramdisk /\ ~AtaRefuses(v.drive, Target(v, offset), n)
               /\ Overruns(Target(v, offset), n))
  PROVE  /\ RightlyWritten(VolumeWrite(i, offset, cells), volumes[i], offset, cells)
         /\ SameShape(VolumeWrite(i, offset, cells))
<1> DEFINE v == volumes[i]
           d == v.drive
           at == Target(v, offset)
           n == Fitting(v, offset, Len(cells))
           cut == IF Wrap(offset + Len(cells)) > v.size THEN Slice(cells, 0, v.size - offset) ELSE cells
           new == AtaWrite(d, at, cut)
<1>1. VolumeWrite(i, offset, cells) = IF offset > v.size THEN disk ELSE DriverWrite(d, at, cut)
  BY DEF VolumeWrite, Target
<1>2. Len(cells) \in Nat /\ offset \in Nat /\ offset + Len(cells) < Word
  <2>1. cells \in Seq(ToSet(cells)) /\ Word \in Nat
        /\ offset \in Nat /\ offset + Len(cells) < Word
    BY VolumesAssumption
  <2>2. Len(cells) \in Nat
    BY <2>1
  <2>3. QED
    BY <2>1, <2>2
<1>3. DisksShaped
  BY DEF StorageInv
<1>4. CASE d = Ramdisk
  <2>1. VolumeWrite(i, offset, cells) = disk
    BY <1>1, <1>4 DEF DriverWrite, InitrdWrite
  <2>2. Selected(d) = Ramdisk
    BY <1>4 DEF Selected, IoBase, Ramdisk
  <2>3. RightlyWritten(disk, v, offset, cells)
    BY <2>2 DEF RightlyWritten
  <2>4. SameShape(disk)
    BY <1>3 DEF SameShape, DisksShaped
  <2>5. QED
    BY <2>1, <2>3, <2>4
<1>5. CASE d # Ramdisk
  <2>1. /\ d \in Drive /\ v.size \in Nat /\ v.size < Word /\ at \in Nat /\ n \in Nat
        /\ Addressable(v) => /\ IsMaster(d) /\ Len(machine.disk[d]) \in Nat /\ at + n < Word
                             /\ ~AtaRefuses(d, at, n)
    BY <1>2, <1>5, RangeFacts
  <2>2. Len(cut) = n /\ \A j \in 1 .. n : cut[j] = cells[j]
    <3>1. offset <= v.size
      OBVIOUS
    <3> HIDE DEF v
    <3>2. QED
      BY <1>2, <2>1, <3>1, CutFacts
  <2>3. VolumeWrite(i, offset, cells) = new
    <3>1. ~(offset > v.size)
      <4>1. offset <= v.size
        OBVIOUS
      <4> HIDE DEF v
      <4>2. QED
        BY <1>2, <2>1, <4>1
    <3>2. QED
      BY <1>1, <1>5, <3>1 DEF DriverWrite
  <2>4. AtaRefuses(d, at, n) \/ at + n # 0
    BY <1>5 DEF Overruns
  <2> HIDE DEF v, n, cut, d, at, new
  <2>5. OnlyWithin(new, Selected(d), at, n)
    <3>1. Len(cut) \in Nat /\ (AtaRefuses(d, at, Len(cut)) \/ at + Len(cut) # 0)
      BY <2>1, <2>2, <2>4
    <3>2. OnlyWithin(AtaWrite(d, at, cut), Selected(d), at, Len(cut))
      BY <1>3, <2>1, <3>1, AtaWriteStays
    <3>3. QED
      BY <2>2, <3>2 DEF new
  <2>6. ASSUME Addressable(v), SectorSafe(at, n), NEW c \in DOMAIN disk[Selected(d)], c > at, c <= at + n
        PROVE  new[Selected(d)][c] = cells[c - at]
    <3>1. Selected(d) = d /\ d \in Disks /\ DOMAIN disk = Disks
      BY <1>3, <2>1, <2>6, SelectedDrive DEF Selected, IoBase, IsMaster, Drive
    <3>2. n # 0 /\ n \in Nat \ {0} /\ (Begin(at) = 0 \/ FirstSector(at) = LastSector(at, n))
      BY <2>1, <2>6 DEF SectorSafe
    <3>3. Handled(at, cut)
      <4>1. at + n \in 1 .. Word
        BY <2>1, <2>6, <3>2, VolumesAssumption
      <4>2. QED
        BY <2>2, <3>2, <4>1 DEF Handled
    <3>4. new = [disk EXCEPT ![d] = CellsWritten(d, at, cut)]
      <4>1. Len(cut) \in Nat \ {0} /\ ~AtaRefuses(d, at, Len(cut)) /\ IsMaster(d)
        BY <2>1, <2>2, <2>6, <3>2
      <4>2. QED
        BY <1>3, <2>1, <3>3, <4>1, AtaWriteFacts DEF new
    <3>5. new[d][c] = CellsWritten(d, at, cut)[c]
      BY <3>1, <3>4
    <3>6. new[d][c] = cut[c - at]
      BY <2>2, <2>6, <3>1, <3>5 DEF CellsWritten
    <3>7. c \in Nat /\ c - at \in 1 .. n
      <4>1. c \in Nat
        BY <1>3, <2>6, <3>1, PositionOf
      <4>2. QED
        BY <2>1, <2>6, <4>1
    <3>8. QED
      BY <2>2, <3>1, <3>6, <3>7
  <2>7. Selected(d) \in Disks /\ DOMAIN disk = Disks
    BY <1>3, <2>1, SelectedDrive
  <2>8. SameShape(new)
    BY <2>5 DEF OnlyWithin
  <2>9. ASSUME NEW e \in DOMAIN disk, NEW c \in DOMAIN disk[e]
        PROVE  IF e # Ramdisk /\ e = Selected(d) /\ c > at /\ c <= at + n
               THEN Addressable(v) /\ SectorSafe(at, n) => new[e][c] = cells[c - at]
               ELSE new[e][c] = disk[e][c]
    <3>1. CASE e = Selected(d) /\ c > at /\ c <= at + n
      <4>1. Selected(d) # Ramdisk
        BY <1>3, <2>1, SelectedDrive, NotRamdisk
      <4>2. QED
        BY <2>6, <3>1, <4>1
    <3>2. CASE ~(e = Selected(d) /\ c > at /\ c <= at + n)
      BY <2>5, <2>7, <3>2 DEF OnlyWithin
    <3>3. QED
      BY <3>1, <3>2
  <2>10. RightlyWritten(new, v, offset, cells)
    BY <2>9 DEF RightlyWritten, at, n, d
  <2>11. QED
    BY <2>3, <2>8, <2>10 DEF v
<1>6. QED
  BY <1>4, <1>5

\* A write leaves everything as it was but the disks.
LEMMA StorageWritten ==
  ASSUME StorageInv, WriteElsewhere
  PROVE  /\ StorageInv'
         /\ written' # written =>
              RightlyWritten(disk', volumes[written'.volume], written'.offset, written'.cells)
<1>1. PICK i \in DOMAIN volumes, offset \in WriteOffsets, cells \in Writes :
        offset <= volumes[i].size /\ Write(i, offset, cells)
  BY DEF WriteElsewhere
<1>2. /\ stage = "up" /\ stage' \in {"up", "overrun"}
      /\ UNCHANGED <<machine, device_tree, cursor, ata_devices, volumes>>
  BY <1>1 DEF Write
<1> DEFINE over == LET v == volumes[i]
                       n == Fitting(v, offset, Len(cells))
                   IN /\ v.drive # Ramdisk /\ ~AtaRefuses(v.drive, Target(v, offset), n)
                      /\ Overruns(Target(v, offset), n)
<1>3. CASE over
  <2>1. disk' = disk /\ written' = written
    BY <1>1, <1>3 DEF Write
  <2>2. UNCHANGED <<machine, ata_devices, disk, volumes>> /\ stage' # "ata found"
    BY <1>2, <2>1
  <2>3. StorageInv'
    BY <1>2, <2>2, StorageUntouched
  <2>4. QED
    BY <2>1, <2>3
<1> SUFFICES ASSUME ~over
             PROVE  StorageInv' /\ RightlyWritten(disk', volumes[written'.volume], written'.offset, written'.cells)
  BY <1>3
<1>4. /\ disk' = VolumeWrite(i, offset, cells)
      /\ written' = [volume |-> i, offset |-> offset, cells |-> cells]
  BY <1>1 DEF Write
<1>5. RightlyWritten(disk', volumes[i], offset, cells) /\ SameShape(disk')
  BY <1>1, <1>4, VolumeWriteFacts
<1> HIDE DEF over
<1>6. DisksShaped'
  BY <1>2, <1>5 DEF StorageInv, DisksShaped, SameShape
<1>7. WellPlaced'
  <2>1. PICK P : Listed(volumes, P) /\ \A q \in P : GoodPlace(q)
    BY DEF StorageInv, WellPlaced
  <2>2. \A d : AtaProbe(d)' = AtaProbe(d)
    BY <1>2 DEF AtaProbe
  <2>3. \A q \in P : GoodPlace(q)'
    BY <1>2, <2>1, <2>2 DEF GoodPlace
  <2>4. Listed(volumes', P)
    BY <1>2, <2>1
  <2>5. QED
    BY <2>3, <2>4 DEF WellPlaced
<1>8. /\ machine' \in Machines /\ stage' \in {"up", "overrun"}
      /\ ata_devices' = [d \in Drive |-> ata_devices'[d]]
  BY <1>2 DEF StorageInv
<1>9. StorageInv'
  BY <1>6, <1>7, <1>8 DEF StorageInv
<1>10. written'.volume = i /\ written'.offset = offset /\ written'.cells = cells
  BY <1>4
<1>11. QED
  BY <1>5, <1>9, <1>10

\* Every step keeps the invariant.
LEMMA StorageNext == StorageInv /\ [Next]_vars => StorageInv'
<1> SUFFICES ASSUME StorageInv, [Next]_vars PROVE StorageInv'
  OBVIOUS
<1>2. CASE UNCHANGED <<deviceVars, storageVars>>
  BY <1>2, StorageUntouched DEF deviceVars, storageVars
<1>3. CASE Boot
  <2>1. CASE InitrdInit
    BY <2>1, StorageWithRamdisk
  <2>2. CASE AtaInitProbe
    BY <2>2, StorageProbed
  <2>3. CASE AtaInitRegister
    BY <2>3, StorageWithDrive
  <2>4. CASE InitConsole
    <3>1. UNCHANGED <<machine, ata_devices, disk, volumes>> /\ stage = "console" /\ stage' \in {"up", "panic"}
      BY <2>4 DEF InitConsole
    <3>2. QED
      BY <3>1, StorageUntouched
  <2>5. CASE (VgaInit \/ Ps2KeyboardInit \/ PciInitSlot \/ PciInitDone \/ SataInit) /\ UNCHANGED storageVars
    <3>1. UNCHANGED <<ata_devices, disk, volumes>>
      BY <2>5 DEF storageVars
    <3>2. machine' = machine
      BY <2>5 DEF VgaInit, Ps2KeyboardInit, PciInitSlot, PciInitDone, SataInit
    <3>3. stage \notin {"up", "overrun"} /\ stage' # "ata found"
      BY <2>5 DEF VgaInit, Ps2KeyboardInit, PciInitSlot, PciInitDone, SataInit
    <3>4. QED
      BY <3>1, <3>2, <3>3, StorageUntouched
  <2>6. QED
    BY <1>3, <2>1, <2>2, <2>3, <2>4, <2>5 DEF Boot, BootNext
<1>4. CASE Halt \/ UNCHANGED vars
  BY <1>2, <1>4 DEF Halt, vars
<1>5. CASE \E id \in ShortId : Mount(id)
  BY <1>2, <1>5 DEF Mount
<1>6. CASE Unmount \/ Open \/ Close \/ List
  BY <1>2, <1>6 DEF Unmount, Open, Close, List
<1>7. CASE \E name \in Names : Walk(name)
  BY <1>2, <1>7 DEF Walk
<1>8. CASE \E size \in ReadSizes : Read(size)
  BY <1>2, <1>8 DEF Read
<1>9. CASE WriteElsewhere
  BY <1>9, StorageWritten
<1>10. QED
  BY <1>3, <1>4, <1>5, <1>6, <1>7, <1>8, <1>9 DEF Next, Use

\* Only WriteElsewhere writes.
LEMMA NothingElseWrites ==
  ASSUME [Next]_vars, written' # written
  PROVE  WriteElsewhere
<1>1. CASE Boot
  BY <1>1 DEF Boot, BootNext, InitrdInit, AtaInitProbe, AtaInitRegister, InitConsole, storageVars
<1>2. CASE Halt \/ UNCHANGED vars
  BY <1>2 DEF Halt, vars, storageVars
<1>3. CASE \E id \in ShortId : Mount(id)
  BY <1>3 DEF Mount, storageVars
<1>4. CASE Unmount \/ Open \/ Close \/ List
  BY <1>4 DEF Unmount, Open, Close, List, storageVars
<1>5. CASE \E name \in Names : Walk(name)
  BY <1>5 DEF Walk, storageVars
<1>6. CASE \E size \in ReadSizes : Read(size)
  BY <1>6 DEF Read, storageVars
<1>7. QED
  BY <1>1, <1>2, <1>3, <1>4, <1>5, <1>6 DEF Next, Use

\* On every computer, whatever is written to a volume wherever: nothing changes outside
\* the range, as far as it fits, on no volume and no drive, and a range that the driver
\* handles gets its cells (volume_write, ata_write and the sectors it reads, alters and
\* writes back).
THEOREM WritesKeepTheirPlace == Spec => WritesStayInVolume
<1> DEFINE Right ==
      written' # written =>
       LET v == volumes[written'.volume]
           at == Target(v, written'.offset)
           n == Fitting(v, written'.offset, Len(written'.cells))
       IN \A d \in DOMAIN disk : \A c \in DOMAIN disk[d] :
            IF d # Ramdisk /\ d = Selected(v.drive) /\ c > at /\ c <= at + n
            THEN Addressable(v) /\ SectorSafe(at, n) => disk'[d][c] = written'.cells[c - at]
            ELSE disk'[d][c] = disk[d][c]
<1>1. StorageInv /\ [Next]_vars => [Right]_<<disk, written>>
  <2> SUFFICES ASSUME StorageInv, [Next]_vars, written' # written PROVE Right
    OBVIOUS
  <2>1. WriteElsewhere
    BY NothingElseWrites
  <2>2. RightlyWritten(disk', volumes[written'.volume], written'.offset, written'.cells)
    BY <2>1, StorageWritten
  <2>3. QED
    BY <2>2 DEF RightlyWritten
<1>2. QED
  BY StorageStart, StorageNext, <1>1, PTL DEF Spec, WritesStayInVolume

-----------------------------------------------------------------------------
(* Reading from a drive.                                                   *)

\* s is the part of q that has n elements and lies behind the first a.
PartOf(s, q, a, n) ==
  /\ \E S : s \in Seq(S)
  /\ Len(s) = n
  /\ \A j \in 1 .. n : s[j] = q[a + j]

\* The elements of a slice.
LEMMA SliceIs ==
  ASSUME NEW q, NEW at \in Nat, NEW n \in Nat
  PROVE  PartOf(Slice(q, at, n), q, at, n)
<1> DEFINE T == {q[i] : i \in at + 1 .. at + n}
<1>1. Slice(q, at, n) = SubSeq(q, at + 1, at + n)
  BY DEF Slice
<1>2. \A i \in at + 1 .. at + n : q[i] \in T
  OBVIOUS
<1>3. at + 1 \in Int /\ at + n \in Int /\ (at + n) - (at + 1) + 1 = n
  OBVIOUS
<1> HIDE DEF T
<1>4. /\ SubSeq(q, at + 1, at + n) \in Seq(T)
      /\ Len(SubSeq(q, at + 1, at + n)) = IF at + 1 <= at + n THEN (at + n) - (at + 1) + 1 ELSE 0
      /\ \A i \in 1 .. (at + n) - (at + 1) + 1 : SubSeq(q, at + 1, at + n)[i] = q[(at + 1) + i - 1]
  BY <1>2, <1>3, SubSeqProperties
<1>5. (IF at + 1 <= at + n THEN (at + n) - (at + 1) + 1 ELSE 0) = n
  OBVIOUS
<1>6. ASSUME NEW j \in 1 .. n PROVE SubSeq(q, at + 1, at + n)[j] = q[at + j]
  <2>1. (at + 1) + j - 1 = at + j
    OBVIOUS
  <2>2. QED
    BY <1>3, <1>4, <2>1
<1>7. QED
  BY <1>1, <1>4, <1>5, <1>6 DEF PartOf

\* There is only one such part,
LEMMA OnePart ==
  ASSUME NEW q, NEW a, NEW n \in Nat, NEW s, PartOf(s, q, a, n), NEW t, PartOf(t, q, a, n)
  PROVE  s = t
<1>1. PICK S : s \in Seq(S)
  BY DEF PartOf
<1>2. PICK T : t \in Seq(T)
  BY DEF PartOf
<1>3. s \in Seq(S \cup T) /\ t \in Seq(S \cup T)
  BY <1>1, <1>2
<1>4. Len(s) = Len(t) /\ \A j \in 1 .. Len(s) : s[j] = t[j]
  BY DEF PartOf
<1>5. QED
  BY <1>3, <1>4, SeqEqual

\* a part of a part is a part of the whole,
LEMMA SliceOfSlice ==
  ASSUME NEW q, NEW a \in Nat, NEW m \in Nat, NEW b \in Nat, NEW n \in Nat, b + n <= m
  PROVE  Slice(Slice(q, a, m), b, n) = Slice(q, a + b, n)
<1> DEFINE outer == Slice(q, a, m)
           inner == Slice(outer, b, n)
<1>1. PartOf(outer, q, a, m)
  BY SliceIs
<1> HIDE DEF outer
<1>2. PartOf(inner, outer, b, n)
  BY SliceIs
<1>3. a + b \in Nat
  OBVIOUS
<1>4. PartOf(Slice(q, a + b, n), q, a + b, n)
  BY <1>3, SliceIs
<1> HIDE DEF inner
<1>5. ASSUME NEW j \in 1 .. n PROVE inner[j] = q[(a + b) + j]
  <2>1. inner[j] = outer[b + j]
    BY <1>2 DEF PartOf
  <2>2. b + j \in 1 .. m
    OBVIOUS
  <2>3. outer[b + j] = q[a + (b + j)]
    BY <1>1, <2>2 DEF PartOf
  <2>4. a + (b + j) = (a + b) + j
    OBVIOUS
  <2>5. QED
    BY <2>1, <2>3, <2>4
<1>6. PartOf(inner, q, a + b, n)
  BY <1>2, <1>5 DEF PartOf
<1>7. QED
  BY <1>4, <1>6, OnePart DEF inner, outer

\* and two parts one after the other are a larger one.
LEMMA SliceThenSlice ==
  ASSUME NEW q, NEW a \in Nat, NEW m \in Nat, NEW n \in Nat
  PROVE  Slice(q, a, m) \o Slice(q, a + m, n) = Slice(q, a, m + n)
<1> DEFINE s == Slice(q, a, m)
           t == Slice(q, a + m, n)
<1>1. a + m \in Nat /\ m + n \in Nat
  OBVIOUS
<1>2. PartOf(s, q, a, m)
  BY SliceIs
<1>3. PartOf(t, q, a + m, n)
  BY <1>1, SliceIs
<1>4. PartOf(Slice(q, a, m + n), q, a, m + n)
  BY <1>1, SliceIs
<1> HIDE DEF s, t
<1>5. PICK S : s \in Seq(S)
  BY <1>2 DEF PartOf
<1>6. PICK T : t \in Seq(T)
  BY <1>3 DEF PartOf
<1>7. s \in Seq(S \cup T) /\ t \in Seq(S \cup T) /\ Len(s) = m /\ Len(t) = n
  BY <1>2, <1>3, <1>5, <1>6 DEF PartOf
<1>8. /\ s \o t \in Seq(S \cup T) /\ Len(s \o t) = m + n
      /\ \A i \in 1 .. m + n : (s \o t)[i] = IF i <= m THEN s[i] ELSE t[i - m]
  BY <1>7, ConcatProperties
<1>9. ASSUME NEW j \in 1 .. m + n PROVE (s \o t)[j] = q[a + j]
  <2>1. CASE j <= m
    <3>1. s[j] = q[a + j]
      BY <1>2, <2>1 DEF PartOf
    <3>2. QED
      BY <1>8, <2>1, <3>1
  <2>2. CASE j > m
    <3>1. j - m \in 1 .. n /\ (a + m) + (j - m) = a + j /\ ~(j <= m)
      BY <2>2
    <3>2. t[j - m] = q[(a + m) + (j - m)]
      BY <1>3, <3>1 DEF PartOf
    <3>3. QED
      BY <1>8, <3>1, <3>2
  <2>3. j <= m \/ j > m
    OBVIOUS
  <2>4. QED
    BY ONLY <2>1, <2>2, <2>3
<1>10. PartOf(s \o t, q, a, m + n)
  BY <1>8, <1>9 DEF PartOf
<1>11. QED
  BY <1>1, <1>4, <1>10, OnePart DEF s, t

\* (the same with a name)
TwoSlices(q, a, m, n) == Slice(q, a, m) \o Slice(q, a + m, n) = Slice(q, a, m + n)

LEMMA SlicesJoin == \A q : \A a, m, n \in Nat : TwoSlices(q, a, m, n)
BY SliceThenSlice DEF TwoSlices

\* w[i] is the first i pieces of q, one after the other.
Joins(w, q, n) == w = [i \in 1 .. n |-> IF i = 1 THEN q[i] ELSE w[i - 1] \o q[i]]

\* What FlattenSeq delivers is told by any function that joins the pieces.
LEMMA Flattened ==
  ASSUME NEW q, NEW n \in Nat \ {0}, Len(q) = n, NEW w, Joins(w, q, n)
  PROVE  FlattenSeq(q) = w[n]
<1> DEFINE Is(v) == v = [i \in 1 .. Len(q) |-> IF i = 1 THEN q[i] ELSE v[i - 1] \o q[i]]
           flatten == CHOOSE v : Is(v)
<1>1. FlattenSeq(q) = flatten[n]
  BY DEF FlattenSeq
<1>2. Is(flatten)
  <2>1. \E v : Is(v)
    <3>1. Is(w)
      BY 1 .. Len(q) = 1 .. n DEF Joins
    <3>2. QED
      BY <3>1
  <2> HIDE DEF Is
  <2>2. QED
    BY <2>1
<1>3. \A i \in 1 .. n : flatten[i] = IF i = 1 THEN q[i] ELSE flatten[i - 1] \o q[i]
  <2> HIDE DEF flatten
  <2>1. QED
    BY <1>2
<1>4. \A i \in 1 .. n : w[i] = IF i = 1 THEN q[i] ELSE w[i - 1] \o q[i]
  BY DEF Joins
<1> HIDE DEF flatten, Is
<1> DEFINE T == {i \in 1 .. n : flatten[i] # w[i]}
<1>5. T = {}
  <2> SUFFICES ASSUME T # {} PROVE FALSE
    OBVIOUS
  <2>1. T \in SUBSET Nat
    OBVIOUS
  <2>2. PICK m \in T : \A k \in T : m <= k
    <3> HIDE DEF T
    <3>1. QED
      BY <2>1, LeastNatural
  <2>3. m \in 1 .. n /\ flatten[m] # w[m]
    OBVIOUS
  <2>4. CASE m = 1
    BY <1>3, <1>4, <2>3, <2>4
  <2>5. CASE m # 1
    <3>1. m - 1 \in 1 .. n /\ ~(m <= m - 1)
      BY <2>3, <2>5
    <3>2. flatten[m - 1] = w[m - 1]
      BY <2>2, <3>1
    <3> HIDE DEF T
    <3>3. QED
      BY ONLY <1>3, <1>4, <2>3, <2>5, <3>2
  <2>6. QED
    BY <2>4, <2>5
<1>6. flatten[n] = w[n]
  <2>1. n \in 1 .. n
    OBVIOUS
  <2>2. n \notin T
    BY <1>5
  <2>3. QED
    BY ONLY <2>1, <2>2
<1>7. QED
  BY <1>1, <1>6

\* The k-th piece of a range that begins with a sector or stays in one: it begins
\* where k - 1 whole sectors end, and ends with its sector or the range.
PieceIs(s, at, size, first, b, last, k, moved) ==
  /\ moved \in Nat /\ b + moved <= s
  /\ (first + k - 1) * s \in Nat /\ (k - 1) * s \in Nat
  /\ (first + k - 1) * s + b = at + (k - 1) * s
  /\ k <= last - first => moved = s
  /\ k = last - first + 1 => (k - 1) * s + moved = size
  /\ (k - 1) * s + moved <= size

\* A range and all its pieces.
RangeIs(s, at, size, first, b, last) ==
  /\ first \in Nat /\ last \in Int /\ last >= first - 1 /\ b \in 0 .. s - 1
  /\ last < first => size = 0
  /\ \A k \in 1 .. last - first + 1 :
       PieceIs(s, at, size, first, b, last, k,
               IF first + k - 1 = last THEN ((at + size - 1) % s) - b + 1 ELSE s - b)

\* The arithmetic of the pieces.
LEMMA PieceArithmetic ==
  ASSUME NEW s \in Nat \ {0}, NEW at \in Nat, NEW size \in Nat,
         NEW first, first = at \div s, NEW b, b = at % s, NEW last, last = (at + size - 1) \div s,
         b = 0 \/ first = last
  PROVE  RangeIs(s, at, size, first, b, last)
<1> DEFINE r == (at + size - 1) % s
<1>1. first \in Int /\ b \in 0 .. s - 1 /\ at = first * s + b
  BY Quotient
<1>2. last \in Int /\ r \in 0 .. s - 1 /\ at + size - 1 = last * s + r
  <2>1. at + size - 1 \in Int
    OBVIOUS
  <2>2. QED
    BY <2>1, Quotient
<1> HIDE DEF r
<1>3. \A x, y \in Int : /\ x * s \in Int /\ y * s \in Int
                        /\ x < y => x * s + s <= y * s
                        /\ (x + 1) * s = x * s + s
                        /\ (x - y) * s = x * s - y * s
  BY Multiples
<1>4. first \in Nat
  <2>1. first < 0 => first * s + s <= 0 * s
    BY <1>1, <1>3
  <2>2. 0 * s = 0 /\ first * s \in Int
    BY <1>1, <1>3
  <2>3. QED
    BY ONLY <1>1, <2>1, <2>2, at \in Nat, s \in Nat \ {0}
<1> DEFINE F == first * s
           M == last * s
<1>5. F \in Int /\ M \in Int
  BY <1>1, <1>2, <1>3
<1>6. /\ last < first => M + s <= F
      /\ last + 1 < first => M + s + s <= F
  <2>1. last + 1 < first => (last + 1) * s + s <= F
    BY <1>1, <1>2, <1>3
  <2>2. (last + 1) * s = M + s
    BY <1>2, <1>3
  <2>3. QED
    BY <1>1, <1>2, <1>3, <2>1, <2>2
<1>7. at = F + b /\ at + size - 1 = M + r
  BY <1>1, <1>2
<1>8. last >= first - 1 /\ (last < first => size = 0)
  <2> HIDE DEF F, M
  <2>1. QED
    BY ONLY <1>1, <1>2, <1>5, <1>6, <1>7, at \in Nat, size \in Nat, s \in Nat \ {0}
<1>9. F \in Nat
  <2> HIDE DEF F, M
  <2>1. F > 0 - s
    BY ONLY <1>1, <1>5, <1>7, at \in Nat, s \in Nat \ {0}
  <2>2. first = 0 \/ first > 0
    BY <1>4
  <2>3. first > 0 => 0 * s + s <= F
    BY <1>1, <1>3 DEF F
  <2>4. first = 0 => F = 0
    BY DEF F
  <2>5. 0 * s = 0
    OBVIOUS
  <2>6. QED
    BY ONLY <1>5, <2>2, <2>3, <2>4, <2>5, s \in Nat \ {0}
<1>10. ASSUME NEW k \in 1 .. last - first + 1
       PROVE  PieceIs(s, at, size, first, b, last, k, IF first + k - 1 = last THEN r - b + 1 ELSE s - b)
  <2> DEFINE moved == IF first + k - 1 = last THEN r - b + 1 ELSE s - b
             P == (k - 1) * s
             L == (first + k - 1) * s
  <2>1. k \in Int /\ k - 1 \in Nat
    BY <1>1, <1>2
  <2>2. P \in Int /\ (k - 1 > 0 => 0 * s + s <= P) /\ (k - 1 = 0 => P = 0) /\ 0 * s = 0
    <3>1. k - 1 \in Int
      BY <2>1
    <3>2. k - 1 = 0 => P = 0
      OBVIOUS
    <3>3. QED
      BY <1>3, <3>1, <3>2
  <2>3. L \in Int /\ L = F + P
    <3> DEFINE z == first + k - 1
    <3>1. z \in Int /\ z - first = k - 1
      BY <1>1, <2>1
    <3> HIDE DEF z
    <3>2. (z - first) * s = z * s - first * s /\ z * s \in Int
      BY <1>1, <1>3, <3>1
    <3>3. L = z * s /\ P = (z - first) * s
      BY <3>1 DEF z
    <3> HIDE DEF L, P
    <3>4. QED
      BY <1>5, <2>2, <3>2, <3>3
  <2>4. first + k - 1 = last => L = M
    OBVIOUS
  <2>5. moved = IF first + k - 1 = last THEN r - b + 1 ELSE s - b
    OBVIOUS
  <2>6. first = last => F = M
    OBVIOUS
  <2> HIDE DEF moved, P, L, F, M
  <2>7. P \in Nat /\ L \in Nat /\ L + b = at + P
    BY ONLY <1>5, <1>7, <1>9, <2>1, <2>2, <2>3, <1>1, s \in Nat \ {0}
  <2>8. moved \in Nat /\ b + moved <= s
    <3>1. CASE b = 0
      BY ONLY <1>2, <2>5, <3>1, s \in Nat \ {0}
    <3>2. CASE b # 0
      <4>1. first = last /\ k = 1 /\ first + k - 1 = last
        BY <1>1, <3>2
      <4>2. r - b + 1 = size
        BY ONLY <1>1, <1>2, <1>5, <1>7, <2>6, <4>1, size \in Nat, at \in Nat
      <4>3. QED
        BY ONLY <1>1, <1>2, <2>5, <4>1, <4>2, size \in Nat, s \in Nat \ {0}
    <3>3. QED
      BY <3>1, <3>2
  <2>9. k <= last - first => moved = s
    <3>1. CASE b = 0
      BY ONLY <1>1, <1>2, <2>1, <2>5, <3>1, s \in Nat \ {0}
    <3>2. CASE b # 0
      BY ONLY <1>1, <2>1, <3>2, b = 0 \/ first = last
    <3>3. QED
      BY <3>1, <3>2
  <2>10. k = last - first + 1 => P + moved = size
    <3> HAVE k = last - first + 1
    <3>1. first + k - 1 = last
      BY <1>1, <1>2
    <3>2. L = M /\ moved = r - b + 1
      BY <2>4, <2>5, <3>1
    <3>3. QED
      BY ONLY <1>1, <1>2, <1>5, <1>7, <2>3, <2>7, <2>8, <3>2, size \in Nat, at \in Nat
  <2>11. P + moved <= size
    <3>1. CASE k = last - first + 1
      BY ONLY <2>7, <2>8, <2>10, <3>1, size \in Nat
    <3>2. CASE k # last - first + 1
      <4>1. k <= last - first /\ first + k - 1 < last /\ first + k - 1 \in Int
        BY ONLY <1>1, <1>2, <2>1, <3>2, k \in 1 .. last - first + 1
      <4>2. L + s <= M
        BY <1>2, <1>3, <4>1 DEF L, M
      <4>3. b = 0
        BY ONLY <1>1, <2>1, <4>1, b = 0 \/ first = last
      <4>4. moved = s
        BY <2>9, <4>1
      <4>5. QED
        BY ONLY <1>2, <1>5, <1>7, <2>3, <2>7, <4>2, <4>3, <4>4, at \in Nat, size \in Nat, s \in Nat \ {0}
    <3>3. QED
      BY <3>1, <3>2
  <2>12. QED
    BY <2>7, <2>8, <2>9, <2>10, <2>11 DEF PieceIs, P, L, moved
<1>11. QED
  BY <1>1, <1>2, <1>4, <1>8, <1>10 DEF r, RangeIs

\* ata_read delivers the range, whatever sectors it lies across.
LEMMA AtaReadFacts ==
  ASSUME DisksShaped, NEW d \in Drive, IsMaster(d), NEW at \in Nat, NEW size \in Nat \ {0},
         at + size <= Len(machine.disk[d]), at + size < Word,
         Begin(at) = 0 \/ FirstSector(at) = LastSector(at, size), ~AtaRefuses(d, at, size)
  PROVE  AtaRead(d, at, size) = Slice(disk[d], at, size)
<1> DEFINE s == SectorSize
           first == FirstSector(at)
           last == LastSector(at, size)
           b == Begin(at)
           n == last - first + 1
           D == disk[d]
           moved(k) == Moved(at, size, first + k - 1)
           f == [k \in 1 .. n |-> Slice(ReadSector(d, first + k - 1), b, moved(k))]
           w == [k \in 1 .. n |-> Slice(D, at, (k - 1) * s + moved(k))]
<1>1. s \in Nat \ {0}
  BY VolumesAssumption
<1>2. AtaRead(d, at, size) = FlattenSeq(f)
  BY DEF AtaRead
<1>2a. Wrap(at + size - 1) = at + size - 1
  <2>1. at + size - 1 \in 0 .. Word - 1
    BY VolumesAssumption
  <2>2. QED
    BY <2>1, WrapSmall
<1>3. /\ first \in Nat /\ last \in Int /\ last >= first - 1 /\ b \in 0 .. s - 1
      /\ last < first => size = 0
      /\ \A k \in 1 .. n : PieceIs(s, at, size, first, b, last, k, moved(k))
  <2>1. first = at \div s /\ b = at % s /\ last = (at + size - 1) \div s /\ (b = 0 \/ first = last)
    BY <1>2a DEF FirstSector, LastSector, Begin
  <2>2. \A k : moved(k) = IF first + k - 1 = last THEN ((at + size - 1) % s) - b + 1 ELSE s - b
    BY <1>2a DEF Moved
  <2> HIDE DEF s, first, last, b, moved
  <2>3. RangeIs(s, at, size, first, b, last)
    BY <1>1, <2>1, PieceArithmetic
  <2>4. QED
    BY <2>2, <2>3 DEF RangeIs
<1>4. \A l : \A p \in 1 .. s : l * s + p \in DOMAIN D => ReadSector(d, l)[p] = D[l * s + p]
  <2>1. Selected(d) = d
    BY DEF Selected, IoBase, IsMaster, Drive
  <2>2. QED
    BY <2>1 DEF ReadSector
<1>4a. \A c \in Nat \ {0} : c <= at + size => c \in DOMAIN D
  <2>1. DOMAIN D = 1 .. Len(machine.disk[d]) /\ Len(machine.disk[d]) \in Nat
    BY NotRamdisk DEF DisksShaped
  <2> DEFINE m == Len(machine.disk[d])
  <2>2. at + size <= m
    OBVIOUS
  <2> HIDE DEF D, m
  <2>3. QED
    BY <2>1, <2>2 DEF m
<1> HIDE DEF s, first, last, b, D, moved
<1>5. n \in Nat
  BY <1>3
<1>6. ASSUME NEW k \in 1 .. n
      PROVE  f[k] = Slice(D, at + (k - 1) * s, moved(k))
  <2> DEFINE z == first + k - 1
  <2>1. PieceIs(s, at, size, first, b, last, k, moved(k))
    BY <1>3
  <2>2. /\ moved(k) \in Nat /\ b + moved(k) <= s /\ z * s \in Nat
        /\ z * s + b = at + (k - 1) * s
    BY <2>1 DEF PieceIs
  <2>3. (k - 1) * s + moved(k) <= size /\ (k - 1) * s \in Nat
    BY <2>1 DEF PieceIs
  <2> DEFINE a == z * s
             m == moved(k)
             R == ReadSector(d, z)
             P == (k - 1) * s
  <2>4. a \in Nat /\ b \in Nat /\ s \in Nat /\ m \in Nat /\ b + m <= s /\ P \in Nat /\ a + b = at + P /\ P + m <= size
    BY <1>1, <1>3, <2>2, <2>3
  <2>5. \A p \in 1 .. s : a + p \in DOMAIN D => R[p] = D[a + p]
    BY <1>4
  <2>6. f[k] = Slice(R, b, m)
    OBVIOUS
  <2> HIDE DEF a, m, R, P, z, f
  <2>7. PartOf(Slice(R, b, m), R, b, m)
    BY <2>4, SliceIs
  <2>8. ASSUME NEW j \in 1 .. m PROVE Slice(R, b, m)[j] = D[(at + P) + j]
    <3>1. Slice(R, b, m)[j] = R[b + j]
      BY <2>7 DEF PartOf
    <3>2. b + j \in 1 .. s /\ a + (b + j) = (at + P) + j /\ (at + P) + j \in Nat \ {0}
          /\ (at + P) + j <= at + size
      BY <2>4
    <3>3. QED
      BY <1>4a, <2>5, <3>1, <3>2
  <2>9. PartOf(Slice(R, b, m), D, at + P, m)
    BY <2>7, <2>8 DEF PartOf
  <2>10. PartOf(Slice(D, at + P, m), D, at + P, m)
    BY <2>4, SliceIs
  <2>11. Slice(R, b, m) = Slice(D, at + P, m)
    BY <2>4, <2>9, <2>10, OnePart
  <2>12. QED
    BY <2>6, <2>11 DEF m, P
<1>7. ASSUME NEW k \in 1 .. n
      PROVE  w[k] = IF k = 1 THEN f[k] ELSE w[k - 1] \o f[k]
  <2> DEFINE p == (k - 1) * s
  <2>1. moved(k) \in Nat /\ p \in Nat
    BY <1>3 DEF PieceIs
  <2>2. w[k] = Slice(D, at, p + moved(k)) /\ f[k] = Slice(D, at + p, moved(k))
    BY <1>6
  <2>3. CASE k = 1
    <3>1. p = 0
      BY <1>1, <2>3
    <3> HIDE DEF p, w, f
    <3>2. p + moved(k) = moved(k) /\ at + p = at
      BY <2>1, <3>1
    <3>3. QED
      BY <2>2, <2>3, <3>2
  <2>4. CASE k # 1
    <3>1. k - 1 \in 1 .. n /\ k - 1 <= last - first
      BY <1>3, <2>4
    <3>2. moved(k - 1) = s
      BY <1>3, <3>1 DEF PieceIs
    <3>3. (k - 1 - 1) * s + s = p
      BY <1>1
    <3>4. w[k - 1] = Slice(D, at, p)
      <4>1. w[k - 1] = Slice(D, at, (k - 1 - 1) * s + moved(k - 1))
        BY <3>1
      <4> HIDE DEF w, p
      <4>2. QED
        BY <3>2, <3>3, <4>1
    <3> HIDE DEF p, w, f
    <3>5. Slice(D, at, p) \o Slice(D, at + p, moved(k)) = Slice(D, at, p + moved(k))
      <4>1. PICK q, x, y, z : q = D /\ x = at /\ y = p /\ z = moved(k)
        OBVIOUS
      <4>2. x \in Nat /\ y \in Nat /\ z \in Nat
        BY <2>1, <4>1
      <4>3. TwoSlices(q, x, y, z)
        BY ONLY <4>2, SlicesJoin
      <4> HIDE DEF D, moved
      <4>4. TwoSlices(D, at, p, moved(k))
        BY ONLY <4>1, <4>3
      <4>5. QED
        BY ONLY <4>4 DEF TwoSlices
    <3>6. QED
      BY <2>2, <2>4, <3>4, <3>5
  <2>5. QED
    BY <2>3, <2>4
<1>8. CASE n = 0
  <2>1. size = 0
    BY <1>3, <1>8
  <2>2. Len(f) = 0 /\ f = <<>>
    <3>1. 1 .. n = {}
      BY <1>8
    <3>2. f = [k \in 1 .. 0 |-> f[k]]
      BY <1>8
    <3> HIDE DEF f
    <3>3. f \in Seq({})
      BY <3>1, <3>2, <1>8
    <3>4. Len(f) = 0
      BY <3>2
    <3>5. QED
      BY <3>3, <3>4
  <2> HIDE DEF f
  <2>3. FlattenSeq(f) = <<>>
    BY <2>2 DEF FlattenSeq
  <2>4. Slice(D, at, size) = <<>>
    <3>1. PartOf(Slice(D, at, size), D, at, size)
      BY SliceIs
    <3>2. QED
      BY <2>1, <3>1 DEF PartOf
  <2>5. QED
    BY <1>2, <2>3, <2>4 DEF D
<1>9. CASE n # 0
  <2>1. n \in Nat \ {0} /\ Len(f) = n
    BY <1>5, <1>9
  <2>2. Joins(w, f, n)
    <3>1. w = [k \in 1 .. n |-> w[k]]
      OBVIOUS
    <3> HIDE DEF w, f, n
    <3>2. QED
      BY <1>7, <3>1 DEF Joins
  <2>3. w[n] = Slice(D, at, size)
    <3>1. n \in 1 .. n
      BY <2>1
    <3>2. PieceIs(s, at, size, first, b, last, n, moved(n))
      BY <1>3, <3>1
    <3>3. (n - 1) * s + moved(n) = size
      BY <3>2 DEF PieceIs
    <3>4. w[n] = Slice(D, at, (n - 1) * s + moved(n))
      BY <3>1
    <3> HIDE DEF w, n
    <3>5. QED
      BY <3>3, <3>4
  <2> HIDE DEF w, f, n
  <2>4. FlattenSeq(f) = w[n]
    BY ONLY <2>1, <2>2, Flattened
  <2>5. QED
    BY <1>2, <2>3, <2>4 DEF D
<1>10. QED
  BY <1>8, <1>9

-----------------------------------------------------------------------------
(* Reading from a volume.                                                  *)

\* volume_read and ata_read behind it.
LEMMA VolumeReadFacts ==
  ASSUME StorageInv, NEW i \in DOMAIN volumes, volumes[i].drive # Ramdisk, Addressable(volumes[i]),
         NEW offset \in Nat, offset <= volumes[i].size, NEW size \in Nat, offset + size < Word,
         SectorSafe(Target(volumes[i], offset), Fitting(volumes[i], offset, size))
  PROVE  LET v == volumes[i]
             n == Fitting(v, offset, size)
         IN VolumeRead(i, offset, size) = Slice(disk[v.drive], v.offset + offset, n)
<1> DEFINE v == volumes[i]
           d == v.drive
           at == Target(v, offset)
           n == Fitting(v, offset, size)
<1>1. /\ d \in Drive /\ v.offset \in Nat /\ v.size \in Nat /\ v.size < Word
      /\ at \in Nat /\ n \in Nat
      /\ IsMaster(d) /\ at = v.offset + offset
      /\ at + n <= Len(machine.disk[d]) /\ at + n < Word /\ ~AtaRefuses(d, at, n)
  BY RangeFacts
<1>2. VolumeRead(i, offset, size) =
        IF offset > v.size THEN <<>>
        ELSE DriverRead(d, at, IF Wrap(offset + size) > v.size THEN v.size - offset ELSE size)
  BY DEF VolumeRead, Target
<1>3. offset <= v.size /\ SectorSafe(at, n) /\ d # Ramdisk
  OBVIOUS
<1>4. Wrap(offset + size) = offset + size
  <2>1. offset + size \in 0 .. Word - 1
    BY VolumesAssumption
  <2>2. QED
    BY <2>1, WrapSmall
<1> HIDE DEF v, d, at
<1>5. (IF Wrap(offset + size) > v.size THEN v.size - offset ELSE size) = n
  BY <1>1, <1>3, <1>4 DEF Fitting
<1>6. ~(offset > v.size)
  BY <1>1, <1>3
<1> HIDE DEF n
<1>7. n \in Nat \ {0} /\ (Begin(at) = 0 \/ FirstSector(at) = LastSector(at, n))
  BY <1>1, <1>3 DEF SectorSafe
<1>8. AtaRead(d, at, n) = Slice(disk[d], at, n)
  BY <1>1, <1>7, AtaReadFacts DEF StorageInv
<1>9. VolumeRead(i, offset, size) = Slice(disk[d], at, n)
  BY <1>2, <1>3, <1>5, <1>6, <1>8 DEF DriverRead
<1>10. QED
  BY <1>1, <1>9 DEF v, d, n

\* Safety: what is read from a volume that the driver can address is what the volume
\* holds, as far as the range lies in it and is one that ata_read handles (volume_read,
\* ata_read).
ReadsStayInVolume ==
  \A i \in DOMAIN volumes : \A offset, size \in Nat :
    /\ Addressable(volumes[i])
    /\ offset <= volumes[i].size /\ offset + size < Word
    /\ SectorSafe(Target(volumes[i], offset), Fitting(volumes[i], offset, size))
    => VolumeRead(i, offset, size) =
         Slice(Contents(i), offset, Fitting(volumes[i], offset, size))

\* Safety: until the next write, reading back the range that was written last
\* delivers what was written there, as far as it fitted (volume_write, volume_read).
LastWriteReadsBack ==
  written # NoWrite =>
    LET v == volumes[written.volume]
        n == Fitting(v, written.offset, Len(written.cells))
    IN Addressable(v) /\ SectorSafe(Target(v, written.offset), n) =>
         VolumeRead(written.volume, written.offset, Len(written.cells)) =
           Slice(written.cells, 0, n)

\* On every computer, a read delivers the cells of the range and of this volume,
\* whatever sectors they are in (volume_read cuts the range, ata_read puts it
\* together from whole sectors), if the driver can address the volume.
THEOREM ReadsKeepTheirPlace == Spec => []ReadsStayInVolume
<1>1. StorageInv => ReadsStayInVolume
  <2> SUFFICES ASSUME StorageInv, NEW i \in DOMAIN volumes, NEW offset \in Nat, NEW size \in Nat,
                      Addressable(volumes[i]), offset <= volumes[i].size, offset + size < Word,
                      SectorSafe(Target(volumes[i], offset), Fitting(volumes[i], offset, size))
               PROVE  VolumeRead(i, offset, size) =
                        Slice(Contents(i), offset, Fitting(volumes[i], offset, size))
    BY DEF ReadsStayInVolume
  <2> DEFINE o == volumes[i].offset
             z == volumes[i].size
             D == disk[volumes[i].drive]
             n == Fitting(volumes[i], offset, size)
  <2>1. volumes[i].drive # Ramdisk
    BY DEF Addressable
  <2>2. o \in Nat /\ z \in Nat /\ n \in Nat /\ n <= z - offset
    BY <2>1, RangeFacts
  <2>3. VolumeRead(i, offset, size) = Slice(D, o + offset, n)
    BY <2>1, VolumeReadFacts
  <2>4. Contents(i) = Slice(D, o, z)
    BY DEF Contents
  <2>5. offset <= z
    OBVIOUS
  <2> HIDE DEF o, z, D, n
  <2>6. offset + n <= z
    BY <2>2, <2>5
  <2>7. Slice(Slice(D, o, z), offset, n) = Slice(D, o + offset, n)
    BY <2>2, <2>6, SliceOfSlice
  <2>8. QED
    BY <2>3, <2>4, <2>7 DEF n
<1>2. QED
  BY StorageStart, StorageNext, <1>1, PTL DEF Spec

\* The last write is where it was put.
LastWriteKept ==
  /\ stage \notin {"up", "overrun"} => written = NoWrite
  /\ written # NoWrite =>
       LET v == volumes[written.volume]
           at == Target(v, written.offset)
           n == Fitting(v, written.offset, Len(written.cells))
       IN /\ written.volume \in DOMAIN volumes /\ written.cells \in Writes
          /\ written.offset \in WriteOffsets /\ written.offset <= v.size
          /\ Addressable(v) /\ SectorSafe(at, n) =>
               \A j \in 1 .. n : disk[v.drive][at + j] = written.cells[j]

\* Every step but a write leaves the disks alone, and once the kernel is up it leaves
\* the volumes alone too.
LEMMA OthersKeepDisks ==
  ASSUME [Next]_vars, ~WriteElsewhere
  PROVE  /\ UNCHANGED <<machine, disk, written>>
         /\ stage \in {"up", "overrun"} => UNCHANGED <<volumes, stage>>
<1>1. CASE UNCHANGED <<deviceVars, storageVars>>
  BY <1>1 DEF deviceVars, storageVars
<1>2. CASE Boot
  <2>1. CASE InitrdInit \/ AtaInitProbe \/ AtaInitRegister \/ InitConsole
    BY <2>1 DEF InitrdInit, AtaInitProbe, AtaInitRegister, InitConsole
  <2>2. CASE (VgaInit \/ Ps2KeyboardInit \/ PciInitSlot \/ PciInitDone \/ SataInit) /\ UNCHANGED storageVars
    <3>1. stage \notin {"up", "overrun"} /\ machine' = machine
      BY <2>2 DEF VgaInit, Ps2KeyboardInit, PciInitSlot, PciInitDone, SataInit
    <3>2. QED
      BY <2>2, <3>1 DEF storageVars
  <2>3. QED
    BY <1>2, <2>1, <2>2 DEF Boot, BootNext
<1>3. CASE Halt \/ UNCHANGED vars
  BY <1>1, <1>3 DEF Halt, vars
<1>4. CASE \E id \in ShortId : Mount(id)
  BY <1>1, <1>4 DEF Mount
<1>5. CASE Unmount \/ Open \/ Close \/ List
  BY <1>1, <1>5 DEF Unmount, Open, Close, List
<1>6. CASE \E name \in Names : Walk(name)
  BY <1>1, <1>6 DEF Walk
<1>7. CASE \E size \in ReadSizes : Read(size)
  BY <1>1, <1>7 DEF Read
<1>8. QED
  BY <1>2, <1>3, <1>4, <1>5, <1>6, <1>7 DEF Next, Use

\* What a write has put in its place.
LEMMA WriteKept ==
  ASSUME StorageInv, LastWriteKept, WriteElsewhere
  PROVE  LastWriteKept'
<1>1. PICK i \in DOMAIN volumes, offset \in WriteOffsets, cells \in Writes :
        offset <= volumes[i].size /\ Write(i, offset, cells)
  BY DEF WriteElsewhere
<1>2. offset \in Nat /\ Len(cells) \in Nat
  <2>1. cells \in Seq(ToSet(cells)) /\ offset \in Nat
    BY VolumesAssumption
  <2>2. QED
    BY <2>1
<1>3. stage = "up" /\ stage' \in {"up", "overrun"} /\ volumes' = volumes /\ machine' = machine
  BY <1>1 DEF Write
<1>4. \/ disk' = disk /\ written' = written
      \/ written' = [volume |-> i, offset |-> offset, cells |-> cells]
  BY <1>1 DEF Write
<1>5. CASE disk' = disk /\ written' = written
  BY <1>3, <1>5 DEF LastWriteKept, Target, Fitting, Addressable, SectorSafe
<1>6. CASE ~(disk' = disk /\ written' = written)
  <2>1. written' = [volume |-> i, offset |-> offset, cells |-> cells] /\ disk' = VolumeWrite(i, offset, cells)
    BY <1>1, <1>6 DEF Write
  <2>2. written'.volume = i /\ written'.offset = offset /\ written'.cells = cells
    BY <2>1
  <2> DEFINE v == volumes[i]
             d == v.drive
             at == Target(v, offset)
             n == Fitting(v, offset, Len(cells))
  <2>3. RightlyWritten(disk', v, offset, cells)
    <3>1. ~LET w == volumes[i]
               m == Fitting(w, offset, Len(cells))
           IN /\ w.drive # Ramdisk /\ ~AtaRefuses(w.drive, Target(w, offset), m)
              /\ Overruns(Target(w, offset), m)
      BY <1>1, <1>6 DEF Write
    <3>2. QED
      BY <1>1, <2>1, <3>1, VolumeWriteFacts
  <2>4. ASSUME Addressable(v), SectorSafe(at, n), NEW j \in 1 .. n
        PROVE  disk'[d][at + j] = cells[j]
    <3>1. d # Ramdisk /\ offset <= v.size
      BY <1>1, <2>4 DEF Addressable
    <3>2. /\ d \in Drive /\ at \in Nat /\ n \in Nat /\ IsMaster(d)
          /\ at + n <= Len(machine.disk[d]) /\ Len(machine.disk[d]) \in Nat
      BY <1>2, <2>4, <3>1, RangeFacts
    <3>3. d \in DOMAIN disk /\ DOMAIN disk[d] = 1 .. Len(machine.disk[d]) /\ d = Selected(d)
      <4>1. DisksShaped
        BY DEF StorageInv
      <4>2. d = Selected(d)
        <5> HIDE DEF v, d, at, n
        <5>1. QED
          BY <3>2 DEF Selected, IoBase, IsMaster, Drive
      <4>3. d \in Disks /\ DOMAIN disk = Disks
        BY <3>2, <4>1, <4>2, SelectedDrive
      <4>4. DOMAIN disk[d] = 1 .. Len(machine.disk[d])
        <5> HIDE DEF v, d
        <5>1. QED
          BY <4>1, <4>3 DEF DisksShaped
      <4>5. QED
        BY <4>2, <4>3, <4>4
    <3> DEFINE m == Len(machine.disk[d])
               c == at + j
    <3> HIDE DEF v, d, at, n, m
    <3>4. c \in 1 .. m /\ c > at /\ c <= at + n /\ c - at = j
      BY <3>2 DEF m
    <3>5. c \in DOMAIN disk[d]
      BY <3>3, <3>4 DEF m
    <3>6. Addressable(v) /\ SectorSafe(at, n) => disk'[d][c] = cells[c - at]
      BY <2>3, <3>1, <3>3, <3>4, <3>5 DEF RightlyWritten, at, n, d
    <3>7. QED
      BY <2>4, <3>4, <3>6
  <2>5. Addressable(v)' <=> Addressable(v)
    BY <1>3 DEF Addressable
  <2>6. QED
    BY <1>1, <1>3, <2>2, <2>4, <2>5 DEF LastWriteKept, Target, Fitting, SectorSafe
<1>7. QED
  BY <1>4, <1>5, <1>6

\* What was written to a volume that the driver can address can be read back, whatever
\* happens in between, mounting and reading of other volumes included.
THEOREM WritesReadBack == Spec => []LastWriteReadsBack
<1>1. Init => LastWriteKept
  BY DEF Init, StorageInit, LastWriteKept
<1>2. StorageInv /\ LastWriteKept /\ [Next]_vars => LastWriteKept'
  <2> SUFFICES ASSUME StorageInv, LastWriteKept, [Next]_vars PROVE LastWriteKept'
    OBVIOUS
  <2>1. CASE WriteElsewhere
    BY <2>1, WriteKept
  <2>2. CASE ~WriteElsewhere
    <3>1. /\ machine' = machine /\ disk' = disk /\ written' = written
          /\ stage \in {"up", "overrun"} => volumes' = volumes /\ stage' = stage
      BY <2>2, OthersKeepDisks
    <3>2. CASE stage \in {"up", "overrun"}
      BY <3>1, <3>2 DEF LastWriteKept, Target, Fitting, Addressable, SectorSafe
    <3>3. CASE stage \notin {"up", "overrun"}
      BY <3>1, <3>3 DEF LastWriteKept
    <3>4. QED
      BY <3>2, <3>3
  <2>3. QED
    BY <2>1, <2>2
<1>3. StorageInv /\ LastWriteKept => LastWriteReadsBack
  <2> DEFINE i == written.volume
             offset == written.offset
             cells == written.cells
             v == volumes[i]
             at == Target(v, offset)
             n == Fitting(v, offset, Len(cells))
             D == disk[v.drive]
  <2> SUFFICES ASSUME StorageInv, LastWriteKept, written # NoWrite, Addressable(v), SectorSafe(at, n)
               PROVE  VolumeRead(i, offset, Len(cells)) = Slice(cells, 0, n)
    BY DEF LastWriteReadsBack
  <2>1. /\ i \in DOMAIN volumes /\ cells \in Writes /\ offset \in WriteOffsets /\ offset <= v.size
        /\ \A j \in 1 .. n : D[at + j] = cells[j]
    BY DEF LastWriteKept
  <2>2. v.drive # Ramdisk
    BY DEF Addressable
  <2> HIDE DEF cells, offset, i
  <2>3. Len(cells) \in Nat /\ offset \in Nat /\ offset + Len(cells) < Word
    <3>1. cells \in Seq(ToSet(cells)) /\ Word \in Nat
          /\ offset \in Nat /\ offset + Len(cells) < Word
      BY <2>1, VolumesAssumption
    <3>2. Len(cells) \in Nat
      BY <3>1
    <3>3. QED
      BY <2>1, <3>1, <3>2
  <2>4. at \in Nat /\ n \in Nat /\ at = v.offset + offset
    BY <2>1, <2>2, <2>3, RangeFacts
  <2>5. VolumeRead(i, offset, Len(cells)) = Slice(D, at, n)
    <3>1. i \in DOMAIN volumes /\ offset <= v.size
      BY <2>1
    <3>2. VolumeRead(i, offset, Len(cells)) = Slice(D, v.offset + offset, n)
      BY <3>1, <2>2, <2>3, VolumeReadFacts
    <3>3. QED
      BY <3>2, <2>4
  <2> HIDE DEF v, D, n, at
  <2>6. PartOf(Slice(D, at, n), D, at, n)
    BY <2>4, SliceIs
  <2>7. PartOf(Slice(cells, 0, n), cells, 0, n)
    BY <2>4, SliceIs
  <2>8. ASSUME NEW j \in 1 .. n PROVE Slice(D, at, n)[j] = cells[0 + j]
    <3>1. 0 + j = j
      BY <2>4
    <3>2. QED
      BY <2>1, <2>6, <3>1 DEF PartOf
  <2>9. PartOf(Slice(D, at, n), cells, 0, n)
    BY <2>6, <2>8 DEF PartOf
  <2>10. Slice(D, at, n) = Slice(cells, 0, n)
    BY <2>4, <2>7, <2>9, OnePart
  <2>11. QED
    BY <2>5, <2>10
<1>4. QED
  BY StorageStart, StorageNext, <1>1, <1>2, <1>3, PTL DEF Spec

-----------------------------------------------------------------------------
(* Reading a file.                                                         *)

\* The cells of a file by its blocks, one at each position: what the block holds there,
\* zero where there is no block.
FileCells(f, inode) ==
  [p \in Nat \ {0} |->
     LET physical == InodeBlock(f, inode, (p - 1) \div f.block_size)
     IN IF physical = 0 THEN Zero ELSE ReadBlock(f, physical)[((p - 1) % f.block_size) + 1]]

\* Positions in the same block.
LEMMA SameBlock ==
  ASSUME NEW a \in Nat, NEW s \in Nat \ {0}, NEW j \in Nat, (a % s) + j < s
  PROVE  (a + j) \div s = a \div s /\ (a + j) % s = (a % s) + j
<1> DEFINE l == a \div s
           b == a % s
           m == (a + j) \div s
           r == (a + j) % s
<1>1. l \in Int /\ b \in 0 .. s - 1 /\ a = l * s + b
  BY Quotient
<1>2. m \in Int /\ r \in 0 .. s - 1 /\ a + j = m * s + r
  <2>1. a + j \in Int
    OBVIOUS
  <2>2. QED
    BY <2>1, Quotient
<1>3. /\ l * s \in Int /\ m * s \in Int
      /\ l < m => l * s + s <= m * s
      /\ m < l => m * s + s <= l * s
  BY <1>1, <1>2, Multiples
<1> DEFINE L == l * s
           M == m * s
<1>4. /\ L \in Int /\ M \in Int /\ a = L + b /\ a + j = M + r /\ b + j < s
      /\ l < m => L + s <= M
      /\ m < l => M + s <= L
      /\ l = m => L = M
  BY <1>1, <1>2, <1>3
<1>5. l = m /\ r = b + j
  <2> HIDE DEF L, M, l, m, b, r
  <2>1. l = m
    BY ONLY <1>1, <1>2, <1>4, s \in Nat \ {0}, j \in Nat
  <2>2. QED
    BY ONLY <1>1, <1>2, <1>4, <2>1, j \in Nat
<1>6. QED
  BY <1>5

\* What one turn of the loop in ext2_read reads: the rest of the block or of the range.
ChunkLength(f, at, left) ==
  IF f.block_size - (at % f.block_size) > left THEN left ELSE f.block_size - (at % f.block_size)
ChunkCells(f, inode, at, left) ==
  IF InodeBlock(f, inode, at \div f.block_size) = 0
  THEN [k \in 1 .. ChunkLength(f, at, left) |-> Zero]
  ELSE Slice(ReadBlock(f, InodeBlock(f, inode, at \div f.block_size)), at % f.block_size,
             ChunkLength(f, at, left))

\* It is the part of the file at this position.
LEMMA ChunkIs ==
  ASSUME NEW f, f.block_size \in Nat \ {0}, NEW inode, NEW at \in Nat, NEW left \in Nat \ {0}
  PROVE  /\ ChunkLength(f, at, left) \in 1 .. left
         /\ ChunkCells(f, inode, at, left) = Slice(FileCells(f, inode), at, ChunkLength(f, at, left))
<1> DEFINE s == f.block_size
           b == at % s
           n == ChunkLength(f, at, left)
           physical == InodeBlock(f, inode, at \div s)
           B == ReadBlock(f, physical)
           q == FileCells(f, inode)
           c == ChunkCells(f, inode, at, left)
<1>1. b \in 0 .. s - 1
  <2> HIDE DEF s
  <2>1. s \in Nat \ {0}
    BY DEF s
  <2>2. QED
    BY <2>1, Quotient
<1>2. n = IF s - b > left THEN left ELSE s - b
  BY DEF ChunkLength
<1>3. s \in Nat \ {0}
  OBVIOUS
<1>4. c = IF physical = 0 THEN [k \in 1 .. n |-> Zero] ELSE Slice(B, b, n)
  BY DEF ChunkCells
<1>5. \A p \in Nat \ {0} :
        q[p] = IF InodeBlock(f, inode, (p - 1) \div s) = 0 THEN Zero
               ELSE ReadBlock(f, InodeBlock(f, inode, (p - 1) \div s))[((p - 1) % s) + 1]
  BY DEF FileCells
<1> HIDE DEF n, b, q, c, s
<1>6. n \in 1 .. left /\ b + n <= s /\ n \in Nat /\ b \in Nat
  BY ONLY <1>1, <1>2, <1>3, left \in Nat \ {0}
<1>7. ASSUME NEW j \in 1 .. n
      PROVE  q[at + j] = IF physical = 0 THEN Zero ELSE B[b + j]
  <2> DEFINE i == j - 1
  <2>1. i \in Nat /\ b + i < s /\ at + j \in Nat \ {0} /\ (at + j) - 1 = at + i /\ (b + i) + 1 = b + j
    BY ONLY <1>6, <1>3, at \in Nat, j \in 1 .. n
  <2> HIDE DEF i
  <2>2. (at + i) \div s = at \div s /\ (at + i) % s = b + i
    BY <1>3, <2>1, SameBlock DEF b
  <2>3. q[at + j] = IF InodeBlock(f, inode, ((at + j) - 1) \div s) = 0 THEN Zero
                    ELSE ReadBlock(f, InodeBlock(f, inode, ((at + j) - 1) \div s))[(((at + j) - 1) % s) + 1]
    BY <1>5, <2>1
  <2>4. QED
    BY <2>1, <2>2, <2>3
<1>8. PartOf(c, q, at, n)
  <2>1. CASE physical = 0
    <3>1. c = [k \in 1 .. n |-> Zero]
      BY <1>4, <2>1
    <3>2. c \in Seq({Zero}) /\ Len(c) = n /\ \A j \in 1 .. n : c[j] = Zero
      BY <1>6, <3>1
    <3>3. QED
      BY <1>7, <2>1, <3>2 DEF PartOf
  <2>2. CASE physical # 0
    <3>1. c = Slice(B, b, n)
      BY <1>4, <2>2
    <3> HIDE DEF B
    <3>2. PartOf(c, B, b, n)
      BY <1>6, <3>1, SliceIs
    <3>3. QED
      BY <1>7, <2>2, <3>2 DEF PartOf
  <2>3. QED
    BY <2>1, <2>2
<1>9. PartOf(Slice(q, at, n), q, at, n)
  BY <1>6, SliceIs
<1>10. c = Slice(q, at, n)
  BY <1>6, <1>8, <1>9, OnePart
<1>11. QED
  BY <1>6, <1>10 DEF n, c, q

\* w says for each number of cells that are left what is still read.
LoopIs(w, f, inode, offset, size) ==
  w = [left \in 0 .. size |->
         IF left = 0 THEN <<>>
         ELSE ChunkCells(f, inode, offset + size - left, left)
                \o w[left - ChunkLength(f, offset + size - left, left)]]

\* The loop of ext2_read delivers the range, however it lies across blocks.
LEMMA ChunksFacts ==
  ASSUME NEW f, f.block_size \in Nat \ {0}, NEW inode, NEW offset \in Nat, NEW size \in Nat
  PROVE  Chunks(f, inode, offset, size) = Slice(FileCells(f, inode), offset, size)
<1> DEFINE Is(v) ==
             v = [left \in 0 .. size |->
                    LET at == offset + size - left
                        inBlock == at % f.block_size
                        chunk == IF f.block_size - inBlock > left THEN left ELSE f.block_size - inBlock
                        physical == InodeBlock(f, inode, at \div f.block_size)
                        cells == IF physical = 0 THEN [k \in 1 .. chunk |-> Zero]
                                 ELSE Slice(ReadBlock(f, physical), inBlock, chunk)
                    IN IF left = 0 THEN <<>> ELSE cells \o v[left - chunk]]
           from == CHOOSE v : Is(v)
           q == FileCells(f, inode)
           w == [left \in 0 .. size |-> Slice(q, offset + size - left, left)]
<1>1. Chunks(f, inode, offset, size) = from[size]
  BY DEF Chunks
<1>2. \A v : Is(v) <=> LoopIs(v, f, inode, offset, size)
  BY DEF LoopIs, ChunkCells, ChunkLength
<1> HIDE DEF Is, q
<1>3. ASSUME NEW left \in 0 .. size
      PROVE  w[left] = IF left = 0 THEN <<>>
                       ELSE ChunkCells(f, inode, offset + size - left, left)
                              \o w[left - ChunkLength(f, offset + size - left, left)]
  <2> DEFINE at == offset + size - left
             n == ChunkLength(f, at, left)
  <2>1. at \in Nat /\ w[left] = Slice(q, at, left)
    OBVIOUS
  <2>2. CASE left = 0
    <3>1. PartOf(Slice(q, at, 0), q, at, 0)
      BY <2>1, SliceIs
    <3>2. Slice(q, at, 0) = <<>>
      BY <3>1 DEF PartOf
    <3>3. QED
      BY <2>1, <2>2, <3>2
  <2>3. CASE left # 0
    <3>1. left \in Nat \ {0}
      BY <2>3
    <3>2. n \in 1 .. left /\ ChunkCells(f, inode, at, left) = Slice(q, at, n)
      <4> HIDE DEF at
      <4>1. QED
        BY <2>1, <3>1, ChunkIs DEF q
    <3> HIDE DEF n
    <3>3. /\ n \in Nat /\ left - n \in Nat /\ left - n \in 0 .. size
          /\ offset + size - (left - n) = at + n /\ n + (left - n) = left
      BY <3>1, <3>2
    <3>4. w[left - n] = Slice(q, at + n, left - n)
      BY <3>3
    <3> HIDE DEF w, at
    <3>5. Slice(q, at, n) \o Slice(q, at + n, left - n) = Slice(q, at, n + (left - n))
      <4> DEFINE m == left - n
      <4>1. m \in Nat
        BY <3>3
      <4>2. at \in Nat /\ n \in Nat
        BY <2>1, <3>3
      <4> HIDE DEF m
      <4>3. Slice(q, at, n) \o Slice(q, at + n, m) = Slice(q, at, n + m)
        <5>1. TwoSlices(q, at, n, m)
          BY ONLY <4>1, <4>2, SlicesJoin, Zenon
        <5>2. QED
          BY ONLY <5>1 DEF TwoSlices
      <4>4. QED
        BY <4>3 DEF m
    <3>6. w[left] = ChunkCells(f, inode, at, left) \o w[left - n]
      BY <2>1, <3>2, <3>3, <3>4, <3>5
    <3>7. QED
      BY <2>3, <3>6 DEF n, at
  <2>4. QED
    BY <2>2, <2>3
<1>4. LoopIs(w, f, inode, offset, size)
  <2>1. w = [left \in 0 .. size |-> w[left]]
    OBVIOUS
  <2> HIDE DEF w
  <2>2. QED
    BY <1>3, <2>1 DEF LoopIs
<1>5. LoopIs(from, f, inode, offset, size)
  <2>1. \E v : Is(v)
    <3> HIDE DEF w
    <3>1. QED
      BY <1>2, <1>4
  <2>2. Is(from)
    BY <2>1
  <2> HIDE DEF from
  <2>3. QED
    BY <1>2, <2>2
<1> HIDE DEF from, w
<1> DEFINE T == {left \in 0 .. size : from[left] # w[left]}
<1>6. T = {}
  <2> SUFFICES ASSUME T # {} PROVE FALSE
    OBVIOUS
  <2>1. T \in SUBSET Nat
    OBVIOUS
  <2>2. PICK left \in T : \A k \in T : left <= k
    <3> HIDE DEF T
    <3>1. QED
      BY <2>1, LeastNatural
  <2>3. left \in 0 .. size /\ from[left] # w[left]
    OBVIOUS
  <2> DEFINE at == offset + size - left
             n == ChunkLength(f, at, left)
  <2>4. /\ from[left] = IF left = 0 THEN <<>> ELSE ChunkCells(f, inode, at, left) \o from[left - n]
        /\ w[left] = IF left = 0 THEN <<>> ELSE ChunkCells(f, inode, at, left) \o w[left - n]
    BY <1>4, <1>5, <2>3 DEF LoopIs
  <2>5. left # 0
    BY <2>3, <2>4
  <2>6. at \in Nat /\ left \in Nat \ {0}
    BY <2>3, <2>5
  <2>7. n \in 1 .. left
    <3> HIDE DEF at
    <3>1. QED
      BY <2>6, ChunkIs
  <2> HIDE DEF n
  <2>8. left - n \in 0 .. size /\ ~(left <= left - n)
    BY ONLY <2>3, <2>6, <2>7, size \in Nat
  <2>9. from[left - n] = w[left - n]
    <3>1. left - n \notin T
      <4> HIDE DEF T
      <4>1. QED
        BY <2>2, <2>8
    <3>2. QED
      BY <2>8, <3>1
  <2>10. QED
    BY ONLY <2>3, <2>4, <2>5, <2>9
<1>7. from[size] = w[size]
  <2>1. size \in 0 .. size
    OBVIOUS
  <2>2. size \notin T
    BY <1>6
  <2>3. QED
    BY ONLY <2>1, <2>2
<1>8. w[size] = Slice(q, offset, size)
  <2>1. size \in 0 .. size /\ offset + size - size = offset
    OBVIOUS
  <2>2. QED
    BY <2>1 DEF w
<1>9. QED
  BY <1>1, <1>7, <1>8 DEF q

\* Whatever the blocks of a file are, of any size, with holes or without, ext2_read
\* delivers the cells of the range that lie in the file, each from its block
\* (the loop of ext2_read over blocks).
THEOREM FileReadIsExact ==
  ASSUME NEW f, f.block_size \in Nat \ {0}, NEW inode, inode.size \in Nat,
         NEW offset \in Nat, offset <= inode.size, NEW size \in Nat
  PROVE  ReadFile(f, inode, offset, size) =
           Slice(FileCells(f, inode), offset,
                 IF offset + size > inode.size THEN inode.size - offset ELSE size)
<1> DEFINE z == inode.size
           n == IF offset + size > z THEN z - offset ELSE size
<1>1. z \in Nat /\ offset <= z
  OBVIOUS
<1>2. ReadFile(f, inode, offset, size) = IF offset > z THEN <<>> ELSE Chunks(f, inode, offset, n)
  BY DEF ReadFile
<1> HIDE DEF z
<1>3. ~(offset > z) /\ n \in Nat
  BY ONLY <1>1, offset \in Nat, size \in Nat
<1> HIDE DEF n
<1>4. Chunks(f, inode, offset, n) = Slice(FileCells(f, inode), offset, n)
  BY <1>3, ChunksFacts
<1>5. QED
  BY <1>2, <1>3, <1>4 DEF n, z

\* So it makes no difference in which pieces a file is read: the second piece goes on
\* where the first one ended (file_read moves the offset by what it was given).
THEOREM FileReadsCompose ==
  ASSUME NEW f, f.block_size \in Nat \ {0}, NEW inode, inode.size \in Nat,
         NEW offset \in Nat, offset <= inode.size, NEW a \in Nat, NEW b \in Nat
  PROVE  LET first == ReadFile(f, inode, offset, a)
         IN first \o ReadFile(f, inode, offset + Len(first), b) = ReadFile(f, inode, offset, a + b)
<1> DEFINE q == FileCells(f, inode)
           z == inode.size
           n(o, size) == IF o + size > z THEN z - o ELSE size
           m == n(offset, a)
           k == n(offset + m, b)
<1>1. z \in Nat /\ offset <= z
  OBVIOUS
<1>2. \A o, size \in Nat : o <= z => ReadFile(f, inode, o, size) = Slice(q, o, n(o, size))
  BY FileReadIsExact
<1> HIDE DEF q, z
<1>3. m \in Nat /\ offset + m <= z /\ offset + m \in Nat
  BY ONLY <1>1, offset \in Nat, a \in Nat
<1>4. ReadFile(f, inode, offset, a) = Slice(q, offset, m)
  BY <1>1, <1>2
<1>5. Len(Slice(q, offset, m)) = m
  <2> HIDE DEF m
  <2>1. PartOf(Slice(q, offset, m), q, offset, m)
    BY <1>3, SliceIs
  <2>2. QED
    BY <2>1 DEF PartOf
<1>6. ReadFile(f, inode, offset + m, b) = Slice(q, offset + m, k)
  <2> HIDE DEF m
  <2>1. QED
    BY <1>2, <1>3
<1>7. k \in Nat /\ n(offset, a + b) = m + k
  BY ONLY <1>1, offset \in Nat, a \in Nat, b \in Nat
<1>8. ReadFile(f, inode, offset, a + b) = Slice(q, offset, n(offset, a + b))
  <2>1. a + b \in Nat
    OBVIOUS
  <2>2. QED
    BY <1>1, <1>2, <2>1
<1> HIDE DEF m, k, n
<1>9. Slice(q, offset, m) \o Slice(q, offset + m, k) = Slice(q, offset, m + k)
  <2>1. offset \in Nat /\ m \in Nat /\ k \in Nat
    BY <1>3, <1>7
  <2>2. TwoSlices(q, offset, m, k)
    BY ONLY <2>1, SlicesJoin, Zenon
  <2>3. QED
    BY ONLY <2>2 DEF TwoSlices
<1>10. QED
  BY <1>4, <1>5, <1>6, <1>7, <1>8, <1>9

\* A slice of nothing is nothing, and nothing else is.
LEMMA EmptySlice ==
  ASSUME NEW q, NEW at \in Nat, NEW n \in Nat
  PROVE  Slice(q, at, n) = <<>> <=> n = 0
<1>1. PartOf(Slice(q, at, n), q, at, n)
  BY SliceIs
<1>2. QED
  BY <1>1 DEF PartOf

\* The image is valid as far as the open file goes: the blocks to which the inode leads
\* hold what was put into the file.
FileStored ==
  inode_data # NoInode =>
    /\ fs.block_size \in Nat \ {0} /\ inode_data.size \in Nat
    /\ machine.files[node.inode] = Slice(FileCells(fs, inode_data), 0, inode_data.size)

\* What has been read is the beginning of the file, and at its end all of it.
ReadSoFar ==
  /\ inode_data = NoInode => got = <<>> /\ eof = FALSE
  /\ inode_data # NoInode =>
       /\ Len(got) \in 0 .. inode_data.size
       /\ got = Slice(machine.files[node.inode], 0, Len(got))
       /\ eof => Len(got) = inode_data.size

\* One read goes on where the last one ended.
LEMMA ReadOn ==
  ASSUME ReadSoFar, FileStored, NEW size \in ReadSizes, Read(size)
  PROVE  ReadSoFar'
<1> DEFINE q == FileCells(fs, inode_data)
           z == inode_data.size
           file == machine.files[node.inode]
           l == Len(got)
           n == IF l + size > z THEN z - l ELSE size
           cells == ReadFile(fs, inode_data, l, size)
<1>1. /\ inode_data # NoInode /\ got' = got \o cells /\ eof' = (cells = <<>>)
      /\ UNCHANGED <<machine, node, inode_data>>
  BY DEF Read, deviceVars, storageVars
<1>2. /\ fs.block_size \in Nat \ {0} /\ z \in Nat /\ file = Slice(q, 0, z)
      /\ l \in 0 .. z /\ got = Slice(file, 0, l)
  BY <1>1 DEF ReadSoFar, FileStored
<1>3. size \in Nat \ {0}
  BY Ext2Assumption
<1>4. l \in Nat /\ l <= z
  BY <1>2
<1>5. cells = Slice(q, l, n)
  <2> HIDE DEF l
  <2>1. QED
    BY <1>2, <1>3, <1>4, FileReadIsExact
<1> HIDE DEF q, z, file, l, cells
<1>6. n \in Nat /\ l + n \in 0 .. z /\ l + n <= z /\ (n = 0 => l = z)
  BY ONLY <1>2, <1>3, <1>4
<1> HIDE DEF n
<1>7. Slice(file, l, n) = Slice(q, l, n)
  <2>1. Slice(Slice(q, 0, z), l, n) = Slice(q, 0 + l, n)
    BY <1>2, <1>4, <1>6, SliceOfSlice
  <2>2. 0 + l = l
    BY <1>4
  <2>3. QED
    BY <1>2, <2>1, <2>2
<1>8. got' = Slice(file, 0, l + n)
  <2>1. Slice(file, 0, l) \o Slice(file, 0 + l, n) = Slice(file, 0, l + n)
    <3>1. 0 \in Nat /\ l \in Nat /\ n \in Nat
      BY <1>4, <1>6
    <3>2. TwoSlices(file, 0, l, n)
      BY ONLY <3>1, SlicesJoin
    <3>3. QED
      BY ONLY <3>2 DEF TwoSlices
  <2>2. 0 + l = l
    BY <1>4
  <2>3. QED
    BY <1>1, <1>2, <1>5, <1>7, <2>1, <2>2
<1>9. Len(got') = l + n
  <2>1. l + n \in Nat
    BY <1>4, <1>6
  <2>2. PartOf(Slice(file, 0, l + n), file, 0, l + n)
    BY <2>1, SliceIs
  <2>3. QED
    BY <1>8, <2>2 DEF PartOf
<1>10. eof' => l + n = z
  <2> SUFFICES ASSUME eof' PROVE l + n = z
    OBVIOUS
  <2>1. n = 0
    BY <1>1, <1>4, <1>5, <1>6, EmptySlice
  <2>2. QED
    BY <1>4, <1>6, <2>1
<1>11. /\ inode_data' # NoInode /\ Len(got') \in 0 .. z
       /\ got' = Slice(file, 0, Len(got')) /\ (eof' => Len(got') = z)
  BY <1>1, <1>6, <1>8, <1>9, <1>10
<1>12. z = inode_data'.size /\ file = machine'.files[node'.inode]
  BY <1>1 DEF z, file
<1>13. QED
  BY <1>11, <1>12 DEF ReadSoFar

\* Every other step leaves what was read alone, or begins anew.
LEMMA OthersReadNothing ==
  ASSUME [Next]_vars, ~ \E size \in ReadSizes : Read(size)
  PROVE  \/ UNCHANGED <<machine, node, inode_data, got, eof>>
         \/ inode_data' = NoInode /\ got' = <<>> /\ eof' = FALSE
         \/ Open
<1>1. CASE Boot
  <2>1. UNCHANGED ext2Vars
    BY <1>1 DEF Boot
  <2>2. machine' = machine
    <3>1. CASE InitrdInit \/ AtaInitProbe \/ AtaInitRegister \/ InitConsole
      BY <3>1 DEF InitrdInit, AtaInitProbe, AtaInitRegister, InitConsole
    <3>2. CASE (VgaInit \/ Ps2KeyboardInit \/ PciInitSlot \/ PciInitDone \/ SataInit) /\ UNCHANGED storageVars
      BY <3>2 DEF VgaInit, Ps2KeyboardInit, PciInitSlot, PciInitDone, SataInit
    <3>3. QED
      BY <1>1, <3>1, <3>2 DEF Boot, BootNext
  <2>3. QED
    BY <2>1, <2>2 DEF ext2Vars
<1>2. CASE Halt \/ UNCHANGED vars
  BY <1>2 DEF Halt, vars, deviceVars, ext2Vars
<1>3. CASE \E id \in ShortId : Mount(id)
  BY <1>3 DEF Mount, Fresh
<1>4. CASE Unmount \/ Close
  BY <1>4 DEF Unmount, Close, Fresh
<1>5. CASE \E name \in Names : Walk(name)
  BY <1>5 DEF Walk, Fresh
<1>6. CASE List
  BY <1>6 DEF List, deviceVars
<1>7. CASE WriteElsewhere
  BY <1>7 DEF WriteElsewhere, Write, ext2Vars
<1>8. QED
  BY <1>1, <1>2, <1>3, <1>4, <1>5, <1>6, <1>7 DEF Next, Use

\* As long as the blocks of the open file hold what was put into it, reading it in
\* pieces of any sizes delivers the beginning of the file, and no more only at its end
\* (file_read, ext2_read), whatever else is done in between.
THEOREM FilesReadBack == Spec /\ []FileStored => []FileReadsBack
<1>1. Init => ReadSoFar
  BY DEF Init, ReadSoFar
<1>2. ReadSoFar /\ FileStored /\ FileStored' /\ [Next]_vars => ReadSoFar'
  <2> SUFFICES ASSUME ReadSoFar, FileStored, FileStored', [Next]_vars PROVE ReadSoFar'
    OBVIOUS
  <2>1. CASE \E size \in ReadSizes : Read(size)
    BY <2>1, ReadOn
  <2>2. CASE UNCHANGED <<machine, node, inode_data, got, eof>>
    BY <2>2 DEF ReadSoFar
  <2>3. CASE inode_data' = NoInode /\ got' = <<>> /\ eof' = FALSE
    BY <2>3 DEF ReadSoFar
  <2>4. CASE Open
    <3>1. got' = <<>> /\ eof' = FALSE
      BY <2>4 DEF Open, ReadSoFar
    <3>2. CASE inode_data' = NoInode
      BY <3>1, <3>2 DEF ReadSoFar
    <3>3. CASE inode_data' # NoInode
      <4>1. inode_data'.size \in Nat
        BY <3>3 DEF FileStored
      <4>2. Len(got') = 0 /\ 0 \in 0 .. inode_data'.size
        BY <3>1, <4>1
      <4>3. Slice(machine'.files[node'.inode], 0, 0) = <<>>
        BY EmptySlice
      <4>4. QED
        BY <3>1, <3>3, <4>2, <4>3 DEF ReadSoFar
    <3>4. QED
      BY <3>2, <3>3
  <2>5. QED
    BY <2>1, <2>2, <2>3, <2>4, OthersReadNothing
<1>3. ReadSoFar /\ FileStored => FileReadsBack
  <2> SUFFICES ASSUME ReadSoFar, FileStored, inode_data # NoInode
               PROVE  LET file == machine.files[node.inode]
                      IN got = Slice(file, 0, Len(got)) /\ (eof => got = file)
    BY DEF FileReadsBack
  <2> DEFINE file == machine.files[node.inode]
             q == FileCells(fs, inode_data)
             z == inode_data.size
  <2>1. /\ got = Slice(file, 0, Len(got)) /\ (eof => Len(got) = z)
        /\ z \in Nat /\ file = Slice(q, 0, z)
    BY DEF ReadSoFar, FileStored
  <2>2. Slice(file, 0, z) = file
    <3> HIDE DEF file, q, z
    <3>1. Slice(Slice(q, 0, z), 0, z) = Slice(q, 0 + 0, z)
      BY <2>1, SliceOfSlice
    <3>2. QED
      BY <2>1, <3>1
  <2>3. QED
    BY <2>1, <2>2
<1>4. QED
  BY <1>1, <1>2, <1>3, PTL DEF Spec
=============================================================================
