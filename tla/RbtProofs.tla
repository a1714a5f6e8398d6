----------------------------- MODULE RbtProofs -----------------------------
(***************************************************************************)
(* What the run of MCRbt checks of the red-black tree of rbt.c, for any    *)
(* finite set of nodes and any keys: the tree stays a binary search tree   *)
(* with right parent links, the list is its in-order walk both ways, and   *)
(* each operation does what it would do to a sorted set.                   *)
(*                                                                         *)
(* The argument is about shapes, not about colours: Shape(t, S, D) says    *)
(* that the links of t make a search tree of the nodes S, D[m] being the   *)
(* nodes at and below m.  A rotation, a new leaf, a splice and a           *)
(* replacement each lead from one shape to another, whatever the colours;  *)
(* the two adjustments are sequences of rotations that end because they    *)
(* climb.  The list is described by nearest keys in the same set S, so     *)
(* that the two structures, which the code keeps apart, meet only in S.    *)
(* The walks, which are recursive, are the sequence of S by its keys.      *)
(***************************************************************************)
EXTENDS Rbt, FiniteSetTheorems, SequenceTheorems, WellFoundedInduction, TLAPS

-----------------------------------------------------------------------------
(* The links *)

\* Two sides, each the opposite of the other.
LEMMA SidesAre ==
    ASSUME NEW a \in Sides
    PROVE  /\ Opposite(a) \in Sides /\ Opposite(a) # a /\ Opposite(Opposite(a)) = a
           /\ Sides = {a, Opposite(a)}
  BY DEF Sides, Opposite

\* The types of the links of a tree.
LEMMA LinksAre ==
    ASSUME NEW t \in Trees
    PROVE  /\ t.root \in Ptr /\ t.parent \in [Nodes -> Ptr] /\ t.red \subseteq Nodes
           /\ t.left = t["left"] /\ t.right = t["right"]
           /\ \A a \in Sides : t[a] \in [Nodes -> Ptr]
  <1>1. \A a \in Sides : t[a] \in [Nodes -> Ptr]
    BY DEF Trees, Sides
  <1> QED
    BY <1>1 DEF Trees

\* Two trees that differ in one link, or in the colours.
KidIsNow(t, u, a, n, m) == u = [t EXCEPT ![a][n] = m]
ParentIsNow(t, u, n, m) == u = [t EXCEPT !.parent[n] = m]
RootIsNow(t, u, m) == u = [t EXCEPT !.root = m]
RedIsNow(t, u, R) == u = [t EXCEPT !.red = R]
AdoptedNow(t, u, n, p) == u = SetParent(t, n, p)
ReplacedNow(t, u, p, old, new) == u = Replace(t, p, old, new)
RotatedNow(t, u, n, a) == u = Rotate(t, n, a)

\* One link set, and the others as before.
LEMMA KidSet ==
    ASSUME NEW t \in Trees, NEW a \in Sides, NEW n \in Nodes, NEW m \in Ptr, NEW u,
           KidIsNow(t, u, a, n, m)
    PROVE  /\ u \in Trees /\ u.red = t.red /\ u.root = t.root /\ u.parent = t.parent
           /\ \A l \in Nodes : u[a][l] = IF l = n THEN m ELSE t[a][l]
           /\ u[Opposite(a)] = t[Opposite(a)]
  <1>1. CASE a = "left"
    <2>1. u = [t EXCEPT !.left = [t.left EXCEPT ![n] = m]]
      BY <1>1 DEF KidIsNow
    <2> QED
      BY <1>1, <2>1 DEF Trees, Opposite
  <1>2. CASE a = "right"
    <2>1. u = [t EXCEPT !.right = [t.right EXCEPT ![n] = m]]
      BY <1>2 DEF KidIsNow
    <2> QED
      BY <1>2, <2>1 DEF Trees, Opposite
  <1> QED
    BY <1>1, <1>2 DEF Sides

LEMMA ParentSet ==
    ASSUME NEW t \in Trees, NEW n \in Nodes, NEW m \in Ptr, NEW u, ParentIsNow(t, u, n, m)
    PROVE  /\ u \in Trees /\ u.red = t.red /\ u.root = t.root
           /\ \A l \in Nodes : u.parent[l] = IF l = n THEN m ELSE t.parent[l]
           /\ \A a \in Sides : u[a] = t[a]
  <1>1. /\ u \in Trees /\ u.red = t.red /\ u.root = t.root
        /\ \A l \in Nodes : u.parent[l] = IF l = n THEN m ELSE t.parent[l]
        /\ u.left = t.left /\ u.right = t.right
    BY DEF Trees, ParentIsNow
  <1> QED
    BY <1>1, LinksAre DEF Sides

LEMMA RootSet ==
    ASSUME NEW t \in Trees, NEW m \in Ptr, NEW u, RootIsNow(t, u, m)
    PROVE  /\ u \in Trees /\ u.red = t.red /\ u.root = m /\ u.parent = t.parent
           /\ \A a \in Sides : u[a] = t[a]
  <1>1. /\ u \in Trees /\ u.red = t.red /\ u.root = m
        /\ u.parent = t.parent /\ u.left = t.left /\ u.right = t.right
    BY DEF Trees, RootIsNow
  <1> QED
    BY <1>1, LinksAre DEF Sides

LEMMA RedSet ==
    ASSUME NEW t \in Trees, NEW R, R \subseteq Nodes, NEW u, RedIsNow(t, u, R)
    PROVE  /\ u \in Trees /\ u.red = R /\ u.root = t.root /\ u.parent = t.parent
           /\ \A a \in Sides : u[a] = t[a]
  <1>1. /\ u \in Trees /\ u.red = R /\ u.root = t.root
        /\ u.parent = t.parent /\ u.left = t.left /\ u.right = t.right
    BY DEF Trees, RedIsNow
  <1> QED
    BY <1>1, LinksAre DEF Sides

\* The side of a node below its parent.
LEMMA SideIs ==
    ASSUME NEW t, NEW p, NEW n
    PROVE  Side(t, p, n) \in Sides
  BY DEF Side, Sides

\* The subtree at old, below p, is replaced by the one at new.
LEMMA ReplaceIs ==
    ASSUME NEW t \in Trees, NEW p \in Ptr, NEW old \in Nodes, NEW new \in Ptr,
           NEW u, ReplacedNow(t, u, p, old, new)
    PROVE  /\ u \in Trees /\ u.red = t.red /\ u.parent = t.parent
           /\ u.root = IF p = Null THEN new ELSE t.root
           /\ \A a \in Sides, m \in Nodes :
                u[a][m] = IF m = p /\ a = Side(t, p, old) THEN new ELSE t[a][m]
  <1> DEFINE s == Side(t, p, old)
  <1>1. CASE p = Null
    <2>1. RootIsNow(t, u, new)
      BY <1>1 DEF Replace, RootIsNow, ReplacedNow
    <2>2. \A m \in Nodes : m # p
      BY <1>1, RbtAssumption
    <2> QED  BY <1>1, <2>1, <2>2, RootSet
  <1>2. CASE p # Null
    <2>1. KidIsNow(t, u, s, p, new) /\ p \in Nodes /\ s \in Sides
      BY <1>2, SideIs DEF Replace, Ptr, KidIsNow, ReplacedNow
    <2> HIDE DEF s
    <2>2. /\ u \in Trees /\ u.red = t.red /\ u.root = t.root /\ u.parent = t.parent
          /\ \A l \in Nodes : u[s][l] = IF l = p THEN new ELSE t[s][l]
          /\ u[Opposite(s)] = t[Opposite(s)]
      BY <2>1, KidSet
    <2>3. Sides = {s, Opposite(s)} /\ s # Opposite(s)
      BY <2>1, SidesAre
    <2>5. \A a \in Sides, m \in Nodes :
            u[a][m] = IF m = p /\ a = s THEN new ELSE t[a][m]
      BY <2>2, <2>3
    <2> QED  BY <1>2, <2>2, <2>5 DEF s
  <1> QED
    BY <1>1, <1>2

\* What SetParent leaves, NULL having no parent to set.
LEMMA SetParentIs ==
    ASSUME NEW t \in Trees, NEW n \in Ptr, NEW p \in Ptr, NEW u, AdoptedNow(t, u, n, p)
    PROVE  /\ u \in Trees /\ u.red = t.red /\ u.root = t.root
           /\ \A m \in Nodes : u.parent[m] = IF m = n THEN p ELSE t.parent[m]
           /\ \A a \in Sides : u[a] = t[a]
  <1>1. CASE n = Null
    <2>1. u = t /\ \A m \in Nodes : m # n
      BY <1>1, RbtAssumption DEF SetParent, AdoptedNow
    <2> QED  BY <2>1
  <1>2. CASE n # Null
    <2>1. ParentIsNow(t, u, n, p) /\ n \in Nodes
      BY <1>2 DEF SetParent, Ptr, ParentIsNow, AdoptedNow
    <2> QED  BY <2>1, ParentSet
  <1> QED
    BY <1>1, <1>2

\* A rotation as a replacement, four links and a new parent.
LEMMA RotateSteps ==
    ASSUME NEW t, NEW n, NEW a, NEW u, u = Rotate(t, n, a)
    PROVE  u = SetParent(Turn(Replace(t, t.parent[n], n, t[a][n]), t.parent[n], n, t[a][n],
                              a, t[Opposite(a)][t[a][n]]),
                         t[Opposite(a)][t[a][n]], n)
  BY DEF Rotate

\* What a rotation leaves: r, on the side a of n, takes the place of n.
Turned(t, u, n, a, r, c, p) ==
    LET b == Opposite(a)
    IN  /\ u \in Trees /\ u.red = t.red
        /\ u.root = IF p = Null THEN r ELSE t.root
        /\ \A m \in Nodes : u.parent[m] = IF m = n THEN r ELSE IF m = r THEN p
                                          ELSE IF m = c THEN n ELSE t.parent[m]
        /\ u[a][n] = c /\ u[b][r] = n /\ u[b][n] = t[b][n] /\ u[a][r] = t[a][r]
        /\ \A m \in Nodes \ {n, r}, s \in Sides :
             u[s][m] = IF m = p /\ s = Side(t, p, n) THEN r ELSE t[s][m]

\* The steps of a rotation, one link at a time.
LEMMA StepsTurn ==
    ASSUME NEW t \in Trees, NEW n \in Nodes, NEW a \in Sides, NEW r \in Nodes, r = t[a][n],
           NEW p, p = t.parent[n], NEW c, c = t[Opposite(a)][r],
           n # r, p # n, p # r, c # n, c # r,
           NEW u0, NEW u1, NEW u2, NEW u3, NEW u4, NEW u,
           ReplacedNow(t, u0, p, n, r), ParentIsNow(u0, u1, r, p), ParentIsNow(u1, u2, n, r),
           KidIsNow(u2, u3, a, n, c), KidIsNow(u3, u4, Opposite(a), r, n),
           AdoptedNow(u4, u, c, n)
    PROVE  Turned(t, u, n, a, r, c, p)
  <1> DEFINE b == Opposite(a)
  <1>2. /\ p \in Ptr /\ r \in Ptr /\ n \in Ptr /\ c \in Ptr /\ b \in Sides /\ a # b
        /\ Opposite(b) = a /\ Sides = {a, b}
    <2>1. p \in Ptr
      BY LinksAre
    <2>2. b \in Sides /\ a # b /\ Opposite(b) = a /\ Sides = {a, b}
      BY SidesAre
    <2>3. c \in Ptr
      BY <2>2, LinksAre
    <2> QED  BY <2>1, <2>2, <2>3 DEF Ptr
  <1>3. /\ u0 \in Trees /\ u0.red = t.red /\ u0.parent = t.parent
        /\ u0.root = IF p = Null THEN r ELSE t.root
        /\ \A s \in Sides, m \in Nodes :
             u0[s][m] = IF m = p /\ s = Side(t, p, n) THEN r ELSE t[s][m]
    BY ONLY t \in Trees, n \in Nodes, ReplacedNow(t, u0, p, n, r), <1>2, ReplaceIs
  <1>4. b = Opposite(a)
    OBVIOUS
  <1> HIDE DEF b
  <1>5. /\ u1 \in Trees /\ u1.red = u0.red /\ u1.root = u0.root
        /\ \A l \in Nodes : u1.parent[l] = IF l = r THEN p ELSE u0.parent[l]
        /\ \A s \in Sides : u1[s] = u0[s]
    BY ONLY r \in Nodes, ParentIsNow(u0, u1, r, p), <1>2, <1>3, ParentSet
  <1>6. /\ u2 \in Trees /\ u2.red = u1.red /\ u2.root = u1.root
        /\ \A l \in Nodes : u2.parent[l] = IF l = n THEN r ELSE u1.parent[l]
        /\ \A s \in Sides : u2[s] = u1[s]
    BY ONLY n \in Nodes, ParentIsNow(u1, u2, n, r), <1>2, <1>5, ParentSet
  <1>7. /\ u3 \in Trees /\ u3.red = u2.red /\ u3.root = u2.root /\ u3.parent = u2.parent
        /\ \A l \in Nodes : u3[a][l] = IF l = n THEN c ELSE u2[a][l]
        /\ u3[b] = u2[b]
    BY ONLY a \in Sides, n \in Nodes, KidIsNow(u2, u3, a, n, c), <1>2, <1>4, <1>6, KidSet
  <1>8. /\ u4 \in Trees /\ u4.red = u3.red /\ u4.root = u3.root /\ u4.parent = u3.parent
        /\ \A l \in Nodes : u4[b][l] = IF l = r THEN n ELSE u3[b][l]
        /\ u4[a] = u3[a]
    <2>1. KidIsNow(u3, u4, b, r, n)
      BY <1>4
    <2> QED  BY ONLY r \in Nodes, <1>2, <1>7, <2>1, KidSet
  <1>9. /\ u \in Trees /\ u.red = u4.red /\ u.root = u4.root
        /\ \A m \in Nodes : u.parent[m] = IF m = c THEN n ELSE u4.parent[m]
        /\ \A s \in Sides : u[s] = u4[s]
    BY ONLY AdoptedNow(u4, u, c, n), n \in Nodes, <1>2, <1>8, SetParentIs
  <1>10. \A m \in Nodes : u.parent[m] = IF m = n THEN r ELSE IF m = r THEN p
                                        ELSE IF m = c THEN n ELSE t.parent[m]
    <2>1. u4.parent = u2.parent /\ u0.parent = t.parent /\ n # r /\ c # n /\ c # r
      BY <1>3, <1>7, <1>8
    <2> QED  BY ONLY <1>5, <1>6, <1>9, <2>1
  <1>11. \A m \in Nodes : /\ u[a][m] = IF m = n THEN c ELSE u0[a][m]
                          /\ u[b][m] = IF m = r THEN n ELSE u0[b][m]
    <2>1. u2[a] = u0[a] /\ u3[b] = u0[b] /\ u[a] = u3[a] /\ u[b] = u4[b]
      <3>1. a \in Sides /\ b \in Sides
        BY <1>2
      <3> QED  BY ONLY <1>5, <1>6, <1>7, <1>8, <1>9, <3>1
    <2> QED  BY ONLY <1>7, <1>8, <2>1
  <1>12. \A m \in Nodes \ {n, r}, s \in Sides :
            u[s][m] = IF m = p /\ s = Side(t, p, n) THEN r ELSE t[s][m]
    <2> SUFFICES ASSUME NEW m \in Nodes \ {n, r}, NEW s \in Sides PROVE u[s][m] = u0[s][m]
      BY <1>3
    <2>1. s = a \/ s = b
      BY ONLY s \in Sides, <1>2
    <2> QED  BY ONLY m \in Nodes \ {n, r}, <1>11, <2>1
  <1>13. u[a][n] = c /\ u[b][r] = n /\ u[b][n] = t[b][n] /\ u[a][r] = t[a][r]
    <2>1. n \in Nodes /\ r \in Nodes /\ n # r /\ n # p /\ r # p /\ a \in Sides /\ b \in Sides
      BY <1>2
    <2>2. \A s \in Sides, m \in Nodes : m # p => u0[s][m] = t[s][m]
      BY ONLY <1>3
    <2> QED  BY ONLY <1>11, <2>1, <2>2
  <1>14. u \in Trees /\ u.red = t.red /\ u.root = IF p = Null THEN r ELSE t.root
    BY ONLY <1>3, <1>5, <1>6, <1>7, <1>8, <1>9
  <1> QED
    BY <1>4, <1>10, <1>12, <1>13, <1>14 DEF Turned

\* _rbt_rotate_left and _rbt_rotate_right.
LEMMA RotateIs ==
    ASSUME NEW t \in Trees, NEW n \in Nodes, NEW a \in Sides, NEW r \in Nodes, r = t[a][n],
           NEW p, p = t.parent[n], NEW c, c = t[Opposite(a)][r],
           n # r, p # n, p # r, c # n, c # r, NEW u, u = Rotate(t, n, a)
    PROVE  Turned(t, u, n, a, r, c, p)
  <1> DEFINE u0 == Replace(t, p, n, r)
             u1 == [u0 EXCEPT !.parent[r] = p]
             u2 == [u1 EXCEPT !.parent[n] = r]
             u3 == [u2 EXCEPT ![a][n] = c]
             u4 == [u3 EXCEPT ![Opposite(a)][r] = n]
  <1>1. u = SetParent(Turn(u0, p, n, r, a, c), c, n)
    BY RotateSteps, Zenon
  <1>2. Turn(u0, p, n, r, a, c) = u4
    <2> HIDE DEF u0
    <2> QED  BY DEF Turn
  <1>3. /\ ReplacedNow(t, u0, p, n, r) /\ ParentIsNow(u0, u1, r, p)
        /\ ParentIsNow(u1, u2, n, r) /\ KidIsNow(u2, u3, a, n, c)
        /\ KidIsNow(u3, u4, Opposite(a), r, n)
    BY DEF ReplacedNow, ParentIsNow, KidIsNow
  <1>4. AdoptedNow(u4, u, c, n)
    BY <1>1, <1>2 DEF AdoptedNow
  <1> HIDE DEF u0, u1, u2, u3, u4
  <1> QED
    BY <1>3, <1>4, StepsTurn

-----------------------------------------------------------------------------
(* Orders *)

\* A measure has a least value.
LEMMA Least ==
    ASSUME NEW B, B # {}, NEW f \in [B -> Nat]
    PROVE  \E x \in B : \A y \in B : f[x] <= f[y]
  <1> DEFINE W == {f[x] : x \in B}
             less == {ss \in Nat \X Nat : ss[1] < ss[2]}
  <1>1. IsWellFoundedOn(less, Nat)
    BY NatLessThanWellFounded DEF OpToRel
  <1>2. \A i, j \in Nat : j < i => <<j, i>> \in less
    OBVIOUS
  <1>3. W \subseteq Nat /\ W # {}
    OBVIOUS
  <1> HIDE DEF W, less
  <1>4. PICK w \in W : \A y \in W : <<y, w>> \notin less
    BY <1>1, <1>3, WFMin
  <1>5. PICK x \in B : w = f[x]
    BY <1>4 DEF W
  <1>6. ASSUME NEW y \in B PROVE f[x] <= f[y]
    <2>1. f[y] \in W /\ f[y] \in Nat /\ f[x] \in Nat
      BY DEF W
    <2>2. ~(f[y] < f[x])
      BY <1>2, <1>4, <1>5, <2>1
    <2> QED  BY <2>1, <2>2
  <1> QED
    BY <1>6

\* x comes before y if one goes to the side a.
Before(a, x, y) == IF a = "left" THEN Key[x] < Key[y] ELSE Key[y] < Key[x]

\* The two orders of the nodes by their keys.
LEMMA OrderIs ==
    ASSUME NEW a \in Sides
    PROVE  /\ \A x \in Nodes : ~Before(a, x, x)
           /\ \A x, y \in Nodes : Before(Opposite(a), x, y) <=> Before(a, y, x)
           /\ \A x, y, z \in Nodes : Before(a, x, y) /\ Before(a, y, z) => Before(a, x, z)
           /\ \A x, y \in Nodes : ~(Before(a, x, y) /\ Before(a, y, x))
           /\ \A x, y \in Nodes : Before(a, x, y) => x # y /\ Key[x] # Key[y]
           /\ \A x, y \in Nodes : Key[x] # Key[y] => Before(a, x, y) \/ Before(a, y, x)
  <1>1. \A x \in Nodes : Key[x] \in Nat
    BY RbtAssumption
  <1> QED
    BY <1>1 DEF Before, Opposite, Sides

-----------------------------------------------------------------------------
(* The shape of a tree: S are its nodes and D[m] those at and below m. *)

Joint(t, S, D, m) ==
    /\ m \in D[m]
    /\ \A a \in Sides :
         /\ t[a][m] \in S \cup {Null} /\ D[t[a][m]] \subseteq D[m]
         /\ \A x \in D[t[a][m]] : Before(a, x, m)
         /\ t[a][m] # Null => t.parent[t[a][m]] = m
    /\ \A x \in D[m] : x = m \/ \E a \in Sides : x \in D[t[a][m]]

Rooted(t, S, D) ==
    /\ t.root \in S \cup {Null} /\ D[t.root] = S
    /\ t.root # Null => t.parent[t.root] = Null

Shape(t, S, D) ==
    /\ t \in Trees /\ S \subseteq Nodes /\ D \in [Ptr -> SUBSET S] /\ D[Null] = {}
    /\ \A m \in S : Joint(t, S, D, m)
    /\ Rooted(t, S, D)

\* Smaller(D, m): how many nodes there are at and below m.
LEMMA ShapeTypes ==
    ASSUME NEW t, NEW S, NEW D, Shape(t, S, D)
    PROVE  /\ t \in Trees /\ S \subseteq Nodes /\ IsFiniteSet(S) /\ Null \notin S
           /\ \A m \in Ptr : D[m] \subseteq S /\ IsFiniteSet(D[m]) /\ Cardinality(D[m]) \in Nat
           /\ D[Null] = {} /\ S \subseteq Ptr
  <1>1. /\ t \in Trees /\ S \subseteq Nodes /\ Null \notin S /\ D[Null] = {} /\ S \subseteq Ptr
        /\ \A m \in Ptr : D[m] \subseteq S
    BY RbtAssumption DEF Shape, Ptr
  <1>2. \A T : T \subseteq Nodes => IsFiniteSet(T) /\ Cardinality(T) \in Nat
    BY RbtAssumption, FS_Subset, FS_CardinalityType
  <1> QED
    BY <1>1, <1>2

\* There is less below a child than below its parent.
LEMMA Smaller ==
    ASSUME NEW t, NEW S, NEW D, Shape(t, S, D), NEW m \in S, NEW a \in Sides,
           NEW c, c = t[a][m], c # Null
    PROVE  c \in S /\ m \notin D[c] /\ Cardinality(D[c]) < Cardinality(D[m])
  <1>1. Joint(t, S, D, m) /\ m \in Nodes
    BY DEF Shape
  <1>2. c \in S /\ D[c] \subseteq D[m] /\ m \in D[m] /\ m \notin D[c]
    BY <1>1, OrderIs DEF Joint
  <1>3. IsFiniteSet(D[m]) /\ Cardinality(D[m]) \in Nat /\ Cardinality(D[c]) \in Nat
    BY <1>2, ShapeTypes
  <1>4. D[c] \in SUBSET D[m] /\ D[c] # D[m]
    BY <1>2
  <1>5. Cardinality(D[c]) <= Cardinality(D[m]) /\ Cardinality(D[m]) # Cardinality(D[c])
    BY <1>3, <1>4, FS_Subset
  <1> QED
    BY <1>2, <1>3, <1>5

\* What holds at a node if it holds at its children holds at every node.
LEMMA FromTheLeaves ==
    ASSUME NEW t, NEW S, NEW D, Shape(t, S, D), NEW G,
           \A m \in S : (\A a \in Sides : t[a][m] \in G \cup {Null}) => m \in G
    PROVE  S \subseteq G
  <1> DEFINE B == S \ G
             f == [m \in B |-> Cardinality(D[m])]
  <1>1. f \in [B -> Nat]
    BY ShapeTypes
  <1>2. ASSUME B # {} PROVE FALSE
    <2> HIDE DEF B
    <2>1. PICK x \in B : \A y \in B : f[x] <= f[y]
      BY <1>1, <1>2, Least
    <2>2. x \in S /\ x \notin G
      BY DEF B
    <2>3. PICK a \in Sides : t[a][x] \notin G /\ t[a][x] # Null
      BY <2>2
    <2>4. t[a][x] \in S /\ Cardinality(D[t[a][x]]) < Cardinality(D[x])
      BY <2>2, <2>3, Smaller
    <2>5. t[a][x] \in B
      BY <2>3, <2>4 DEF B
    <2>6. Cardinality(D[x]) <= Cardinality(D[t[a][x]])
      BY <2>1, <2>5
    <2>7. Cardinality(D[x]) \in Nat /\ Cardinality(D[t[a][x]]) \in Nat
      BY <2>2, <2>4, ShapeTypes
    <2> QED  BY <2>4, <2>6, <2>7
  <1> QED
    BY <1>2

\* Below a node the parents lead up to it, and the keys differ.
Nested(t, S, D) ==
    /\ \A m \in S : \A x \in D[m] :
         /\ D[x] \subseteq D[m]
         /\ x # m => /\ t.parent[x] \in D[m]
                     /\ \E a \in Sides : x = t[a][t.parent[x]]
    /\ \A m \in S : \A x, y \in D[m] : Key[x] = Key[y] => x = y

\* So it is in every shape.
LEMMA ShapeNested ==
    ASSUME NEW t, NEW S, NEW D, Shape(t, S, D)
    PROVE  Nested(t, S, D)
  <1> DEFINE G == {m \in S : /\ \A x \in D[m] :
                                 /\ D[x] \subseteq D[m]
                                 /\ x # m => /\ t.parent[x] \in D[m]
                                             /\ \E a \in Sides : x = t[a][t.parent[x]]
                             /\ \A x, y \in D[m] : Key[x] = Key[y] => x = y}
  <1>1. ASSUME NEW m \in S, \A a \in Sides : t[a][m] \in G \cup {Null}
        PROVE  m \in G
    <2>1. Joint(t, S, D, m) /\ D[Null] = {} /\ D[m] \subseteq Nodes /\ m \in Nodes
      BY ShapeTypes DEF Shape
    <2>2. \A x \in D[m] : x = m \/ \E a \in Sides : x \in D[t[a][m]] /\ t[a][m] \in G
      BY <1>1, <2>1 DEF Joint
    <2>3. ASSUME NEW x \in D[m], x # m
          PROVE  /\ D[x] \subseteq D[m] /\ t.parent[x] \in D[m]
                 /\ \E a \in Sides : x = t[a][t.parent[x]]
      <3>1. PICK a \in Sides : x \in D[t[a][m]] /\ t[a][m] \in G
        BY <2>2, <2>3
      <3>2. D[t[a][m]] \subseteq D[m] /\ m \in D[m] /\ t.parent[t[a][m]] = m
        BY <2>1, <3>1 DEF Joint
      <3>3. CASE x = t[a][m]
        BY <3>1, <3>2, <3>3
      <3>4. CASE x # t[a][m]
        BY <3>1, <3>2, <3>4
      <3> QED  BY <3>3, <3>4
    <2>4. ASSUME NEW x \in D[m], NEW y \in D[m], Key[x] = Key[y]
          PROVE  x = y
      <3>1. CASE x = m \/ y = m
        <4>1. \A z \in D[m] : z # m => Key[z] # Key[m]
          BY <2>1, OrderIs DEF Joint
        <4> QED  BY <2>4, <3>1, <4>1
      <3>2. CASE x # m /\ y # m
        <4>1. PICK a \in Sides : x \in D[t[a][m]] /\ t[a][m] \in G
          BY <2>2, <3>2
        <4>2. PICK b \in Sides : y \in D[t[b][m]] /\ t[b][m] \in G
          BY <2>2, <3>2
        <4>3. CASE a = b
          BY <2>4, <4>1, <4>2, <4>3
        <4>4. CASE a # b
          <5>1. b = Opposite(a)
            BY <4>4, SidesAre
          <5>2. Before(a, x, m) /\ Before(b, y, m)
            BY <2>1, <4>1, <4>2 DEF Joint
          <5>3. Before(a, m, y) /\ x \in Nodes /\ y \in Nodes
            BY <2>1, <5>1, <5>2, OrderIs
          <5>4. Before(a, x, y)
            BY <2>1, <5>2, <5>3, OrderIs
          <5> QED  BY <2>4, <5>3, <5>4, OrderIs
        <4> QED  BY <4>3, <4>4
      <3> QED  BY <3>1, <3>2
    <2> QED  BY <2>1, <2>3, <2>4
  <1> HIDE DEF G
  <1>2. S \subseteq G
    BY <1>1, FromTheLeaves
  <1> QED
    BY <1>2 DEF G, Nested

\* The parent link of a node leads to the node above it.
LEMMA ParentIs ==
    ASSUME NEW t, NEW S, NEW D, Shape(t, S, D), NEW n \in S
    PROVE  /\ n = t.root => t.parent[n] = Null
           /\ n # t.root => /\ t.parent[n] \in S
                            /\ \E a \in Sides : n = t[a][t.parent[n]]
                            /\ n = t[Side(t, t.parent[n], n)][t.parent[n]]
           /\ t.parent[n] \in S \cup {Null} /\ (t.parent[n] = Null <=> n = t.root)
           /\ n \in D[n] /\ D[n] \subseteq S /\ t.parent[n] # n
  <1>1. Nested(t, S, D) /\ Rooted(t, S, D) /\ Null \notin S /\ Joint(t, S, D, n)
        /\ S \subseteq Nodes
    BY ShapeNested, ShapeTypes DEF Shape
  <1>2. t.root \in S /\ n \in D[t.root]
    BY <1>1, ShapeTypes DEF Rooted
  <1>3. n = t.root => t.parent[n] = Null
    BY <1>1, <1>2 DEF Rooted
  <1>4. ASSUME n # t.root
        PROVE  /\ t.parent[n] \in S /\ \E a \in Sides : n = t[a][t.parent[n]]
    BY <1>1, <1>2, <1>4 DEF Nested, Rooted
  <1>5. n # t.root => n = t[Side(t, t.parent[n], n)][t.parent[n]]
    BY <1>4, LinksAre, ShapeTypes DEF Side, Sides
  <1>6. n \in D[n] /\ D[n] \subseteq S
    BY <1>1, ShapeTypes DEF Joint
  <1>7. n # t.root => t.parent[n] # n
    <2> SUFFICES ASSUME n # t.root, t.parent[n] = n PROVE FALSE
      OBVIOUS
    <2>1. PICK a \in Sides : n = t[a][n]
      BY <1>4
    <2>2. Before(a, n, n)
      BY <1>1, <1>6, <2>1 DEF Joint
    <2> QED  BY <1>1, <2>2, OrderIs
  <1> QED
    BY <1>1, <1>3, <1>4, <1>5, <1>6, <1>7

\* The nodes that are not in the tree keep their links.
Untouched(t, u, S) ==
    \A m \in Nodes \ S : u.parent[m] = t.parent[m] /\ \A a \in Sides : u[a][m] = t[a][m]

\* The names of the nodes around a rotation, and that they differ.
Around(t, S, D, n, a, r, b, p, c, d, e) ==
    /\ b = Opposite(a) /\ r = t[a][n] /\ p = t.parent[n] /\ c = t[b][r]
    /\ d = t[b][n] /\ e = t[a][r]
    /\ r \in S /\ p \in S \cup {Null} /\ c \in S \cup {Null} /\ d \in S \cup {Null}
    /\ e \in S \cup {Null}
    /\ n # r /\ p # n /\ p # r /\ c # n /\ c # r /\ d # n /\ d # r /\ e # n /\ e # r
    /\ (c # Null => c # d /\ c # e)

\* A node with a child can be rotated.
LEMMA AroundIs ==
    ASSUME NEW t, NEW S, NEW D, Shape(t, S, D), NEW n \in S, NEW a \in Sides, t[a][n] # Null
    PROVE  \E r, b, p, c, d, e : Around(t, S, D, n, a, r, b, p, c, d, e)
  <1> DEFINE r == t[a][n]
             b == Opposite(a)
             p == t.parent[n]
             c == t[b][r]
             d == t[b][n]
             e == t[a][r]
  <1>1. S \subseteq Nodes /\ D[Null] = {} /\ Null \notin S
    BY ShapeTypes
  <1>2. b \in Sides /\ a # b /\ Opposite(b) = a /\ Sides = {a, b}
    BY SidesAre
  <1>3. Joint(t, S, D, n)
    BY DEF Shape
  <1> HIDE DEF r, b, p, c, d, e
  <1>4. r \in S /\ d \in S \cup {Null}
    BY <1>2, <1>3, <1>2 DEF Joint, r, d
  <1>5. Joint(t, S, D, r) /\ r \in Nodes /\ n \in Nodes
    BY <1>1, <1>4 DEF Shape
  <1>6. c \in S \cup {Null} /\ e \in S \cup {Null} /\ D[c] \subseteq D[r] /\ D[e] \subseteq D[r]
    BY <1>2, <1>5 DEF Joint, c, e
  <1>7. D[r] \subseteq D[n] /\ r \in D[r] /\ \A x \in D[r] : Before(a, x, n)
    BY <1>3, <1>5 DEF Joint, r
  <1>8. n \notin D[r] /\ n # r
    BY <1>5, <1>7, OrderIs
  <1>9. \A x \in S : x \in D[x]
    BY DEF Shape, Joint
  <1>10. c # n /\ e # n
    BY <1>6, <1>8, <1>9
  <1>11. (\A x \in D[c] : Before(b, x, r)) /\ (\A x \in D[e] : Before(a, x, r))
    BY <1>2, <1>5 DEF Joint, c, e
  <1>12. (\A x \in D[d] : Before(b, x, n))
    BY <1>2, <1>3 DEF Joint, d
  <1>13. \A x, y \in Nodes : /\ ~Before(b, x, x) /\ ~Before(a, x, x)
                            /\ ~(Before(a, x, y) /\ Before(b, x, y))
    BY <1>2, OrderIs DEF b
  <1>14. c # r /\ e # r
    <2>1. r \notin D[c] /\ r \notin D[e]
      BY <1>5, <1>11, <1>13
    <2> QED  BY <1>4, <2>1, <1>7
  <1>15. d # n /\ d # r
    <2>1. n \notin D[d] /\ r \notin D[d]
      BY <1>5, <1>7, <1>12, <1>13
    <2> QED  BY <1>4, <1>9, <2>1
  <1>16. c # Null => c # d /\ c # e
    <2> SUFFICES ASSUME c # Null PROVE c # d /\ c # e
      OBVIOUS
    <2>1. c \in S /\ c \in D[c] /\ c \in D[r] /\ c \in Nodes
      BY <1>1, <1>6, <1>9
    <2>2. c \notin D[d] /\ c \notin D[e]
      BY <1>5, <1>7, <1>11, <1>12, <1>13, <2>1
    <2> QED  BY <2>1, <2>2
  <1>17. p \in S \cup {Null} /\ p # n
    BY ParentIs DEF p
  <1>18. p # r
    <2> SUFFICES ASSUME p = r PROVE FALSE
      OBVIOUS
    <2>1. n # t.root
      BY <1>1, <1>4, ParentIs DEF p
    <2>2. PICK s \in Sides : n = t[s][r]
      BY <2>1, ParentIs DEF p
    <2>3. n \in D[r]
      BY <1>5, <1>9, <2>2 DEF Joint
    <2> QED  BY <1>8, <2>3
  <1>19. Around(t, S, D, n, a, r, b, p, c, d, e)
    <2>1. b = Opposite(a) /\ r = t[a][n] /\ p = t.parent[n] /\ c = t[b][r]
          /\ d = t[b][n] /\ e = t[a][r]
      BY DEF r, b, p, c, d, e
    <2> QED  BY <2>1, <1>4, <1>6, <1>8, <1>10, <1>14, <1>15, <1>16, <1>17, <1>18 DEF Around
  <1> QED
    BY <1>19

\* A joint from its two children.
LEMMA JointFrom ==
    ASSUME NEW t, NEW S, NEW E, NEW m, NEW a \in Sides, NEW b, b = Opposite(a),
           NEW l, t[a][m] = l, NEW k, t[b][m] = k,
           l \in S \cup {Null}, k \in S \cup {Null}, m \in E[m], E[l] \subseteq E[m],
           E[k] \subseteq E[m],
           \A x \in E[l] : Before(a, x, m), \A x \in E[k] : Before(b, x, m),
           l # Null => t.parent[l] = m, k # Null => t.parent[k] = m,
           \A x \in E[m] : x = m \/ x \in E[l] \/ x \in E[k]
    PROVE  Joint(t, S, E, m)
  <1>1. b \in Sides /\ \A s \in Sides : s = a \/ s = b
    BY SidesAre
  <1>2. ASSUME NEW s \in Sides
        PROVE  /\ t[s][m] \in S \cup {Null} /\ E[t[s][m]] \subseteq E[m]
               /\ \A x \in E[t[s][m]] : Before(s, x, m)
               /\ t[s][m] # Null => t.parent[t[s][m]] = m
    <2>1. CASE s = a
      BY <2>1
    <2>2. CASE s = b
      BY <2>2
    <2> QED  BY <1>1, <2>1, <2>2
  <1>3. ASSUME NEW x \in E[m] PROVE x = m \/ \E s \in Sides : x \in E[t[s][m]]
    BY <1>1, <1>3
  <1> QED
    BY <1>2, <1>3 DEF Joint

\* The nodes below each node after a rotation.
TurnedBelow(D, n, r, c, d) == [D EXCEPT ![r] = D[n], ![n] = {n} \cup D[c] \cup D[d]]

\* A rotation turns one shape into another.
LEMMA TurnedShape ==
    ASSUME NEW t, NEW S, NEW D, Shape(t, S, D), NEW n \in S, NEW a \in Sides,
           NEW r, NEW b, NEW p, NEW c, NEW d, NEW e, Around(t, S, D, n, a, r, b, p, c, d, e),
           NEW u, Turned(t, u, n, a, r, c, p), NEW E, E = TurnedBelow(D, n, r, c, d)
    PROVE  Shape(u, S, E)
  <1>1. S \subseteq Nodes /\ D[Null] = {} /\ Null \notin S /\ t \in Trees /\ S \subseteq Ptr
    BY ShapeTypes
  <1>2. b \in Sides /\ a # b /\ Opposite(b) = a /\ Sides = {a, b} /\ b = Opposite(a)
    BY SidesAre DEF Around
  <1>3. /\ r = t[a][n] /\ p = t.parent[n] /\ c = t[b][r] /\ d = t[b][n] /\ e = t[a][r]
        /\ r \in S /\ p \in S \cup {Null} /\ c \in S \cup {Null} /\ d \in S \cup {Null}
        /\ e \in S \cup {Null}
        /\ n # r /\ p # n /\ p # r /\ c # n /\ c # r /\ d # n /\ d # r /\ e # n /\ e # r
        /\ (c # Null => c # d /\ c # e)
    BY <1>1, <1>2 DEF Around
  <1>15. /\ p = Null <=> n = t.root
         /\ p # Null => /\ n = t[Side(t, p, n)][p]
                        /\ Side(t, p, n) \in Sides
    <2>1. p = t.parent[n]
      BY <1>3
    <2>2. t.parent[n] = Null <=> n = t.root
      BY ONLY Shape(t, S, D), n \in S, ParentIs
    <2>3. n # t.root => n = t[Side(t, t.parent[n], n)][t.parent[n]]
      BY ONLY Shape(t, S, D), n \in S, ParentIs
    <2>4. Side(t, p, n) \in Sides
      BY SideIs
    <2> QED  BY ONLY <2>1, <2>2, <2>3, <2>4
  <1>4. /\ u \in Trees /\ u.root = IF p = Null THEN r ELSE t.root
        /\ \A m \in Nodes : u.parent[m] = IF m = n THEN r ELSE IF m = r THEN p
                                          ELSE IF m = c THEN n ELSE t.parent[m]
        /\ u[a][n] = c /\ u[b][r] = n /\ u[b][n] = d /\ u[a][r] = e
        /\ \A m \in Nodes \ {n, r}, s \in Sides :
             u[s][m] = IF m = p /\ s = Side(t, p, n) THEN r ELSE t[s][m]
    BY <1>2, <1>3 DEF Turned
  <1>5. D \in [Ptr -> SUBSET S] /\ \A m \in S : Joint(t, S, D, m) /\ m \in D[m]
    BY DEF Shape, Joint
  <1>6. /\ \A m \in Ptr : E[m] = IF m = n THEN {n} \cup D[c] \cup D[d]
                                 ELSE IF m = r THEN D[n] ELSE D[m]
        /\ E \in [Ptr -> SUBSET S]
    <2>1. r \in Ptr /\ n \in Ptr /\ c \in Ptr /\ d \in Ptr
      BY <1>1, <1>3 DEF Ptr
    <2>2. D[n] \subseteq S /\ ({n} \cup D[c] \cup D[d]) \subseteq S
      BY <1>5, <2>1
    <2>3. \A m \in Ptr : E[m] = IF m = n THEN {n} \cup D[c] \cup D[d]
                                 ELSE IF m = r THEN D[n] ELSE D[m]
      BY <1>3, <1>5, <2>1 DEF TurnedBelow
    <2>4. E \in [Ptr -> SUBSET S]
      BY <1>5, <2>1, <2>2 DEF TurnedBelow
    <2> QED  BY <2>3, <2>4
  <1>7. /\ D[c] \subseteq D[r] /\ D[e] \subseteq D[r] /\ D[r] \subseteq D[n] /\ D[d] \subseteq D[n]
        /\ (\A x \in D[c] : Before(b, x, r)) /\ (\A x \in D[e] : Before(a, x, r))
        /\ (\A x \in D[r] : Before(a, x, n)) /\ (\A x \in D[d] : Before(b, x, n))
        /\ (\A x \in D[r] : x = r \/ x \in D[c] \/ x \in D[e])
        /\ (\A x \in D[n] : x = n \/ x \in D[r] \/ x \in D[d])
    <2>1. Joint(t, S, D, n) /\ Joint(t, S, D, r)
      BY <1>3, <1>5
    <2> QED  BY <1>2, <1>3, <2>1 DEF Joint
  <1>8. Null \in Ptr /\ Null # n /\ Null # r /\ n \in Nodes /\ r \in Nodes
    BY <1>1, <1>3 DEF Ptr
  <1>9. /\ E[Null] = {} /\ E[n] = {n} \cup D[c] \cup D[d] /\ E[r] = D[n]
        /\ E[c] = D[c] /\ E[d] = D[d] /\ E[e] = D[e]
    <2>1. c \in Ptr /\ d \in Ptr /\ e \in Ptr /\ n \in Ptr /\ r \in Ptr
      BY <1>1, <1>3 DEF Ptr
    <2> QED  BY <1>1, <1>3, <1>6, <1>8, <2>1
  <1>10. (d # Null => t.parent[d] = n) /\ (e # Null => t.parent[e] = r) /\ t.parent[r] = n
         /\ (c # Null => t.parent[c] = r)
    <2>1. Joint(t, S, D, n) /\ Joint(t, S, D, r)
      BY <1>3, <1>5
    <2>2. \A s \in Sides : /\ t[s][n] # Null => t.parent[t[s][n]] = n
                           /\ t[s][r] # Null => t.parent[t[s][r]] = r
      BY ONLY <2>1 DEF Joint
    <2>3. /\ a \in Sides /\ b \in Sides /\ r # Null
          /\ r = t[a][n] /\ c = t[b][r] /\ d = t[b][n] /\ e = t[a][r]
      BY <1>1, <1>2, <1>3
    <2> QED  BY ONLY <2>2, <2>3
  <1>11. Joint(u, S, E, n)
    <2>1. \A x \in D[c] : Before(a, x, n)
      BY <1>7
    <2>2. (c # Null => u.parent[c] = n) /\ (d # Null => u.parent[d] = n)
      <3>1. /\ c # n /\ c # r /\ d # n /\ d # r /\ (c # Null => c # d)
            /\ (c # Null => c \in Nodes) /\ (d # Null => d \in Nodes)
        BY <1>1, <1>3
      <3>2. \A m \in Nodes : u.parent[m] = IF m = n THEN r ELSE IF m = r THEN p
                                           ELSE IF m = c THEN n ELSE t.parent[m]
        BY <1>4
      <3>3. d # Null => t.parent[d] = n
        BY <1>10
      <3> QED  BY ONLY <3>1, <3>2, <3>3
    <2>3. n \in E[n] /\ E[c] \subseteq E[n] /\ E[d] \subseteq E[n]
          /\ \A x \in E[n] : x = n \/ x \in E[c] \/ x \in E[d]
      BY <1>9
    <2>4. u[a][n] = c /\ u[b][n] = d /\ c \in S \cup {Null} /\ d \in S \cup {Null}
      BY <1>3, <1>4
    <2>5. (\A x \in E[c] : Before(a, x, n)) /\ (\A x \in E[d] : Before(b, x, n))
      BY <1>7, <1>9, <2>1
    <2> QED  BY ONLY a \in Sides, <1>2, <2>2, <2>3, <2>4, <2>5, JointFrom
  <1>12. Joint(u, S, E, r)
    <2>1. (e # Null => u.parent[e] = r) /\ u.parent[n] = r
      <3>1. /\ e # n /\ e # r /\ (c # Null => c # e) /\ n \in Nodes
            /\ (e # Null => e \in Nodes)
        BY <1>1, <1>3, <1>8
      <3>2. \A m \in Nodes : u.parent[m] = IF m = n THEN r ELSE IF m = r THEN p
                                           ELSE IF m = c THEN n ELSE t.parent[m]
        BY <1>4
      <3>3. e # Null => t.parent[e] = r
        BY <1>10
      <3> QED  BY ONLY <3>1, <3>2, <3>3
    <2>3. \A x \in E[n] : Before(b, x, r)
      <3>1. r \in D[r]
        BY <1>3, <1>5
      <3>2. Before(a, r, n)
        BY <1>7, <3>1
      <3>3. Before(b, n, r)
        BY <1>2, <1>8, <3>2, OrderIs
      <3>4. \A x \in D[d] : Before(b, x, r)
        <4> SUFFICES ASSUME NEW x \in D[d] PROVE Before(b, x, r)
          OBVIOUS
        <4>1. Before(b, x, n)
          BY <1>7
        <4>2. x \in Nodes
          BY <1>1, <1>3, <1>5, ShapeTypes
        <4> QED  BY <1>2, <1>8, <3>3, <4>1, <4>2, OrderIs
      <3> QED  BY <1>7, <1>9, <3>3, <3>4
    <2>4. \A x \in E[r] : x = r \/ x \in E[n] \/ x \in E[e]
      BY <1>7, <1>9
    <2>5. r \in E[r] /\ E[n] \subseteq E[r] /\ E[e] \subseteq E[r]
      <3>1. r \in D[r] /\ n \in D[n]
        BY <1>3, <1>5
      <3> QED  BY <1>7, <1>9, <3>1
    <2>6. \A x \in E[r] : x = r \/ x \in E[e] \/ x \in E[n]
      BY <2>4
    <2> QED  BY <1>2, <1>3, <1>4, <1>7, <1>9, <2>1, <2>3, <2>5, <2>6, JointFrom
  <1>13. ASSUME NEW m \in S, m # n, m # r PROVE Joint(u, S, E, m)
    <2>1. Joint(t, S, D, m) /\ m \in Nodes /\ m \in Ptr
      BY <1>1, <1>5
    <2>2. E[m] = D[m]
      BY <1>6, <1>13, <2>1
    <2>3. ASSUME NEW s \in Sides
          PROVE  /\ u[s][m] \in S \cup {Null} /\ E[u[s][m]] = D[t[s][m]]
                 /\ u[s][m] # Null => u.parent[u[s][m]] = m
      <3> DEFINE k == t[s][m]
      <3>1. k \in S \cup {Null} /\ (k # Null => t.parent[k] = m) /\ k \in Ptr
        BY <2>1, <1>1 DEF Joint, Ptr
      <3>2. k # r
        BY <1>1, <1>3, <1>10, <1>13, <3>1
      <3>3. CASE m = p /\ s = Side(t, p, n)
        <4>1. u[s][m] = r
          BY <1>4, <1>13, <2>1, <3>3
        <4>2. k = n
          <5>1. Null \notin S
            BY <1>1
          <5> QED  BY ONLY m \in S, <1>15, <3>3, <5>1
        <4>3. E[r] = D[n]
          BY <1>8, <1>9
        <4>4. r \in S /\ u.parent[r] = p
          BY <1>1, <1>3, <1>4, <1>8
        <4> QED  BY <3>3, <4>1, <4>2, <4>3, <4>4
      <3>4. CASE ~(m = p /\ s = Side(t, p, n))
        <4>1. u[s][m] = k
          BY <1>4, <1>13, <2>1, <3>4
        <4>2. k # n
          <5> SUFFICES ASSUME k = n PROVE FALSE
            OBVIOUS
          <5>1. m = p /\ p \in S /\ s # Side(t, p, n)
            BY <1>1, <1>3, <3>1, <3>4
          <5>2. n = t[Side(t, p, n)][p] /\ Side(t, p, n) \in Sides
            <6>1. Null \notin S
              BY <1>1
            <6> QED  BY ONLY <1>15, <5>1, <6>1
          <5>3. s = Opposite(Side(t, p, n))
            BY <5>1, <5>2, SidesAre
          <5>4. Before(s, n, m) /\ Before(Side(t, p, n), n, m)
            BY <1>5, <2>1, <5>1, <5>2 DEF Joint
          <5> QED  BY <1>8, <2>1, <5>2, <5>3, <5>4, OrderIs
        <4>3. E[k] = D[k]
          BY <1>6, <3>1, <3>2, <4>2
        <4>4. k # Null => k # c
          BY <1>10, <1>13, <3>1
        <4>5. k # Null => u.parent[k] = m
          BY <1>1, <1>4, <3>1, <3>2, <4>2, <4>4
        <4> QED  BY <3>1, <4>1, <4>3, <4>5
      <3> QED  BY <3>3, <3>4
    <2> QED  BY <2>1, <2>2, <2>3 DEF Joint
  <1>14. Rooted(u, S, E)
    <2>1. Rooted(t, S, D) /\ (p = Null <=> n = t.root)
      BY <1>15 DEF Shape
    <2>2. CASE p = Null
      <3>1. u.root = r /\ D[n] = S
        BY <1>4, <2>1, <2>2 DEF Rooted
      <3>2. u.parent[r] = Null
        BY <1>3, <1>4, <1>8, <2>2
      <3> QED  BY <1>3, <1>9, <3>1, <3>2 DEF Rooted
    <2>3. CASE p # Null
      <3>1. u.root = t.root /\ t.root # n
        BY <1>4, <2>1, <2>3
      <3>2. t.root \in S
        BY <1>1, <2>1 DEF Rooted
      <3>3. t.parent[t.root] = Null
        BY <1>1, <2>1, <3>2 DEF Rooted
      <3>4. t.root # r /\ t.root # c
        BY <1>1, <1>3, <1>8, <1>10, <3>2, <3>3
      <3>5. E[t.root] = D[t.root] /\ u.parent[t.root] = Null
        BY <1>1, <1>4, <1>6, <3>1, <3>2, <3>3, <3>4
      <3> QED  BY <2>1, <3>1, <3>5 DEF Rooted
    <2> QED  BY <2>2, <2>3
  <1> QED
    BY <1>1, <1>4, <1>6, <1>9, <1>11, <1>12, <1>13, <1>14 DEF Shape

\* After a rotation the tree is as good as before; the nodes outside of it and
\* what is below the other nodes are what they were.
RotateKept(t, u, S, D, E, n, r) ==
    /\ Shape(u, S, E) /\ u.red = t.red /\ Untouched(t, u, S)
    /\ \A m \in S \ {n, r} : E[m] = D[m]
    /\ u.parent[n] = r /\ u.parent[r] = t.parent[n]
    /\ \A m \in S \ {n, r} : t.parent[m] # r => u.parent[m] = t.parent[m]

\* So does the code of _rbt_rotate_left and _rbt_rotate_right.
LEMMA RotateKeeps ==
    ASSUME NEW t, NEW S, NEW D, Shape(t, S, D), NEW n \in S, NEW a \in Sides, t[a][n] # Null,
           NEW u, u = Rotate(t, n, a)
    PROVE  \E E : RotateKept(t, u, S, D, E, n, t[a][n])
  <1>1. PICK r, b, p, c, d, e : Around(t, S, D, n, a, r, b, p, c, d, e)
    BY AroundIs
  <1>2. S \subseteq Nodes /\ D[Null] = {} /\ Null \notin S /\ t \in Trees /\ S \subseteq Ptr
    BY ShapeTypes
  <1>3. /\ b = Opposite(a) /\ r = t[a][n] /\ p = t.parent[n] /\ c = t[b][r] /\ r \in S
        /\ p \in S \cup {Null} /\ c \in S \cup {Null} /\ d \in S \cup {Null}
        /\ n # r /\ p # n /\ p # r /\ c # n /\ c # r
    BY <1>1 DEF Around
  <1>4. Turned(t, u, n, a, r, c, p)
    BY <1>2, <1>3, RotateIs
  <1> DEFINE E == TurnedBelow(D, n, r, c, d)
  <1>5. Shape(u, S, E)
    <2> HIDE DEF E
    <2>1. E = TurnedBelow(D, n, r, c, d)
      BY DEF E
    <2> QED  BY <1>1, <1>4, <2>1, TurnedShape
  <1>6. \A m \in S \ {n, r} : E[m] = D[m]
    <2>1. D \in [Ptr -> SUBSET S]
      BY DEF Shape
    <2> QED  BY <1>2, <2>1 DEF TurnedBelow
  <1> HIDE DEF E
  <1>7. u.red = t.red /\ Untouched(t, u, S)
    <2>1. ASSUME NEW m \in Nodes \ S PROVE m # n /\ m # r /\ m # p /\ m # c
      BY <1>2, <1>3, RbtAssumption
    <2> QED  BY <1>4, <2>1 DEF Turned, Untouched
  <1>8. u.parent[n] = r /\ u.parent[r] = t.parent[n]
    BY <1>2, <1>3, <1>4 DEF Turned
  <1>9. c # Null => t.parent[c] = r
    <2>1. Joint(t, S, D, r) /\ b \in Sides
      BY <1>3, SidesAre DEF Shape
    <2> QED  BY <1>3, <2>1 DEF Joint
  <1>10. \A m \in S \ {n, r} : t.parent[m] # r => u.parent[m] = t.parent[m]
    BY <1>2, <1>4, <1>9 DEF Turned
  <1>11. RotateKept(t, u, S, D, E, n, t[a][n])
    BY <1>3, <1>5, <1>6, <1>7, <1>8, <1>10 DEF RotateKept
  <1> QED
    BY <1>11

-----------------------------------------------------------------------------
(* Functions that only call themselves last *)

TailData(X, stop, nxt) == stop \subseteq X /\ \A x \in X \ stop : nxt[x] \in X
TailFcn(X, stop, val, nxt) ==
    \E f : f = [x \in X |-> IF x \in stop THEN val[x] ELSE f[nxt[x]]]

\* Such a function exists, whether or not the calls end.
LEMMA TailCallsHave ==
    ASSUME NEW X, NEW stop \in SUBSET X, NEW val, NEW nxt, \A x \in X \ stop : nxt[x] \in X
    PROVE  TailFcn(X, stop, val, nxt)
  <1> DEFINE Y == {val[x] : x \in stop}
             Holds(Q) == /\ \A x \in stop : <<x, val[x]>> \in Q
                         /\ \A x \in X \ stop, y \in Y : <<nxt[x], y>> \in Q => <<x, y>> \in Q
             Least0 == {z \in X \X Y : \A Q \in SUBSET (X \X Y) : Holds(Q) => z \in Q}
             One == {z \in Least0 : \A y \in Y : <<z[1], y>> \in Least0 => y = z[2]}
             Ends(x) == \E y \in Y : <<x, y>> \in Least0
             f == [x \in X |-> IF Ends(x) THEN CHOOSE y \in Y : <<x, y>> \in Least0 ELSE 0]
  <1>1. Least0 \in SUBSET (X \X Y) /\ \A Q \in SUBSET (X \X Y) : Holds(Q) => Least0 \subseteq Q
    OBVIOUS
  <1>2. \A x \in stop : <<x, val[x]>> \in Least0
    OBVIOUS
  <1>3. \A x \in X \ stop, y \in Y : <<nxt[x], y>> \in Least0 => <<x, y>> \in Least0
    <2> SUFFICES ASSUME NEW x \in X \ stop, NEW y \in Y, <<nxt[x], y>> \in Least0,
                        NEW Q \in SUBSET (X \X Y), Holds(Q)
                 PROVE  <<x, y>> \in Q
      OBVIOUS
    <2>1. <<nxt[x], y>> \in Q
      OBVIOUS
    <2> QED  BY <2>1
  <1>4. ASSUME NEW x \in stop, NEW y \in Y, <<x, y>> \in Least0 PROVE y = val[x]
    <2> DEFINE Q == {z \in Least0 : z[1] = x => z[2] = val[x]}
    <2>1. Q \in SUBSET (X \X Y)
      OBVIOUS
    <2>2. Holds(Q)
      <3>1. \A v \in stop : <<v, val[v]>> \in Q
        BY <1>2
      <3>2. \A v \in X \ stop, w \in Y : <<nxt[v], w>> \in Q => <<v, w>> \in Q
        <4> SUFFICES ASSUME NEW v \in X \ stop, NEW w \in Y, <<nxt[v], w>> \in Q
                     PROVE  <<v, w>> \in Q
          OBVIOUS
        <4>1. <<v, w>> \in Least0 /\ v # x
          BY <1>3
        <4> QED  BY <4>1
      <3> QED  BY <3>1, <3>2
    <2> HIDE DEF Least0, Holds
    <2>3. <<x, y>> \in Q
      BY <1>1, <1>4, <2>1, <2>2
    <2> QED  BY <2>3
  <1>5. ASSUME NEW x \in X \ stop, NEW y \in Y, <<x, y>> \in Least0
        PROVE  <<nxt[x], y>> \in Least0
    <2> DEFINE Q == {z \in Least0 : z[1] = x => <<nxt[x], z[2]>> \in Least0}
    <2>1. Q \in SUBSET (X \X Y)
      OBVIOUS
    <2>2. Holds(Q)
      <3>1. \A v \in stop : <<v, val[v]>> \in Q
        BY <1>2
      <3>2. \A v \in X \ stop, w \in Y : <<nxt[v], w>> \in Q => <<v, w>> \in Q
        <4> SUFFICES ASSUME NEW v \in X \ stop, NEW w \in Y, <<nxt[v], w>> \in Q
                     PROVE  <<v, w>> \in Q
          OBVIOUS
        <4>1. <<nxt[v], w>> \in Least0
          OBVIOUS
        <4>2. <<v, w>> \in Least0
          BY <1>3, <4>1
        <4> QED  BY <4>1, <4>2
      <3> QED  BY <3>1, <3>2
    <2> HIDE DEF Least0, Holds
    <2>3. <<x, y>> \in Q
      BY <1>1, <1>5, <2>1, <2>2
    <2> QED  BY <2>3
  <1>6. \A x \in X, y, w \in Y : <<x, y>> \in Least0 /\ <<x, w>> \in Least0 => y = w
    <2>1. One \in SUBSET (X \X Y)
      OBVIOUS
    <2>2. Holds(One)
      <3> HIDE DEF Least0
      <3>1. \A v \in stop : <<v, val[v]>> \in One
        BY <1>2, <1>4
      <3>2. \A v \in X \ stop, w \in Y : <<nxt[v], w>> \in One => <<v, w>> \in One
        <4> SUFFICES ASSUME NEW v \in X \ stop, NEW w \in Y, <<nxt[v], w>> \in One
                     PROVE  <<v, w>> \in One
          OBVIOUS
        <4>1. <<nxt[v], w>> \in Least0 /\ \A y \in Y : <<nxt[v], y>> \in Least0 => y = w
          OBVIOUS
        <4>2. <<v, w>> \in Least0 /\ \A y \in Y : <<v, y>> \in Least0 => y = w
          BY <1>3, <1>5, <4>1
        <4> QED  BY <4>2
      <3> QED  BY <3>1, <3>2
    <2> HIDE DEF Least0, Holds
    <2>3. Least0 \subseteq One
      BY <1>1, <2>1, <2>2
    <2> SUFFICES ASSUME NEW x \in X, NEW y \in Y, NEW w \in Y,
                        <<x, y>> \in Least0, <<x, w>> \in Least0
                 PROVE  y = w
      OBVIOUS
    <2>4. <<x, w>> \in One
      BY <2>3
    <2> QED  BY <2>4
  <1> HIDE DEF Least0, Holds, One
  <1>7. ASSUME NEW x \in X
        PROVE  f[x] = IF x \in stop THEN val[x] ELSE f[nxt[x]]
    <2>1. ASSUME NEW v \in X, NEW y \in Y, <<v, y>> \in Least0 PROVE f[v] = y
      BY <1>6, <2>1
    <2>2. CASE x \in stop
      <3>1. val[x] \in Y
        BY <2>2
      <3> HIDE DEF f, Y
      <3> QED  BY <1>2, <2>1, <2>2, <3>1
    <2>3. CASE x \notin stop
      <3>1. nxt[x] \in X /\ x \in X \ stop
        BY <2>3
      <3>2. CASE Ends(x)
        <4>1. PICK y \in Y : <<x, y>> \in Least0
          BY <3>2
        <4>2. <<nxt[x], y>> \in Least0
          BY <1>5, <2>3, <4>1
        <4> HIDE DEF f, Y, Ends
        <4> QED  BY <2>1, <2>3, <3>1, <4>1, <4>2
      <3>3. CASE ~Ends(x)
        <4>1. ~Ends(nxt[x])
          BY <1>3, <3>1, <3>3
        <4>2. f[x] = 0 /\ f[nxt[x]] = 0
          BY <3>1, <3>3, <4>1
        <4> QED  BY <2>3, <4>2
      <3> QED  BY <3>2, <3>3
    <2> QED  BY <2>2, <2>3
  <1>8. f = [x \in X |-> f[x]]
    OBVIOUS
  <1> HIDE DEF f
  <1>9. f = [x \in X |-> IF x \in stop THEN val[x] ELSE f[nxt[x]]]
    BY <1>7, <1>8
  <1> QED
    BY <1>9 DEF TailFcn

LEMMA TailCalls ==
    \A X, stop, val, nxt : TailData(X, stop, nxt) => TailFcn(X, stop, val, nxt)
  BY TailCallsHave DEF TailData

\* A rotation of any tree, of the right shape or not, has the type of a tree.
LEMMA RotateTyped ==
    ASSUME NEW t \in Trees, NEW n \in Nodes, NEW a \in Sides, t[a][n] \in Nodes,
           NEW u, u = Rotate(t, n, a)
    PROVE  u \in Trees /\ u.red = t.red
  <1> DEFINE r == t[a][n]
             p == t.parent[n]
             b == Opposite(a)
             c == t[b][r]
             u0 == Replace(t, p, n, r)
             u1 == [u0 EXCEPT !.parent[r] = p]
             u2 == [u1 EXCEPT !.parent[n] = r]
             u3 == [u2 EXCEPT ![a][n] = c]
             u4 == [u3 EXCEPT ![b][r] = n]
  <1>1. u = SetParent(Turn(u0, p, n, r, a, c), c, n)
    BY RotateSteps, Zenon
  <1>2. Turn(u0, p, n, r, a, c) = u4
    <2> HIDE DEF u0
    <2> QED  BY DEF Turn
  <1>3. /\ ReplacedNow(t, u0, p, n, r) /\ ParentIsNow(u0, u1, r, p)
        /\ ParentIsNow(u1, u2, n, r) /\ KidIsNow(u2, u3, a, n, c)
        /\ KidIsNow(u3, u4, b, r, n)
    BY DEF ReplacedNow, ParentIsNow, KidIsNow
  <1>4. AdoptedNow(u4, u, c, n)
    BY <1>1, <1>2 DEF AdoptedNow
  <1>5. /\ p \in Ptr /\ r \in Ptr /\ n \in Ptr /\ c \in Ptr /\ b \in Sides /\ r \in Nodes
    <2>1. p \in Ptr /\ b \in Sides
      BY LinksAre, SidesAre
    <2>3. c \in Ptr
      BY <2>1, LinksAre
    <2> QED  BY <2>1, <2>3 DEF Ptr
  <1> HIDE DEF u0, u1, u2, u3, u4, p, b, c, r
  <1>6. u0 \in Trees /\ u0.red = t.red
    BY <1>3, <1>5, ReplaceIs
  <1>7. u1 \in Trees /\ u1.red = t.red
    BY <1>3, <1>5, <1>6, ParentSet
  <1>8. u2 \in Trees /\ u2.red = t.red
    BY <1>3, <1>5, <1>7, ParentSet
  <1>9. u3 \in Trees /\ u3.red = t.red
    BY <1>3, <1>5, <1>8, KidSet
  <1>10. u4 \in Trees /\ u4.red = t.red
    BY <1>3, <1>5, <1>9, KidSet
  <1> QED
    BY <1>4, <1>5, <1>10, SetParentIs

Uncle(t, n) ==
    LET p == t.parent[n]
        g == t.parent[p]
    IN  IF g = Null THEN Null ELSE Sibling(t, g, p)

\* The tree that the climb of _rbt_adjust_on_insert goes on with.
Painted(t, n) ==
    LET p == t.parent[n]
        g == t.parent[p]
    IN  [t EXCEPT !.red = (@ \ {p, Uncle(t, n)}) \cup {g}]

\* Case 3 of the insertion only repaints.
LEMMA PaintedIs ==
    ASSUME NEW t \in Trees, NEW n \in Nodes, NEW p, p = t.parent[n], NEW g, g = t.parent[p],
           Red(t, p), Red(t, Uncle(t, n))
    PROVE  /\ p \in Nodes /\ g \in Nodes
           /\ \E Rd \in SUBSET Nodes : RedIsNow(t, Painted(t, n), Rd)
           /\ Painted(t, n) \in Trees
  <1>1. t.red \subseteq Nodes /\ t.parent \in [Nodes -> Ptr]
    BY LinksAre
  <1>2. p \in Nodes /\ g \in Ptr
    BY <1>1 DEF Red
  <1>3. g # Null
    BY <1>1, RbtAssumption DEF Red, Uncle
  <1>4. g \in Nodes
    BY <1>2, <1>3 DEF Ptr
  <1> DEFINE Rd == (t.red \ {p, Uncle(t, n)}) \cup {g}
  <1>5. Rd \in SUBSET Nodes /\ RedIsNow(t, Painted(t, n), Rd)
    BY <1>1, <1>4 DEF RedIsNow, Painted
  <1> HIDE DEF Rd
  <1>6. Painted(t, n) \in Trees
    BY <1>5, RedSet
  <1> QED
    BY <1>2, <1>4, <1>5, <1>6

\* _rbt_adjust_on_insert, unfolded once.
LEMMA AdjustOnInsertIs ==
    ASSUME NEW t \in Trees, NEW n \in Nodes, NEW p, p = t.parent[n], NEW g, g = t.parent[p],
           NEW u, u = AdjustOnInsert[Spot(t, n)]
    PROVE  \/ n = t.root /\ u = [t EXCEPT !.red = @ \ {n}]
           \/ n # t.root /\ ~Red(t, p) /\ u = t
           \/ n # t.root /\ Red(t, p) /\ Red(t, Uncle(t, n))
              /\ u = AdjustOnInsert[Spot(Painted(t, n), g)]
           \/ n # t.root /\ Red(t, p) /\ ~Red(t, Uncle(t, n)) /\ u = TurnOnInsert(t, n)
  <1> DEFINE Eq(f) == f = [x \in Spots |->
               LET tt == x.tree
                   nn == x.at
                   pp == tt.parent[nn]
                   gg == tt.parent[pp]
                   uu == IF gg = Null THEN Null ELSE Sibling(tt, gg, pp)
               IN  IF nn = tt.root THEN [tt EXCEPT !.red = @ \ {nn}]
                   ELSE IF ~Red(tt, pp) THEN tt
                   ELSE IF Red(tt, uu)
                        THEN f[Spot([tt EXCEPT !.red = (@ \ {pp, uu}) \cup {gg}], gg)]
                   ELSE TurnOnInsert(tt, nn)]
             Stops(x) == \/ x.at = x.tree.root \/ ~Red(x.tree, x.tree.parent[x.at])
                         \/ ~Red(x.tree, Uncle(x.tree, x.at))
             stop == {x \in Spots : Stops(x)}
             Val(x) == IF x.at = x.tree.root THEN [x.tree EXCEPT !.red = @ \ {x.at}]
                       ELSE IF ~Red(x.tree, x.tree.parent[x.at]) THEN x.tree
                       ELSE TurnOnInsert(x.tree, x.at)
             val == [x \in Spots |-> Val(x)]
             Nxt(x) == Spot(Painted(x.tree, x.at), x.tree.parent[x.tree.parent[x.at]])
             nxt == [x \in Spots |-> Nxt(x)]
             fn == CHOOSE f : Eq(f)
  <1>1. \A x \in Spots \ stop : nxt[x] \in Spots
    <2> SUFFICES ASSUME NEW x \in Spots, ~Stops(x) PROVE Nxt(x) \in Spots
      OBVIOUS
    <2>1. x.tree \in Trees /\ x.at \in Nodes
      BY DEF Spots
    <2>2. Painted(x.tree, x.at) \in Trees /\ x.tree.parent[x.tree.parent[x.at]] \in Nodes
      BY <2>1, PaintedIs
    <2> QED  BY <2>2 DEF Spot, Spots
  <1>2. PICK f : f = [x \in Spots |-> IF x \in stop THEN val[x] ELSE f[nxt[x]]]
    <2>1. TailData(Spots, stop, nxt)
      <3> HIDE DEF nxt
      <3> QED  BY <1>1 DEF TailData
    <2> HIDE DEF stop, val, nxt
    <2>2. TailFcn(Spots, stop, val, nxt)
      BY <2>1, TailCalls
    <2> QED  BY <2>2, Zenon DEF TailFcn
  <1>3. Eq(f)
    <2>1. ASSUME NEW x \in Spots
          PROVE  (IF x \in stop THEN val[x] ELSE f[nxt[x]])
                 = IF x.at = x.tree.root THEN [x.tree EXCEPT !.red = @ \ {x.at}]
                   ELSE IF ~Red(x.tree, x.tree.parent[x.at]) THEN x.tree
                   ELSE IF Red(x.tree, Uncle(x.tree, x.at)) THEN f[Nxt(x)]
                   ELSE TurnOnInsert(x.tree, x.at)
      <3>1. val[x] = Val(x) /\ nxt[x] = Nxt(x) /\ (x \in stop <=> Stops(x))
        OBVIOUS
      <3> QED  BY <3>1
    <2>2. f = [x \in Spots |-> IF x.at = x.tree.root THEN [x.tree EXCEPT !.red = @ \ {x.at}]
                   ELSE IF ~Red(x.tree, x.tree.parent[x.at]) THEN x.tree
                   ELSE IF Red(x.tree, Uncle(x.tree, x.at)) THEN f[Nxt(x)]
                   ELSE TurnOnInsert(x.tree, x.at)]
      <3> HIDE DEF stop, val, nxt, Nxt
      <3> QED  BY <1>2, <2>1, Zenon
    <2> QED  BY <2>2, Zenon DEF Uncle, Painted
  <1>4. Eq(fn)
    <2> HIDE DEF Eq
    <2> QED  BY <1>3
  <1>5. AdjustOnInsert = fn
    BY DEF AdjustOnInsert
  <1>6. AdjustOnInsert = [x \in Spots |->
                   IF x.at = x.tree.root THEN [x.tree EXCEPT !.red = @ \ {x.at}]
                   ELSE IF ~Red(x.tree, x.tree.parent[x.at]) THEN x.tree
                   ELSE IF Red(x.tree, Uncle(x.tree, x.at)) THEN AdjustOnInsert[Nxt(x)]
                   ELSE TurnOnInsert(x.tree, x.at)]
    <2>1. Eq(AdjustOnInsert)
      <3> HIDE DEF Eq
      <3> QED  BY <1>4, <1>5
    <2> QED  BY <2>1, ZenonT(30) DEF Uncle, Painted
  <1> DEFINE x == Spot(t, n)
  <1>7. x \in Spots /\ x.tree = t /\ x.at = n
    BY DEF Spots, Spot
  <1>8. Nxt(x) = Spot(Painted(t, n), g)
    BY <1>7
  <1> HIDE DEF x, Nxt
  <1>9. AdjustOnInsert[x] = IF x.at = x.tree.root THEN [x.tree EXCEPT !.red = @ \ {x.at}]
                   ELSE IF ~Red(x.tree, x.tree.parent[x.at]) THEN x.tree
                   ELSE IF Red(x.tree, Uncle(x.tree, x.at)) THEN AdjustOnInsert[Nxt(x)]
                   ELSE TurnOnInsert(x.tree, x.at)
    BY <1>6, <1>7, Zenon
  <1>10. u = IF n = t.root THEN [t EXCEPT !.red = @ \ {n}]
             ELSE IF ~Red(t, p) THEN t
             ELSE IF Red(t, Uncle(t, n)) THEN AdjustOnInsert[Spot(Painted(t, n), g)]
             ELSE TurnOnInsert(t, n)
    BY <1>7, <1>8, <1>9, Zenon DEF x
  <1> QED
    BY <1>10

-----------------------------------------------------------------------------
(* The adjustment after an insertion *)

\* u is a search tree of the same nodes as t.
Remade(t, u, S) == Untouched(t, u, S) /\ \E E : Shape(u, S, E)

\* The links of the two trees are the same.
SameLinks(t, u) ==
    u.root = t.root /\ u.parent = t.parent /\ \A a \in Sides : u[a] = t[a]

\* One remaking after another.
LEMMA RemadeFrom ==
    ASSUME NEW t, NEW v, NEW u, NEW S, Remade(v, u, S), SameLinks(t, v) \/ Untouched(t, v, S)
    PROVE  Remade(t, u, S)
  BY DEF Remade, SameLinks, Untouched

\* The colours do not matter to the shape.
LEMMA RedKeeps ==
    ASSUME NEW t, NEW S, NEW D, Shape(t, S, D), NEW Rd \in SUBSET Nodes, NEW u,
           RedIsNow(t, u, Rd)
    PROVE  Shape(u, S, D) /\ u \in Trees /\ u.red = Rd /\ SameLinks(t, u) /\ Remade(t, u, S)
  <1>1. /\ u \in Trees /\ u.red = Rd /\ u.root = t.root /\ u.parent = t.parent
        /\ \A a \in Sides : u[a] = t[a]
    BY RedSet, ShapeTypes
  <1>2. ASSUME NEW m \in S PROVE Joint(u, S, D, m)
    BY <1>1 DEF Shape, Joint
  <1>3. Shape(u, S, D)
    BY <1>1, <1>2 DEF Shape, Rooted
  <1>4. SameLinks(t, u) /\ Untouched(t, u, S)
    BY <1>1 DEF SameLinks, Untouched
  <1> QED
    BY <1>1, <1>3, <1>4 DEF Remade

\* A rotation in these terms.
LEMMA RotateRemakes ==
    ASSUME NEW t, NEW S, NEW D, Shape(t, S, D), NEW n \in S, NEW a \in Sides, t[a][n] # Null,
           NEW u, u = Rotate(t, n, a)
    PROVE  Remade(t, u, S) /\ u.red = t.red
  BY RotateKeeps DEF RotateKept, Remade

\* A rotation and a recolouring.
LEMMA RotateAndPaint ==
    ASSUME NEW t, NEW S, Remade(t, t, S), NEW n \in S, NEW a \in Sides, t[a][n] # Null,
           NEW v, v = Rotate(t, n, a), NEW Rd \in SUBSET Nodes, NEW u, RedIsNow(v, u, Rd)
    PROVE  Remade(t, u, S)
  <1>1. PICK D : Shape(t, S, D)
    BY DEF Remade
  <1>2. Remade(t, v, S)
    BY <1>1, RotateRemakes
  <1>3. PICK E : Shape(v, S, E)
    BY <1>2 DEF Remade
  <1>4. Remade(v, u, S)
    BY <1>3, RedKeeps
  <1> QED
    BY <1>2, <1>4, RemadeFrom DEF Remade

\* Case 5 of the insertion.
LEMMA StraightenKeeps ==
    ASSUME NEW t, NEW S, NEW D, Shape(t, S, D), NEW n \in S, NEW p \in S,
           NEW g, g = t.parent[p], NEW u, u = Straighten(t, n, p, g)
    PROVE  Remade(t, u, S)
  <1> DEFINE side == Side(t, p, n)
             v == IF p = t[side][g] THEN Rotate(t, g, side) ELSE t
             Rd == (v.red \ {p}) \cup {g}
  <1>1. Remade(t, t, S)
    BY DEF Remade, Untouched
  <1>2. CASE g = Null
    BY <1>1, <1>2 DEF Straighten
  <1>3. CASE g # Null
    <2>1. u = [v EXCEPT !.red = Rd]
      BY <1>3 DEF Straighten
    <2>2. RedIsNow(v, u, Rd)
      BY <2>1 DEF RedIsNow
    <2>3. g \in S /\ side \in Sides /\ p # Null /\ S \subseteq Nodes
      BY <1>3, ParentIs, ShapeTypes, SideIs
    <2>4. Remade(t, v, S) /\ v.red \subseteq Nodes
      <3> HIDE DEF side
      <3>1. CASE p = t[side][g]
        <4>1. v = Rotate(t, g, side)
          BY <3>1
        <4> HIDE DEF v
        <4>2. t.red \subseteq Nodes
          BY LinksAre, ShapeTypes
        <4>3. t[side][g] # Null /\ Shape(t, S, D) /\ g \in S /\ side \in Sides
          BY <2>3, <3>1
        <4>4. Remade(t, v, S) /\ v.red = t.red
          BY ONLY <4>1, <4>3, RotateRemakes
        <4> QED  BY <4>2, <4>4
      <3>2. CASE p # t[side][g]
        BY <1>1, <3>2, LinksAre, ShapeTypes
      <3> QED  BY <3>1, <3>2
    <2> HIDE DEF v
    <2>5. Rd \in SUBSET Nodes
      BY <2>3, <2>4
    <2> HIDE DEF Rd
    <2>6. PICK E : Shape(v, S, E)
      BY <2>4 DEF Remade
    <2>7. Remade(v, u, S)
      BY <2>2, <2>5, <2>6, RedKeeps
    <2> QED  BY <2>4, <2>7, RemadeFrom DEF Remade
  <1> QED
    BY <1>2, <1>3

\* Cases 4 and 5, the second taking its nodes afresh.
LEMMA TurnOnInsertKeeps ==
    ASSUME NEW t, NEW S, NEW D, Shape(t, S, D), NEW n \in S, n # t.root,
           NEW u, u = TurnOnInsert(t, n)
    PROVE  Remade(t, u, S)
  <1> DEFINE p == t.parent[n]
             g == t.parent[p]
             side == Side(t, p, n)
             up == Rotate(t, p, side)
  <1>1. p \in S /\ n = t[side][p] /\ side \in Sides /\ n # Null
    BY ParentIs, SideIs, ShapeTypes
  <1>2. CASE g # Null /\ p = t[Opposite(side)][g]
    <2>1. u = Straighten(up, n, up.parent[n], up.parent[up.parent[n]])
      BY <1>2 DEF TurnOnInsert
    <2>2. g \in S
      BY <1>1, <1>2, ParentIs
    <2>3. up = Rotate(t, p, side) /\ g = t.parent[p]
      OBVIOUS
    <2> HIDE DEF up, side, p, g
    <2>4. PICK E : RotateKept(t, up, S, D, E, p, n)
      BY <1>1, <2>3, RotateKeeps
    <2>5. Shape(up, S, E) /\ Untouched(t, up, S) /\ up.parent[n] = g
      BY <2>3, <2>4 DEF RotateKept
    <2>6. Remade(up, u, S)
      BY <2>1, <2>2, <2>5, StraightenKeeps
    <2> QED  BY <2>5, <2>6, RemadeFrom
  <1>3. CASE ~(g # Null /\ p = t[Opposite(side)][g])
    <2>1. u = Straighten(t, n, p, g)
      BY <1>3 DEF TurnOnInsert
    <2>2. g = t.parent[p]
      OBVIOUS
    <2> HIDE DEF p, g
    <2> QED  BY <1>1, <2>1, <2>2, StraightenKeeps
  <1> QED
    BY <1>2, <1>3

\* The climb: there is more below the parent than below the node.
LEMMA Above ==
    ASSUME NEW t, NEW S, NEW D, Shape(t, S, D), NEW n \in S, NEW p, p = t.parent[n], p # Null
    PROVE  /\ p \in S /\ n # t.root /\ Cardinality(D[n]) < Cardinality(D[p])
           /\ Cardinality(D[n]) \in Nat /\ Cardinality(D[p]) \in Nat
  <1>1. p \in S /\ n # t.root /\ n # Null
    BY ParentIs, ShapeTypes
  <1>2. PICK a \in Sides : n = t[a][p]
    BY <1>1, ParentIs
  <1>3. Cardinality(D[n]) \in Nat /\ Cardinality(D[p]) \in Nat
    <2>1. n \in Ptr /\ p \in Ptr
      BY <1>1, ShapeTypes DEF Ptr
    <2> QED  BY ONLY Shape(t, S, D), <2>1, ShapeTypes
  <1>4. Cardinality(D[n]) < Cardinality(D[p])
    BY ONLY Shape(t, S, D), <1>1, <1>2, Smaller
  <1> QED
    BY <1>1, <1>3, <1>4

\* How far a node is from the root, in nodes that are not below it.
LEMMA Outside ==
    ASSUME NEW t, NEW S, NEW D, Shape(t, S, D), NEW n \in S
    PROVE  Cardinality(S) - Cardinality(D[n]) \in Nat
  <1>1. IsFiniteSet(S) /\ D[n] \in SUBSET S
    BY ParentIs, ShapeTypes
  <1>2. Cardinality(S) \in Nat /\ Cardinality(D[n]) <= Cardinality(S) /\ Cardinality(D[n]) \in Nat
    BY <1>1, FS_CardinalityType, FS_Subset
  <1> QED
    BY <1>2

\* _rbt_adjust_on_insert remakes the tree, however far it climbs.
LEMMA AdjustOnInsertKeeps ==
    ASSUME NEW t, NEW S, NEW D, Shape(t, S, D), NEW n \in S,
           NEW u, u = AdjustOnInsert[Spot(t, n)]
    PROVE  Remade(t, u, S)
  <1> DEFINE Bad(x) == Shape(x.tree, S, D) /\ x.at \in S
                       /\ ~Remade(x.tree, AdjustOnInsert[Spot(x.tree, x.at)], S)
             B == {x \in Spots : Bad(x)}
             f == [x \in B |-> Cardinality(S) - Cardinality(D[x.at])]
  <1>1. ASSUME B # {} PROVE FALSE
    <2>1. f \in [B -> Nat]
      BY Outside
    <2> HIDE DEF B
    <2>2. PICK x \in B : \A y \in B : f[x] <= f[y]
      BY <1>1, <2>1, Least
    <2> DEFINE v == x.tree
               m == x.at
               p == v.parent[m]
               g == v.parent[p]
               w == AdjustOnInsert[Spot(v, m)]
    <2>3. Shape(v, S, D) /\ m \in S /\ ~Remade(v, w, S)
      BY <2>2 DEF B
    <2>4. v \in Trees /\ m \in Nodes
      BY <2>3, ShapeTypes
    <2>5. /\ w = AdjustOnInsert[Spot(v, m)] /\ p = v.parent[m] /\ g = v.parent[p]
          /\ f[x] = Cardinality(S) - Cardinality(D[m])
      BY <2>2
    <2> HIDE DEF v, m, p, g, w
    <2>6. v.red \subseteq Nodes
      BY <2>4, LinksAre
    <2>7. CASE m = v.root /\ w = [v EXCEPT !.red = @ \ {m}]
      <3>1. RedIsNow(v, w, v.red \ {m})
        BY <2>7 DEF RedIsNow
      <3>2. v.red \ {m} \in SUBSET Nodes
        BY <2>6
      <3> QED  BY <2>3, <3>1, <3>2, RedKeeps
    <2>8. CASE w = v
      BY <2>3, <2>8 DEF Remade, Untouched
    <2>9. CASE m # v.root /\ w = TurnOnInsert(v, m)
      BY <2>3, <2>9, TurnOnInsertKeeps
    <2>10. CASE Red(v, p) /\ Red(v, Uncle(v, m)) /\ w = AdjustOnInsert[Spot(Painted(v, m), g)]
      <3> DEFINE y == Spot(Painted(v, m), g)
      <3>1. /\ p \in Nodes /\ g \in Nodes /\ Painted(v, m) \in Trees
            /\ \E Rd \in SUBSET Nodes : RedIsNow(v, Painted(v, m), Rd)
        BY <2>4, <2>5, <2>10, PaintedIs
      <3>2. Shape(Painted(v, m), S, D) /\ SameLinks(v, Painted(v, m))
        BY <2>3, <3>1, RedKeeps
      <3>3. p # Null /\ g # Null
        BY <3>1, RbtAssumption
      <3>4. p \in S /\ Cardinality(D[m]) < Cardinality(D[p]) /\ Cardinality(D[m]) \in Nat
        BY <2>3, <2>5, <3>3, Above
      <3>5. g \in S /\ Cardinality(D[p]) < Cardinality(D[g])
            /\ Cardinality(D[g]) \in Nat /\ Cardinality(D[p]) \in Nat
        BY <2>3, <2>5, <3>3, <3>4, Above
      <3>6. ~Remade(Painted(v, m), w, S)
        BY <2>3, <3>2, RemadeFrom
      <3>7. y \in B
        <4>1. y \in Spots /\ y.tree = Painted(v, m) /\ y.at = g
          BY <3>1 DEF Spots, Spot
        <4> HIDE DEF y
        <4>2. w = AdjustOnInsert[Spot(y.tree, y.at)]
          BY <2>10, <4>1
        <4> QED  BY <3>2, <3>5, <3>6, <4>1, <4>2 DEF B
      <3>8. f[y] = Cardinality(S) - Cardinality(D[g])
        <4>1. y.at = g
          BY DEF Spot
        <4> HIDE DEF y
        <4> QED  BY <3>7, <4>1
      <3>9. f[x] <= f[y]
        BY <2>2, <3>7
      <3>10. Cardinality(S) \in Nat
        BY <2>3, FS_CardinalityType, ShapeTypes
      <3> HIDE DEF f
      <3> QED  BY <2>5, <3>4, <3>5, <3>8, <3>9, <3>10
    <2> QED  BY <2>4, <2>5, <2>7, <2>8, <2>9, <2>10, AdjustOnInsertIs
  <1> DEFINE x == Spot(t, n)
  <1>2. x \in Spots /\ x.tree = t /\ x.at = n
    BY ShapeTypes DEF Spot, Spots
  <1> QED
    BY <1>1, <1>2

-----------------------------------------------------------------------------
(* The adjustment after a removal *)

\* What case 2 of _rbt_adjust_on_remove leaves, and the sibling it looks at then.
CaseTwo(t, n) ==
    LET p == t.parent[n]
        far == Opposite(Side(t, p, n))
    IN  IF Red(t, t[far][p])
        THEN Rotate([t EXCEPT !.red = (@ \ {t[far][p]}) \cup {p}], p, far)
        ELSE t

NextSibling(t, n) == Sibling(CaseTwo(t, n), t.parent[n], n)

\* Case 3 goes on from the parent.
Climbs(t, n) ==
    LET p == t.parent[n]
        v == CaseTwo(t, n)
        s == NextSibling(t, n)
    IN  /\ p # Null /\ s # Null
        /\ ~Red(v, s) /\ ~Red(v, v.left[s]) /\ ~Red(v, v.right[s]) /\ ~Red(v, p)

Faded(t, n) == [CaseTwo(t, n) EXCEPT !.red = @ \cup {NextSibling(t, n)}]

\* Where it does not.
RemoveEnds(t, n) ==
    LET p == t.parent[n]
        v == CaseTwo(t, n)
        s == NextSibling(t, n)
        plain == ~Red(v, s) /\ ~Red(v, v.left[s]) /\ ~Red(v, v.right[s])
    IN  IF p = Null THEN t
        ELSE IF s = Null THEN v
        ELSE IF plain THEN [v EXCEPT !.red = (@ \ {p}) \cup {s}]
        ELSE TurnOnRemove(v, n)

\* Case 2 of the removal on any tree.
LEMMA CaseTwoTyped ==
    ASSUME NEW t \in Trees, NEW n \in Nodes, t.parent[n] # Null
    PROVE  /\ t.parent[n] \in Nodes /\ CaseTwo(t, n) \in Trees
           /\ NextSibling(t, n) \in Ptr
  <1> DEFINE p == t.parent[n]
             far == Opposite(Side(t, p, n))
             r == t[far][p]
             Rd == (t.red \ {r}) \cup {p}
             v == [t EXCEPT !.red = Rd]
  <1>1. p \in Nodes /\ far \in Sides /\ t.red \subseteq Nodes
    <2>1. p \in Ptr /\ far \in Sides /\ t.red \subseteq Nodes
      BY LinksAre, SidesAre, SideIs
    <2> QED  BY <2>1 DEF Ptr
  <1>2. CaseTwo(t, n) \in Trees
    <2>1. CASE Red(t, r)
      <3>1. CaseTwo(t, n) = Rotate(v, p, far)
        BY <2>1 DEF CaseTwo
      <3>2. RedIsNow(t, v, Rd) /\ Rd \subseteq Nodes
        BY <1>1 DEF RedIsNow
      <3> HIDE DEF v, Rd
      <3>3. v \in Trees /\ v[far] = t[far]
        BY <1>1, <3>2, RedSet
      <3>4. v[far][p] \in Nodes
        BY <1>1, <2>1, <3>3 DEF Red
      <3> HIDE DEF p, far
      <3> QED  BY <1>1, <3>1, <3>3, <3>4, RotateTyped
    <2>2. CASE ~Red(t, r)
      BY <2>2 DEF CaseTwo
    <2> QED  BY <2>1, <2>2
  <1> DEFINE w == CaseTwo(t, n)
  <1>3. w \in Trees /\ Opposite(Side(w, p, n)) \in Sides
    BY <1>2, SidesAre, SideIs
  <1>4. NextSibling(t, n) = w[Opposite(Side(w, p, n))][p]
    BY DEF NextSibling, Sibling
  <1> HIDE DEF w, p
  <1>5. NextSibling(t, n) \in Ptr
    BY <1>1, <1>3, <1>4, LinksAre
  <1> QED
    BY <1>1, <1>2, <1>5 DEF p

\* _rbt_adjust_on_remove, unfolded once.
LEMMA AdjustOnRemoveIs ==
    ASSUME NEW t \in Trees, NEW n \in Nodes, NEW u, u = AdjustOnRemove[Spot(t, n)]
    PROVE  \/ ~Climbs(t, n) /\ u = RemoveEnds(t, n)
           \/ Climbs(t, n) /\ u = AdjustOnRemove[Spot(Faded(t, n), t.parent[n])]
  <1> DEFINE Code(f, x) ==
               LET tt == x.tree
                   nn == x.at
                   pp == tt.parent[nn]
                   far == Opposite(Side(tt, pp, nn))
                   t2 == IF Red(tt, tt[far][pp])
                         THEN Rotate([tt EXCEPT !.red = (@ \ {tt[far][pp]}) \cup {pp}], pp, far)
                         ELSE tt
                   ss == Sibling(t2, pp, nn)
                   plain == ~Red(t2, ss) /\ ~Red(t2, t2.left[ss]) /\ ~Red(t2, t2.right[ss])
               IN  IF pp = Null THEN tt
                   ELSE IF ss = Null THEN t2
                   ELSE IF plain /\ ~Red(t2, pp)
                        THEN f[Spot([t2 EXCEPT !.red = @ \cup {ss}], pp)]
                   ELSE IF plain THEN [t2 EXCEPT !.red = (@ \ {pp}) \cup {ss}]
                   ELSE TurnOnRemove(t2, nn)
             Eq(f) == f = [x \in Spots |-> Code(f, x)]
             stop == {x \in Spots : ~Climbs(x.tree, x.at)}
             val == [x \in Spots |-> RemoveEnds(x.tree, x.at)]
             Nxt(x) == Spot(Faded(x.tree, x.at), x.tree.parent[x.at])
             nxt == [x \in Spots |-> Nxt(x)]
             fn == CHOOSE f : Eq(f)
             Body(f, x) ==
               LET tt == x.tree
                   nn == x.at
                   pp == tt.parent[nn]
                   t2 == CaseTwo(tt, nn)
                   ss == NextSibling(tt, nn)
                   plain == ~Red(t2, ss) /\ ~Red(t2, t2.left[ss]) /\ ~Red(t2, t2.right[ss])
               IN  IF pp = Null THEN tt
                   ELSE IF ss = Null THEN t2
                   ELSE IF plain /\ ~Red(t2, pp) THEN f[Spot(Faded(tt, nn), pp)]
                   ELSE IF plain THEN [t2 EXCEPT !.red = (@ \ {pp}) \cup {ss}]
                   ELSE TurnOnRemove(t2, nn)
  <1>0. ASSUME NEW f, NEW x \in Spots PROVE Code(f, x) = Body(f, x)
    BY Zenon DEF NextSibling, CaseTwo, Faded
  <1>1. \A x \in Spots \ stop : nxt[x] \in Spots
    <2> SUFFICES ASSUME NEW x \in Spots, Climbs(x.tree, x.at) PROVE Nxt(x) \in Spots
      OBVIOUS
    <2> DEFINE v == CaseTwo(x.tree, x.at)
               s == NextSibling(x.tree, x.at)
               Rd == v.red \cup {s}
    <2>1. x.tree \in Trees /\ x.at \in Nodes
      BY DEF Spots
    <2>2. x.tree.parent[x.at] # Null /\ s # Null
      BY DEF Climbs
    <2>3. x.tree.parent[x.at] \in Nodes /\ v \in Trees /\ s \in Nodes
      BY <2>1, <2>2, CaseTwoTyped DEF Ptr
    <2>4. RedIsNow(v, Faded(x.tree, x.at), Rd)
      BY DEF RedIsNow, Faded
    <2> HIDE DEF v, s
    <2>5. Rd \subseteq Nodes
      BY <2>3, LinksAre
    <2> HIDE DEF Rd
    <2>6. Faded(x.tree, x.at) \in Trees
      BY <2>3, <2>4, <2>5, RedSet
    <2> QED  BY <2>3, <2>6 DEF Spot, Spots
  <1>2. PICK f : f = [x \in Spots |-> IF x \in stop THEN val[x] ELSE f[nxt[x]]]
    <2>1. TailData(Spots, stop, nxt)
      <3> HIDE DEF nxt
      <3> QED  BY <1>1 DEF TailData
    <2> HIDE DEF stop, val, nxt
    <2>2. TailFcn(Spots, stop, val, nxt)
      BY <2>1, TailCalls
    <2> QED  BY <2>2, Zenon DEF TailFcn
  <1>3. Eq(f)
    <2>1. ASSUME NEW x \in Spots
          PROVE  (IF x \in stop THEN val[x] ELSE f[nxt[x]]) = Body(f, x)
      <3>1. val[x] = RemoveEnds(x.tree, x.at) /\ nxt[x] = Nxt(x)
            /\ (x \in stop <=> ~Climbs(x.tree, x.at))
        OBVIOUS
      <3> HIDE DEF val, nxt, stop
      <3>2. CASE Climbs(x.tree, x.at)
        <4>1. Body(f, x) = f[Nxt(x)]
          BY <3>2, Zenon DEF Climbs
        <4> HIDE DEF Body, Nxt
        <4> QED  BY <3>1, <3>2, <4>1
      <3>3. CASE ~Climbs(x.tree, x.at)
        <4>1. Body(f, x) = RemoveEnds(x.tree, x.at)
          BY <3>3 DEF Climbs, RemoveEnds
        <4> HIDE DEF Body, Nxt
        <4> QED  BY <3>1, <3>3, <4>1
      <3> QED  BY <3>2, <3>3
    <2>2. f = [x \in Spots |-> Body(f, x)]
      <3> HIDE DEF stop, val, nxt, Body
      <3> QED  BY <1>2, <2>1, Zenon
    <2>3. f = [x \in Spots |-> Code(f, x)]
      <3> HIDE DEF Body, Code
      <3> QED  BY <1>0, <2>2, Zenon
    <2> QED  BY <2>3
  <1>4. Eq(fn)
    <2> HIDE DEF Eq
    <2> QED  BY <1>3
  <1>5. AdjustOnRemove = fn
    BY DEF AdjustOnRemove
  <1>6. AdjustOnRemove = [x \in Spots |-> Body(AdjustOnRemove, x)]
    <2> HIDE DEF Code, Body, fn
    <2>1. fn = [x \in Spots |-> Code(fn, x)]
      BY <1>4
    <2>2. fn = [x \in Spots |-> Body(fn, x)]
      BY <1>0, <2>1, Zenon
    <2> QED  BY <1>5, <2>2, Zenon
  <1> DEFINE x == Spot(t, n)
  <1>7. x \in Spots /\ x.tree = t /\ x.at = n
    BY DEF Spots, Spot
  <1> HIDE DEF x, Body
  <1>8. u = Body(AdjustOnRemove, x)
    BY <1>6, <1>7, Zenon DEF x
  <1>9. Climbs(t, n) => Body(AdjustOnRemove, x) = AdjustOnRemove[Spot(Faded(t, n), t.parent[n])]
    BY <1>7, Zenon DEF Climbs, Body
  <1>10. ~Climbs(t, n) => Body(AdjustOnRemove, x) = RemoveEnds(t, n)
    BY <1>7 DEF Climbs, Body, RemoveEnds
  <1> QED
    BY <1>8, <1>9, <1>10

\* A recolouring and then a rotation.
LEMMA PaintAndRotate ==
    ASSUME NEW t, NEW S, NEW D, Shape(t, S, D), NEW Rd \in SUBSET Nodes, NEW v,
           RedIsNow(t, v, Rd), NEW n \in S, NEW a \in Sides, t[a][n] # Null,
           NEW u, u = Rotate(v, n, a)
    PROVE  /\ \E E : RotateKept(v, u, S, D, E, n, t[a][n])
           /\ Remade(t, u, S) /\ SameLinks(t, v) /\ u.red = Rd
  <1>1. Shape(v, S, D) /\ SameLinks(t, v) /\ v.red = Rd
    BY RedKeeps
  <1>2. v[a][n] = t[a][n]
    BY <1>1 DEF SameLinks
  <1>3. (\E E : RotateKept(v, u, S, D, E, n, t[a][n])) /\ Remade(v, u, S) /\ u.red = v.red
    BY <1>1, <1>2, RotateKeeps, RotateRemakes
  <1> QED
    BY <1>1, <1>3, RemadeFrom

\* A node and the child of its parent on the other side.
LEMMA SiblingIs ==
    ASSUME NEW t, NEW S, NEW D, Shape(t, S, D), NEW n \in S, NEW p, p = t.parent[n], p # Null,
           NEW side, side = Side(t, p, n), NEW s, s = t[Opposite(side)][p]
    PROVE  /\ p \in S /\ side \in Sides /\ Opposite(side) \in Sides /\ n = t[side][p]
           /\ n # s /\ n # p /\ s # p /\ s \in S \cup {Null}
           /\ s # Null => t.parent[s] = p
  <1>1. p \in S /\ n = t[side][p] /\ n # p /\ side \in Sides /\ Opposite(side) \in Sides
        /\ n \in D[n] /\ S \subseteq Nodes /\ D[Null] = {}
    BY ParentIs, SideIs, SidesAre, ShapeTypes
  <1>2. Joint(t, S, D, p)
    BY <1>1 DEF Shape
  <1>3. s \in S \cup {Null} /\ (s # Null => t.parent[s] = p)
    BY <1>1, <1>2 DEF Joint
  <1>4. n \notin D[s]
    BY <1>1, <1>2, OrderIs DEF Joint
  <1>5. n # s
    BY <1>1, <1>3, <1>4, ParentIs
  <1>6. s # p
    <2>1. \A x \in S : t.parent[x] # x
      BY ONLY Shape(t, S, D), ParentIs
    <2> QED  BY <1>1, <1>3, <2>1
  <1> QED
    BY <1>1, <1>3, <1>5, <1>6

\* If it has another child, any two different children are on two sides.
LEMMA OtherChild ==
    ASSUME NEW t, NEW S, NEW D, Shape(t, S, D), NEW n \in S, NEW m \in S, n # m,
           NEW p, p = t.parent[n], p = t.parent[m], p # Null, NEW a \in Sides
    PROVE  p \in S /\ t[a][p] \in S
  <1>1. p \in S /\ n = t[Side(t, p, n)][p] /\ m = t[Side(t, p, m)][p]
        /\ Side(t, p, n) \in Sides /\ Side(t, p, m) \in Sides
    <2>1. \A x \in S : t.parent[x] # Null =>
            t.parent[x] \in S /\ x = t[Side(t, t.parent[x], x)][t.parent[x]]
      BY ONLY Shape(t, S, D), ParentIs
    <2> QED  BY <2>1, SideIs
  <1>2. a = Side(t, p, n) \/ a = Side(t, p, m)
    BY <1>1, SidesAre
  <1> QED
    BY <1>1, <1>2

\* The rotation of case 2 leaves n below the parent it had.
LEMMA CaseTwoKeeps ==
    ASSUME NEW t, NEW S, NEW D, Shape(t, S, D), NEW n \in S, NEW p, p = t.parent[n], p # Null,
           NEW v, v = CaseTwo(t, n)
    PROVE  /\ Untouched(t, v, S) /\ v.parent[n] = p
           /\ \E E : Shape(v, S, E) /\ E[n] = D[n]
  <1> DEFINE side == Side(t, p, n)
             far == Opposite(side)
             r == t[far][p]
             Rd == (t.red \ {r}) \cup {p}
             w == [t EXCEPT !.red = Rd]
  <1>1. p \in S /\ far \in Sides /\ n # r /\ n # p /\ r \in S \cup {Null} /\ t.red \subseteq Nodes
        /\ S \subseteq Nodes /\ p # r
    BY SiblingIs, ShapeTypes, LinksAre
  <1>2. CASE Red(t, r)
    <2>1. v = Rotate(w, p, far)
      BY <1>2 DEF CaseTwo
    <2>2. RedIsNow(t, w, Rd) /\ Rd \in SUBSET Nodes
      BY <1>1 DEF RedIsNow
    <2>3. r # Null
      BY <1>1, <1>2, RbtAssumption DEF Red
    <2>4. r = t[far][p]
      OBVIOUS
    <2> HIDE DEF w, Rd, r, far, side
    <2>5. (\E E : RotateKept(w, v, S, D, E, p, t[far][p])) /\ SameLinks(t, w)
      BY <1>1, <2>1, <2>2, <2>3, <2>4, PaintAndRotate
    <2>6. PICK E : RotateKept(w, v, S, D, E, p, r)
      BY <2>4, <2>5
    <2>7. w.parent = t.parent /\ \A a \in Sides : w[a] = t[a]
      BY <2>5 DEF SameLinks
    <2>8. Untouched(t, v, S)
      BY <2>6, <2>7 DEF RotateKept, Untouched
    <2>9. n \in S \ {p, r} /\ w.parent[n] # r
      BY <1>1, <2>7
    <2>10. v.parent[n] = p /\ E[n] = D[n] /\ Shape(v, S, E)
      BY <2>6, <2>7, <2>9 DEF RotateKept
    <2> QED  BY <2>8, <2>10
  <1>3. CASE ~Red(t, r)
    <2>1. v = t
      BY <1>3 DEF CaseTwo
    <2> QED  BY <2>1 DEF Untouched
  <1> QED
    BY <1>2, <1>3

\* Case 5 of the removal.
Unbent(t, n) ==
    LET p == t.parent[n]
        side == Side(t, p, n)
        far == Opposite(side)
        s == t[far][p]
        near == t[side][s]
        bent == ~Red(t, s) /\ Red(t, near) /\ ~Red(t, t[far][s])
    IN  IF bent THEN Rotate([t EXCEPT !.red = (@ \cup {s}) \ {near}], s, side) ELSE t

\* Cases 5 and 6 of the removal.
LEMMA TurnOnRemoveKeeps ==
    ASSUME NEW t, NEW S, NEW D, Shape(t, S, D), NEW n \in S, NEW p, p = t.parent[n], p # Null,
           Sibling(t, p, n) # Null, NEW u, u = TurnOnRemove(t, n)
    PROVE  Remade(t, u, S)
  <1> DEFINE side == Side(t, p, n)
             far == Opposite(side)
             s == t[far][p]
             near == t[side][s]
             bent == ~Red(t, s) /\ Red(t, near) /\ ~Red(t, t[far][s])
             Rd == (t.red \cup {s}) \ {near}
             w == [t EXCEPT !.red = Rd]
             v == Unbent(t, n)
             s5 == v[far][p]
             others == v.red \ {p, s5, v[far][s5]}
             Rd5 == others \cup IF Red(v, p) THEN {s5} ELSE {}
             w5 == [v EXCEPT !.red = Rd5]
  <1>1. u = Rotate(w5, p, far)
    BY DEF TurnOnRemove, Unbent
  <1>2. RedIsNow(t, w, Rd) /\ RedIsNow(v, w5, Rd5)
    BY DEF RedIsNow
  <1>3. v = IF bent THEN Rotate(w, s, side) ELSE t
    BY DEF Unbent
  <1>4. /\ p \in S /\ far \in Sides /\ side \in Sides /\ n # s /\ n # p /\ s # p
        /\ s \in S /\ t.parent[s] = p /\ t.red \subseteq Nodes /\ S \subseteq Nodes /\ Null \notin S
    BY SiblingIs, ShapeTypes, LinksAre DEF Sibling
  <1>5. s5 = v[far][p] /\ near = t[side][s]
    OBVIOUS
  <1> HIDE DEF w, v, w5, s5, far, side
  <1>6. /\ Untouched(t, v, S) /\ s5 \in S /\ v.red \subseteq Nodes
        /\ \E E : Shape(v, S, E)
    <2>1. CASE bent
      <3>1. v = Rotate(w, s, side) /\ Rd \in SUBSET Nodes
        BY <1>3, <1>4, <2>1
      <3>2. near # Null
        BY <1>4, <2>1, RbtAssumption DEF Red
      <3> HIDE DEF near, Rd
      <3>3. /\ \E E : RotateKept(w, v, S, D, E, s, t[side][s])
            /\ Remade(t, v, S) /\ SameLinks(t, w) /\ v.red = Rd
        <4>1. RedIsNow(t, w, Rd) /\ t[side][s] # Null
          BY <1>2, <1>5, <3>2 DEF near
        <4>2. s \in S /\ side \in Sides /\ Shape(t, S, D) /\ v = Rotate(w, s, side)
              /\ Rd \in SUBSET Nodes
          BY <1>4, <3>1
        <4> QED  BY ONLY <4>1, <4>2, PaintAndRotate
      <3>4. PICK E : RotateKept(w, v, S, D, E, s, near)
        BY <1>5, <3>3
      <3>5. near \in S /\ t.parent[near] = s /\ near # s
        <4>1. Joint(t, S, D, s)
          BY <1>4 DEF Shape
        <4>2. near \in S /\ t.parent[near] = s
          BY <1>4, <1>5, <3>2, <4>1 DEF Joint
        <4> QED  BY <1>4, <4>2
      <3>6. near # n /\ near # p
        <4>1. p # t.parent[p]
          BY <1>4, ParentIs
        <4>2. near = p => t.parent[p] = s
          BY <3>5
        <4>3. near # n
          BY <1>4, <3>5
        <4>4. near # p
          <5> SUFFICES ASSUME near = p PROVE FALSE
            OBVIOUS
          <5>1. Cardinality(D[s]) < Cardinality(D[p]) /\ Cardinality(D[s]) \in Nat /\ Cardinality(D[p]) \in Nat
            BY <1>4, Above
          <5>2. Cardinality(D[p]) < Cardinality(D[s])
            BY <1>4, <3>5, Above
          <5> QED  BY <5>1, <5>2
        <4> QED  BY <4>3, <4>4
      <3>7. w.parent = t.parent
        BY <3>3 DEF SameLinks
      <3>8. v.parent[near] = p /\ v.parent[n] = p /\ Shape(v, S, E)
        BY <1>4, <3>4, <3>5, <3>6, <3>7 DEF RotateKept
      <3>9. s5 \in S
        BY <1>4, <1>5, <3>5, <3>6, <3>8, OtherChild
      <3> QED  BY <3>1, <3>3, <3>8, <3>9 DEF Remade
    <2>2. CASE ~bent
      <3>1. v = t
        BY <1>3, <2>2
      <3> QED  BY <1>4, <1>5, <3>1 DEF Untouched, s
    <2> QED  BY <2>1, <2>2
  <1>7. Rd5 \in SUBSET Nodes
    BY <1>4, <1>6
  <1> HIDE DEF Rd5
  <1>8. Remade(v, u, S)
    <2>1. PICK E : Shape(v, S, E)
      BY <1>6
    <2>2. v[far][p] # Null
      BY <1>4, <1>5, <1>6
    <2>3. RedIsNow(v, w5, Rd5) /\ p \in S /\ far \in Sides
      BY <1>2, <1>4
    <2> QED  BY ONLY <1>1, <1>7, <2>1, <2>2, <2>3, PaintAndRotate
  <1> QED
    BY <1>6, <1>8, RemadeFrom

\* _rbt_adjust_on_remove remakes the tree, however far it climbs.
LEMMA AdjustOnRemoveKeeps ==
    ASSUME NEW t, NEW S, NEW D, Shape(t, S, D), NEW n \in S,
           NEW u, u = AdjustOnRemove[Spot(t, n)]
    PROVE  Remade(t, u, S)
  <1> DEFINE Bad(x, E) == Shape(x.tree, S, E) /\ x.at \in S
                          /\ ~Remade(x.tree, AdjustOnRemove[Spot(x.tree, x.at)], S)
             B == {z \in Spots \X [Ptr -> SUBSET S] : Bad(z[1], z[2])}
             f == [z \in B |-> Cardinality(S) - Cardinality(z[2][z[1].at])]
  <1>1. ASSUME B # {} PROVE FALSE
    <2>1. f \in [B -> Nat]
      BY Outside
    <2> HIDE DEF B
    <2>2. PICK x \in B : \A y \in B : f[x] <= f[y]
      BY <1>1, <2>1, Least
    <2> DEFINE k == x[1].tree
               m == x[1].at
               E == x[2]
               p == k.parent[m]
               v == CaseTwo(k, m)
               s == NextSibling(k, m)
               w == AdjustOnRemove[Spot(k, m)]
    <2>3. Shape(k, S, E) /\ m \in S /\ ~Remade(k, w, S)
      BY <2>2 DEF B
    <2>4. k \in Trees /\ m \in Nodes /\ S \subseteq Nodes
      BY <2>3, ShapeTypes
    <2>5. /\ w = AdjustOnRemove[Spot(k, m)] /\ p = k.parent[m] /\ v = CaseTwo(k, m)
          /\ s = NextSibling(k, m) /\ f[x] = Cardinality(S) - Cardinality(E[m])
          /\ s = Sibling(v, p, m)
      BY <2>2 DEF NextSibling
    <2> HIDE DEF v, m, p, k, w, E, s
    <2>6. CASE p = Null
      <3>1. w = k
        <4>1. ~Climbs(k, m) /\ RemoveEnds(k, m) = k
          BY <2>5, <2>6 DEF Climbs, RemoveEnds
        <4> QED  BY <2>4, <2>5, <4>1, AdjustOnRemoveIs
      <3> QED  BY <2>3, <3>1 DEF Remade, Untouched
    <2>7. CASE p # Null
      <3>1. Untouched(k, v, S) /\ v.parent[m] = p /\ \E E2 : Shape(v, S, E2) /\ E2[m] = E[m]
        BY <2>3, <2>5, <2>7, CaseTwoKeeps
      <3>2. PICK E2 : Shape(v, S, E2) /\ E2[m] = E[m]
        BY <3>1
      <3>3. p \in S /\ s \in S \cup {Null} /\ v.red \subseteq Nodes /\ v \in Trees
        BY <2>3, <2>5, <2>7, <3>1, <3>2, SiblingIs, ShapeTypes, LinksAre DEF Sibling
      <3>4. CASE Climbs(k, m)
        <4> DEFINE Rd == v.red \cup {s}
                   z == <<Spot(Faded(k, m), p), E2>>
        <4>1. s # Null
          BY <2>5, <3>4 DEF Climbs
        <4>2. RedIsNow(v, Faded(k, m), Rd) /\ Rd \in SUBSET Nodes
          BY <2>4, <2>5, <3>3, <4>1 DEF Faded, RedIsNow
        <4> HIDE DEF Rd
        <4>3. /\ Shape(Faded(k, m), S, E2) /\ Remade(v, Faded(k, m), S)
              /\ Faded(k, m) \in Trees
          BY <3>2, <4>2, RedKeeps
        <4>4. Untouched(k, Faded(k, m), S)
          BY <3>1, <4>3 DEF Remade, Untouched
        <4>5. w = AdjustOnRemove[Spot(Faded(k, m), p)]
          BY <2>4, <2>5, <3>4, AdjustOnRemoveIs
        <4>6. ~Remade(Faded(k, m), w, S)
          BY <2>3, <4>4, RemadeFrom
        <4>7. /\ z \in Spots \X [Ptr -> SUBSET S] /\ z[1].tree = Faded(k, m) /\ z[1].at = p
              /\ z[2] = E2
          BY <2>4, <3>2, <3>3, <4>3 DEF Spots, Spot, Shape
        <4> HIDE DEF z
        <4>8. AdjustOnRemove[Spot(z[1].tree, z[1].at)] = w
          BY <4>5, <4>7
        <4>9. z \in B
          BY <3>3, <4>3, <4>6, <4>7, <4>8 DEF B
        <4>10. f[z] = Cardinality(S) - Cardinality(E2[p])
          BY <4>7, <4>9
        <4>11. f[x] <= f[z]
          BY <2>2, <4>9
        <4>12. Cardinality(E[m]) < Cardinality(E2[p]) /\ Cardinality(E[m]) \in Nat
               /\ Cardinality(E2[p]) \in Nat
          BY <2>3, <2>7, <3>1, <3>2, Above
        <4>13. Cardinality(S) \in Nat
          BY <2>3, FS_CardinalityType, ShapeTypes
        <4> HIDE DEF f
        <4> QED  BY <2>5, <4>10, <4>11, <4>12, <4>13
      <3>5. CASE ~Climbs(k, m)
        <4>1. w = RemoveEnds(k, m)
          BY <2>4, <2>5, <3>5, AdjustOnRemoveIs
        <4>2. \/ w = v
              \/ s # Null /\ w = [v EXCEPT !.red = (@ \ {p}) \cup {s}]
              \/ s # Null /\ w = TurnOnRemove(v, m)
          BY <2>5, <2>7, <4>1 DEF RemoveEnds
        <4>3. Remade(v, w, S)
          <5>1. CASE w = v
            BY <3>2, <5>1 DEF Remade, Untouched
          <5>2. CASE s # Null /\ w = [v EXCEPT !.red = (@ \ {p}) \cup {s}]
            <6>1. RedIsNow(v, w, (v.red \ {p}) \cup {s})
              BY <5>2 DEF RedIsNow
            <6>2. ((v.red \ {p}) \cup {s}) \in SUBSET Nodes
              BY <2>4, <3>3, <5>2
            <6> QED  BY <3>2, <6>1, <6>2, RedKeeps
          <5>3. CASE s # Null /\ w = TurnOnRemove(v, m)
            BY <2>3, <2>5, <2>7, <3>1, <3>2, <5>3, TurnOnRemoveKeeps
          <5> QED  BY <4>2, <5>1, <5>2, <5>3
        <4> QED  BY <2>3, <3>1, <4>3, RemadeFrom
      <3> QED  BY <3>4, <3>5
    <2> QED  BY <2>6, <2>7
  <1> DEFINE z == <<Spot(t, n), D>>
  <1>2. z \in Spots \X [Ptr -> SUBSET S] /\ z[1].tree = t /\ z[1].at = n /\ z[2] = D
    BY ShapeTypes DEF Spot, Spots, Shape
  <1> QED
    BY <1>1, <1>2

-----------------------------------------------------------------------------
(* The search *)

Toward(k, m) == IF k < Key[m] THEN "left" ELSE "right"

\* z lies on the same side of the key k as of the node y.
Beyond(z, k, y) ==
    (Key[z] < k /\ Key[z] < Key[y]) \/ (k < Key[z] /\ Key[y] < Key[z])

\* Where a search may end: at the key, or at a free place that is its own.
Landed(t, S, k, n) ==
    /\ n \in S
    /\ Key[n] # k => t[Toward(k, n)][n] = Null /\ \A z \in S \ {n} : Beyond(z, k, n)

\* One step down keeps the key between the same nodes.
LEMMA Step ==
    ASSUME NEW t, NEW S, NEW D, Shape(t, S, D), NEW k \in Nat, NEW m \in S,
           \A z \in S \ D[m], y \in D[m] : Beyond(z, k, y), k # Key[m],
           NEW a, a = Toward(k, m)
    PROVE  /\ a \in Sides /\ t[a][m] \in S \cup {Null}
           /\ \A z \in S \ D[t[a][m]], y \in D[t[a][m]] \cup {m} : z # m => Beyond(z, k, y)
           /\ \A y \in D[t[a][m]] : Beyond(m, k, y)
  <1>1. Joint(t, S, D, m) /\ S \subseteq Nodes /\ D[m] \subseteq S /\ m \in Nodes
    BY ParentIs, ShapeTypes DEF Shape
  <1>2. a \in Sides /\ \A x \in Nodes : Key[x] \in Nat
    BY RbtAssumption DEF Toward, Sides
  <1>3. t[a][m] \in S \cup {Null} /\ D[t[a][m]] \subseteq D[m] /\ m \in D[m]
    BY <1>1, <1>2 DEF Joint
  <1>4. ASSUME NEW y \in D[t[a][m]] PROVE Beyond(m, k, y)
    <2>1. Before(a, y, m) /\ Key[y] \in Nat /\ Key[m] \in Nat
      BY <1>1, <1>2, <1>3 DEF Joint
    <2> QED  BY <2>1 DEF Before, Toward, Beyond
  <1>5. ASSUME NEW z \in S \ D[t[a][m]], NEW y \in D[t[a][m]] \cup {m}, z # m
        PROVE  Beyond(z, k, y)
    <2>1. CASE z \notin D[m]
      BY <1>3, <2>1
    <2>2. CASE z \in D[m]
      <3>1. z \in D[t[Opposite(a)][m]] /\ Opposite(a) \in Sides
        BY <1>1, <1>2, <1>5, <2>2, SidesAre DEF Joint
      <3>2. Before(Opposite(a), z, m) /\ (y = m \/ Before(a, y, m))
        BY <1>1, <1>2, <3>1 DEF Joint
      <3>3. Key[z] \in Nat /\ Key[y] \in Nat /\ Key[m] \in Nat
        BY <1>1, <1>2, <1>3
      <3> QED  BY <3>2, <3>3 DEF Before, Toward, Beyond, Opposite
    <2> QED  BY <2>1, <2>2
  <1> QED
    BY <1>2, <1>3, <1>4, <1>5

\* The search ends at the key or at the only free place for it.
LEMMA DescendIs ==
    ASSUME NEW t, NEW S, NEW D, Shape(t, S, D), NEW k \in Nat
    PROVE  /\ S = {} <=> t.root = Null
           /\ S = {} => Descend(t, k) = Null
           /\ S # {} => Landed(t, S, k, Descend(t, k))
  <1> DEFINE c(m) == t[IF k < Key[m] THEN "left" ELSE "right"][m]
             Eq(f) == f = [m \in Nodes |-> IF k = Key[m] \/ c(m) = Null THEN m ELSE f[c(m)]]
             stop == {m \in Nodes : k = Key[m] \/ c(m) = Null}
             val == [m \in Nodes |-> m]
             nxt == [m \in Nodes |-> c(m)]
             down == CHOOSE f : Eq(f)
  <1>1. /\ t \in Trees /\ S \subseteq Nodes /\ Null \notin S /\ D[Null] = {} /\ t.root \in S \cup {Null}
        /\ D[t.root] = S
    BY ShapeTypes DEF Shape, Rooted
  <1>2. S = {} <=> t.root = Null
    BY <1>1
  <1>3. \A m \in Nodes : c(m) \in Ptr
    <2>1. \A a \in Sides : t[a] \in [Nodes -> Ptr]
      BY <1>1, LinksAre
    <2> QED  BY <2>1 DEF Sides
  <1>4. PICK g : g = [m \in Nodes |-> IF m \in stop THEN val[m] ELSE g[nxt[m]]]
    <2>1. TailData(Nodes, stop, nxt)
      BY <1>3 DEF TailData, Ptr
    <2> HIDE DEF stop, val, nxt
    <2>2. TailFcn(Nodes, stop, val, nxt)
      BY <2>1, TailCalls
    <2> QED  BY <2>2, Zenon DEF TailFcn
  <1>5. Eq(g)
    <2>1. ASSUME NEW m \in Nodes
          PROVE  (IF m \in stop THEN val[m] ELSE g[nxt[m]])
                 = IF k = Key[m] \/ c(m) = Null THEN m ELSE g[c(m)]
      OBVIOUS
    <2> HIDE DEF stop, val, nxt, c
    <2> QED  BY <1>4, <2>1, Zenon
  <1>6. Eq(down)
    <2> HIDE DEF Eq
    <2> QED  BY <1>5
  <1>7. Descend(t, k) = IF t.root = Null THEN Null ELSE down[t.root]
    BY DEF Descend
  <1>8. \A m \in Nodes : down[m] = IF k = Key[m] \/ t[Toward(k, m)][m] = Null THEN m
                                   ELSE down[t[Toward(k, m)][m]]
    <2> HIDE DEF down
    <2> QED  BY <1>6 DEF Toward
  <1> HIDE DEF down, Eq, stop, val, nxt
  <1> DEFINE Bad(m) == /\ \A z \in S \ D[m], y \in D[m] : Beyond(z, k, y)
                       /\ ~Landed(t, S, k, down[m])
             B == {m \in S : Bad(m)}
             f == [m \in B |-> Cardinality(D[m])]
  <1>9. ASSUME B # {} PROVE FALSE
    <2>1. f \in [B -> Nat]
      BY ShapeTypes
    <2> HIDE DEF B
    <2>2. PICK x \in B : \A y \in B : f[x] <= f[y]
      BY <1>9, <2>1, Least
    <2>3. x \in S /\ ~Landed(t, S, k, down[x]) /\ \A z \in S \ D[x], y \in D[x] : Beyond(z, k, y)
      BY <2>2 DEF B
    <2>4. x \in Nodes
      BY <1>1, <2>3
    <2>5. CASE k = Key[x]
      BY <1>8, <2>3, <2>4, <2>5 DEF Landed
    <2>6. CASE k # Key[x]
      <3> DEFINE a == Toward(k, x)
                 l == t[a][x]
      <3>1. /\ a \in Sides /\ l \in S \cup {Null}
            /\ \A z \in S \ D[l], y \in D[l] \cup {x} : z # x => Beyond(z, k, y)
            /\ \A y \in D[l] : Beyond(x, k, y)
        BY <2>3, <2>6, Step
      <3>2. down[x] = IF l = Null THEN x ELSE down[l]
        BY <1>8, <2>4, <2>6
      <3>3. l = t[a][x] /\ a = Toward(k, x)
        OBVIOUS
      <3> HIDE DEF a, l
      <3>4. CASE l = Null
        <4>1. \A z \in S \ {x} : Beyond(z, k, x)
          BY <1>1, <3>1, <3>4
        <4> QED  BY <2>3, <3>2, <3>3, <3>4, <4>1 DEF Landed
      <3>5. CASE l # Null
        <4>1. l \in S /\ Cardinality(D[l]) < Cardinality(D[x])
          BY <2>3, <3>1, <3>3, <3>5, Smaller
        <4>2. \A z \in S \ D[l], y \in D[l] : Beyond(z, k, y)
          BY <3>1
        <4>3. ~Landed(t, S, k, down[l])
          BY <2>3, <3>2, <3>5
        <4>4. l \in B
          BY <4>1, <4>2, <4>3 DEF B
        <4>5. f[x] <= f[l] /\ f[x] = Cardinality(D[x]) /\ f[l] = Cardinality(D[l])
          BY <2>2, <4>4
        <4>6. Cardinality(D[x]) \in Nat /\ Cardinality(D[l]) \in Nat
          BY <2>3, <4>1, ShapeTypes
        <4> HIDE DEF f
        <4> QED  BY <4>1, <4>5, <4>6
      <3> QED  BY <3>4, <3>5
    <2> QED  BY <2>5, <2>6
  <1>10. S # {} => Landed(t, S, k, down[t.root])
    <2> SUFFICES ASSUME S # {}, ~Landed(t, S, k, down[t.root]) PROVE FALSE
      OBVIOUS
    <2>1. t.root \in B
      BY <1>1
    <2> QED  BY <1>9, <2>1
  <1> QED
    BY <1>2, <1>7, <1>10

\* rbt_find.
LEMMA FindIs ==
    ASSUME NEW t, NEW S, NEW D, Shape(t, S, D), NEW k \in Nat
    PROVE  \/ Find(t, k) \in S /\ Key[Find(t, k)] = k
           \/ Find(t, k) = Null /\ \A z \in S : Key[z] # k
  <1> DEFINE n == Descend(t, k)
  <1>1. Find(t, k) = IF n # Null /\ Key[n] # k THEN Null ELSE n
    BY DEF Find
  <1>2. CASE S = {}
    <2>1. n = Null
      BY <1>2, DescendIs
    <2> HIDE DEF n
    <2> QED  BY <1>1, <1>2, <2>1
  <1>3. CASE S # {}
    <2>1. Landed(t, S, k, n)
      BY <1>3, DescendIs
    <2> HIDE DEF n
    <2>2. n \in S /\ n # Null /\ S \subseteq Nodes /\ \A z \in Nodes : Key[z] \in Nat
      BY <2>1, ShapeTypes, RbtAssumption DEF Landed
    <2>3. CASE Key[n] = k
      BY <1>1, <2>2, <2>3
    <2>4. CASE Key[n] # k
      <3>1. \A z \in S : Key[z] # k
        BY <2>1, <2>2, <2>4 DEF Landed, Beyond
      <3> QED  BY <1>1, <2>2, <2>4, <3>1
    <2> QED  BY <2>3, <2>4
  <1> QED
    BY <1>2, <1>3

-----------------------------------------------------------------------------
(* A new leaf *)

Bare(t, n) == t.parent[n] = Null /\ \A a \in Sides : t[a][n] = Null

\* u is t with n hung below m, on the side where the search for its key ended.
HungNow(t, u, n, m) ==
    LET a == Toward(Key[n], m)
    IN  /\ u \in Trees /\ u.root = t.root
        /\ \A x \in Nodes : u.parent[x] = IF x = n THEN m ELSE t.parent[x]
        /\ \A s \in Sides, x \in Nodes : u[s][x] = IF x = m /\ s = a THEN n ELSE t[s][x]

\* The links of a new leaf, one at a time.
LEMMA HangSteps ==
    ASSUME NEW t \in Trees, NEW n \in Nodes, NEW m \in Nodes,
           NEW side \in Sides, side = Toward(Key[n], m), NEW v, NEW w, NEW u,
           NEW Rd \in SUBSET Nodes, KidIsNow(t, v, side, m, n), ParentIsNow(v, w, n, m),
           RedIsNow(w, u, Rd)
    PROVE  HungNow(t, u, n, m)
  <1>1. n \in Ptr /\ m \in Ptr
    BY DEF Ptr
  <1>2. /\ v \in Trees /\ v.root = t.root /\ v.parent = t.parent
        /\ \A l \in Nodes : v[side][l] = IF l = m THEN n ELSE t[side][l]
        /\ v[Opposite(side)] = t[Opposite(side)]
    BY <1>1, KidSet
  <1>3. /\ w \in Trees /\ w.root = v.root
        /\ \A l \in Nodes : w.parent[l] = IF l = n THEN m ELSE v.parent[l]
        /\ \A a \in Sides : w[a] = v[a]
    BY <1>1, <1>2, ParentSet
  <1>4. /\ u \in Trees /\ u.root = w.root /\ u.parent = w.parent /\ \A a \in Sides : u[a] = w[a]
    BY <1>3, RedSet
  <1>5. side # Opposite(side) /\ \A a \in Sides : a = side \/ a = Opposite(side)
    BY SidesAre
  <1>6. \A s \in Sides, l \in Nodes : u[s][l] = IF l = m /\ s = side THEN n ELSE t[s][l]
    <2>1. u[side] = v[side] /\ u[Opposite(side)] = t[Opposite(side)]
      BY <1>2, <1>3, <1>4, SidesAre
    <2> QED  BY <1>2, <1>5, <2>1
  <1>7. u.root = t.root /\ \A x \in Nodes : u.parent[x] = IF x = n THEN m ELSE t.parent[x]
    BY <1>2, <1>3, <1>4
  <1> QED
    BY ONLY <1>4, <1>6, <1>7, side = Toward(Key[n], m) DEF HungNow

\* The leaf as _rbt_insert hangs it.
LEMMA HangIs ==
    ASSUME NEW t \in Trees, NEW n \in Nodes, NEW m \in Nodes,
           NEW side, side = IF Key[n] < Key[m] THEN "left" ELSE "right",
           NEW u, u = [t EXCEPT ![side][m] = n, !.parent[n] = m, !.red = @ \cup {n}]
    PROVE  HungNow(t, u, n, m)
  <1> DEFINE v == [t EXCEPT ![side][m] = n]
             w == [v EXCEPT !.parent[n] = m]
             Rd == w.red \cup {n}
  <1>1. side \in Sides /\ side = Toward(Key[n], m)
    BY DEF Sides, Toward
  <1>2. KidIsNow(t, v, side, m, n) /\ ParentIsNow(v, w, n, m)
    BY DEF KidIsNow, ParentIsNow
  <1>3. RedIsNow(w, u, Rd)
    BY DEF RedIsNow
  <1> HIDE DEF v
  <1>4. v \in Trees
    <2>1. n \in Ptr /\ side \in Sides
      BY <1>1 DEF Ptr
    <2> QED  BY ONLY t \in Trees, m \in Nodes, <1>2, <2>1, KidSet
  <1> HIDE DEF w
  <1>5. w \in Trees
    <2>1. m \in Ptr
      BY DEF Ptr
    <2> QED  BY ONLY n \in Nodes, <1>2, <1>4, <2>1, ParentSet
  <1>6. Rd \in SUBSET Nodes
    BY <1>5, LinksAre
  <1> HIDE DEF Rd
  <1> QED
    BY ONLY t \in Trees, n \in Nodes, m \in Nodes, <1>1, <1>2, <1>3, <1>6, HangSteps

HungBelow(D, n, m) ==
    [x \in Ptr |-> IF x = n THEN {n} ELSE IF m \in D[x] THEN D[x] \cup {n} ELSE D[x]]

\* A leaf hung where the search ended leaves a search tree.
LEMMA HangKeeps ==
    ASSUME NEW t, NEW S, NEW D, Shape(t, S, D), NEW n \in Nodes \ S, Bare(t, n),
           NEW m, Landed(t, S, Key[n], m), Key[m] # Key[n], NEW u, HungNow(t, u, n, m)
    PROVE  Untouched(t, u, S \cup {n}) /\ \E E : Shape(u, S \cup {n}, E)
  <1> DEFINE S2 == S \cup {n}
             E == HungBelow(D, n, m)
             a == Toward(Key[n], m)
             b == Opposite(a)
             d == t[b][m]
  <1>1. /\ t \in Trees /\ S \subseteq Nodes /\ D[Null] = {} /\ Null \notin S /\ n # Null
        /\ D \in [Ptr -> SUBSET S]
    BY ShapeTypes, RbtAssumption DEF Shape
  <1>2. m \in S /\ t[a][m] = Null /\ \A z \in S \ {m} : Beyond(z, Key[n], m)
    BY DEF Landed
  <1>3. a \in Sides /\ b \in Sides /\ b # a /\ \A s \in Sides : s = a \/ s = b
    BY SidesAre DEF Toward, Sides
  <1>4. /\ u \in Trees /\ u.root = t.root
        /\ \A x \in Nodes : u.parent[x] = IF x = n THEN m ELSE t.parent[x]
        /\ \A s \in Sides, x \in Nodes : u[s][x] = IF x = m /\ s = a THEN n ELSE t[s][x]
    BY DEF HungNow
  <1>5. /\ \A x \in Ptr : E[x] = IF x = n THEN {n} ELSE IF m \in D[x] THEN D[x] \cup {n} ELSE D[x]
        /\ E \in [Ptr -> SUBSET S2] /\ E[Null] = {} /\ E[n] = {n}
    BY <1>1 DEF HungBelow, Ptr
  <1>6. a = Toward(Key[n], m) /\ d = t[b][m] /\ b = Opposite(a)
    OBVIOUS
  <1> HIDE DEF E, a, b, d
  <1>7. Joint(u, S2, E, n)
    <2>1. u[a][n] = Null /\ u[b][n] = Null
      BY <1>2, <1>3, <1>4 DEF Bare
    <2>2. Null \in S2 \cup {Null} /\ n \in E[n] /\ E[Null] \subseteq E[n]
          /\ \A x \in E[n] : x = n \/ x \in E[Null] \/ x \in E[Null]
      BY <1>5
    <2>3. (\A x \in E[Null] : Before(a, x, n)) /\ (\A x \in E[Null] : Before(b, x, n))
      BY <1>5
    <2> HIDE DEF S2
    <2> QED  BY ONLY <1>3, <1>6, <2>1, <2>2, <2>3, JointFrom
  <1>8. Joint(t, S, D, m) /\ m \in Nodes /\ m \in Ptr /\ m # n
    BY <1>1, <1>2 DEF Shape, Ptr
  <1>9. Joint(u, S2, E, m)
    <2>1. u[a][m] = n /\ u[b][m] = d
      BY <1>3, <1>4, <1>6, <1>8
    <2>2. /\ d \in S \cup {Null} /\ D[d] \subseteq D[m] /\ m \in D[m]
          /\ (\A x \in D[d] : Before(b, x, m)) /\ (d # Null => t.parent[d] = m)
          /\ \A x \in D[m] : x = m \/ x \in D[d]
      BY <1>1, <1>2, <1>3, <1>6, <1>8 DEF Joint
    <2>3. m \notin D[d]
      BY <1>3, <1>8, <2>2, OrderIs
    <2>4. d # n /\ d \in Ptr
      BY <1>1, <2>2 DEF Ptr
    <2>5. E[d] = D[d] /\ E[m] = D[m] \cup {n}
      BY <1>5, <1>8, <2>2, <2>3, <2>4
    <2>6. Before(a, n, m)
      <3>1. Key[n] \in Nat /\ Key[m] \in Nat
        BY <1>8, RbtAssumption
      <3> QED  BY <1>6, <3>1 DEF Before, Toward
    <2>7. (d # Null => u.parent[d] = m) /\ u.parent[n] = m
      BY <1>1, <1>4, <2>2, <2>4
    <2>8. \A x \in E[n] : Before(a, x, m)
      BY <1>5, <2>6
    <2>9. E[n] \subseteq E[m] /\ E[d] \subseteq E[m] /\ m \in E[m]
          /\ \A x \in E[m] : x = m \/ x \in E[n] \/ x \in E[d]
      BY <1>5, <2>2, <2>5
    <2>10. d \in S2 \cup {Null} /\ n \in S2 \cup {Null} /\ \A x \in E[d] : Before(b, x, m)
      BY <2>2, <2>5
    <2> QED  BY <1>3, <1>6, <2>1, <2>7, <2>8, <2>9, <2>10, JointFrom
  <1>10. ASSUME NEW x \in S, x # m PROVE Joint(u, S2, E, x)
    <2>1. Joint(t, S, D, x) /\ x \in Nodes /\ x \in Ptr /\ x # n
      BY <1>1 DEF Shape, Ptr
    <2>2. E[x] = IF m \in D[x] THEN D[x] \cup {n} ELSE D[x]
      BY <1>5, <2>1
    <2>3. ASSUME NEW s \in Sides
          PROVE  /\ u[s][x] = t[s][x] /\ t[s][x] \in S \cup {Null}
                 /\ E[t[s][x]] = IF m \in D[t[s][x]] THEN D[t[s][x]] \cup {n} ELSE D[t[s][x]]
                 /\ D[t[s][x]] \subseteq D[x]
                 /\ \A y \in E[t[s][x]] : Before(s, y, x)
                 /\ t[s][x] # Null => u.parent[t[s][x]] = x
      <3>1. u[s][x] = t[s][x]
        BY <1>4, <1>10, <2>1
      <3>2. t[s][x] \in S \cup {Null} /\ (t[s][x] # Null => t.parent[t[s][x]] = x)
            /\ D[t[s][x]] \subseteq D[x] /\ \A y \in D[t[s][x]] : Before(s, y, x)
        BY <2>1 DEF Joint
      <3>3. t[s][x] \in Ptr /\ t[s][x] # n
        BY <1>1, <3>2 DEF Ptr
      <3>4. E[t[s][x]] = IF m \in D[t[s][x]] THEN D[t[s][x]] \cup {n} ELSE D[t[s][x]]
        BY <1>5, <3>3
      <3>5. m \in D[t[s][x]] => Before(s, n, x)
        <4> SUFFICES ASSUME m \in D[t[s][x]] PROVE Before(s, n, x)
          OBVIOUS
        <4>1. Before(s, m, x) /\ Beyond(x, Key[n], m)
          BY <1>2, <1>10, <3>2
        <4>2. Key[n] \in Nat /\ Key[m] \in Nat /\ Key[x] \in Nat
          BY <1>8, <2>1, RbtAssumption
        <4> QED  BY <4>1, <4>2 DEF Before, Beyond
      <3>6. \A y \in E[t[s][x]] : Before(s, y, x)
        BY <3>2, <3>4, <3>5
      <3>7. t[s][x] # Null => u.parent[t[s][x]] = x
        BY <1>1, <1>4, <3>2, <3>3
      <3> QED  BY <3>1, <3>2, <3>4, <3>6, <3>7
    <2>4. x \in E[x]
      BY <2>1, <2>2 DEF Joint
    <2>5. \A s \in Sides : E[u[s][x]] \subseteq E[x]
      BY <2>2, <2>3
    <2>6. ASSUME NEW y \in E[x] PROVE y = x \/ \E s \in Sides : y \in E[u[s][x]]
      <3>1. CASE y \in D[x]
        <4>1. y = x \/ \E s \in Sides : y \in D[t[s][x]]
          BY <2>1, <3>1 DEF Joint
        <4>2. \A s \in Sides : D[t[s][x]] \subseteq E[u[s][x]]
          BY <2>3
        <4> QED  BY <4>1, <4>2
      <3>2. CASE y = n /\ m \in D[x]
        <4>1. PICK s \in Sides : m \in D[t[s][x]]
          BY <1>10, <2>1, <3>2 DEF Joint
        <4>2. n \in E[u[s][x]]
          BY <2>3, <4>1
        <4> QED  BY <3>2, <4>2
      <3> QED  BY <2>2, <2>6, <3>1, <3>2
    <2> QED  BY <2>3, <2>4, <2>5, <2>6 DEF Joint
  <1>11. Rooted(u, S2, E)
    <2>1. t.root \in S /\ D[t.root] = S /\ t.parent[t.root] = Null
      BY <1>1, <1>2 DEF Shape, Rooted
    <2>2. t.root \in Ptr /\ t.root # n /\ t.root \in Nodes
      BY <1>1, <2>1 DEF Ptr
    <2>3. E[t.root] = S2
      BY <1>2, <1>5, <2>1, <2>2
    <2>4. u.parent[t.root] = Null
      BY <1>4, <2>1, <2>2
    <2> QED  BY <1>4, <2>1, <2>3, <2>4 DEF Rooted
  <1>12. Shape(u, S2, E)
    <2>1. \A x \in S2 : Joint(u, S2, E, x)
      BY <1>7, <1>9, <1>10
    <2>2. S2 \subseteq Nodes
      BY <1>1
    <2> HIDE DEF S2
    <2> QED  BY <1>4, <1>5, <1>11, <2>1, <2>2 DEF Shape
  <1>13. Untouched(t, u, S2)
    BY <1>2, <1>4 DEF Untouched
  <1> QED
    BY <1>12, <1>13

\* The first node becomes the root.
LEMMA FirstIs ==
    ASSUME NEW t, NEW D, Shape(t, {}, D), NEW n \in Nodes, Bare(t, n),
           NEW u, u = [t EXCEPT !.root = n, !.red = @ \cup {n}]
    PROVE  Untouched(t, u, {n}) /\ \E E : Shape(u, {n}, E)
  <1> DEFINE v == [t EXCEPT !.root = n]
             Rd == t.red \cup {n}
             E == [x \in Ptr |-> IF x = n THEN {n} ELSE {}]
  <1>1. t \in Trees /\ n \in Ptr /\ Null \in Ptr /\ n # Null /\ Rd \subseteq Nodes
    BY ShapeTypes, LinksAre, RbtAssumption DEF Ptr
  <1>2. RootIsNow(t, v, n) /\ u = [v EXCEPT !.red = @ \cup {n}]
    BY DEF RootIsNow
  <1> HIDE DEF v
  <1>3. /\ v \in Trees /\ v.red = t.red /\ v.root = n /\ v.parent = t.parent
        /\ \A a \in Sides : v[a] = t[a]
    BY <1>1, <1>2, RootSet
  <1>4. RedIsNow(v, u, Rd)
    BY <1>2, <1>3 DEF RedIsNow
  <1> HIDE DEF Rd
  <1>5. /\ u \in Trees /\ u.root = n /\ u.parent = t.parent
        /\ \A a \in Sides : u[a] = t[a]
    <2>1. /\ u \in Trees /\ u.root = v.root /\ u.parent = v.parent
          /\ \A a \in Sides : u[a] = v[a]
      BY ONLY <1>1, <1>3, <1>4, RedSet
    <2> QED  BY <1>3, <2>1
  <1>6. E \in [Ptr -> SUBSET {n}] /\ E[Null] = {} /\ E[n] = {n}
    BY <1>1
  <1> HIDE DEF E
  <1>7. Joint(u, {n}, E, n) /\ Rooted(u, {n}, E)
    BY <1>1, <1>5, <1>6 DEF Joint, Rooted, Bare
  <1>8. Shape(u, {n}, E)
    BY <1>5, <1>6, <1>7 DEF Shape
  <1>9. Untouched(t, u, {n})
    BY <1>5 DEF Untouched
  <1> QED
    BY <1>8, <1>9

-----------------------------------------------------------------------------
(* The node that takes the place of another *)

\* The last node down one side is the outermost of what is below.
LEMMA OutermostIs ==
    ASSUME NEW t, NEW S, NEW D, Shape(t, S, D), NEW n \in S, NEW side \in Sides,
           NEW e, e = Outermost(t, n, side)
    PROVE  /\ e \in D[n] /\ t[side][e] = Null
           /\ \A x \in D[n] \ {e} : Before(Opposite(side), x, e)
  <1> DEFINE c(m) == t[side][m]
             Eq(f) == f = [m \in Nodes |-> IF t[side][m] = Null THEN m ELSE f[t[side][m]]]
             stop == {m \in Nodes : c(m) = Null}
             val == [m \in Nodes |-> m]
             nxt == [m \in Nodes |-> c(m)]
             walk == CHOOSE f : Eq(f)
  <1>1. /\ t \in Trees /\ S \subseteq Nodes /\ Null \notin S /\ D[Null] = {} /\ n \in Nodes
    BY ShapeTypes
  <1>2. PICK g : g = [m \in Nodes |-> IF m \in stop THEN val[m] ELSE g[nxt[m]]]
    <2>1. \A m \in Nodes : c(m) \in Ptr
      BY <1>1, LinksAre
    <2>2. TailData(Nodes, stop, nxt)
      BY <2>1 DEF TailData, Ptr
    <2> HIDE DEF stop, val, nxt
    <2>3. TailFcn(Nodes, stop, val, nxt)
      BY <2>2, TailCalls
    <2> QED  BY <2>3, Zenon DEF TailFcn
  <1>3. Eq(g)
    <2>1. ASSUME NEW m \in Nodes
          PROVE  (IF m \in stop THEN val[m] ELSE g[nxt[m]])
                 = IF t[side][m] = Null THEN m ELSE g[t[side][m]]
      OBVIOUS
    <2> HIDE DEF stop, val, nxt, c
    <2> QED  BY <1>2, <2>1, Zenon
  <1>4. Eq(walk)
    <2> HIDE DEF Eq
    <2> QED  BY <1>3
  <1>5. e = walk[n]
    BY DEF Outermost
  <1>6. \A m \in Nodes : walk[m] = IF t[side][m] = Null THEN m ELSE walk[t[side][m]]
    <2> HIDE DEF walk
    <2> QED  BY <1>4
  <1> HIDE DEF walk, Eq, stop, val, nxt
  <1> DEFINE Good(m) == /\ walk[m] \in D[m] /\ t[side][walk[m]] = Null
                        /\ \A x \in D[m] \ {walk[m]} : Before(Opposite(side), x, walk[m])
             G == {m \in S : Good(m)}
  <1>7. ASSUME NEW m \in S, \A a \in Sides : t[a][m] \in G \cup {Null} PROVE m \in G
    <2>1. Joint(t, S, D, m) /\ m \in Nodes /\ D[m] \subseteq S
      BY <1>1, ParentIs DEF Shape
    <2>2. \A x \in D[m] : x = m \/ x \in D[t[side][m]] \/ x \in D[t[Opposite(side)][m]]
      <3>1. \A s \in Sides : s = side \/ s = Opposite(side)
        BY SidesAre
      <3> QED  BY <2>1, <3>1 DEF Joint
    <2>3. Opposite(side) \in Sides /\ Opposite(Opposite(side)) = side
      BY SidesAre
    <2>4. \A x \in D[t[Opposite(side)][m]] : Before(Opposite(side), x, m)
      BY <2>1, <2>3 DEF Joint
    <2>5. CASE t[side][m] = Null
      <3>1. walk[m] = m
        BY <1>6, <2>1, <2>5
      <3>2. \A x \in D[m] \ {m} : Before(Opposite(side), x, m)
        BY <1>1, <2>2, <2>4, <2>5
      <3> QED  BY <2>1, <2>5, <3>1, <3>2 DEF Joint
    <2>6. CASE t[side][m] # Null
      <3> DEFINE l == t[side][m]
                 w == walk[l]
      <3>1. walk[m] = w /\ Good(l) /\ l \in S
        BY <1>6, <1>7, <2>1, <2>6
      <3>2. D[l] \subseteq D[m] /\ \A x \in D[l] : Before(side, x, m)
        BY <2>1 DEF Joint
      <3> HIDE DEF l, w
      <3>3. w \in D[l] /\ t[side][w] = Null /\ \A x \in D[l] \ {w} : Before(Opposite(side), x, w)
        BY <3>1 DEF w
      <3>4. Before(Opposite(side), m, w) /\ w \in Nodes
        <4>1. w \in Nodes /\ Before(side, w, m)
          BY <1>1, <2>1, <3>2, <3>3
        <4> QED  BY <2>1, <4>1, OrderIs
      <3>5. \A x \in D[t[Opposite(side)][m]] : Before(Opposite(side), x, w)
        <4>1. \A x \in D[t[Opposite(side)][m]] : x \in Nodes
          BY <1>1, <2>1, <2>3 DEF Joint
        <4> QED  BY <2>1, <2>3, <2>4, <3>4, <4>1, OrderIs
      <3>6. \A x \in D[m] \ {w} : Before(Opposite(side), x, w)
        BY <2>2, <3>3, <3>4, <3>5 DEF l
      <3> QED  BY <3>1, <3>2, <3>3, <3>6
    <2> QED  BY <2>5, <2>6
  <1> HIDE DEF G
  <1>8. S \subseteq G
    BY <1>7, FromTheLeaves
  <1> QED
    BY <1>5, <1>8 DEF G

\* What is below a node is an interval of the keys.
LEMMA Convex ==
    ASSUME NEW t, NEW S, NEW D, Shape(t, S, D), NEW n \in S, NEW z \in S \ D[n],
           NEW x \in D[n], NEW y \in D[n], NEW a \in Sides, Before(a, z, x)
    PROVE  Before(a, z, y)
  <1> DEFINE Good(m) == \A zz \in S \ D[m], xx, yy \in D[m], s \in Sides :
                           Before(s, zz, xx) => Before(s, zz, yy)
             B == {m \in S : ~Good(m)}
             f == [m \in B |-> Cardinality(S) - Cardinality(D[m])]
  <1>1. ASSUME B # {} PROVE FALSE
    <2>1. f \in [B -> Nat]
      BY Outside
    <2> HIDE DEF B
    <2>2. PICK m \in B : \A k \in B : f[m] <= f[k]
      BY <1>1, <2>1, Least
    <2>3. m \in S
      BY <2>2 DEF B
    <2>4. PICK zz \in S \ D[m], xx \in D[m], yy \in D[m], s \in Sides :
            Before(s, zz, xx) /\ ~Before(s, zz, yy)
      BY <2>2 DEF B
    <2>5. S \subseteq Nodes /\ D[m] \subseteq S /\ D[t.root] = S
      BY <2>3, ParentIs, ShapeTypes DEF Shape, Rooted
    <2>6. m # t.root
      BY <2>4, <2>5
    <2> DEFINE p == t.parent[m]
    <2>7. p \in S /\ p # Null /\ \E b \in Sides : m = t[b][p]
      BY <2>3, <2>6, ParentIs, ShapeTypes
    <2>8. Cardinality(D[m]) < Cardinality(D[p])
          /\ Cardinality(D[m]) \in Nat /\ Cardinality(D[p]) \in Nat
      BY <2>3, <2>7, Above
    <2> HIDE DEF p
    <2>9. PICK b \in Sides : m = t[b][p]
      BY <2>7
    <2>10. Joint(t, S, D, p) /\ p \in Nodes
      BY <2>5, <2>7 DEF Shape
    <2>11. D[m] \subseteq D[p] /\ Before(b, xx, p) /\ Before(b, yy, p)
      BY <2>4, <2>9, <2>10 DEF Joint
    <2>12. p \in B
      <3>1. CASE zz \notin D[p]
        BY <2>4, <2>7, <2>11, <3>1 DEF B
      <3>2. CASE zz \in D[p]
        <4>1. zz \in Nodes /\ xx \in Nodes /\ yy \in Nodes
          BY <2>4, <2>5
        <4>2. zz = p \/ zz \in D[t[Opposite(b)][p]]
          <5>1. \A k \in Sides : k = b \/ k = Opposite(b)
            BY SidesAre
          <5> QED  BY <2>4, <2>9, <2>10, <3>2, <5>1 DEF Joint
        <4>3. zz = p \/ Before(Opposite(b), zz, p)
          BY <2>10, <4>2, SidesAre DEF Joint
        <4>4. \A k \in Nodes : Key[k] \in Nat
          BY RbtAssumption
        <4> QED  BY <2>4, <2>10, <2>11, <4>1, <4>3, <4>4 DEF Before, Opposite, Sides
      <3> QED  BY <3>1, <3>2
    <2>13. f[m] <= f[p] /\ f[m] = Cardinality(S) - Cardinality(D[m])
           /\ f[p] = Cardinality(S) - Cardinality(D[p])
      BY <2>2, <2>12
    <2>14. Cardinality(S) \in Nat
      BY FS_CardinalityType, ShapeTypes
    <2> HIDE DEF f
    <2> QED  BY <2>8, <2>13, <2>14
  <1>2. Good(n)
    BY <1>1
  <1> HIDE DEF B
  <1> QED
    BY <1>2

\* No other node has a key between those of n and e.
Adjacent(S, n, e) == \A z \in S \ {n, e}, a \in Sides : Before(a, z, n) <=> Before(a, z, e)

\* The replacement is the neighbour of n and has one child at most.
LEMMA ReplacementIs ==
    ASSUME NEW t, NEW S, NEW D, Shape(t, S, D), NEW n \in S, NEW e, e = Replacement(t, n)
    PROVE  \/ e = Null /\ \A a \in Sides : t[a][n] = Null
           \/ /\ e \in S /\ e # n /\ Adjacent(S, n, e)
              /\ t[Opposite(IF t.left[n] # Null THEN "left" ELSE "right")][e] = Null
  <1> DEFINE a == IF t.left[n] # Null THEN "left" ELSE "right"
  <1>1. t \in Trees /\ S \subseteq Nodes /\ D[Null] = {} /\ Null \notin S
        /\ t.left = t["left"] /\ t.right = t["right"] /\ n \in Nodes
    BY ShapeTypes, LinksAre
  <1>2. CASE \A s \in Sides : t[s][n] = Null
    <2>1. t.left[n] = Null /\ t.right[n] = Null
      BY <1>1, <1>2 DEF Sides
    <2> QED  BY <1>2, <2>1 DEF Replacement
  <1>3. CASE ~\A s \in Sides : t[s][n] = Null
    <2>1. a \in Sides /\ t[a][n] # Null /\ Opposite(a) \in Sides /\ Opposite(Opposite(a)) = a
          /\ \A s \in Sides : s = a \/ s = Opposite(a)
      BY <1>1, <1>3, SidesAre DEF Sides
    <2>2. e = Outermost(t, t[a][n], Opposite(a))
      BY <1>1, <2>1 DEF Replacement, Opposite
    <2>9. a = IF t.left[n] # Null THEN "left" ELSE "right"
      OBVIOUS
    <2> HIDE DEF a
    <2> DEFINE c == t[a][n]
               b == Opposite(a)
    <2>3. Joint(t, S, D, n)
      BY DEF Shape
    <2>4. c \in S /\ D[c] \subseteq D[n] /\ D[n] \subseteq S /\ n \in D[n]
          /\ \A x \in D[c] : Before(a, x, n)
      BY <2>1, <2>3, ParentIs DEF Joint
    <2> HIDE DEF c
    <2>5. e \in D[c] /\ t[b][e] = Null /\ \A x \in D[c] \ {e} : Before(a, x, e)
      BY <2>1, <2>2, <2>4, OutermostIs DEF c
    <2>6. e \in S /\ e # n /\ Before(a, e, n) /\ e \in Nodes
      <3>1. e \in S /\ e \in Nodes /\ Before(a, e, n)
        BY <1>1, <2>4, <2>5
      <3> QED  BY <1>1, <2>1, <3>1, OrderIs
    <2>7. ASSUME NEW z \in S \ {n, e}, NEW s \in Sides
          PROVE  Before(s, z, n) <=> Before(s, z, e)
      <3>1. z \in Nodes
        BY <1>1
      <3>2. CASE z \notin D[n]
        <4>1. e \in D[n]
          BY <2>4, <2>5
        <4> QED  BY <2>4, <3>2, <4>1, Convex
      <3>3. CASE z \in D[n]
        <4>1. \/ Before(a, z, n) /\ Before(a, z, e)
              \/ Before(b, z, n) /\ Before(b, n, e)
          <5>1. z \in D[c] \/ z \in D[t[b][n]]
            BY <2>1, <2>3, <3>3 DEF Joint, c
          <5>2. CASE z \in D[c]
            BY <2>4, <2>5, <5>2
          <5>3. CASE z \in D[t[b][n]]
            BY <1>1, <2>1, <2>3, <2>6, <5>3, OrderIs DEF Joint
          <5> QED  BY <5>1, <5>2, <5>3
        <4>2. \A k \in Nodes : Key[k] \in Nat
          BY RbtAssumption
        <4> QED  BY <1>1, <2>1, <2>6, <3>1, <4>1, <4>2 DEF Before, Opposite, Sides
      <3> QED  BY <3>2, <3>3
    <2> QED  BY <2>5, <2>6, <2>7, <2>9 DEF Adjacent
  <1> QED
    BY <1>2, <1>3

-----------------------------------------------------------------------------
(* A node goes *)

\* u is t with c in the place of q, as far as the links to it and its parent go.
SplicedNow(t, u, q, c) ==
    LET p == t.parent[q]
    IN  /\ u \in Trees /\ u.red = t.red
        /\ u.root = IF p = Null THEN c ELSE t.root
        /\ \A x \in Nodes : u.parent[x] = IF x = c THEN p ELSE t.parent[x]
        /\ \A s \in Sides, x \in Nodes :
             u[s][x] = IF x = p /\ s = Side(t, p, q) THEN c ELSE t[s][x]

\* What the code does to splice.
LEMMA SplicedIs ==
    ASSUME NEW t \in Trees, NEW q \in Nodes, NEW c \in Ptr, NEW v,
           ReplacedNow(t, v, t.parent[q], q, c), NEW u, AdoptedNow(v, u, c, t.parent[q])
    PROVE  SplicedNow(t, u, q, c)
  <1> DEFINE p == t.parent[q]
  <1>1. p \in Ptr /\ p = t.parent[q]
    BY LinksAre
  <1> HIDE DEF p
  <1>2. ReplacedNow(t, v, p, q, c) /\ AdoptedNow(v, u, c, p)
    BY <1>1
  <1>3. /\ v \in Trees /\ v.red = t.red /\ v.parent = t.parent
        /\ v.root = IF p = Null THEN c ELSE t.root
        /\ \A a \in Sides, m \in Nodes :
             v[a][m] = IF m = p /\ a = Side(t, p, q) THEN c ELSE t[a][m]
    BY <1>1, <1>2, ReplaceIs
  <1>4. /\ u \in Trees /\ u.red = v.red /\ u.root = v.root
        /\ \A m \in Nodes : u.parent[m] = IF m = c THEN p ELSE v.parent[m]
        /\ \A a \in Sides : u[a] = v[a]
    BY <1>1, <1>2, <1>3, SetParentIs
  <1> QED
    BY <1>1, <1>3, <1>4 DEF SplicedNow

\* A node with one child at most goes, and its child takes its place.
LEMMA SpliceKeeps ==
    ASSUME NEW t, NEW S, NEW D, Shape(t, S, D), NEW q \in S, NEW side \in Sides,
           t[side][q] = Null, NEW b, b = Opposite(side), NEW c, c = t[b][q],
           NEW u, SplicedNow(t, u, q, c)
    PROVE  /\ Untouched(t, u, S \ {q}) /\ \E E : Shape(u, S \ {q}, E)
           /\ u.red = t.red /\ c \in (S \ {q}) \cup {Null}
  <1> DEFINE S2 == S \ {q}
             E == [x \in Ptr |-> D[x] \ {q}]
             p == t.parent[q]
  <1>1. /\ t \in Trees /\ S \subseteq Nodes /\ D[Null] = {} /\ Null \notin S
        /\ D \in [Ptr -> SUBSET S] /\ S \subseteq Ptr /\ Null \in Ptr /\ q \in Nodes
    <2>1. t \in Trees /\ S \subseteq Nodes /\ D[Null] = {} /\ Null \notin S /\ S \subseteq Ptr
      BY ShapeTypes
    <2>2. D \in [Ptr -> SUBSET S]
      BY DEF Shape
    <2>3. Null \in Ptr
      BY DEF Ptr
    <2> QED  BY <2>1, <2>2, <2>3
  <1>2. /\ u \in Trees /\ u.red = t.red /\ u.root = IF p = Null THEN c ELSE t.root
        /\ \A x \in Nodes : u.parent[x] = IF x = c THEN p ELSE t.parent[x]
        /\ \A s \in Sides, x \in Nodes :
             u[s][x] = IF x = p /\ s = Side(t, p, q) THEN c ELSE t[s][x]
    BY DEF SplicedNow
  <1>3. (\A x \in Ptr : E[x] = D[x] \ {q}) /\ E \in [Ptr -> SUBSET S2] /\ E[Null] = {}
    BY <1>1
  <1>4. Joint(t, S, D, q) /\ b \in Sides /\ \A s \in Sides : s = side \/ s = b
    BY SidesAre DEF Shape
  <1>5. /\ c \in S \cup {Null} /\ D[c] \subseteq D[q] /\ (c # Null => t.parent[c] = q)
        /\ (\A x \in D[q] : x = q \/ x \in D[c]) /\ q \in D[q]
        /\ \A x \in D[c] : Before(b, x, q)
    <2>1. \A x \in D[q] : x = q \/ x \in D[side] \/ \E s \in Sides : x \in D[t[s][q]]
      BY <1>4 DEF Joint
    <2> QED  BY <1>1, <1>4, <2>1 DEF Joint
  <1>6. q \notin D[c] /\ c # q
    <2>1. q \notin D[c]
      BY <1>1, <1>4, <1>5, OrderIs
    <2>2. c # q
      BY <1>5, <2>1
    <2> QED  BY <2>1, <2>2
  <1>7. p \in S \cup {Null} /\ p # q /\ (p = Null <=> q = t.root)
        /\ (p # Null => q = t[Side(t, p, q)][p] /\ Side(t, p, q) \in Sides)
    BY ParentIs, SideIs
  <1>9. p = t.parent[q]
    OBVIOUS
  <1> HIDE DEF E, p
  <1>8. c \in Ptr /\ E[c] = D[c]
    <2>1. c \in Ptr
      BY <1>1, <1>5
    <2>2. E[c] = D[c] \ {q}
      BY <1>3, <2>1
    <2>3. D[c] \ {q} = D[c]
      BY <1>6
    <2> QED  BY <2>1, <2>2, <2>3
  <1>10. ASSUME NEW x \in S2 PROVE Joint(u, S2, E, x)
    <2>1. Joint(t, S, D, x) /\ x \in Nodes /\ x \in Ptr /\ x # q /\ x \in S
      BY <1>1 DEF Shape
    <2>2. E[x] = D[x] \ {q}
      BY <1>3, <2>1
    <2>3. ASSUME NEW s \in Sides
          PROVE  /\ u[s][x] \in S2 \cup {Null} /\ E[u[s][x]] = D[t[s][x]] \ {q}
                 /\ u[s][x] # Null => u.parent[u[s][x]] = x
      <3>1. t[s][x] \in S \cup {Null} /\ (t[s][x] # Null => t.parent[t[s][x]] = x)
            /\ t[s][x] \in Ptr
        BY <1>1, <2>1 DEF Joint
      <3>2. CASE x = p /\ s = Side(t, p, q)
        <4>1. u[s][x] = c /\ t[s][x] = q
          BY <1>1, <1>2, <1>7, <2>1, <3>2
        <4>2. D[q] \ {q} = D[c]
          BY <1>5, <1>6
        <4>3. c # Null => u.parent[c] = x
          BY <1>1, <1>2, <1>5, <3>2
        <4> QED  BY <1>5, <1>6, <1>8, <4>1, <4>2, <4>3
      <3>3. CASE ~(x = p /\ s = Side(t, p, q))
        <4>1. u[s][x] = t[s][x]
          BY <1>2, <2>1, <3>3
        <4>2. t[s][x] # q
          <5> SUFFICES ASSUME t[s][x] = q PROVE FALSE
            OBVIOUS
          <5>1. x = p /\ s # Side(t, p, q) /\ p # Null
            BY <1>1, <1>9, <3>1, <3>3
          <5>2. s = Opposite(Side(t, p, q)) /\ Side(t, p, q) \in Sides
            BY <1>7, <5>1, SidesAre
          <5>3. Before(s, q, x) /\ Before(Side(t, p, q), q, x)
            <6>1. q \in D[t[s][x]] /\ q \in D[t[Side(t, p, q)][x]]
              BY <1>5, <1>7, <5>1
            <6> QED  BY <2>1, <5>2, <6>1 DEF Joint
          <5> QED  BY <1>1, <2>1, <5>2, <5>3, OrderIs
        <4>3. t[s][x] # Null => t[s][x] # c
          BY <1>5, <2>1, <3>1
        <4>4. t[s][x] # Null => u.parent[t[s][x]] = x
          BY <1>1, <1>2, <3>1, <4>3
        <4>5. E[t[s][x]] = D[t[s][x]] \ {q}
          BY <1>3, <3>1
        <4> QED  BY <3>1, <4>1, <4>2, <4>4, <4>5
      <3> QED  BY <3>2, <3>3
    <2>4. x \in E[x]
      BY <2>1, <2>2 DEF Joint
    <2>5. ASSUME NEW s \in Sides
          PROVE  E[u[s][x]] \subseteq E[x] /\ \A y \in E[u[s][x]] : Before(s, y, x)
      <3>1. D[t[s][x]] \subseteq D[x] /\ \A y \in D[t[s][x]] : Before(s, y, x)
        BY <2>1 DEF Joint
      <3> QED  BY <2>2, <2>3, <3>1
    <2>6. ASSUME NEW y \in E[x] PROVE y = x \/ \E s \in Sides : y \in E[u[s][x]]
      <3>1. y \in D[x] /\ y # q
        BY <2>2
      <3>2. y = x \/ \E s \in Sides : y \in D[t[s][x]]
        BY <2>1, <3>1 DEF Joint
      <3> QED  BY <2>3, <3>1, <3>2
    <2> HIDE DEF S2
    <2> QED  BY <2>3, <2>4, <2>5, <2>6 DEF Joint
  <1>11. Rooted(u, S2, E)
    <2>1. t.root \in S /\ D[t.root] = S /\ t.parent[t.root] = Null
      BY <1>1 DEF Shape, Rooted
    <2>2. CASE p = Null
      <3>1. u.root = c /\ E[c] = S2
        BY <1>2, <1>5, <1>6, <1>7, <1>8, <2>1, <2>2
      <3>2. c # Null => u.parent[c] = Null
        BY <1>1, <1>2, <1>5, <2>2
      <3> QED  BY <1>5, <1>6, <3>1, <3>2 DEF Rooted
    <2>3. CASE p # Null
      <3>1. u.root = t.root /\ t.root # q /\ E[t.root] = S2
        BY <1>1, <1>2, <1>3, <1>7, <2>1, <2>3
      <3>2. u.parent[t.root] = Null
        <4>1. t.root # c
          BY <1>1, <1>5, <2>1
        <4> QED  BY <1>1, <1>2, <2>1, <4>1
      <3> QED  BY <2>1, <3>1, <3>2 DEF Rooted
    <2> QED  BY <2>2, <2>3
  <1>12. Shape(u, S2, E)
    <2>1. S2 \subseteq Nodes
      BY <1>1
    <2> HIDE DEF S2
    <2> QED  BY <1>2, <1>3, <1>10, <1>11, <2>1 DEF Shape
  <1>13. Untouched(t, u, S2)
    <2>1. ASSUME NEW m \in Nodes \ S2 PROVE m # c /\ m # p
      BY <1>1, <1>5, <1>6, <1>7, RbtAssumption
    <2> QED  BY <1>2, <2>1 DEF Untouched
  <1> QED
    BY <1>2, <1>5, <1>6, <1>12, <1>13

\* The replacement's child takes its place, and the tree is adjusted.
LEMMA DetachKeeps ==
    ASSUME NEW t, NEW S, NEW D, Shape(t, S, D), NEW n \in S, NEW e \in S,
           t[Opposite(IF t.left[n] # Null THEN "left" ELSE "right")][e] = Null,
           NEW u, u = Detach(t, n, e)
    PROVE  Remade(t, u, S \ {e})
  <1> DEFINE a == IF t.left[n] # Null THEN "left" ELSE "right"
             c == t[a][e]
             p == t.parent[e]
             v == Replace(t, p, e, c)
             t1 == SetParent(v, c, p)
  <1>1. t \in Trees /\ S \subseteq Nodes /\ Null \notin S /\ e # Null /\ e \in Nodes
    BY ShapeTypes
  <1>2. a \in Sides /\ Opposite(a) \in Sides /\ a = Opposite(Opposite(a))
    BY SidesAre DEF Sides
  <1>3. \/ u = t1
        \/ u = [t1 EXCEPT !.red = @ \ {c}]
        \/ c # Null /\ u = AdjustOnRemove[Spot(t1, c)]
    BY <1>1 DEF Detach
  <1>4. ReplacedNow(t, v, t.parent[e], e, c) /\ AdoptedNow(v, t1, c, t.parent[e])
    BY DEF ReplacedNow, AdoptedNow
  <1>5. c = t[a][e] /\ t[Opposite(a)][e] = Null
    OBVIOUS
  <1> HIDE DEF a, p, v, t1, c
  <1>6. c \in Ptr
    BY <1>1, <1>2, <1>5, LinksAre
  <1>7. SplicedNow(t, t1, e, c)
    BY <1>1, <1>4, <1>6, SplicedIs
  <1>8. /\ Untouched(t, t1, S \ {e}) /\ \E E : Shape(t1, S \ {e}, E)
        /\ t1.red = t.red /\ c \in (S \ {e}) \cup {Null}
    <2> DEFINE o == Opposite(a)
    <2>1. o \in Sides /\ a = Opposite(o) /\ t[o][e] = Null /\ c = t[a][e]
      BY <1>2, <1>5
    <2> HIDE DEF o
    <2> QED  BY ONLY Shape(t, S, D), e \in S, <1>7, <2>1, SpliceKeeps
  <1>9. PICK E : Shape(t1, S \ {e}, E)
    BY <1>8
  <1>10. Remade(t1, u, S \ {e})
    <2>1. CASE u = t1
      BY <1>9, <2>1 DEF Remade, Untouched
    <2>2. CASE u = [t1 EXCEPT !.red = @ \ {c}]
      <3>1. RedIsNow(t1, u, t1.red \ {c})
        BY <2>2 DEF RedIsNow
      <3>2. t1.red \ {c} \in SUBSET Nodes
        BY <1>1, <1>8, LinksAre
      <3> QED  BY <1>9, <3>1, <3>2, RedKeeps
    <2>3. CASE c # Null /\ u = AdjustOnRemove[Spot(t1, c)]
      <3>1. c \in S \ {e}
        BY <1>8, <2>3
      <3> QED  BY <1>9, <2>3, <3>1, AdjustOnRemoveKeeps
    <2> QED  BY <1>3, <2>1, <2>2, <2>3
  <1> QED
    BY <1>8, <1>10, RemadeFrom


\* What replacing n by e leaves, e being in no tree.
SupplantedNow(t, u, n, e) ==
    LET p == t.parent[n]
    IN  /\ u \in Trees /\ u.root = IF p = Null THEN e ELSE t.root
        /\ \A x \in Nodes :
             u.parent[x] = IF x = e THEN p ELSE IF \E s \in Sides : x = t[s][n] THEN e
                           ELSE t.parent[x]
        /\ \A s \in Sides, x \in Nodes :
             u[s][x] = IF x = e THEN t[s][n]
                       ELSE IF x = p /\ s = Side(t, p, n) THEN e ELSE t[s][x]

\* The links of the replacement, one at a time.
LEMMA SupplantSteps ==
    ASSUME NEW t \in Trees, NEW n \in Nodes, NEW e \in Nodes, NEW p, p = t.parent[n],
           NEW l, l = t.left[n], NEW r, r = t.right[n], p # n, p # e, n # e,
           NEW v0, ReplacedNow(t, v0, p, n, e),
           NEW v1, AdoptedNow(v0, v1, l, e), NEW v2, AdoptedNow(v1, v2, r, e),
           NEW w1, ParentIsNow(v2, w1, e, p), NEW w2, KidIsNow(w1, w2, "left", e, l),
           NEW w3, KidIsNow(w2, w3, "right", e, r), NEW Rd \in SUBSET Nodes,
           NEW u, RedIsNow(w3, u, Rd)
    PROVE  SupplantedNow(t, u, n, e)
  <1>1. /\ "left" \in Sides /\ "right" \in Sides /\ p \in Ptr /\ e \in Ptr /\ l \in Ptr
        /\ r \in Ptr /\ l = t["left"][n] /\ r = t["right"][n]
        /\ Opposite("left") = "right" /\ Opposite("right") = "left"
    BY LinksAre DEF Sides, Ptr, Opposite
  <1>2. /\ v0 \in Trees /\ v0.parent = t.parent
        /\ v0.root = IF p = Null THEN e ELSE t.root
        /\ \A a \in Sides, m \in Nodes :
             v0[a][m] = IF m = p /\ a = Side(t, p, n) THEN e ELSE t[a][m]
    BY <1>1, ReplaceIs
  <1>3. /\ v1 \in Trees /\ v1.root = v0.root
        /\ \A m \in Nodes : v1.parent[m] = IF m = l THEN e ELSE t.parent[m]
        /\ \A a \in Sides : v1[a] = v0[a]
    BY <1>1, <1>2, SetParentIs
  <1>4. /\ v2 \in Trees /\ v2.root = v0.root
        /\ \A m \in Nodes : v2.parent[m] = IF m = r THEN e ELSE v1.parent[m]
        /\ \A a \in Sides : v2[a] = v0[a]
    BY <1>1, <1>3, SetParentIs
  <1>5. /\ w1 \in Trees /\ w1.root = v0.root
        /\ \A m \in Nodes : w1.parent[m] = IF m = e THEN p ELSE v2.parent[m]
        /\ \A a \in Sides : w1[a] = v0[a]
    BY <1>1, <1>4, ParentSet
  <1>6. /\ w2 \in Trees /\ w2.root = v0.root /\ w2.parent = w1.parent
        /\ \A m \in Nodes : w2["left"][m] = IF m = e THEN l ELSE v0["left"][m]
        /\ w2["right"] = v0["right"]
    BY <1>1, <1>5, KidSet
  <1>7. /\ w3 \in Trees /\ w3.root = v0.root /\ w3.parent = w1.parent
        /\ \A m \in Nodes : w3["right"][m] = IF m = e THEN r ELSE v0["right"][m]
        /\ w3["left"] = w2["left"]
    BY <1>1, <1>6, KidSet
  <1>8. /\ u \in Trees /\ u.root = v0.root /\ u.parent = w1.parent
        /\ u["left"] = w3["left"] /\ u["right"] = w3["right"]
    <2>1. Rd \subseteq Nodes
      OBVIOUS
    <2>2. /\ u \in Trees /\ u.root = w3.root /\ u.parent = w3.parent
          /\ \A a \in Sides : u[a] = w3[a]
      BY <1>7, <2>1, RedSet
    <2> QED  BY <1>1, <1>7, <2>2
  <1>9. ASSUME NEW x \in Nodes
        PROVE  u.parent[x] = IF x = e THEN p ELSE IF \E s \in Sides : x = t[s][n] THEN e
                             ELSE t.parent[x]
    <2>1. (\E s \in Sides : x = t[s][n]) <=> (x = l \/ x = r)
      BY <1>1 DEF Sides
    <2> QED  BY <1>3, <1>4, <1>5, <1>8, <2>1
  <1>10. ASSUME NEW s \in Sides, NEW x \in Nodes
         PROVE  u[s][x] = IF x = e THEN t[s][n]
                          ELSE IF x = p /\ s = Side(t, p, n) THEN e ELSE t[s][x]
    <2>1. CASE s = "left"
      BY <1>1, <1>2, <1>6, <1>7, <1>8, <2>1
    <2>2. CASE s = "right"
      BY <1>1, <1>2, <1>6, <1>7, <1>8, <2>2
    <2> QED  BY <2>1, <2>2 DEF Sides
  <1> QED
    BY <1>2, <1>8, <1>9, <1>10 DEF SupplantedNow

\* What the code does to replace.
LEMMA SupplantIs ==
    ASSUME NEW t \in Trees, NEW n \in Nodes, NEW e \in Nodes, t.parent[n] # n,
           t.parent[n] # e, n # e, NEW u, u = Supplant(t, n, e)
    PROVE  SupplantedNow(t, u, n, e)
  <1> DEFINE p == t.parent[n]
             above == Replace(t, p, n, e)
             v1 == SetParent(above, above.left[n], e)
             v2 == SetParent(v1, above.right[n], e)
             Rd == IF Red(t, n) THEN t.red \cup {e} ELSE t.red \ {e}
             w1 == [v2 EXCEPT !.parent[e] = p]
             w2 == [w1 EXCEPT !.left[e] = v2.left[n]]
             w3 == [w2 EXCEPT !.right[e] = v2.right[n]]
  <1>1. e # Null
    BY RbtAssumption
  <1>2. u = [w3 EXCEPT !.red = Rd]
    BY <1>1 DEF Supplant
  <1>3. ReplacedNow(t, above, p, n, e) /\ AdoptedNow(above, v1, above.left[n], e)
        /\ AdoptedNow(v1, v2, above.right[n], e)
    BY DEF ReplacedNow, AdoptedNow
  <1>4. ParentIsNow(v2, w1, e, p) /\ KidIsNow(w1, w2, "left", e, v2.left[n])
        /\ KidIsNow(w2, w3, "right", e, v2.right[n]) /\ RedIsNow(w3, u, Rd)
    BY <1>2 DEF ParentIsNow, KidIsNow, RedIsNow
  <1>5. Rd \in SUBSET Nodes /\ p \in Ptr /\ e \in Ptr
    BY LinksAre DEF Ptr
  <1>6. p = t.parent[n] /\ p # n /\ p # e
    OBVIOUS
  <1> HIDE DEF p, above, v1, v2, Rd, w1, w2, w3
  <1>7. above \in Trees /\ above.left[n] = t.left[n] /\ above.right[n] = t.right[n]
    <2>1. /\ above \in Trees
          /\ \A a \in Sides, m \in Nodes :
               above[a][m] = IF m = p /\ a = Side(t, p, n) THEN e ELSE t[a][m]
      BY <1>3, <1>5, ReplaceIs
    <2>2. "left" \in Sides /\ "right" \in Sides
      BY DEF Sides
    <2> QED  BY <1>6, <2>1, <2>2, LinksAre
  <1>8. v1 \in Trees /\ \A a \in Sides : v1[a] = above[a]
    BY <1>3, <1>5, <1>7, LinksAre, SetParentIs DEF Sides
  <1>9. v2 \in Trees /\ \A a \in Sides : v2[a] = above[a]
    BY <1>3, <1>5, <1>7, <1>8, LinksAre, SetParentIs DEF Sides
  <1>10. v2.left[n] = t.left[n] /\ v2.right[n] = t.right[n]
    <2>1. v2["left"] = above["left"] /\ v2["right"] = above["right"]
      BY <1>9 DEF Sides
    <2> QED  BY <1>7, <1>9, <2>1, LinksAre
  <1> QED
    BY ONLY <1>3, <1>4, <1>5, <1>6, <1>7, <1>10, SupplantSteps, t \in Trees, n \in Nodes,
       e \in Nodes, n # e

\* A neighbour in the order takes the place of n.
LEMMA SupplantKeeps ==
    ASSUME NEW t, NEW S, NEW D, Shape(t, S, D), NEW n \in S, NEW e \in Nodes \ S,
           \A z \in S \ {n}, a \in Sides : Before(a, z, n) <=> Before(a, z, e),
           NEW u, SupplantedNow(t, u, n, e)
    PROVE  /\ Untouched(t, u, S \cup {e})
           /\ \E E : Shape(u, (S \ {n}) \cup {e}, E)
  <1> DEFINE S2 == (S \ {n}) \cup {e}
             R(X) == IF n \in X THEN (X \ {n}) \cup {e} ELSE X
             E == [x \in Ptr |-> R(D[IF x = e THEN n ELSE x])]
             p == t.parent[n]
             old(x) == IF x = e THEN n ELSE x
             ren(x) == IF x = n THEN e ELSE x
  <1>1. /\ t \in Trees /\ S \subseteq Nodes /\ D[Null] = {} /\ Null \notin S
        /\ D \in [Ptr -> SUBSET S] /\ S \subseteq Ptr /\ Null \in Ptr /\ n \in Nodes
        /\ e # Null /\ e # n /\ S2 \subseteq Nodes /\ e \in Ptr
    BY ShapeTypes, RbtAssumption DEF Shape, Ptr
  <1>2. /\ u \in Trees /\ u.root = IF p = Null THEN e ELSE t.root
        /\ \A x \in Nodes :
             u.parent[x] = IF x = e THEN p ELSE IF \E s \in Sides : x = t[s][n] THEN e
                           ELSE t.parent[x]
        /\ \A s \in Sides, x \in Nodes :
             u[s][x] = IF x = e THEN t[s][n]
                       ELSE IF x = p /\ s = Side(t, p, n) THEN e ELSE t[s][x]
    BY DEF SupplantedNow
  <1>3. \A x \in Ptr : E[x] = R(D[old(x)])
    OBVIOUS
  <1>4. E \in [Ptr -> SUBSET S2] /\ E[Null] = {}
    <2>1. ASSUME NEW x \in Ptr PROVE R(D[old(x)]) \subseteq S2
      <3>1. D[old(x)] \subseteq S
        BY <1>1
      <3> QED  BY <3>1
    <2> QED  BY <1>1, <2>1
  <1>5. p \in S \cup {Null} /\ p # n /\ (p = Null <=> n = t.root) /\ p # e
        /\ (p # Null => n = t[Side(t, p, n)][p] /\ Side(t, p, n) \in Sides)
    BY <1>1, ParentIs, SideIs
  <1>6. \A x \in S \cup {Null} : ren(x) \in Ptr /\ E[ren(x)] = R(D[x])
    <2> SUFFICES ASSUME NEW x \in S \cup {Null} PROVE ren(x) \in Ptr /\ old(ren(x)) = x
      BY <1>3
    <2> QED  BY <1>1
  <1>7. p = t.parent[n]
    OBVIOUS
  <1>8. \A X : R(X) = IF n \in X THEN (X \ {n}) \cup {e} ELSE X
    OBVIOUS
  <1> HIDE DEF E, p, R
  <1>10. ASSUME NEW x \in S2 PROVE Joint(u, S2, E, x)
    <2> DEFINE x0 == old(x)
    <2>1. x0 \in S /\ x = ren(x0) /\ x \in Nodes /\ x \in Ptr /\ x0 \in Nodes
      BY <1>1
    <2>2. Joint(t, S, D, x0)
      BY <2>1 DEF Shape
    <2>3. E[x] = R(D[x0]) /\ x0 \in D[x0] /\ D[x0] \subseteq S
      BY <1>1, <1>3, <2>1, <2>2 DEF Joint
    <2>4. (x = e /\ x0 = n) \/ (x # e /\ x # n /\ x0 = x)
      BY <1>1
    <2> HIDE DEF x0
    <2>5. ASSUME NEW s \in Sides
          PROVE  /\ u[s][x] \in S2 \cup {Null} /\ E[u[s][x]] = R(D[t[s][x0]])
                 /\ u[s][x] # Null => u.parent[u[s][x]] = x
      <3> DEFINE c == t[s][x0]
      <3>1. c \in S \cup {Null} /\ (c # Null => t.parent[c] = x0) /\ c # x0 /\ c # e
        BY <1>1, <2>1, <2>2, Smaller DEF Joint
      <3>2. u[s][x] = ren(c)
        <4>1. CASE x = e
          BY <1>2, <2>1, <2>4, <3>1, <4>1
        <4>2. CASE x # e /\ x = p /\ s = Side(t, p, n)
          <5>1. c = n /\ u[s][x] = e
            BY <1>1, <1>2, <1>5, <2>1, <2>4, <4>2
          <5> QED  BY <5>1
        <4>3. CASE x # e /\ ~(x = p /\ s = Side(t, p, n))
          <5>1. u[s][x] = c /\ x0 = x
            BY <1>2, <2>1, <2>4, <4>3
          <5>2. c # n
            <6> SUFFICES ASSUME c = n PROVE FALSE
              OBVIOUS
            <6>1. x = p /\ s # Side(t, p, n) /\ p # Null
              BY <1>1, <1>7, <3>1, <4>3, <5>1
            <6>2. s = Opposite(Side(t, p, n)) /\ Side(t, p, n) \in Sides
              BY <1>5, <6>1, SidesAre
            <6>3. Before(s, n, x) /\ Before(Side(t, p, n), n, x)
              <7>1. Joint(t, S, D, n)
                BY DEF Shape
              <7>2. n \in D[n]
                BY <7>1 DEF Joint
              <7>3. n \in D[t[s][x0]] /\ n \in D[t[Side(t, p, n)][x0]]
                BY <1>5, <5>1, <6>1, <7>2
              <7> QED  BY <2>2, <5>1, <6>2, <7>3 DEF Joint
            <6> QED  BY <1>1, <2>1, <6>2, <6>3, OrderIs
          <5> QED  BY <5>1, <5>2
        <4> QED  BY <4>1, <4>2, <4>3
      <3>3. E[u[s][x]] = R(D[c])
        BY <1>6, <3>1, <3>2
      <3>4. ASSUME u[s][x] # Null PROVE u.parent[u[s][x]] = x
        <4>1. c \in S /\ t.parent[c] = x0 /\ c \in Nodes
          BY <1>1, <3>1, <3>2, <3>4
        <4>2. CASE c = n
          <5>1. x # e /\ x = p
            BY <1>7, <2>4, <3>1, <4>1, <4>2
          <5> QED  BY <1>2, <3>2, <4>2, <5>1
        <4>3. CASE c # n
          <5>1. u[s][x] = c
            BY <3>2, <4>3
          <5>2. (\E b \in Sides : c = t[b][n]) <=> x0 = n
            <6>1. ASSUME NEW b \in Sides, c = t[b][n] PROVE x0 = n
              <7>1. Joint(t, S, D, n)
                BY DEF Shape
              <7>2. c # Null
                BY <1>1, <4>1
              <7> QED  BY <4>1, <6>1, <7>1, <7>2 DEF Joint
            <6>2. ASSUME x0 = n PROVE c = t[s][n]
              BY <6>2
            <6> QED  BY <6>1, <6>2
          <5>3. u.parent[c] = IF x0 = n THEN e ELSE t.parent[c]
            BY <1>2, <3>1, <4>1, <5>2
          <5> QED  BY <2>4, <4>1, <5>1, <5>3
        <4> QED  BY <4>2, <4>3
      <3>5. u[s][x] \in S2 \cup {Null}
        BY <3>1, <3>2
      <3> QED  BY <3>3, <3>4, <3>5
    <2>6. x \in E[x]
      BY <1>8, <2>1, <2>3
    <2>7. ASSUME NEW s \in Sides
          PROVE  E[u[s][x]] \subseteq E[x] /\ \A y \in E[u[s][x]] : Before(s, y, x)
      <3> DEFINE X == D[t[s][x0]]
      <3>1. X \subseteq D[x0] /\ (\A y \in X : Before(s, y, x0)) /\ x0 \notin X /\ X \subseteq S
        <4>1. X \subseteq D[x0] /\ \A y \in X : Before(s, y, x0)
          BY <2>2 DEF Joint
        <4> QED  BY <1>1, <2>1, <2>3, <4>1, OrderIs
      <3>2. E[u[s][x]] = R(X)
        BY <2>5
      <3> HIDE DEF X
      <3>3. R(X) \subseteq R(D[x0])
        BY <1>8, <2>1, <2>4, <3>1, <1>1, <2>3
      <3>4. ASSUME NEW y \in R(X) PROVE Before(s, y, x)
        <4>1. (y \in X /\ y # n) \/ (n \in X /\ y = e)
          BY <1>8, <3>4
        <4>2. CASE y \in X /\ y # n
          <5>1. Before(s, y, x0) /\ y \in S \ {n}
            BY <3>1, <4>2
          <5> QED  BY <2>4, <5>1
        <4>3. CASE n \in X /\ y = e
          <5>1. Before(s, n, x) /\ x \in S \ {n} /\ Opposite(s) \in Sides
            BY <1>1, <2>1, <2>4, <3>1, <4>3, SidesAre
          <5>2. Before(Opposite(s), x, n)
            BY <1>1, <2>1, <5>1, OrderIs
          <5>3. Before(Opposite(s), x, e)
            BY <5>1, <5>2
          <5> QED  BY <2>1, <4>3, <5>3, OrderIs
        <4> QED  BY <4>1, <4>2, <4>3
      <3> QED  BY <2>3, <3>2, <3>3, <3>4
    <2>8. ASSUME NEW y \in E[x] PROVE y = x \/ \E s \in Sides : y \in E[u[s][x]]
      <3>1. (y \in D[x0] /\ y # n) \/ (n \in D[x0] /\ y = e)
        BY <1>8, <2>3
      <3>2. CASE y \in D[x0] /\ y # n
        <4>1. y = x0 \/ \E s \in Sides : y \in D[t[s][x0]]
          BY <2>2, <3>2 DEF Joint
        <4>2. \A s \in Sides : y \in D[t[s][x0]] => y \in R(D[t[s][x0]])
          BY <1>8, <3>2
        <4> QED  BY <2>4, <2>5, <3>2, <4>1, <4>2
      <3>3. CASE n \in D[x0] /\ y = e
        <4>1. n = x0 \/ \E s \in Sides : n \in D[t[s][x0]]
          BY <2>2, <3>3 DEF Joint
        <4>2. \A s \in Sides : n \in D[t[s][x0]] => e \in R(D[t[s][x0]])
          BY <1>8
        <4> QED  BY <2>4, <2>5, <3>3, <4>1, <4>2
      <3> QED  BY <3>1, <3>2, <3>3
    <2> HIDE DEF S2
    <2> QED  BY <2>5, <2>6, <2>7, <2>8 DEF Joint
  <1>11. Rooted(u, S2, E)
    <2>1. t.root \in S /\ D[t.root] = S /\ t.parent[t.root] = Null
      BY <1>1 DEF Shape, Rooted
    <2>2. u.root = ren(t.root)
      BY <1>2, <1>5
    <2>3. E[u.root] = S2
      BY <1>6, <1>8, <2>1, <2>2
    <2>4. u.parent[u.root] = Null
      <3>1. CASE p = Null
        BY <1>2, <3>1
      <3>2. CASE p # Null
        <4>1. u.root = t.root /\ t.root # e /\ t.root \in Nodes
          BY <1>1, <1>2, <2>1, <3>2
        <4>2. ~\E s \in Sides : t.root = t[s][n]
          <5>1. Joint(t, S, D, n)
            BY DEF Shape
          <5> QED  BY <1>1, <2>1, <5>1 DEF Joint
        <4> QED  BY <1>2, <2>1, <4>1, <4>2
      <3> QED  BY <3>1, <3>2
    <2>5. u.root \in S2
      BY <2>1, <2>2
    <2> HIDE DEF S2
    <2> QED  BY <2>3, <2>4, <2>5 DEF Rooted
  <1>12. Shape(u, S2, E)
    <2> HIDE DEF S2
    <2> QED  BY <1>1, <1>2, <1>4, <1>10, <1>11 DEF Shape
  <1>13. Untouched(t, u, S \cup {e})
    <2>1. ASSUME NEW m \in Nodes \ (S \cup {e})
          PROVE  m # p /\ m # e /\ ~\E s \in Sides : m = t[s][n]
      <3>1. Joint(t, S, D, n)
        BY DEF Shape
      <3>2. m # Null
        BY RbtAssumption
      <3> QED  BY <1>5, <3>1, <3>2 DEF Joint
    <2> QED  BY <1>2, <2>1 DEF Untouched
  <1> QED
    BY <1>12, <1>13

\* What is left of a removed node.
ClearedNow(t, u, n) ==
    u = [t EXCEPT !.parent[n] = Null, !.left[n] = Null, !.right[n] = Null, !.red = @ \ {n}]

\* Only the links of n are cleared.
LEMMA ClearedIs ==
    ASSUME NEW t \in Trees, NEW n \in Nodes, NEW u, ClearedNow(t, u, n)
    PROVE  /\ u \in Trees /\ u.root = t.root /\ Bare(u, n)
           /\ \A m \in Nodes \ {n} :
                u.parent[m] = t.parent[m] /\ \A a \in Sides : u[a][m] = t[a][m]
  <1> DEFINE v1 == [t EXCEPT !.parent[n] = Null]
             v2 == [v1 EXCEPT !.left[n] = Null]
             v3 == [v2 EXCEPT !.right[n] = Null]
             Rd == t.red \ {n}
  <1>1. u = [v3 EXCEPT !.red = Rd]
    BY DEF ClearedNow
  <1>2. ParentIsNow(t, v1, n, Null) /\ KidIsNow(v1, v2, "left", n, Null)
        /\ KidIsNow(v2, v3, "right", n, Null) /\ RedIsNow(v3, u, Rd)
    BY <1>1 DEF ParentIsNow, KidIsNow, RedIsNow
  <1>3. /\ "left" \in Sides /\ "right" \in Sides /\ Null \in Ptr /\ Rd \subseteq Nodes
        /\ Opposite("left") = "right" /\ Opposite("right") = "left"
    BY LinksAre DEF Sides, Ptr, Opposite
  <1> HIDE DEF v1, v2, v3, Rd
  <1>4. /\ v1 \in Trees /\ v1.root = t.root
        /\ \A l \in Nodes : v1.parent[l] = IF l = n THEN Null ELSE t.parent[l]
        /\ \A a \in Sides : v1[a] = t[a]
    BY <1>2, <1>3, ParentSet
  <1>5. /\ v2 \in Trees /\ v2.root = v1.root /\ v2.parent = v1.parent
        /\ \A l \in Nodes : v2["left"][l] = IF l = n THEN Null ELSE v1["left"][l]
        /\ v2["right"] = v1["right"]
    BY <1>2, <1>3, <1>4, KidSet
  <1>6. /\ v3 \in Trees /\ v3.root = v2.root /\ v3.parent = v2.parent
        /\ \A l \in Nodes : v3["right"][l] = IF l = n THEN Null ELSE v2["right"][l]
        /\ v3["left"] = v2["left"]
    BY <1>2, <1>3, <1>5, KidSet
  <1>7. /\ u \in Trees /\ u.root = v3.root /\ u.parent = v3.parent
        /\ \A a \in Sides : u[a] = v3[a]
    BY <1>2, <1>3, <1>6, RedSet
  <1>8. \A a \in Sides, m \in Nodes : u[a][m] = IF m = n THEN Null ELSE t[a][m]
    BY <1>3, <1>4, <1>5, <1>6, <1>7 DEF Sides
  <1> QED
    BY <1>4, <1>5, <1>6, <1>7, <1>8 DEF Bare

\* Links and nodes outside of the tree do not matter to its shape.
LEMMA ShapeFrom ==
    ASSUME NEW t, NEW S, NEW D, Shape(t, S, D), NEW u \in Trees, u.root = t.root,
           \A m \in S : u.parent[m] = t.parent[m] /\ \A a \in Sides : u[a][m] = t[a][m]
    PROVE  Shape(u, S, D)
  <1>1. t \in Trees /\ S \subseteq Nodes /\ D[Null] = {} /\ D \in [Ptr -> SUBSET S]
        /\ Rooted(t, S, D)
    BY DEF Shape
  <1>2. ASSUME NEW m \in S PROVE Joint(u, S, D, m)
    <2>1. Joint(t, S, D, m)
      BY DEF Shape
    <2>2. ASSUME NEW a \in Sides, u[a][m] # Null PROVE u.parent[u[a][m]] = m
      <3>1. t[a][m] \in S /\ t.parent[t[a][m]] = m /\ u[a][m] = t[a][m]
        BY <2>1, <2>2 DEF Joint
      <3> QED  BY <3>1
    <2> QED  BY <2>1, <2>2 DEF Joint
  <1>3. Rooted(u, S, D)
    BY <1>1 DEF Rooted
  <1> QED  BY <1>1, <1>2, <1>3 DEF Shape

\* The nodes outside of the tree have no links.
Loose(t, S) == \A m \in Nodes \ S : Bare(t, m)

\* A leaf is spliced out with no child.
LEMMA NoReplacement ==
    ASSUME NEW t, NEW S, NEW D, Shape(t, S, D), NEW n \in S, \A a \in Sides : t[a][n] = Null,
           NEW u, u = Supplant(t, n, Null)
    PROVE  SplicedNow(t, u, n, Null)
  <1> DEFINE p == t.parent[n]
             v == Replace(t, p, n, Null)
             w == SetParent(v, v.left[n], Null)
             z == SetParent(w, v.right[n], Null)
  <1>1. t \in Trees /\ n \in Nodes /\ Null \in Ptr /\ p \in Ptr /\ p # n /\ S \subseteq Nodes
        /\ Null \notin Nodes
    BY ShapeTypes, ParentIs, RbtAssumption DEF Ptr
  <1>2. u = z
    BY DEF Supplant
  <1>3. ReplacedNow(t, v, t.parent[n], n, Null)
    BY DEF ReplacedNow
  <1>4. /\ v \in Trees /\ v.parent = t.parent
        /\ \A a \in Sides, m \in Nodes :
             v[a][m] = IF m = p /\ a = Side(t, p, n) THEN Null ELSE t[a][m]
    BY <1>1, <1>3, ReplaceIs
  <1>5. p = t.parent[n] /\ w = SetParent(v, v.left[n], Null)
        /\ z = SetParent(w, v.right[n], Null)
    OBVIOUS
  <1> HIDE DEF p, v, w, z
  <1>6. v.left[n] = Null /\ v.right[n] = Null
    <2>1. "left" \in Sides /\ "right" \in Sides
      BY DEF Sides
    <2> QED  BY <1>1, <1>4, <2>1, LinksAre
  <1>7. u = v
    BY <1>2, <1>5, <1>6 DEF SetParent
  <1>8. AdoptedNow(v, u, Null, t.parent[n])
    BY <1>7 DEF AdoptedNow, SetParent
  <1> QED
    BY <1>1, <1>3, <1>8, SplicedIs

\* _rbt_remove_node: the tree loses the node and stays in order.
LEMMA RemovedIs ==
    ASSUME NEW t, NEW S, NEW D, Shape(t, S, D), NEW n \in S, Loose(t, S),
           NEW u, u = RemovedFromTree(t, n)
    PROVE  Loose(u, S \ {n}) /\ \E E : Shape(u, S \ {n}, E)
  <1> DEFINE e == Replacement(t, n)
             v == Detach(t, n, e)
             w == Supplant(v, n, e)
  <1>1. S \subseteq Nodes /\ t \in Trees /\ n \in Nodes /\ Null \notin S
    BY ShapeTypes
  <1>2. ClearedNow(w, u, n)
    BY DEF RemovedFromTree, ClearedNow
  <1>3. e = Replacement(t, n) /\ v = Detach(t, n, e) /\ w = Supplant(v, n, e)
    OBVIOUS
  <1> HIDE DEF e, v, w
  <1>4. Untouched(t, w, S) /\ \E E : Shape(w, S \ {n}, E)
    <2>1. CASE e = Null /\ \A a \in Sides : t[a][n] = Null
      <3>1. v = t
        BY <1>3, <2>1 DEF Detach
      <3>2. SplicedNow(t, w, n, Null)
        BY <1>3, <2>1, <3>1, NoReplacement
      <3>3. "left" \in Sides /\ "right" = Opposite("left") /\ "right" \in Sides
        BY DEF Sides, Opposite
      <3>4. Untouched(t, w, S \ {n}) /\ \E E : Shape(w, S \ {n}, E)
        BY <2>1, <3>2, <3>3, SpliceKeeps
      <3> QED  BY <3>4 DEF Untouched
    <2>2. CASE /\ e \in S /\ e # n /\ Adjacent(S, n, e)
               /\ t[Opposite(IF t.left[n] # Null THEN "left" ELSE "right")][e] = Null
      <3> DEFINE S1 == S \ {e}
      <3>1. Remade(t, v, S1)
        BY <1>3, <2>2, DetachKeeps
      <3>2. PICK E1 : Shape(v, S1, E1)
        BY <3>1 DEF Remade
      <3>3. n \in S1 /\ e \in Nodes \ S1 /\ n # e
        BY <1>1, <2>2
      <3>4. v \in Trees /\ v.parent[n] # n /\ v.parent[n] # e
        <4>1. v.parent[n] \in S1 \cup {Null} /\ v.parent[n] # n
          BY <3>2, <3>3, ParentIs
        <4> QED  BY <1>1, <2>2, <3>2, <4>1, ShapeTypes
      <3>5. SupplantedNow(v, w, n, e)
        BY <1>1, <1>3, <3>3, <3>4, SupplantIs
      <3>6. \A z \in S1 \ {n}, a \in Sides : Before(a, z, n) <=> Before(a, z, e)
        BY <2>2 DEF Adjacent
      <3>7. (S1 \ {n}) \cup {e} = S \ {n} /\ S1 \cup {e} = S
        BY <2>2
      <3> HIDE DEF S1
      <3>8. Untouched(v, w, S1 \cup {e}) /\ \E E : Shape(w, (S1 \ {n}) \cup {e}, E)
        BY <3>2, <3>3, <3>5, <3>6, SupplantKeeps
      <3>9. Untouched(t, v, S)
        BY <3>1, <3>7 DEF Remade, Untouched
      <3> QED  BY <3>7, <3>8, <3>9 DEF Untouched
    <2> QED  BY <1>3, <2>1, <2>2, ReplacementIs
  <1>5. PICK E : Shape(w, S \ {n}, E)
    BY <1>4
  <1>6. /\ u \in Trees /\ u.root = w.root /\ Bare(u, n)
        /\ \A m \in Nodes \ {n} :
             u.parent[m] = w.parent[m] /\ \A a \in Sides : u[a][m] = w[a][m]
    BY <1>1, <1>2, <1>5, ShapeTypes, ClearedIs
  <1>7. Shape(u, S \ {n}, E)
    <2>1. \A m \in S \ {n} : u.parent[m] = w.parent[m] /\ \A a \in Sides : u[a][m] = w[a][m]
      BY <1>1, <1>6
    <2> QED  BY <1>5, <1>6, <2>1, ShapeFrom
  <1>8. ASSUME NEW m \in Nodes \ (S \ {n}) PROVE Bare(u, m)
    <2>1. CASE m = n
      BY <1>6, <2>1
    <2>2. CASE m # n
      BY <1>4, <1>6, <2>2 DEF Untouched, Loose, Bare
    <2> QED  BY <2>1, <2>2
  <1> QED
    BY <1>7, <1>8 DEF Loose

\* Two steps that leave the nodes outside alone.
LEMMA LooseFrom ==
    ASSUME NEW t, NEW v, NEW u, NEW S, NEW T, S \subseteq T, Loose(t, S), Untouched(t, v, T),
           Untouched(v, u, T)
    PROVE  Loose(u, T)
  BY DEF Loose, Untouched, Bare

\* rbt_insert puts a node that is in no tree into this one.
LEMMA InsertedBelow ==
    ASSUME NEW t, NEW S, NEW D, Shape(t, S, D), Loose(t, S), NEW n \in Nodes \ S,
           NEW m, Landed(t, S, Key[n], m), Key[m] # Key[n],
           NEW side, side = IF Key[n] < Key[m] THEN "left" ELSE "right",
           NEW v, v = [t EXCEPT ![side][m] = n, !.parent[n] = m, !.red = @ \cup {n}],
           NEW u, u = AdjustOnInsert[Spot(v, n)]
    PROVE  Loose(u, S \cup {n}) /\ \E E : Shape(u, S \cup {n}, E)
  <1>1. t \in Trees /\ n \in Nodes /\ m \in Nodes /\ Bare(t, n)
    BY ShapeTypes DEF Landed, Loose
  <1>2. HungNow(t, v, n, m)
    BY <1>1, HangIs
  <1>3. Untouched(t, v, S \cup {n}) /\ \E E : Shape(v, S \cup {n}, E)
    BY <1>1, <1>2, HangKeeps
  <1>4. Remade(v, u, S \cup {n})
    BY <1>3, AdjustOnInsertKeeps
  <1>5. Untouched(t, v, S \cup {n}) /\ Untouched(v, u, S \cup {n}) /\ S \subseteq S \cup {n}
    BY <1>3, <1>4 DEF Remade
  <1>6. Loose(u, S \cup {n})
    BY ONLY <1>5, Loose(t, S), LooseFrom
  <1> QED
    BY <1>4, <1>6 DEF Remade

\* rbt_insert into an empty tree.
LEMMA InsertedRoot ==
    ASSUME NEW t, NEW D, Shape(t, {}, D), Loose(t, {}), NEW n \in Nodes,
           NEW v, v = [t EXCEPT !.root = n, !.red = @ \cup {n}],
           NEW u, u = AdjustOnInsert[Spot(v, n)]
    PROVE  Loose(u, {n}) /\ \E E : Shape(u, {n}, E)
  <1>1. Bare(t, n)
    BY DEF Loose
  <1>2. Untouched(t, v, {n}) /\ \E E : Shape(v, {n}, E)
    BY <1>1, FirstIs
  <1>3. n \in {n}
    OBVIOUS
  <1>4. Remade(v, u, {n})
    BY <1>2, <1>3, AdjustOnInsertKeeps
  <1>5. \A l \in Nodes \ {n} : Bare(u, l)
    BY <1>2, <1>4 DEF Remade, Untouched, Loose, Bare
  <1> QED
    BY <1>4, <1>5 DEF Remade, Loose

-----------------------------------------------------------------------------
(* The list *)

\* Different nodes have different keys.
Distinct(S) == \A x, y \in S : Key[x] = Key[y] => x = y

\* q is the nearest node of S on the side a of m, and the outermost on that side.
Nearest(S, a, m, q) ==
    IF q = Null THEN \A z \in S : ~Before(a, z, m)
    ELSE q \in S /\ Before(a, q, m) /\ \A z \in S : Before(a, z, m) => z = q \/ Before(a, z, q)
EndIs(S, a, q) ==
    IF q = Null THEN S = {} ELSE q \in S /\ \A z \in S \ {q} : Before(a, q, z)

\* One direction of the list: the links towards the side a, and its end there.
HalfChain(L, e, S, a) ==
    EndIs(S, a, e) /\ \A m \in S : Nearest(S, a, m, L[m])

Chain(l, S) ==
    /\ l \in Lists /\ S \subseteq Nodes /\ Distinct(S)
    /\ HalfChain(l.prev, l.head, S, "left") /\ HalfChain(l.next, l.tail, S, "right")
    /\ \A m \in Nodes \ S : l.prev[m] = Null /\ l.next[m] = Null

\* The links of the neighbour q of a new node, or of one that is gone.
Relinked(L, L2, S, q, m) == \A x \in S : L2[x] = IF x = q THEN m ELSE L[x]

NewEnd(e, e2, p, m) == e2 = IF p = Null THEN m ELSE e

\* A new node between its neighbours, in one direction.
LEMMA HalfInsert ==
    ASSUME NEW S, S \subseteq Nodes, NEW n \in Nodes \ S, Distinct(S \cup {n}),
           NEW a \in Sides, NEW L, NEW e, HalfChain(L, e, S, a),
           NEW p, Nearest(S, a, n, p), NEW q, Nearest(S, Opposite(a), n, q),
           NEW L2, L2[n] = p, Relinked(L, L2, S, q, n),
           NEW e2, NewEnd(e, e2, p, n)
    PROVE  HalfChain(L2, e2, S \cup {n}, a)
  <1>1. /\ Null \notin S /\ n \in Nodes /\ n # Null /\ n \notin S
        /\ \A x \in S : Key[x] # Key[n]
    BY RbtAssumption DEF Distinct
  <1>2. \A x \in S : Before(a, x, n) \/ Before(a, n, x)
    BY <1>1, OrderIs
  <1>3. EndIs(S \cup {n}, a, e2)
    <2>1. CASE p = Null
      BY <1>1, <1>2, <2>1 DEF Nearest, EndIs, NewEnd
    <2>2. CASE p # Null
      <3>1. p \in S /\ Before(a, p, n) /\ e \in S /\ e2 = e /\ e # Null
            /\ \A z \in S \ {e} : Before(a, e, z)
        BY <1>1, <2>2 DEF Nearest, HalfChain, EndIs, NewEnd
      <3>2. Before(a, e, n)
        <4>1. p = e \/ Before(a, e, p)
          BY <3>1
        <4> QED  BY <1>1, <3>1, <4>1, OrderIs
      <3> QED  BY <3>1, <3>2 DEF EndIs
    <2> QED  BY <2>1, <2>2
  <1>4. ASSUME NEW m \in S \cup {n} PROVE Nearest(S \cup {n}, a, m, L2[m])
    <2>1. CASE m = n
      BY <1>1, <2>1, OrderIs DEF Nearest
    <2>2. CASE m # n /\ m = q
      <3>1. q \in S /\ q # Null /\ L2[m] = n /\ Before(a, n, q)
            /\ \A z \in S : Before(a, n, z) => z = q \/ Before(a, q, z)
        BY <1>1, <2>2, OrderIs, SidesAre DEF Nearest, Relinked
      <3>2. ASSUME NEW z \in S, Before(a, z, q) PROVE Before(a, z, n)
        <4> SUFFICES ASSUME Before(a, n, z) PROVE FALSE
          BY <1>2
        <4>1. z = q \/ Before(a, q, z)
          BY <3>1
        <4> QED  BY <1>1, <3>1, <3>2, <4>1, OrderIs
      <3> QED  BY <1>1, <2>2, <3>1, <3>2 DEF Nearest
    <2>3. CASE m # n /\ m # q
      <3>1. m \in S /\ L2[m] = L[m] /\ Nearest(S, a, m, L[m])
        BY <1>1, <2>3 DEF HalfChain, Relinked
      <3>2. ASSUME Before(a, n, m)
            PROVE  q # Null /\ q \in S /\ Before(a, q, m) /\ Before(a, n, q)
        <4>1. Before(Opposite(a), m, n) /\ Opposite(a) \in Sides
          BY <1>1, <3>1, <3>2, OrderIs, SidesAre
        <4>2. q # Null /\ q \in S /\ Before(Opposite(a), q, n) /\ Before(Opposite(a), m, q)
          BY <2>3, <3>1, <4>1 DEF Nearest
        <4> QED  BY <1>1, <3>1, <4>2, OrderIs
      <3>3. CASE L[m] = Null
        <4>1. ~Before(a, n, m)
          BY <3>1, <3>2, <3>3 DEF Nearest
        <4> QED  BY <3>1, <3>3, <4>1 DEF Nearest
      <3>4. CASE L[m] # Null
        <4>1. L[m] \in S /\ Before(a, L[m], m)
              /\ \A z \in S : Before(a, z, m) => z = L[m] \/ Before(a, z, L[m])
          BY <3>1, <3>4 DEF Nearest
        <4>2. ASSUME Before(a, n, m) PROVE Before(a, n, L[m])
          <5>1. q \in S /\ Before(a, n, q) /\ (q = L[m] \/ Before(a, q, L[m]))
            BY <3>2, <4>1, <4>2
          <5> QED  BY <1>1, <4>1, <5>1, OrderIs
        <4> QED  BY <3>1, <3>4, <4>1, <4>2 DEF Nearest
      <3> QED  BY <3>3, <3>4
    <2> QED  BY <2>1, <2>2, <2>3
  <1> QED
    BY <1>3, <1>4 DEF HalfChain

\* A node gone from between its neighbours, in one direction.
LEMMA HalfRemove ==
    ASSUME NEW S, S \subseteq Nodes, NEW n \in S, Distinct(S),
           NEW a \in Sides, NEW L, NEW e, HalfChain(L, e, S, a),
           NEW p, p = L[n], NEW q, Nearest(S, Opposite(a), n, q),
           NEW L2, Relinked(L, L2, S \ {n}, q, p),
           NEW e2, NewEnd(e, e2, p, q)
    PROVE  HalfChain(L2, e2, S \ {n}, a)
  <1>1. /\ Null \notin S /\ n \in Nodes /\ n # Null /\ \A x \in S : x \in Nodes
        /\ Nearest(S, a, n, p) /\ Opposite(a) \in Sides
    BY RbtAssumption, SidesAre DEF HalfChain
  <1>2. \A x, y \in S : x # y => Before(a, x, y) \/ Before(a, y, x)
    BY <1>1, OrderIs DEF Distinct
  <1>3. EndIs(S \ {n}, a, e2)
    <2>1. CASE p = Null
      <3>1. \A z \in S : ~Before(a, z, n)
        BY <1>1, <2>1 DEF Nearest
      <3>2. CASE q = Null
        <4>1. \A z \in S : ~Before(a, n, z)
          BY <1>1, <3>2, OrderIs DEF Nearest
        <4> QED  BY <1>2, <2>1, <3>1, <3>2, <4>1 DEF EndIs, NewEnd
      <3>3. CASE q # Null
        <4>1. q \in S /\ Before(a, n, q) /\ \A z \in S : Before(a, n, z) => z = q \/ Before(a, q, z)
          BY <1>1, <3>3, OrderIs DEF Nearest
        <4>2. q # n
          BY <1>1, <4>1, OrderIs
        <4> QED  BY <1>2, <2>1, <3>1, <3>3, <4>1, <4>2 DEF EndIs, NewEnd
      <3> QED  BY <3>2, <3>3
    <2>2. CASE p # Null
      <3>1. p \in S /\ Before(a, p, n) /\ e \in S /\ e2 = e /\ e # Null
            /\ \A z \in S \ {e} : Before(a, e, z)
        BY <1>1, <2>2 DEF Nearest, HalfChain, EndIs, NewEnd
      <3>2. e # n
        <4>1. p # n
          BY <1>1, <3>1, OrderIs
        <4> QED  BY <1>1, <3>1, <4>1, OrderIs
      <3> QED  BY <3>1, <3>2 DEF EndIs
    <2> QED  BY <2>1, <2>2
  <1>4. ASSUME NEW m \in S \ {n} PROVE Nearest(S \ {n}, a, m, L2[m])
    <2>0. Nearest(S, a, m, L[m]) /\ m \in S /\ m # n
      BY DEF HalfChain
    <2>1. CASE m = q
      <3>1. q \in S /\ q # Null /\ L2[m] = p /\ Before(a, n, q)
            /\ \A z \in S : Before(a, n, z) => z = q \/ Before(a, q, z)
        BY <1>1, <2>1, OrderIs DEF Nearest, Relinked
      <3>2. ASSUME NEW z \in S \ {n}, Before(a, z, q) PROVE Before(a, z, n)
        <4> SUFFICES ASSUME Before(a, n, z) PROVE FALSE
          BY <1>2
        <4>1. z = q \/ Before(a, q, z)
          BY <3>1
        <4> QED  BY <1>1, <3>1, <3>2, <4>1, OrderIs
      <3>3. CASE p = Null
        BY <1>1, <2>1, <3>1, <3>2, <3>3 DEF Nearest
      <3>4. CASE p # Null
        <4>1. p \in S \ {n} /\ Before(a, p, n)
              /\ \A z \in S : Before(a, z, n) => z = p \/ Before(a, z, p)
          BY <1>1, <3>4, OrderIs DEF Nearest
        <4>2. Before(a, p, q)
          BY <1>1, <3>1, <4>1, OrderIs
        <4> QED  BY <2>1, <3>1, <3>2, <3>4, <4>1, <4>2 DEF Nearest
      <3> QED  BY <3>3, <3>4
    <2>2. CASE m # q
      <3>1. L2[m] = L[m]
        BY <2>2 DEF Relinked
      <3>2. L[m] # n
        <4> SUFFICES ASSUME L[m] = n PROVE FALSE
          OBVIOUS
        <4>1. Before(a, n, m) /\ \A z \in S : Before(a, z, m) => z = n \/ Before(a, z, n)
          BY <1>1, <2>0 DEF Nearest
        <4>2. Before(Opposite(a), m, n)
          BY <1>1, <2>0, <4>1, OrderIs
        <4>3. q \in S /\ Before(Opposite(a), q, n) /\ Before(Opposite(a), m, q)
          BY <1>1, <2>0, <2>2, <4>2 DEF Nearest
        <4>4. Before(a, n, q) /\ Before(a, q, m)
          BY <1>1, <2>0, <4>3, OrderIs
        <4> QED  BY <1>1, <4>1, <4>3, <4>4, OrderIs
      <3> QED  BY <2>0, <3>1, <3>2 DEF Nearest
    <2> QED  BY <2>1, <2>2
  <1> QED
    BY <1>3, <1>4 DEF HalfChain

PrevIsNow(l, u, n, m) == u = [l EXCEPT !.prev[n] = m]
NextIsNow(l, u, n, m) == u = [l EXCEPT !.next[n] = m]

\* One link of the list set.
LEMMA PrevSet ==
    ASSUME NEW l \in Lists, NEW n \in Nodes, NEW m \in Ptr, NEW u, PrevIsNow(l, u, n, m)
    PROVE  /\ u \in Lists /\ u.head = l.head /\ u.tail = l.tail /\ u.next = l.next
           /\ \A x \in Nodes : u.prev[x] = IF x = n THEN m ELSE l.prev[x]
  BY DEF Lists, PrevIsNow, NextIsNow

LEMMA NextSet ==
    ASSUME NEW l \in Lists, NEW n \in Nodes, NEW m \in Ptr, NEW u, NextIsNow(l, u, n, m)
    PROVE  /\ u \in Lists /\ u.head = l.head /\ u.tail = l.tail /\ u.prev = l.prev
           /\ \A x \in Nodes : u.next[x] = IF x = n THEN m ELSE l.next[x]
  BY DEF Lists, PrevIsNow, NextIsNow

\* The list part of _rbt_insert on the left.
LEMMA ListBeforeIs ==
    ASSUME NEW l \in Lists, NEW n \in Nodes, NEW m \in Nodes, NEW p, p = l.prev[m], n # m,
           p # n, NEW u, u = ListBefore(l, n, m)
    PROVE  /\ u \in Lists /\ u.head = (IF p = Null THEN n ELSE l.head) /\ u.tail = l.tail
           /\ \A x \in Nodes : u.prev[x] = IF x = n THEN p ELSE IF x = m THEN n ELSE l.prev[x]
           /\ \A x \in Nodes : u.next[x] = IF x = n THEN m ELSE IF x = p THEN n ELSE l.next[x]
  <1> DEFINE v == [l EXCEPT !.prev[n] = p, !.next[n] = m, !.prev[m] = n]
  <1>1. p \in Ptr /\ n \in Ptr /\ m \in Ptr /\ Null \notin Nodes
    BY RbtAssumption DEF Lists, Ptr
  <1>2. u = IF p = Null THEN [v EXCEPT !.head = n] ELSE [v EXCEPT !.next[p] = n]
    BY DEF ListBefore
  <1> DEFINE v1 == [l EXCEPT !.prev[n] = p]
             v2 == [v1 EXCEPT !.next[n] = m]
  <1>6. PrevIsNow(l, v1, n, p) /\ NextIsNow(v1, v2, n, m) /\ PrevIsNow(v2, v, m, n)
    BY DEF PrevIsNow, NextIsNow
  <1> HIDE DEF v, v1, v2
  <1>3. /\ v \in Lists /\ v.head = l.head /\ v.tail = l.tail
        /\ \A x \in Nodes : v.prev[x] = IF x = n THEN p ELSE IF x = m THEN n ELSE l.prev[x]
        /\ \A x \in Nodes : v.next[x] = IF x = n THEN m ELSE l.next[x]
    <2>1. /\ v1 \in Lists /\ v1.head = l.head /\ v1.tail = l.tail /\ v1.next = l.next
          /\ \A x \in Nodes : v1.prev[x] = IF x = n THEN p ELSE l.prev[x]
      BY ONLY <1>1, <1>6, l \in Lists, n \in Nodes, PrevSet
    <2>2. /\ v2 \in Lists /\ v2.head = v1.head /\ v2.tail = v1.tail /\ v2.prev = v1.prev
          /\ \A x \in Nodes : v2.next[x] = IF x = n THEN m ELSE v1.next[x]
      BY ONLY <1>1, <1>6, <2>1, n \in Nodes, NextSet
    <2>3. /\ v \in Lists /\ v.head = v2.head /\ v.tail = v2.tail /\ v.next = v2.next
          /\ \A x \in Nodes : v.prev[x] = IF x = m THEN n ELSE v2.prev[x]
      BY ONLY <1>1, <1>6, <2>2, m \in Nodes, PrevSet
    <2> QED  BY ONLY <2>1, <2>2, <2>3, n # m
  <1>4. CASE p = Null
    BY <1>1, <1>2, <1>3, <1>4 DEF Lists
  <1>5. CASE p # Null
    <2>1. p \in Nodes /\ u = [v EXCEPT !.next[p] = n]
      BY <1>1, <1>2, <1>5 DEF Ptr
    <2> QED  BY <1>1, <1>3, <1>5, <2>1 DEF Lists
  <1> QED  BY <1>4, <1>5

\* The list part of _rbt_insert on the right.
LEMMA ListAfterIs ==
    ASSUME NEW l \in Lists, NEW n \in Nodes, NEW m \in Nodes, NEW q, q = l.next[m], n # m,
           q # n, NEW u, u = ListAfter(l, n, m)
    PROVE  /\ u \in Lists /\ u.tail = (IF q = Null THEN n ELSE l.tail) /\ u.head = l.head
           /\ \A x \in Nodes : u.next[x] = IF x = n THEN q ELSE IF x = m THEN n ELSE l.next[x]
           /\ \A x \in Nodes : u.prev[x] = IF x = n THEN m ELSE IF x = q THEN n ELSE l.prev[x]
  <1> DEFINE v == [l EXCEPT !.prev[n] = m, !.next[n] = q, !.next[m] = n]
  <1>1. q \in Ptr /\ n \in Ptr /\ m \in Ptr /\ Null \notin Nodes
    BY RbtAssumption DEF Lists, Ptr
  <1>2. u = IF q = Null THEN [v EXCEPT !.tail = n] ELSE [v EXCEPT !.prev[q] = n]
    BY DEF ListAfter
  <1> DEFINE v1 == [l EXCEPT !.prev[n] = m]
             v2 == [v1 EXCEPT !.next[n] = q]
  <1>6. PrevIsNow(l, v1, n, m) /\ NextIsNow(v1, v2, n, q) /\ NextIsNow(v2, v, m, n)
    BY DEF PrevIsNow, NextIsNow
  <1> HIDE DEF v, v1, v2
  <1>3. /\ v \in Lists /\ v.head = l.head /\ v.tail = l.tail
        /\ \A x \in Nodes : v.next[x] = IF x = n THEN q ELSE IF x = m THEN n ELSE l.next[x]
        /\ \A x \in Nodes : v.prev[x] = IF x = n THEN m ELSE l.prev[x]
    <2>1. /\ v1 \in Lists /\ v1.head = l.head /\ v1.tail = l.tail /\ v1.next = l.next
          /\ \A x \in Nodes : v1.prev[x] = IF x = n THEN m ELSE l.prev[x]
      BY ONLY <1>1, <1>6, l \in Lists, n \in Nodes, PrevSet
    <2>2. /\ v2 \in Lists /\ v2.head = v1.head /\ v2.tail = v1.tail /\ v2.prev = v1.prev
          /\ \A x \in Nodes : v2.next[x] = IF x = n THEN q ELSE v1.next[x]
      BY ONLY <1>1, <1>6, <2>1, n \in Nodes, NextSet
    <2>3. /\ v \in Lists /\ v.head = v2.head /\ v.tail = v2.tail /\ v.prev = v2.prev
          /\ \A x \in Nodes : v.next[x] = IF x = m THEN n ELSE v2.next[x]
      BY ONLY <1>1, <1>6, <2>2, m \in Nodes, NextSet
    <2> QED  BY ONLY <2>1, <2>2, <2>3, n # m
  <1>4. CASE q = Null
    BY <1>1, <1>2, <1>3, <1>4 DEF Lists
  <1>5. CASE q # Null
    <2>1. q \in Nodes /\ u = [v EXCEPT !.prev[q] = n]
      BY <1>1, <1>2, <1>5 DEF Ptr
    <2> QED  BY <1>1, <1>3, <1>5, <2>1 DEF Lists
  <1> QED  BY <1>4, <1>5

\* _rbt_remove_list.
LEMMA RemovedFromListIs ==
    ASSUME NEW l \in Lists, NEW n \in Nodes, NEW p, p = l.prev[n], NEW q, q = l.next[n],
           p # n, q # n, NEW u, u = RemovedFromList(l, n)
    PROVE  /\ u \in Lists /\ u.head = (IF p = Null THEN q ELSE l.head)
           /\ u.tail = (IF q = Null THEN p ELSE l.tail)
           /\ \A x \in Nodes : u.prev[x] = IF x = n THEN Null ELSE IF x = q THEN p ELSE l.prev[x]
           /\ \A x \in Nodes : u.next[x] = IF x = n THEN Null ELSE IF x = p THEN q ELSE l.next[x]
  <1> DEFINE v == IF q = Null THEN [l EXCEPT !.tail = p] ELSE [l EXCEPT !.prev[q] = p]
             w == IF p = Null THEN [v EXCEPT !.head = q] ELSE [v EXCEPT !.next[p] = q]
  <1>1. p \in Ptr /\ q \in Ptr /\ Null \in Ptr /\ Null \notin Nodes
        /\ (p # Null => p \in Nodes) /\ (q # Null => q \in Nodes)
    BY RbtAssumption DEF Lists, Ptr
  <1>2. u = [w EXCEPT !.prev[n] = Null, !.next[n] = Null]
    BY DEF RemovedFromList
  <1>3. /\ v \in Lists /\ v.head = l.head /\ v.tail = (IF q = Null THEN p ELSE l.tail)
        /\ v.next = l.next
        /\ \A x \in Nodes : v.prev[x] = IF x = q THEN p ELSE l.prev[x]
    <2>1. CASE q = Null
      BY <1>1, <2>1 DEF Lists
    <2>2. CASE q # Null
      BY <1>1, <2>2 DEF Lists
    <2> QED  BY <2>1, <2>2
  <1>4. w = IF p = Null THEN [v EXCEPT !.head = q] ELSE [v EXCEPT !.next[p] = q]
    OBVIOUS
  <1> HIDE DEF v, w
  <1>5. /\ w \in Lists /\ w.head = (IF p = Null THEN q ELSE l.head) /\ w.tail = v.tail
        /\ w.prev = v.prev
        /\ \A x \in Nodes : w.next[x] = IF x = p THEN q ELSE l.next[x]
    <2>1. CASE p = Null
      BY <1>1, <1>3, <1>4, <2>1 DEF Lists
    <2>2. CASE p # Null
      BY <1>1, <1>3, <1>4, <2>2 DEF Lists
    <2> QED  BY <2>1, <2>2
  <1>6. /\ u \in Lists /\ u.head = w.head /\ u.tail = w.tail
        /\ \A x \in Nodes : u.prev[x] = IF x = n THEN Null ELSE w.prev[x]
        /\ \A x \in Nodes : u.next[x] = IF x = n THEN Null ELSE w.next[x]
    <2> DEFINE w1 == [w EXCEPT !.prev[n] = Null]
    <2>1. PrevIsNow(w, w1, n, Null) /\ NextIsNow(w1, u, n, Null)
      BY <1>2 DEF PrevIsNow, NextIsNow
    <2> HIDE DEF w1
    <2>2. /\ w1 \in Lists /\ w1.head = w.head /\ w1.tail = w.tail /\ w1.next = w.next
          /\ \A x \in Nodes : w1.prev[x] = IF x = n THEN Null ELSE w.prev[x]
      BY ONLY <1>1, <1>5, <2>1, n \in Nodes, PrevSet
    <2>3. /\ u \in Lists /\ u.head = w1.head /\ u.tail = w1.tail /\ u.prev = w1.prev
          /\ \A x \in Nodes : u.next[x] = IF x = n THEN Null ELSE w1.next[x]
      BY ONLY <1>1, <2>1, <2>2, n \in Nodes, NextSet
    <2> QED  BY ONLY <2>2, <2>3
  <1> QED
    BY <1>1, <1>3, <1>5, <1>6

\* The node below which a new one hangs is its neighbour in the list.
LEMMA ChainInsert ==
    ASSUME NEW l, NEW S, Chain(l, S), NEW n \in Nodes \ S, NEW m \in S,
           \A z \in S \ {m} : Beyond(z, Key[n], m), Key[m] # Key[n], NEW u,
           u = IF Key[n] < Key[m] THEN ListBefore(l, n, m) ELSE ListAfter(l, n, m)
    PROVE  Chain(u, S \cup {n})
  <1>1. /\ l \in Lists /\ S \subseteq Nodes /\ Distinct(S)
        /\ HalfChain(l.prev, l.head, S, "left") /\ HalfChain(l.next, l.tail, S, "right")
        /\ \A x \in Nodes \ S : l.prev[x] = Null /\ l.next[x] = Null
        /\ m \in Nodes /\ n # m /\ Null \notin S /\ Null \notin Nodes
        /\ \A x \in Nodes : Key[x] \in Nat
    BY RbtAssumption DEF Chain
  <1>2. "left" \in Sides /\ "right" \in Sides /\ Opposite("left") = "right"
        /\ Opposite("right") = "left"
    BY DEF Sides, Opposite
  <1>3. Distinct(S \cup {n})
    BY <1>1 DEF Distinct, Beyond
  <1>4. Nearest(S, "left", m, l.prev[m]) /\ Nearest(S, "right", m, l.next[m])
    BY <1>1 DEF HalfChain
  <1>5. CASE Key[n] < Key[m]
    <2> DEFINE p == l.prev[m]
    <2>1. Nearest(S, "left", n, p) /\ Nearest(S, "right", n, m)
      BY <1>1, <1>4, <1>5 DEF Nearest, Before, Beyond
    <2>2. p # n
      BY <1>1, <2>1, RbtAssumption DEF Nearest
    <2>3. u = ListBefore(l, n, m)
      BY <1>5
    <2>4. /\ u \in Lists /\ u.head = (IF p = Null THEN n ELSE l.head) /\ u.tail = l.tail
          /\ \A x \in Nodes : u.prev[x] = IF x = n THEN p ELSE IF x = m THEN n ELSE l.prev[x]
          /\ \A x \in Nodes : u.next[x] = IF x = n THEN m ELSE IF x = p THEN n ELSE l.next[x]
      BY <1>1, <2>2, <2>3, ListBeforeIs
    <2>9. /\ u.prev[n] = p /\ Relinked(l.prev, u.prev, S, m, n)
          /\ u.next[n] = m /\ Relinked(l.next, u.next, S, p, n)
          /\ NewEnd(l.head, u.head, p, n) /\ NewEnd(l.tail, u.tail, m, n)
      BY <1>1, <2>4 DEF Relinked, NewEnd
    <2> HIDE DEF p
    <2>5. HalfChain(u.prev, u.head, S \cup {n}, "left")
      BY ONLY <1>1, <1>2, <1>3, <2>1, <2>9, n \in Nodes \ S, HalfInsert
    <2>7. HalfChain(u.next, u.tail, S \cup {n}, "right")
      BY ONLY <1>1, <1>2, <1>3, <2>1, <2>9, n \in Nodes \ S, HalfInsert
    <2>8. \A x \in Nodes \ (S \cup {n}) : u.prev[x] = Null /\ u.next[x] = Null
      BY <1>1, <2>1, <2>4, RbtAssumption DEF Nearest
    <2> QED  BY <1>1, <1>3, <2>4, <2>5, <2>7, <2>8 DEF Chain
  <1>6. CASE ~(Key[n] < Key[m])
    <2> DEFINE q == l.next[m]
    <2>1. Nearest(S, "right", n, q) /\ Nearest(S, "left", n, m)
      BY <1>1, <1>4, <1>6 DEF Nearest, Before, Beyond
    <2>2. q # n
      BY <1>1, <2>1, RbtAssumption DEF Nearest
    <2>3. u = ListAfter(l, n, m)
      BY <1>6
    <2>4. /\ u \in Lists /\ u.tail = (IF q = Null THEN n ELSE l.tail) /\ u.head = l.head
          /\ \A x \in Nodes : u.next[x] = IF x = n THEN q ELSE IF x = m THEN n ELSE l.next[x]
          /\ \A x \in Nodes : u.prev[x] = IF x = n THEN m ELSE IF x = q THEN n ELSE l.prev[x]
      BY <1>1, <2>2, <2>3, ListAfterIs
    <2>9. /\ u.next[n] = q /\ Relinked(l.next, u.next, S, m, n)
          /\ u.prev[n] = m /\ Relinked(l.prev, u.prev, S, q, n)
          /\ NewEnd(l.tail, u.tail, q, n) /\ NewEnd(l.head, u.head, m, n)
      BY <1>1, <2>4 DEF Relinked, NewEnd
    <2> HIDE DEF q
    <2>5. HalfChain(u.next, u.tail, S \cup {n}, "right")
      BY ONLY <1>1, <1>2, <1>3, <2>1, <2>9, n \in Nodes \ S, HalfInsert
    <2>7. HalfChain(u.prev, u.head, S \cup {n}, "left")
      BY ONLY <1>1, <1>2, <1>3, <2>1, <2>9, n \in Nodes \ S, HalfInsert
    <2>8. \A x \in Nodes \ (S \cup {n}) : u.prev[x] = Null /\ u.next[x] = Null
      BY <1>1, <2>1, <2>4, RbtAssumption DEF Nearest
    <2> QED  BY <1>1, <1>3, <2>4, <2>5, <2>7, <2>8 DEF Chain
  <1> QED  BY <1>5, <1>6

\* The first node is both ends of the list.
LEMMA ChainFirst ==
    ASSUME NEW l, Chain(l, {}), NEW n \in Nodes, NEW u, u = [l EXCEPT !.head = n, !.tail = n]
    PROVE  Chain(u, {n})
  <1>1. /\ l \in Lists /\ \A x \in Nodes : l.prev[x] = Null /\ l.next[x] = Null
    BY DEF Chain
  <1>2. u \in Lists /\ u.head = n /\ u.tail = n /\ u.prev = l.prev /\ u.next = l.next
    BY <1>1 DEF Lists, Ptr
  <1>3. n # Null /\ n \in Nodes /\ "left" \in Sides /\ "right" \in Sides
    BY RbtAssumption DEF Sides
  <1>4. EndIs({n}, "left", n) /\ EndIs({n}, "right", n)
    BY <1>3 DEF EndIs
  <1>5. Nearest({n}, "left", n, Null) /\ Nearest({n}, "right", n, Null)
    BY <1>3, OrderIs DEF Nearest
  <1> QED
    BY <1>1, <1>2, <1>4, <1>5 DEF Chain, HalfChain, Distinct

\* The list after a removal.
LEMMA ChainRemove ==
    ASSUME NEW l, NEW S, Chain(l, S), NEW n \in S, NEW u, u = RemovedFromList(l, n)
    PROVE  Chain(u, S \ {n})
  <1> DEFINE p == l.prev[n]
             q == l.next[n]
  <1>1. /\ l \in Lists /\ S \subseteq Nodes /\ Distinct(S) /\ n \in Nodes
        /\ HalfChain(l.prev, l.head, S, "left") /\ HalfChain(l.next, l.tail, S, "right")
        /\ \A x \in Nodes \ S : l.prev[x] = Null /\ l.next[x] = Null
        /\ Null \notin S /\ Null \notin Nodes
    BY RbtAssumption DEF Chain
  <1>2. "left" \in Sides /\ "right" \in Sides /\ Opposite("left") = "right"
        /\ Opposite("right") = "left"
    BY DEF Sides, Opposite
  <1>3. Nearest(S, "left", n, p) /\ Nearest(S, "right", n, q)
    BY <1>1 DEF HalfChain
  <1>4. p # n /\ q # n /\ p \in S \cup {Null} /\ q \in S \cup {Null}
    BY <1>1, <1>2, <1>3, OrderIs DEF Nearest
  <1>5. /\ u \in Lists /\ u.head = (IF p = Null THEN q ELSE l.head)
        /\ u.tail = (IF q = Null THEN p ELSE l.tail)
        /\ \A x \in Nodes : u.prev[x] = IF x = n THEN Null ELSE IF x = q THEN p ELSE l.prev[x]
        /\ \A x \in Nodes : u.next[x] = IF x = n THEN Null ELSE IF x = p THEN q ELSE l.next[x]
    BY <1>1, <1>4, RemovedFromListIs
  <1>10. p = l.prev[n] /\ q = l.next[n]
    OBVIOUS
  <1>11. Relinked(l.prev, u.prev, S \ {n}, q, p) /\ Relinked(l.next, u.next, S \ {n}, p, q)
         /\ NewEnd(l.head, u.head, p, q) /\ NewEnd(l.tail, u.tail, q, p)
    BY <1>1, <1>5 DEF Relinked, NewEnd
  <1> HIDE DEF p, q
  <1>6. HalfChain(u.prev, u.head, S \ {n}, "left")
    BY ONLY <1>1, <1>2, <1>3, <1>10, <1>11, n \in S, HalfRemove
  <1>7. HalfChain(u.next, u.tail, S \ {n}, "right")
    BY ONLY <1>1, <1>2, <1>3, <1>10, <1>11, n \in S, HalfRemove
  <1>8. \A x \in Nodes \ (S \ {n}) : u.prev[x] = Null /\ u.next[x] = Null
    BY <1>1, <1>4, <1>5
  <1>9. Distinct(S \ {n})
    BY <1>1 DEF Distinct
  <1> QED
    BY <1>1, <1>5, <1>6, <1>7, <1>8, <1>9 DEF Chain

-----------------------------------------------------------------------------
(* Sequences in the order of the keys *)

\* w is the sequence of the nodes of X by their keys.
Sorted(w, X) ==
    /\ w \in Seq(X) /\ \A x \in X : \E i \in 1..Len(w) : w[i] = x
    /\ \A i, j \in 1..Len(w) : i < j => Key[w[i]] < Key[w[j]]

\* Such a sequence has each node once, in the order of the keys.
LEMMA SortedIs ==
    ASSUME NEW X, X \subseteq Nodes, NEW w, Sorted(w, X)
    PROVE  /\ Len(w) \in Nat /\ DOMAIN w = 1..Len(w) /\ w \in Seq(Nodes)
           /\ \A i \in 1..Len(w) : w[i] \in X /\ w[i] \in Nodes /\ Key[w[i]] \in Nat
           /\ \A i, j \in 1..Len(w) : w[i] = w[j] => i = j
           /\ \A i, j \in 1..Len(w) : Key[w[i]] < Key[w[j]] => i < j
           /\ IsFiniteSet(X) /\ Len(w) = Cardinality(X)
  <1>1. w \in Seq(X) /\ Len(w) \in Nat /\ DOMAIN w = 1..Len(w) /\ w \in [1..Len(w) -> X]
    BY LenProperties DEF Sorted
  <1>2. \A i \in 1..Len(w) : w[i] \in X /\ w[i] \in Nodes /\ Key[w[i]] \in Nat
    BY <1>1, RbtAssumption
  <1>3. \A i, j \in 1..Len(w) : i < j => Key[w[i]] < Key[w[j]]
    BY DEF Sorted
  <1>4. \A i, j \in 1..Len(w) : w[i] = w[j] => i = j
    <2> SUFFICES ASSUME NEW i \in 1..Len(w), NEW j \in 1..Len(w), w[i] = w[j], i # j
                 PROVE  FALSE
      OBVIOUS
    <2>1. i < j \/ j < i
      BY <1>1
    <2> QED  BY <1>2, <1>3, <2>1
  <1>5. \A i, j \in 1..Len(w) : Key[w[i]] < Key[w[j]] => i < j
    <2> SUFFICES ASSUME NEW i \in 1..Len(w), NEW j \in 1..Len(w), Key[w[i]] < Key[w[j]],
                        ~(i < j)
                 PROVE  FALSE
      OBVIOUS
    <2>1. i = j \/ j < i
      BY <1>1
    <2> QED  BY <1>2, <1>3, <2>1
  <1>6. ExistsBijection(1..Len(w), X)
    <2>1. w \in Injection(1..Len(w), X)
      BY <1>1, <1>4 DEF Injection, IsInjective
    <2>2. w \in Surjection(1..Len(w), X)
      BY <1>1 DEF Surjection, Sorted
    <2> QED  BY <2>1, <2>2 DEF ExistsBijection, Bijection
  <1>7. IsFiniteSet(1..Len(w)) /\ Cardinality(1..Len(w)) = Len(w)
    BY <1>1, FS_Interval
  <1>8. IsFiniteSet(X) /\ Cardinality(X) = Len(w)
    BY <1>6, <1>7, FS_Bijection
  <1>9. w \in Seq(Nodes)
    BY <1>1, SeqMonotonic
  <1> QED  BY <1>1, <1>2, <1>4, <1>5, <1>8, <1>9

\* There is one such sequence.
LEMMA SortedUnique ==
    ASSUME NEW X, X \subseteq Nodes, NEW v, NEW w, Sorted(v, X), Sorted(w, X)
    PROVE  v = w
  <1> DEFINE N == Len(v)
  <1>1. /\ N \in Nat /\ N = Len(w) /\ v \in Seq(Nodes) /\ w \in Seq(Nodes)
        /\ \A i \in 1..N : /\ v[i] \in X /\ w[i] \in X
                           /\ Key[v[i]] \in Nat /\ Key[w[i]] \in Nat
    BY SortedIs
  <1>2. \A x \in X : (\E i \in 1..N : v[i] = x) /\ \E i \in 1..N : w[i] = x
    BY <1>1 DEF Sorted
  <1>3. \A i, j \in 1..N : i < j => Key[v[i]] < Key[v[j]] /\ Key[w[i]] < Key[w[j]]
    BY <1>1 DEF Sorted
  <1> HIDE DEF N
  <1>4. \A i \in 1..N : v[i] = w[i]
    <2> DEFINE B == {i \in 1..N : v[i] # w[i]}
    <2> SUFFICES ASSUME B # {} PROVE FALSE
      OBVIOUS
    <2>1. PICK i \in B : \A j \in B : [b \in B |-> b][i] <= [b \in B |-> b][j]
      <3>1. [b \in B |-> b] \in [B -> Nat] /\ B # {}
        BY <1>1
      <3> QED  BY ONLY <3>1, Least
    <2>2. i \in 1..N /\ v[i] # w[i] /\ \A j \in 1..N : j < i => v[j] = w[j]
      BY <1>1, <2>1
    <2>3. PICK j \in 1..N : v[j] = w[i]
      BY <1>1, <1>2, <2>2
    <2>4. PICK k \in 1..N : w[k] = v[i]
      BY <1>1, <1>2, <2>2
    <2>5. i < j
      <3>1. CASE j < i
        <4>1. w[j] = w[i] /\ Key[w[j]] < Key[w[i]]
          BY <1>3, <2>2, <2>3, <3>1
        <4> QED  BY <1>1, <2>2, <4>1
      <3>2. CASE j = i
        BY <2>2, <2>3, <3>2
      <3> QED  BY <1>1, <2>2, <3>1, <3>2
    <2>6. i < k
      <3>1. CASE k < i
        <4>1. v[k] = v[i] /\ Key[v[k]] < Key[v[i]]
          BY <1>3, <2>2, <2>4, <3>1
        <4> QED  BY <1>1, <2>2, <4>1
      <3>2. CASE k = i
        BY <2>2, <2>4, <3>2
      <3> QED  BY <1>1, <2>2, <3>1, <3>2
    <2>7. Key[v[i]] < Key[w[i]] /\ Key[w[i]] < Key[v[i]]
      BY <1>3, <2>2, <2>3, <2>4, <2>5, <2>6
    <2> QED  BY <1>1, <2>2, <2>7
  <1> QED
    BY <1>1, <1>4, SeqEqual DEF N

\* Two sequences and a node between them.
LEMMA Around3 ==
    ASSUME NEW a \in Seq(Nodes), NEW b \in Seq(Nodes), NEW n \in Nodes, NEW w, w = a \o <<n>> \o b
    PROVE  /\ w \in Seq(Nodes) /\ Len(w) = Len(a) + 1 + Len(b) /\ Len(a) \in Nat /\ Len(b) \in Nat
           /\ \A i \in 1..Len(w) : w[i] = IF i <= Len(a) THEN a[i] ELSE IF i = Len(a) + 1 THEN n
                                          ELSE b[i - Len(a) - 1]
  OBVIOUS

\* Two sorted sequences and a node between them in the order.
LEMMA Joined ==
    ASSUME NEW A, NEW B, A \subseteq Nodes, B \subseteq Nodes, NEW n \in Nodes,
           NEW a, Sorted(a, A), NEW b, Sorted(b, B),
           \A x \in A : Key[x] < Key[n], \A x \in B : Key[n] < Key[x],
           NEW X, X = A \cup {n} \cup B
    PROVE  Sorted(a \o <<n>> \o b, X)
  <1> DEFINE w == a \o <<n>> \o b
  <1>1. /\ a \in Seq(Nodes) /\ b \in Seq(Nodes) /\ Len(a) \in Nat /\ Len(b) \in Nat
        /\ \A i \in 1..Len(a) : a[i] \in A
        /\ \A i \in 1..Len(b) : b[i] \in B
        /\ \A x \in Nodes : Key[x] \in Nat
    BY SortedIs, RbtAssumption
  <1>2. /\ w \in Seq(Nodes) /\ Len(w) = Len(a) + 1 + Len(b)
        /\ \A i \in 1..Len(w) : w[i] = IF i <= Len(a) THEN a[i] ELSE IF i = Len(a) + 1 THEN n
                                          ELSE b[i - Len(a) - 1]
    BY <1>1, Around3
  <1>3. /\ \A x \in A : \E i \in 1..Len(a) : a[i] = x
        /\ \A x \in B : \E i \in 1..Len(b) : b[i] = x
        /\ \A i, j \in 1..Len(a) : i < j => Key[a[i]] < Key[a[j]]
        /\ \A i, j \in 1..Len(b) : i < j => Key[b[i]] < Key[b[j]]
    BY DEF Sorted
  <1> HIDE DEF w
  <1>4. ASSUME NEW i \in 1..Len(w)
        PROVE  \/ i \in 1..Len(a) /\ w[i] = a[i]
               \/ i = Len(a) + 1 /\ w[i] = n
               \/ i - Len(a) - 1 \in 1..Len(b) /\ w[i] = b[i - Len(a) - 1]
    BY <1>1, <1>2
  <1>5. w \in Seq(X)
    <2>1. \A i \in 1..Len(w) : w[i] \in X
      <3> SUFFICES ASSUME NEW i \in 1..Len(w) PROVE w[i] \in X
        OBVIOUS
      <3> QED  BY <1>1, <1>4
    <2>2. w \in [1..Len(w) -> X] /\ Len(w) \in Nat
      BY <1>2, <2>1, LenProperties
    <2> QED  BY <2>2
  <1>6. ASSUME NEW x \in X PROVE \E i \in 1..Len(w) : w[i] = x
    <2>1. CASE x \in A
      <3>1. PICK i \in 1..Len(a) : a[i] = x
        BY <1>3, <2>1
      <3>2. i \in 1..Len(w) /\ w[i] = x
        BY <1>1, <1>2, <3>1
      <3> QED  BY <3>2
    <2>2. CASE x = n
      <3>1. Len(a) + 1 \in 1..Len(w) /\ w[Len(a) + 1] = x
        BY <1>1, <1>2, <2>2
      <3> QED  BY <3>1
    <2>3. CASE x \in B
      <3>1. PICK i \in 1..Len(b) : b[i] = x
        BY <1>3, <2>3
      <3>2. PICK j \in 1..Len(w) : j = Len(a) + 1 + i
        BY <1>1, <1>2
      <3>3. ~(j <= Len(a)) /\ j # Len(a) + 1 /\ j - Len(a) - 1 = i
        BY <1>1, <3>2
      <3>4. w[j] = x
        BY <1>2, <3>1, <3>3
      <3> QED  BY <3>4
    <2> QED  BY <2>1, <2>2, <2>3
  <1>7. ASSUME NEW i \in 1..Len(w), NEW j \in 1..Len(w), i < j PROVE Key[w[i]] < Key[w[j]]
    <2> DEFINE ib == i - Len(a) - 1
               jb == j - Len(a) - 1
    <2>1. CASE j \in 1..Len(a) /\ w[j] = a[j]
      <3>1. i \in 1..Len(a) /\ w[i] = a[i]
        BY <1>1, <1>2, <1>7, <2>1
      <3> QED  BY <1>3, <1>7, <2>1, <3>1
    <2>2. CASE j = Len(a) + 1 /\ w[j] = n
      <3>1. i \in 1..Len(a) /\ w[i] = a[i]
        BY <1>1, <1>2, <1>7, <2>2
      <3> QED  BY <1>1, <2>2, <3>1
    <2>3. CASE jb \in 1..Len(b) /\ w[j] = b[jb]
      <3>1. w[j] \in B /\ Key[n] < Key[w[j]] /\ Key[w[j]] \in Nat /\ Key[n] \in Nat
        BY <1>1, <2>3
      <3>2. CASE i \in 1..Len(a) /\ w[i] = a[i]
        <4>1. Key[w[i]] < Key[n] /\ Key[w[i]] \in Nat
          BY <1>1, <3>2
        <4> QED  BY <3>1, <4>1
      <3>3. CASE w[i] = n
        BY <3>1, <3>3
      <3>4. CASE ib \in 1..Len(b) /\ w[i] = b[ib]
        <4>1. ib < jb
          BY <1>1, <1>7
        <4> QED  BY <1>3, <2>3, <3>4, <4>1
      <3> QED  BY <1>4, <3>2, <3>3, <3>4
    <2> QED  BY <1>4, <2>1, <2>2, <2>3
  <1>8. Sorted(w, X)
    BY <1>5, <1>6, <1>7 DEF Sorted
  <1> QED  BY <1>8 DEF w

\* The sequence of no node, and of one.
LEMMA SortedNone ==
    /\ Sorted(<<>>, {})
    /\ \A w : Sorted(w, {}) => w = <<>>
  <1>1. Sorted(<<>>, {})
    BY DEF Sorted
  <1> QED  BY <1>1, SortedUnique

LEMMA SortedOne ==
    ASSUME NEW n \in Nodes
    PROVE  Sorted(<<n>>, {n})
  BY DEF Sorted

-----------------------------------------------------------------------------
(* The walks through the tree and the list *)

InOrderFcn(t, f) ==
    f = [n \in Ptr |-> IF n = Null THEN <<>> ELSE f[t.left[n]] \o <<n>> \o f[t.right[n]]]

WalkFcn(l, f) == f = [n \in Ptr |-> IF n = Null THEN <<>> ELSE <<n>> \o f[l.next[n]]]

\* What the in-order walk makes at one node.
LEMMA InOrderSorts ==
    ASSUME NEW t, NEW S, NEW D, Shape(t, S, D), NEW m \in S, NEW a, NEW b,
           Sorted(a, D[t.left[m]]), Sorted(b, D[t.right[m]])
    PROVE  Sorted(a \o <<m>> \o b, D[m])
  <1>1. /\ Joint(t, S, D, m) /\ t \in Trees /\ S \subseteq Nodes /\ m \in Nodes
        /\ D \in [Ptr -> SUBSET S] /\ "left" \in Sides /\ "right" \in Sides
    BY DEF Shape, Sides
  <1>2. t.left = t["left"] /\ t.right = t["right"]
    BY <1>1, LinksAre
  <1> DEFINE A == D[t.left[m]]
             B == D[t.right[m]]
  <1>3. /\ A \subseteq Nodes /\ B \subseteq Nodes
        /\ \A x \in A : Key[x] < Key[m]
        /\ \A x \in B : Key[m] < Key[x]
        /\ D[m] = A \cup {m} \cup B
    <2>1. t["left"][m] \in Ptr /\ t["right"][m] \in Ptr
      BY <1>1 DEF Joint, Ptr
    <2>2. (\A x \in A : Before("left", x, m)) /\ \A x \in B : Before("right", x, m)
      BY <1>1, <1>2 DEF Joint
    <2>3. A \subseteq D[m] /\ B \subseteq D[m] /\ m \in D[m]
      BY <1>1, <1>2 DEF Joint
    <2>4. ASSUME NEW x \in D[m] PROVE x \in A \cup {m} \cup B
      <3>1. x = m \/ \E s \in Sides : x \in D[t[s][m]]
        BY <1>1 DEF Joint
      <3> QED  BY <1>2, <3>1 DEF Sides
    <2> QED  BY <1>1, <1>2, <2>1, <2>2, <2>3, <2>4 DEF Before
  <1> HIDE DEF A, B
  <1>4. Sorted(a, A) /\ Sorted(b, B)
    BY DEF A, B
  <1> QED  BY ONLY <1>1, <1>3, <1>4, Joined

\* Every set of nodes below one has its sequence.
LEMMA HasSequence ==
    ASSUME NEW t, NEW S, NEW D, Shape(t, S, D)
    PROVE  \A m \in S \cup {Null} : \E w : Sorted(w, D[m])
  <1> DEFINE G == {m \in S : \E w : Sorted(w, D[m])}
  <1>1. D[Null] = {} /\ \E w : Sorted(w, D[Null])
    <2>1. D[Null] = {}
      BY ShapeTypes
    <2>2. Sorted(<<>>, D[Null])
      BY <2>1, SortedNone
    <2> QED  BY <2>1, <2>2
  <1>2. ASSUME NEW m \in S, \A a \in Sides : t[a][m] \in G \cup {Null} PROVE m \in G
    <2>1. t.left[m] \in G \cup {Null} /\ t.right[m] \in G \cup {Null}
      BY <1>2, LinksAre, ShapeTypes DEF Sides
    <2>2. PICK a : Sorted(a, D[t.left[m]])
      BY <1>1, <2>1
    <2>3. PICK b : Sorted(b, D[t.right[m]])
      BY <1>1, <2>1
    <2>4. Sorted(a \o <<m>> \o b, D[m])
      BY <2>2, <2>3, InOrderSorts
    <2> QED  BY <2>4
  <1> HIDE DEF G
  <1>3. S \subseteq G
    BY <1>2, FromTheLeaves
  <1> QED  BY <1>1, <1>3 DEF G

\* The walk has a value at every node, those outside included.
LEMMA SequencesFit ==
    ASSUME NEW t, NEW S, NEW D, Shape(t, S, D), Loose(t, S)
    PROVE  \E f : InOrderFcn(t, f) /\ \A n \in Ptr : f[n] \in Seq(Nodes)
  <1> DEFINE f == [n \in Ptr |-> IF n \in S THEN CHOOSE w : Sorted(w, D[n])
                                 ELSE IF n = Null THEN <<>> ELSE <<n>>]
  <1>1. /\ t \in Trees /\ S \subseteq Nodes /\ Null \notin S /\ S \subseteq Ptr /\ Null \in Ptr
        /\ D[Null] = {} /\ \A m \in S : D[m] \subseteq Nodes
        /\ t.left = t["left"] /\ t.right = t["right"] /\ "left" \in Sides /\ "right" \in Sides
    <2>1. t \in Trees /\ S \subseteq Nodes /\ Null \notin S /\ S \subseteq Ptr /\ D[Null] = {}
          /\ \A m \in S : D[m] \subseteq Nodes
      BY ShapeTypes
    <2> QED  BY <2>1, LinksAre DEF Sides, Ptr
  <1>2. ASSUME NEW m \in S PROVE Sorted(f[m], D[m])
    <2>1. \E w : Sorted(w, D[m])
      BY HasSequence
    <2>2. f[m] = CHOOSE w : Sorted(w, D[m])
      BY <1>1
    <2> QED  BY <2>1, <2>2
  <1>3. /\ f[Null] = <<>> /\ Sorted(f[Null], D[Null])
        /\ \A n \in Nodes \ S : f[n] = <<n>>
    BY <1>1, SortedNone, RbtAssumption DEF Ptr
  <1>4. \A n \in Ptr : f[n] \in Seq(Nodes)
    <2> SUFFICES ASSUME NEW n \in Ptr PROVE f[n] \in Seq(Nodes)
      OBVIOUS
    <2>1. CASE n \in S
      <3>1. Sorted(f[n], D[n]) /\ D[n] \subseteq Nodes
        BY <1>1, <1>2, <2>1
      <3> HIDE DEF f
      <3> QED  BY <3>1, SortedIs
    <2>2. CASE n = Null
      <3> HIDE DEF f
      <3>1. f[n] = <<>> /\ <<>> \in Seq(Nodes)
        BY <1>3, <2>2
      <3> QED  BY <3>1
    <2>3. CASE n \in Nodes \ S
      <3> HIDE DEF f
      <3>1. f[n] = <<n>>
        BY <1>3, <2>3
      <3>2. <<n>> \in Seq(Nodes)
        BY <2>3
      <3> QED  BY <3>1, <3>2
    <2> QED  BY <2>1, <2>2, <2>3 DEF Ptr
  <1>5. f = [n \in Ptr |-> f[n]]
    OBVIOUS
  <1> HIDE DEF f
  <1>6. ASSUME NEW n \in Ptr
        PROVE  f[n] = IF n = Null THEN <<>> ELSE f[t.left[n]] \o <<n>> \o f[t.right[n]]
    <2>1. CASE n = Null
      BY <1>3, <2>1
    <2>2. CASE n \in S
      <3>1. t.left[n] \in S \cup {Null} /\ t.right[n] \in S \cup {Null}
        BY <1>1, <2>2 DEF Shape, Joint
      <3>2. Sorted(f[t.left[n]], D[t.left[n]]) /\ Sorted(f[t.right[n]], D[t.right[n]])
        BY <1>2, <1>3, <3>1
      <3>3. Sorted(f[t.left[n]] \o <<n>> \o f[t.right[n]], D[n])
        BY <2>2, <3>2, InOrderSorts
      <3>4. f[n] = f[t.left[n]] \o <<n>> \o f[t.right[n]]
        BY <1>1, <1>2, <2>2, <3>3, SortedUnique
      <3> QED  BY <1>1, <2>2, <3>4
    <2>3. CASE n \in Nodes \ S
      <3>1. t.left[n] = Null /\ t.right[n] = Null /\ n # Null
        BY <1>1, <2>3, RbtAssumption DEF Loose, Bare
      <3>2. f[n] = <<n>>
        BY <1>3, <2>3
      <3>3. <<>> \o <<n>> \o <<>> = <<n>>
        BY <2>3
      <3> QED  BY <1>3, <3>1, <3>2, <3>3
    <2> QED  BY <2>1, <2>2, <2>3 DEF Ptr
  <1>7. InOrderFcn(t, f)
    <2> DEFINE h == [n \in Ptr |-> IF n = Null THEN <<>>
                                   ELSE f[t.left[n]] \o <<n>> \o f[t.right[n]]]
    <2>1. \A n \in Ptr : f[n] = h[n]
      BY <1>6
    <2>2. f = h
      <3> HIDE DEF h
      <3>1. h = [n \in Ptr |-> h[n]]
        BY DEF h
      <3> QED  BY <1>5, <2>1, <3>1
    <2> QED  BY <2>2 DEF InOrderFcn
  <1> QED  BY <1>4, <1>7

\* The in-order walk of the tree is the sequence of its nodes.
LEMMA InOrderIs ==
    ASSUME NEW t, NEW S, NEW D, Shape(t, S, D), Loose(t, S)
    PROVE  Sorted(InOrder(t), S)
  <1> DEFINE g == CHOOSE f : InOrderFcn(t, f)
  <1>1. InOrder(t) = g[t.root]
    BY DEF InOrder, InOrderFcn
  <1>2. InOrderFcn(t, g)
    BY SequencesFit, Zenon
  <1> HIDE DEF g
  <1>3. /\ t \in Trees /\ S \subseteq Nodes /\ Null \notin S /\ S \subseteq Ptr /\ Null \in Ptr
        /\ D[Null] = {} /\ "left" \in Sides /\ "right" \in Sides
    BY ShapeTypes DEF Ptr, Sides
  <1>4. g[Null] = <<>> /\ \A n \in S : g[n] = g[t.left[n]] \o <<n>> \o g[t.right[n]]
    BY <1>2, <1>3 DEF InOrderFcn
  <1> DEFINE G == {m \in S : Sorted(g[m], D[m])}
  <1>5. ASSUME NEW m \in S, \A a \in Sides : t[a][m] \in G \cup {Null} PROVE m \in G
    <2>1. t.left[m] \in G \cup {Null} /\ t.right[m] \in G \cup {Null}
      BY <1>3, <1>5, LinksAre
    <2>2. Sorted(g[t.left[m]], D[t.left[m]]) /\ Sorted(g[t.right[m]], D[t.right[m]])
      BY <1>3, <1>4, <2>1, SortedNone
    <2>3. Sorted(g[m], D[m])
      <3>1. Sorted(g[t.left[m]] \o <<m>> \o g[t.right[m]], D[m])
        BY <2>2, InOrderSorts
      <3> QED  BY <1>4, <3>1
    <2> QED  BY <2>3
  <1> HIDE DEF G
  <1>6. S \subseteq G
    BY <1>5, FromTheLeaves
  <1>7. t.root \in S \cup {Null} /\ D[t.root] = S
    BY DEF Shape, Rooted
  <1>8. Sorted(g[t.root], D[t.root])
    BY <1>3, <1>4, <1>6, <1>7, SortedNone DEF G
  <1> QED  BY <1>1, <1>7, <1>8

\* The list is the right spine of a tree.
SpineOf(l) == [root |-> l.head, parent |-> l.prev, left |-> Unlinked, right |-> l.next, red |-> {}]

\* The links of the list have the shape of a tree with no left children.
LEMMA SpineIs ==
    ASSUME NEW l, NEW S, Chain(l, S), NEW t, t = SpineOf(l)
    PROVE  Loose(t, S) /\ \E D : Shape(t, S, D)
  <1> DEFINE D == [m \in Ptr |-> IF m \in S THEN {z \in S : ~(Key[z] < Key[m])} ELSE {}]
  <1>1. /\ l \in Lists /\ S \subseteq Nodes /\ Distinct(S)
        /\ HalfChain(l.prev, l.head, S, "left") /\ HalfChain(l.next, l.tail, S, "right")
        /\ \A x \in Nodes \ S : l.prev[x] = Null /\ l.next[x] = Null
        /\ Null \notin S /\ Null \notin Nodes /\ \A x \in Nodes : Key[x] \in Nat
    BY RbtAssumption DEF Chain
  <1>2. /\ t \in Trees /\ t.root = l.head /\ t.parent = l.prev /\ t["right"] = l.next
        /\ \A n \in Nodes : t["left"][n] = Null
    BY <1>1 DEF SpineOf, Trees, Lists, Unlinked, Ptr
  <1>3. Loose(t, S)
    BY <1>1, <1>2 DEF Loose, Bare, Sides
  <1>4. D \in [Ptr -> SUBSET S] /\ D[Null] = {} /\ Null \in Ptr /\ S \subseteq Ptr
    BY <1>1 DEF Ptr
  <1>5. \A m \in S, x \in S : x \in D[m] <=> x = m \/ Key[m] < Key[x]
    <2> SUFFICES ASSUME NEW m \in S, NEW x \in S
                 PROVE  x \in D[m] <=> x = m \/ Key[m] < Key[x]
      OBVIOUS
    <2>1. x \in D[m] <=> ~(Key[x] < Key[m])
      BY <1>4
    <2>2. Key[x] \in Nat /\ Key[m] \in Nat /\ (Key[x] = Key[m] => x = m)
      BY <1>1 DEF Distinct
    <2> QED  BY <2>1, <2>2
  <1> HIDE DEF D
  <1>6. ASSUME NEW m \in S PROVE Joint(t, S, D, m)
    <2> DEFINE q == l.next[m]
    <2>1. Nearest(S, "right", m, q) /\ q \in S \cup {Null}
      BY <1>1 DEF HalfChain, Nearest
    <2>2. m \in D[m] /\ D[m] \subseteq S /\ m \in Nodes /\ t["left"][m] = Null /\ t["right"][m] = q
      BY <1>1, <1>2, <1>4, <1>5
    <2> HIDE DEF q
    <2>3. ASSUME NEW x \in D[m], x # m PROVE x \in D[q]
      <3>1. x \in S /\ Key[m] < Key[x]
        BY <1>5, <2>2, <2>3
      <3>2. q # Null /\ q \in S /\ (x = q \/ Key[q] < Key[x])
        BY <2>1, <3>1 DEF Nearest, Before
      <3> QED  BY <1>5, <3>1, <3>2
    <2>4. D[q] \subseteq D[m] /\ \A x \in D[q] : Before("right", x, m)
      <3>1. CASE q = Null
        BY <1>4, <3>1
      <3>2. CASE q # Null
        <4>1. q \in S /\ Key[m] < Key[q]
          BY <2>1, <3>2 DEF Nearest, Before
        <4>2. ASSUME NEW x \in D[q] PROVE x \in S /\ Key[m] < Key[x]
          <5>1. x \in S /\ (x = q \/ Key[q] < Key[x])
            BY <1>4, <1>5, <4>1
          <5> QED  BY <1>1, <4>1, <5>1
        <4> QED  BY <1>5, <4>2 DEF Before
      <3> QED  BY <3>1, <3>2
    <2>5. q # Null => t.parent[q] = m
      <3> SUFFICES ASSUME q # Null PROVE l.prev[q] = m
        BY <1>2
      <3> DEFINE p == l.prev[q]
      <3>1. q \in S /\ Key[m] < Key[q]
            /\ \A z \in S : Key[m] < Key[z] => z = q \/ Key[q] < Key[z]
        BY <2>1 DEF Nearest, Before
      <3>2. Nearest(S, "left", q, p)
        BY <1>1, <3>1 DEF HalfChain
      <3> HIDE DEF p
      <3>3. p # Null /\ p \in S /\ Key[p] < Key[q] /\ (m = p \/ Key[m] < Key[p])
        BY <3>1, <3>2 DEF Nearest, Before
      <3>4. m = p
        BY <1>1, <3>1, <3>3
      <3> QED  BY <3>4 DEF p
    <2> QED  BY <1>4, <2>1, <2>2, <2>3, <2>4, <2>5 DEF Joint, Sides, Before
  <1>7. Rooted(t, S, D)
    <2>1. EndIs(S, "left", l.head)
      BY <1>1 DEF HalfChain
    <2>2. CASE l.head = Null
      BY <1>2, <1>4, <2>1, <2>2 DEF EndIs, Rooted
    <2>3. CASE l.head # Null
      <3>1. l.head \in S /\ \A z \in S \ {l.head} : Key[l.head] < Key[z]
        BY <2>1, <2>3 DEF EndIs, Before
      <3>2. D[l.head] = S
        BY <1>4, <1>5, <3>1
      <3>3. l.prev[l.head] = Null
        <4>1. Nearest(S, "left", l.head, l.prev[l.head])
          BY <1>1, <3>1 DEF HalfChain
        <4> QED  BY <1>1, <3>1, <4>1 DEF Nearest, Before
      <3> QED  BY <1>2, <3>1, <3>2, <3>3 DEF Rooted
    <2> QED  BY <2>2, <2>3
  <1>8. Shape(t, S, D)
    BY <1>1, <1>2, <1>4, <1>6, <1>7 DEF Shape
  <1> QED  BY <1>3, <1>8

\* The walk along the list is the same sequence.
LEMMA WalkIs ==
    ASSUME NEW l, NEW S, Chain(l, S)
    PROVE  Sorted(Walk(l), S)
  <1> DEFINE t == SpineOf(l)
             g == CHOOSE f : WalkFcn(l, f)
  <1>1. Walk(l) = g[l.head]
    BY DEF Walk, WalkFcn
  <1>2. /\ t.root = l.head /\ \A n \in Nodes : t.left[n] = Null /\ t.right = l.next
    BY DEF SpineOf, Unlinked
  <1>3. Loose(t, S) /\ \E D : Shape(t, S, D)
    BY SpineIs
  <1> HIDE DEF t
  <1>4. PICK D : Shape(t, S, D)
    BY <1>3
  <1>5. /\ t \in Trees /\ S \subseteq Nodes /\ Null \notin S /\ S \subseteq Ptr /\ Null \in Ptr
        /\ D[Null] = {} /\ "left" \in Sides /\ "right" \in Sides /\ \A n \in Ptr : n = Null \/ n \in Nodes
    BY <1>4, ShapeTypes DEF Ptr, Sides
  <1>6. PICK f : InOrderFcn(t, f) /\ \A n \in Ptr : f[n] \in Seq(Nodes)
    BY <1>3, <1>4, SequencesFit
  <1>7. f[Null] = <<>> /\ f = [n \in Ptr |-> f[n]]
        /\ \A n \in Ptr : n # Null => f[n] = f[t.left[n]] \o <<n>> \o f[t.right[n]]
    BY <1>5, <1>6 DEF InOrderFcn
  <1>8. ASSUME NEW n \in Ptr PROVE f[n] = IF n = Null THEN <<>> ELSE <<n>> \o f[l.next[n]]
    <2>1. CASE n # Null
      <3>1. n \in Nodes /\ t.right[n] \in Ptr
        BY <1>5, <2>1, LinksAre
      <3>2. f[n] = <<>> \o <<n>> \o f[l.next[n]] /\ f[l.next[n]] \in Seq(Nodes)
        BY <1>2, <1>6, <1>7, <2>1, <3>1
      <3>3. <<>> \o <<n>> = <<n>>
        BY <3>1
      <3> QED  BY <2>1, <3>2, <3>3
    <2> QED  BY <1>7, <2>1
  <1>9. WalkFcn(l, f)
    <2> DEFINE h == [n \in Ptr |-> IF n = Null THEN <<>> ELSE <<n>> \o f[l.next[n]]]
    <2>1. \A n \in Ptr : f[n] = h[n]
      BY <1>8
    <2>2. f = h
      <3> HIDE DEF h
      <3>1. h = [n \in Ptr |-> h[n]]
        BY DEF h
      <3> QED  BY <1>7, <2>1, <3>1
    <2> QED  BY <2>2 DEF WalkFcn
  <1>10. WalkFcn(l, g)
    BY <1>9, Zenon
  <1> HIDE DEF g
  <1>11. g[Null] = <<>> /\ \A n \in S : g[n] = <<n>> \o g[l.next[n]]
    BY <1>5, <1>10 DEF WalkFcn
  <1> DEFINE G == {m \in S : Sorted(g[m], D[m])}
  <1>12. ASSUME NEW m \in S, \A a \in Sides : t[a][m] \in G \cup {Null} PROVE m \in G
    <2>1. t.right[m] \in G \cup {Null} /\ t.left[m] = Null /\ m \in Nodes
      BY <1>2, <1>5, <1>12, LinksAre
    <2>2. Sorted(<<>>, D[t.left[m]]) /\ Sorted(g[t.right[m]], D[t.right[m]])
      BY <1>5, <1>11, <2>1, SortedNone
    <2>3. Sorted(<<>> \o <<m>> \o g[t.right[m]], D[m])
      BY <1>4, <2>2, InOrderSorts
    <2>4. <<>> \o <<m>> = <<m>> /\ t.right[m] = l.next[m]
      BY <1>2, <2>1
    <2>5. Sorted(g[m], D[m])
      BY <1>11, <2>3, <2>4
    <2> QED  BY <2>5
  <1> HIDE DEF G
  <1>13. S \subseteq G
    BY <1>4, <1>12, FromTheLeaves
  <1>14. t.root \in S \cup {Null} /\ D[t.root] = S
    BY <1>4 DEF Shape, Rooted
  <1>15. Sorted(g[t.root], D[t.root])
    BY <1>5, <1>11, <1>13, <1>14, SortedNone DEF G
  <1> QED  BY <1>1, <1>2, <1>14, <1>15

-----------------------------------------------------------------------------
(* Cutting and filling a sequence *)

\* The two ends of a sequence.
LEMMA CutIs ==
    ASSUME NEW w \in Seq(Nodes), NEW i \in 0..Len(w), NEW k \in i..Len(w), NEW a, NEW b,
           a = SubSeq(w, 1, i), b = SubSeq(w, k + 1, Len(w))
    PROVE  /\ a \in Seq(Nodes) /\ b \in Seq(Nodes) /\ Len(a) = i /\ Len(b) = Len(w) - k
           /\ Len(w) \in Nat
           /\ \A j \in 1..i : a[j] = w[j]
           /\ \A j \in 1..Len(w) - k : b[j] = w[k + j]
  <1>1. Len(w) \in Nat /\ i \in Int /\ k + 1 \in Int /\ 1 \in Int /\ Len(w) \in Int
        /\ \A j \in 1..Len(w) : w[j] \in Nodes
    BY LenProperties
  <1>2. (\A j \in 1..i : w[j] \in Nodes) /\ \A j \in k + 1..Len(w) : w[j] \in Nodes
    BY <1>1
  <1>3. /\ a \in Seq(Nodes) /\ Len(a) = (IF 1 <= i THEN i - 1 + 1 ELSE 0)
        /\ \A j \in 1..i - 1 + 1 : a[j] = w[1 + j - 1]
    BY <1>1, <1>2, SubSeqProperties
  <1>4. /\ b \in Seq(Nodes)
        /\ Len(b) = (IF k + 1 <= Len(w) THEN Len(w) - (k + 1) + 1 ELSE 0)
        /\ \A j \in 1..Len(w) - (k + 1) + 1 : b[j] = w[(k + 1) + j - 1]
    BY <1>1, <1>2, SubSeqProperties
  <1>5. Len(a) = i /\ Len(b) = Len(w) - k
    BY <1>1, <1>3, <1>4
  <1>6. \A j \in 1..i : a[j] = w[j]
    <2> SUFFICES ASSUME NEW j \in 1..i PROVE a[j] = w[j]
      OBVIOUS
    <2>1. j \in 1..i - 1 + 1 /\ 1 + j - 1 = j
      BY <1>1
    <2> QED  BY <1>3, <2>1
  <1>7. \A j \in 1..Len(w) - k : b[j] = w[k + j]
    <2> SUFFICES ASSUME NEW j \in 1..Len(w) - k PROVE b[j] = w[k + j]
      OBVIOUS
    <2>1. j \in 1..Len(w) - (k + 1) + 1 /\ (k + 1) + j - 1 = k + j
      BY <1>1
    <2> QED  BY <1>4, <2>1
  <1> QED  BY <1>1, <1>3, <1>4, <1>5, <1>6, <1>7

PartOf(w, i, k) == {w[j] : j \in i..k}

\* The part of a sequence in order, and the rest of it.
LEMMA CutSorted ==
    ASSUME NEW X, X \subseteq Nodes, NEW w, Sorted(w, X), NEW i \in 0..Len(w),
           NEW k \in i..Len(w), NEW a, NEW b, a = SubSeq(w, 1, i), b = SubSeq(w, k + 1, Len(w))
    PROVE  /\ Sorted(a, PartOf(w, 1, i)) /\ Sorted(b, PartOf(w, k + 1, Len(w)))
           /\ PartOf(w, 1, i) \subseteq Nodes /\ PartOf(w, k + 1, Len(w)) \subseteq Nodes
  <1>1. /\ w \in Seq(Nodes) /\ Len(w) \in Nat /\ \A j \in 1..Len(w) : w[j] \in Nodes
        /\ \A j, l \in 1..Len(w) : j < l => Key[w[j]] < Key[w[l]]
    BY SortedIs DEF Sorted
  <1>2. /\ a \in Seq(Nodes) /\ b \in Seq(Nodes) /\ Len(a) = i /\ Len(b) = Len(w) - k
        /\ \A j \in 1..i : a[j] = w[j]
        /\ \A j \in 1..Len(w) - k : b[j] = w[k + j]
    BY <1>1, CutIs
  <1> DEFINE A == {w[j] : j \in 1..i}
             B == {w[j] : j \in k + 1..Len(w)}
  <1>3. a \in Seq(A)
    <2>1. a \in [1..i -> A]
      <3>1. a \in [1..i -> Nodes] /\ \A j \in 1..i : a[j] \in A
        BY <1>2, LenProperties
      <3> QED  BY <3>1
    <2>2. i \in Nat
      BY <1>1
    <2> HIDE DEF A
    <2> QED  BY ONLY <2>1, <2>2
  <1>4. b \in Seq(B)
    <2>1. b \in [1..Len(w) - k -> B]
      <3>1. b \in [1..Len(w) - k -> Nodes]
        BY <1>2, LenProperties
      <3>2. ASSUME NEW j \in 1..Len(w) - k PROVE b[j] \in B
        <4>1. k + j \in k + 1..Len(w) /\ b[j] = w[k + j]
          BY <1>1, <1>2
        <4> QED  BY <4>1
      <3> QED  BY <3>1, <3>2
    <2>2. Len(w) - k \in Nat
      BY <1>1
    <2> QED  BY <2>1, <2>2
  <1>5. Sorted(a, A)
    <2>1. ASSUME NEW x \in A PROVE \E j \in 1..Len(a) : a[j] = x
      BY <1>2
    <2>2. ASSUME NEW j \in 1..Len(a), NEW l \in 1..Len(a), j < l PROVE Key[a[j]] < Key[a[l]]
      <3>1. j \in 1..i /\ l \in 1..i /\ j \in 1..Len(w) /\ l \in 1..Len(w)
        BY <1>1, <1>2
      <3>2. a[j] = w[j] /\ a[l] = w[l]
        BY <1>2, <3>1
      <3> QED  BY <1>1, <2>2, <3>1, <3>2
    <2> HIDE DEF A
    <2> QED  BY <1>3, <2>1, <2>2 DEF Sorted
  <1>6. Sorted(b, B)
    <2>1. ASSUME NEW x \in B PROVE \E j \in 1..Len(b) : b[j] = x
      <3>1. PICK l \in k + 1..Len(w) : w[l] = x
        OBVIOUS
      <3>2. PICK j \in 1..Len(w) - k : l = k + j
        <4>1. l - k \in 1..Len(w) - k /\ l = k + (l - k)
          BY <1>1
        <4> QED  BY <4>1
      <3> QED  BY <1>2, <3>1, <3>2
    <2>2. ASSUME NEW j \in 1..Len(b), NEW l \in 1..Len(b), j < l PROVE Key[b[j]] < Key[b[l]]
      <3>1. k + j \in 1..Len(w) /\ k + l \in 1..Len(w) /\ k + j < k + l
        BY <1>1, <1>2, <2>2
      <3> QED  BY <1>1, <1>2, <3>1
    <2> HIDE DEF B
    <2> QED  BY <1>4, <2>1, <2>2 DEF Sorted
  <1>7. A \subseteq Nodes /\ B \subseteq Nodes
    BY <1>1
  <1> QED  BY <1>5, <1>6, <1>7 DEF PartOf

\* What a sorted set does to its sequence: SInsert and SRemove.
InsertedIn(w, v, n) ==
    \E i \in 0..Len(w) :
        /\ \A j \in 1..i : Key[w[j]] < Key[n]
        /\ \A j \in i + 1..Len(w) : Key[w[j]] > Key[n]
        /\ v = SubSeq(w, 1, i) \o <<n>> \o SubSeq(w, i + 1, Len(w))

RemovedIn(w, v, n) ==
    \E i \in 1..Len(w) : w[i] = n /\ v = SubSeq(w, 1, i - 1) \o SubSeq(w, i + 1, Len(w))

\* A new node has one place in the sequence.
LEMMA InsertSorted ==
    ASSUME NEW X, X \subseteq Nodes, NEW w, Sorted(w, X), NEW n \in Nodes \ X,
           \A x \in X : Key[x] # Key[n], NEW v, Sorted(v, X \cup {n})
    PROVE  InsertedIn(w, v, n)
  <1>1. /\ w \in Seq(Nodes) /\ Len(w) \in Nat
        /\ \A j \in 1..Len(w) : w[j] \in Nodes /\ w[j] \in X /\ Key[w[j]] \in Nat
        /\ \A j, l \in 1..Len(w) : j < l => Key[w[j]] < Key[w[l]]
        /\ \A x \in X : \E j \in 1..Len(w) : w[j] = x
        /\ Key[n] \in Nat
    BY SortedIs, RbtAssumption DEF Sorted
  <1>2. PICK i \in 0..Len(w) : /\ \A j \in 1..i : Key[w[j]] < Key[n]
                               /\ \A j \in i + 1..Len(w) : Key[w[j]] > Key[n]
    <2> DEFINE B == {i \in 0..Len(w) : \A j \in i + 1..Len(w) : Key[w[j]] > Key[n]}
    <2>1. Len(w) \in B
      BY <1>1
    <2>2. PICK i \in B : \A j \in B : [b \in B |-> b][i] <= [b \in B |-> b][j]
      <3>1. [b \in B |-> b] \in [B -> Nat] /\ B # {}
        BY <1>1, <2>1
      <3> QED  BY ONLY <3>1, Least
    <2>3. i \in 0..Len(w) /\ (\A j \in i + 1..Len(w) : Key[w[j]] > Key[n])
          /\ \A j \in B : i <= j
      BY <2>2
    <2>4. ASSUME NEW j \in 1..i PROVE Key[w[j]] < Key[n]
      <3>1. i - 1 \in 0..Len(w) /\ i \in 1..Len(w) /\ i - 1 \notin B
        <4>1. i - 1 \in 0..Len(w) /\ i \in 1..Len(w) /\ ~(i <= i - 1)
          BY <1>1, <2>3
        <4> HIDE DEF B
        <4> QED  BY <2>3, <4>1
      <3>2. PICK l \in (i - 1) + 1..Len(w) : ~(Key[w[l]] > Key[n])
        BY <3>1
      <3>3. l = i
        BY <1>1, <2>3, <3>1, <3>2
      <3>4. Key[w[i]] < Key[n]
        BY <1>1, <3>1, <3>2, <3>3
      <3>5. j = i \/ (j < i /\ Key[w[j]] < Key[w[i]])
        BY <1>1, <3>1
      <3> QED  BY <1>1, <3>1, <3>4, <3>5
    <2> QED  BY <2>3, <2>4
  <1> DEFINE a == SubSeq(w, 1, i)
             b == SubSeq(w, i + 1, Len(w))
             A == PartOf(w, 1, i)
             B == PartOf(w, i + 1, Len(w))
  <1>3. Sorted(a, A) /\ Sorted(b, B) /\ A \subseteq Nodes /\ B \subseteq Nodes
    <2>1. i \in i..Len(w)
      BY <1>1
    <2>2. a = SubSeq(w, 1, i) /\ b = SubSeq(w, i + 1, Len(w))
      OBVIOUS
    <2> HIDE DEF a, b
    <2> QED  BY ONLY <2>1, <2>2, i \in 0..Len(w), X \subseteq Nodes, Sorted(w, X), CutSorted
  <1>4. (\A x \in A : Key[x] < Key[n]) /\ \A x \in B : Key[n] < Key[x]
    BY <1>1, <1>2 DEF PartOf
  <1>5. X \cup {n} = A \cup {n} \cup B
    <2>1. ASSUME NEW x \in X PROVE x \in A \cup B
      <3>1. PICK j \in 1..Len(w) : w[j] = x
        BY <1>1
      <3>2. j \in 1..i \/ j \in i + 1..Len(w)
        BY <1>1
      <3> QED  BY <3>1, <3>2 DEF PartOf
    <2>2. A \subseteq X /\ B \subseteq X
      BY <1>1 DEF PartOf
    <2> QED  BY <2>1, <2>2
  <1> HIDE DEF A, B, a, b
  <1>6. Sorted(a \o <<n>> \o b, X \cup {n})
    BY ONLY <1>3, <1>4, <1>5, n \in Nodes \ X, Joined
  <1>7. v = a \o <<n>> \o b
    <2>1. X \cup {n} \subseteq Nodes
      OBVIOUS
    <2> QED  BY ONLY <1>6, <2>1, Sorted(v, X \cup {n}), SortedUnique
  <1> QED  BY <1>2, <1>7 DEF a, b, InsertedIn

\* A node taken out of the sequence.
LEMMA RemoveSorted ==
    ASSUME NEW X, X \subseteq Nodes, NEW w, Sorted(w, X), NEW n \in X, NEW v, Sorted(v, X \ {n})
    PROVE  RemovedIn(w, v, n)
  <1>1. /\ w \in Seq(Nodes) /\ Len(w) \in Nat
        /\ \A j \in 1..Len(w) : w[j] \in Nodes /\ w[j] \in X /\ Key[w[j]] \in Nat
        /\ \A j, l \in 1..Len(w) : j < l => Key[w[j]] < Key[w[l]]
        /\ \A j, l \in 1..Len(w) : w[j] = w[l] => j = l
        /\ \A x \in X : \E j \in 1..Len(w) : w[j] = x
    BY SortedIs DEF Sorted
  <1>2. PICK i \in 1..Len(w) : w[i] = n
    BY <1>1
  <1> DEFINE a == SubSeq(w, 1, i - 1)
             b == SubSeq(w, i + 1, Len(w))
             u == a \o b
             N == Len(w) - 1
  <1>3. /\ a \in Seq(Nodes) /\ b \in Seq(Nodes) /\ Len(a) = i - 1 /\ Len(b) = Len(w) - i
        /\ \A j \in 1..i - 1 : a[j] = w[j]
        /\ \A j \in 1..Len(w) - i : b[j] = w[i + j]
    <2>1. i - 1 \in 0..Len(w) /\ i \in i - 1..Len(w)
      BY <1>1
    <2> QED  BY ONLY <1>1, <2>1, CutIs
  <1> HIDE DEF a, b
  <1>4. u \in Seq(Nodes) /\ Len(u) = N /\ N \in Nat
        /\ \A j \in 1..N : u[j] = IF j < i THEN w[j] ELSE w[j + 1]
    <2>1. /\ u \in Seq(Nodes) /\ Len(u) = Len(a) + Len(b)
          /\ \A j \in 1..Len(a) + Len(b) : u[j] = IF j <= Len(a) THEN a[j] ELSE b[j - Len(a)]
      BY <1>3, ConcatProperties
    <2>2. Len(u) = N /\ N \in Nat
      BY <1>1, <1>3, <2>1
    <2>3. ASSUME NEW j \in 1..N PROVE u[j] = IF j < i THEN w[j] ELSE w[j + 1]
      <3>1. j \in 1..Len(a) + Len(b)
        BY <1>1, <1>3
      <3>2. CASE j < i
        <4>1. j <= Len(a) /\ j \in 1..i - 1
          BY <1>1, <1>3, <3>2
        <4> QED  BY <1>3, <2>1, <3>1, <3>2, <4>1
      <3>3. CASE ~(j < i)
        <4>1. ~(j <= Len(a)) /\ j - Len(a) \in 1..Len(w) - i /\ i + (j - Len(a)) = j + 1
          BY <1>1, <1>3, <3>3
        <4> QED  BY <1>3, <2>1, <3>1, <3>3, <4>1
      <3> QED  BY <3>2, <3>3
    <2> QED  BY <2>1, <2>2, <2>3
  <1> HIDE DEF u
  <1>5. \A j \in 1..N : u[j] \in X \ {n}
    <2> SUFFICES ASSUME NEW j \in 1..N PROVE u[j] \in X \ {n}
      OBVIOUS
    <2>1. PICK l \in 1..Len(w) : u[j] = w[l] /\ l # i
      <3>1. CASE j < i
        <4>1. j \in 1..Len(w) /\ j # i
          BY <1>1, <3>1
        <4>2. u[j] = w[j]
          BY <1>4, <3>1
        <4> QED  BY <4>1, <4>2
      <3>2. CASE ~(j < i)
        <4>1. j + 1 \in 1..Len(w) /\ j + 1 # i
          BY <1>1, <3>2
        <4> QED  BY <1>4, <3>2, <4>1
      <3> QED  BY <3>1, <3>2
    <2> QED  BY <1>1, <1>2, <2>1
  <1>6. Sorted(u, X \ {n})
    <2>1. u \in Seq(X \ {n})
      <3>1. u \in [1..N -> X \ {n}]
        BY <1>4, <1>5, LenProperties
      <3> QED  BY <1>4, <3>1
    <2>2. ASSUME NEW x \in X \ {n} PROVE \E j \in 1..Len(u) : u[j] = x
      <3>1. PICK l \in 1..Len(w) : w[l] = x
        BY <1>1
      <3>2. CASE l < i
        <4>1. l \in 1..N
          BY <1>1, <3>2
        <4> QED  BY <1>4, <3>1, <3>2, <4>1
      <3>3. CASE ~(l < i)
        <4>1. l # i
          BY <1>2, <3>1
        <4>2. PICK j \in 1..N : j + 1 = l /\ ~(j < i)
          <5>1. l - 1 \in 1..N /\ (l - 1) + 1 = l /\ ~(l - 1 < i)
            BY <1>1, <3>3, <4>1
          <5> QED  BY <5>1
        <4> QED  BY <1>4, <3>1, <4>2
      <3> QED  BY <3>2, <3>3
    <2>3. ASSUME NEW j \in 1..Len(u), NEW l \in 1..Len(u), j < l PROVE Key[u[j]] < Key[u[l]]
      <3> DEFINE jw == IF j < i THEN j ELSE j + 1
                 lw == IF l < i THEN l ELSE l + 1
      <3>1. jw \in 1..Len(w) /\ lw \in 1..Len(w) /\ jw < lw
        BY <1>1, <1>4, <2>3
      <3>2. u[j] = w[jw] /\ u[l] = w[lw]
        BY <1>4
      <3> HIDE DEF jw, lw
      <3> QED  BY <1>1, <3>1, <3>2
    <2> QED  BY <2>1, <2>2, <2>3 DEF Sorted
  <1>7. v = u
    <2>1. X \ {n} \subseteq Nodes
      OBVIOUS
    <2> QED  BY ONLY <1>6, <2>1, Sorted(v, X \ {n}), SortedUnique
  <1> QED  BY <1>2, <1>7 DEF u, a, b, RemovedIn

-----------------------------------------------------------------------------
(* The invariant *)

\* The tree and the list hold the nodes of S.
Held(t, l, S) == Loose(t, S) /\ (\E D : Shape(t, S, D)) /\ Chain(l, S)

IInv == \E S : Held(tree, list, S) /\ nelem = Cardinality(S)

\* What holding S says.
LEMMA HeldIs ==
    ASSUME NEW t, NEW l, NEW S, Held(t, l, S)
    PROVE  /\ t \in Trees /\ l \in Lists /\ S \subseteq Nodes /\ IsFiniteSet(S)
           /\ Cardinality(S) \in 0..Cardinality(Nodes) /\ Null \notin S
           /\ Sorted(InOrder(t), S) /\ Sorted(Walk(l), S) /\ Distinct(S)
           /\ \A n \in Nodes : Linked(t, n) <=> n \in S
  <1>1. PICK D : Shape(t, S, D)
    BY DEF Held
  <1>2. t \in Trees /\ l \in Lists /\ S \subseteq Nodes /\ IsFiniteSet(S) /\ Null \notin S
        /\ Loose(t, S) /\ Chain(l, S) /\ Distinct(S)
    BY <1>1, ShapeTypes DEF Held, Chain
  <1>3. Cardinality(S) \in 0..Cardinality(Nodes)
    BY <1>2, FS_Subset, FS_CardinalityType, RbtAssumption
  <1>4. Sorted(InOrder(t), S) /\ Sorted(Walk(l), S)
    BY <1>1, <1>2, InOrderIs, WalkIs
  <1>5. ASSUME NEW n \in S PROVE Linked(t, n)
    BY <1>1, ParentIs DEF Linked
  <1>6. ASSUME NEW n \in Nodes \ S PROVE ~Linked(t, n)
    <2>1. t.root \in S \cup {Null} /\ n # Null
      BY <1>1, RbtAssumption DEF Shape, Rooted
    <2> QED  BY <1>2, <2>1 DEF Linked, Loose, Bare
  <1> QED  BY <1>2, <1>3, <1>4, <1>5, <1>6

\* rbt_init.
LEMMA InitHolds == Init => Held(tree, list, {}) /\ nelem = 0
  <1> SUFFICES ASSUME Init PROVE Held(tree, list, {}) /\ nelem = 0
    OBVIOUS
  <1> DEFINE D == [x \in Ptr |-> {}]
  <1>1. /\ tree \in Trees /\ tree.root = Null /\ tree.parent = Unlinked
        /\ \A a \in Sides : tree[a] = Unlinked
    BY DEF Init, Trees, Unlinked, Ptr, Sides
  <1>2. \A n \in Nodes : Unlinked[n] = Null
    BY DEF Unlinked
  <1>3. Loose(tree, {})
    BY <1>1, <1>2 DEF Loose, Bare
  <1>4. Shape(tree, {}, D)
    <2>1. D \in [Ptr -> SUBSET {}] /\ D[Null] = {}
      BY DEF Ptr
    <2> HIDE DEF D
    <2> QED  BY <1>1, <2>1 DEF Shape, Rooted
  <1>5. /\ list \in Lists /\ list.head = Null /\ list.tail = Null
        /\ list.prev = Unlinked /\ list.next = Unlinked
    BY DEF Init, Lists, Unlinked, Ptr
  <1>6. Chain(list, {})
    BY <1>2, <1>5 DEF Chain, HalfChain, EndIs, Distinct
  <1> QED  BY <1>3, <1>4, <1>6 DEF Init, Held

\* rbt_insert takes the node in, or refuses it and changes nothing.
LEMMA InsertHolds ==
    ASSUME NEW S, Held(tree, list, S), nelem = Cardinality(S), NEW n \in Nodes, Insert(n)
    PROVE  \/ UNCHANGED vars
           \/ /\ n \notin S /\ Held(tree', list', S \cup {n})
              /\ nelem' = Cardinality(S \cup {n})
  <1>1. PICK D : Shape(tree, S, D)
    BY DEF Held
  <1>2. /\ Loose(tree, S) /\ Chain(list, S) /\ n \in Nodes \ S /\ IsFiniteSet(S)
        /\ S \subseteq Nodes /\ Null \notin S
    BY HeldIs DEF Held, Insert
  <1>3. Cardinality(S \cup {n}) = Cardinality(S) + 1
    BY <1>2, FS_AddElement
  <1>4. /\ S = {} <=> tree.root = Null
        /\ S = {} => Descend(tree, Key[n]) = Null
        /\ S # {} => Landed(tree, S, Key[n], Descend(tree, Key[n]))
    BY <1>1, <1>2, DescendIs, RbtAssumption
  <1>5. CASE InsertRoot(n)
    <2> DEFINE v == [tree EXCEPT !.root = n, !.red = @ \cup {n}]
    <2>1. S = {} /\ tree' = AdjustOnInsert[Spot(v, n)]
          /\ list' = [list EXCEPT !.head = n, !.tail = n] /\ nelem' = nelem + 1
      BY <1>4, <1>5 DEF InsertRoot
    <2>2. S \cup {n} = {n} /\ v = [tree EXCEPT !.root = n, !.red = @ \cup {n}]
      BY <2>1
    <2> HIDE DEF v
    <2>3. Loose(tree', {n}) /\ \E E : Shape(tree', {n}, E)
      BY <1>1, <1>2, <2>1, <2>2, InsertedRoot
    <2>4. Chain(list', {n})
      BY <1>2, <2>1, ChainFirst
    <2> QED  BY <1>2, <1>3, <2>1, <2>2, <2>3, <2>4 DEF Held
  <1>6. CASE InsertBelow(n)
    <2> DEFINE m == Descend(tree, Key[n])
               side == IF Key[n] < Key[m] THEN "left" ELSE "right"
               v == [tree EXCEPT ![side][m] = n, !.parent[n] = m, !.red = @ \cup {n}]
    <2>1. m # Null /\ Key[m] # Key[n] /\ LinkBelow(n, m)
      BY <1>6 DEF InsertBelow
    <2>2. Landed(tree, S, Key[n], m)
      BY <1>4, <2>1
    <2>3. m \in S /\ \A z \in S \ {m} : Beyond(z, Key[n], m)
      BY <2>1, <2>2 DEF Landed
    <2> HIDE DEF m
    <2>4. /\ tree' = AdjustOnInsert[Spot(v, n)]
          /\ list' = IF side = "left" THEN ListBefore(list, n, m) ELSE ListAfter(list, n, m)
          /\ nelem' = nelem + 1
      BY <2>1 DEF LinkBelow
    <2>5. side = IF Key[n] < Key[m] THEN "left" ELSE "right"
      OBVIOUS
    <2>6. v = [tree EXCEPT ![side][m] = n, !.parent[n] = m, !.red = @ \cup {n}]
      OBVIOUS
    <2> HIDE DEF v, side
    <2>7. Loose(tree', S \cup {n}) /\ \E E : Shape(tree', S \cup {n}, E)
      BY ONLY <1>1, <1>2, <2>1, <2>2, <2>4, <2>5, <2>6, InsertedBelow
    <2>8. list' = IF Key[n] < Key[m] THEN ListBefore(list, n, m) ELSE ListAfter(list, n, m)
      BY ONLY <2>4, <2>5
    <2>9. Chain(list', S \cup {n})
      BY ONLY <1>2, <2>1, <2>3, <2>8, ChainInsert
    <2> QED  BY <1>2, <1>3, <2>4, <2>7, <2>9 DEF Held
  <1>7. CASE InsertDuplicate(n)
    BY <1>7 DEF InsertDuplicate
  <1> QED  BY <1>5, <1>6, <1>7 DEF Insert

\* _rbt_remove_node and _rbt_remove_list together.
LEMMA RemovedHeld ==
    ASSUME NEW t, NEW l, NEW S, Held(t, l, S), NEW n \in S
    PROVE  Held(RemovedFromTree(t, n), RemovedFromList(l, n), S \ {n})
  <1>1. PICK D : Shape(t, S, D)
    BY DEF Held
  <1>2. /\ Loose(RemovedFromTree(t, n), S \ {n})
        /\ \E E : Shape(RemovedFromTree(t, n), S \ {n}, E)
    BY <1>1, RemovedIs DEF Held
  <1>3. Chain(RemovedFromList(l, n), S \ {n})
    BY ChainRemove DEF Held
  <1> QED  BY <1>2, <1>3 DEF Held

\* rbt_remove_node.
LEMMA RemoveHolds ==
    ASSUME NEW S, Held(tree, list, S), nelem = Cardinality(S), NEW n \in Nodes, RemoveNode(n)
    PROVE  n \in S /\ Held(tree', list', S \ {n}) /\ nelem' = Cardinality(S \ {n})
  <1>1. n \in S /\ IsFiniteSet(S)
    BY HeldIs DEF RemoveNode
  <1>2. Cardinality(S \ {n}) = Cardinality(S) - 1
    BY <1>1, FS_RemoveElement
  <1>3. Held(tree', list', S \ {n})
    BY <1>1, RemovedHeld DEF RemoveNode
  <1> QED  BY <1>1, <1>2, <1>3 DEF RemoveNode

\* rbt_remove_key removes the node found, if any.
LEMMA RemoveKeyHolds ==
    ASSUME NEW S, Held(tree, list, S), NEW k \in Nat, RemoveKey(k)
    PROVE  UNCHANGED vars \/ \E n \in Nodes : RemoveNode(n)
  <1>1. PICK D : Shape(tree, S, D)
    BY DEF Held
  <1>2. Find(tree, k) = Null \/ Find(tree, k) \in Nodes
    BY <1>1, FindIs, ShapeTypes
  <1> QED  BY <1>2 DEF RemoveKey

-----------------------------------------------------------------------------
(* rbt_fini *)

Start(t, l) == [tree |-> t, list |-> l]
Removed(x, n) ==
    [tree |-> RemovedFromTree(x.tree, n), list |-> RemovedFromList(x.list, n)]

AfterFcn(t, l, w, k, f) ==
    f = [i \in 0..k |-> IF i = 0 THEN Start(t, l) ELSE Removed(f[i - 1], w[i])]

\* The loop of rbt_fini has a state after each removal.
LEMMA AfterExists ==
    ASSUME NEW t, NEW l, NEW w, NEW N \in Nat
    PROVE  \E f : AfterFcn(t, l, w, N, f)
  <1> DEFINE B == {k \in 0..N : ~\E f : AfterFcn(t, l, w, k, f)}
  <1> SUFFICES ASSUME B # {} PROVE FALSE
    <2>1. N \in 0..N
      OBVIOUS
    <2> QED  BY <2>1
  <1>1. PICK k \in B : \A j \in B : [b \in B |-> b][k] <= [b \in B |-> b][j]
    <2>1. [b \in B |-> b] \in [B -> Nat] /\ B # {}
      OBVIOUS
    <2> QED  BY ONLY <2>1, Least
  <1>2. k \in 0..N /\ k \in B /\ \A j \in B : k <= j
    BY <1>1
  <1>3. CASE k = 0
    <2> DEFINE f == [i \in 0..0 |-> Start(t, l)]
    <2>1. \A i \in 0..0 : i = 0
      OBVIOUS
    <2>2. f = [i \in 0..0 |-> IF i = 0 THEN Start(t, l) ELSE Removed(f[i - 1], w[i])]
      BY <2>1
    <2> HIDE DEF f
    <2>3. AfterFcn(t, l, w, 0, f)
      BY <2>2 DEF AfterFcn
    <2> QED  BY <1>2, <1>3, <2>3
  <1>4. CASE k # 0
    <2>1. k - 1 \in 0..N /\ ~(k <= k - 1)
      BY <1>2, <1>4
    <2>2. k - 1 \notin B
      <3> HIDE DEF B
      <3> QED  BY <1>2, <2>1
    <2>3. PICK f : AfterFcn(t, l, w, k - 1, f)
      BY <2>1, <2>2
    <2> DEFINE g == [i \in 0..k |-> IF i = k THEN Removed(f[k - 1], w[k]) ELSE f[i]]
               h == [i \in 0..k |-> IF i = 0 THEN Start(t, l) ELSE Removed(g[i - 1], w[i])]
    <2>4. \A i \in 0..k - 1 : f[i] = IF i = 0 THEN Start(t, l) ELSE Removed(f[i - 1], w[i])
      BY <2>3 DEF AfterFcn
    <2>5. \A i \in 0..k : g[i] = IF i = k THEN Removed(f[k - 1], w[k]) ELSE f[i]
      OBVIOUS
    <2>6. ASSUME NEW i \in 0..k
          PROVE  g[i] = IF i = 0 THEN Start(t, l) ELSE Removed(g[i - 1], w[i])
      <3> HIDE DEF g
      <3>0. k \in Nat \ {0}
        BY <1>2, <1>4
      <3>1. CASE i = 0
        <4>1. i \in 0..k - 1 /\ i # k
          BY ONLY <3>0, <3>1
        <4> QED  BY ONLY i \in 0..k, <2>4, <2>5, <3>1, <4>1
      <3>2. CASE i # 0 /\ i # k
        <4>1. i \in 0..k - 1 /\ i - 1 \in 0..k /\ i - 1 # k
          BY ONLY i \in 0..k, <3>0, <3>2
        <4> QED  BY <2>4, <2>5, <3>2, <4>1
      <3>3. CASE i = k
        <4>1. i - 1 \in 0..k /\ i - 1 # k
          BY ONLY <3>0, <3>3
        <4> QED  BY <1>4, <2>5, <3>3, <4>1
      <3> QED  BY <3>1, <3>2, <3>3
    <2>7. g = h
      <3>1. g = [i \in 0..k |-> g[i]] /\ h = [i \in 0..k |-> h[i]]
        OBVIOUS
      <3>2. \A i \in 0..k : h[i] = g[i]
        <4>1. \A i \in 0..k : h[i] = IF i = 0 THEN Start(t, l) ELSE Removed(g[i - 1], w[i])
          OBVIOUS
        <4> HIDE DEF g, h
        <4> QED  BY <2>6, <4>1
      <3> HIDE DEF g, h
      <3> QED  BY <3>1, <3>2
    <2>8. AfterFcn(t, l, w, k, g)
      <3>1. h = [i \in 0..k |-> IF i = 0 THEN Start(t, l) ELSE Removed(g[i - 1], w[i])]
        OBVIOUS
      <3> HIDE DEF g, h
      <3> QED  BY <2>7, <3>1 DEF AfterFcn
    <2> HIDE DEF g
    <2> QED  BY <1>2, <2>8
  <1> QED  BY <1>3, <1>4

\* rbt_fini ends with an empty tree and an empty list.
LEMMA FiniHolds ==
    ASSUME NEW S, Held(tree, list, S), nelem = Cardinality(S), Fini
    PROVE  Held(tree', list', {}) /\ nelem' = 0
  <1> DEFINE w == Walk(list)
             N == Len(w)
             f == CHOOSE g : AfterFcn(tree, list, w, N, g)
  <1>1. tree' = f[N].tree /\ list' = f[N].list /\ nelem' = nelem - N
    BY DEF Fini, AfterFcn, Start, Removed
  <1>2. Sorted(w, S) /\ S \subseteq Nodes
    BY HeldIs
  <1> HIDE DEF w
  <1>3. /\ N \in Nat /\ N = Cardinality(S) /\ (\A i \in 1..N : w[i] \in S)
        /\ \A i, j \in 1..N : w[i] = w[j] => i = j
        /\ \A x \in S : \E i \in 1..N : w[i] = x
    BY <1>2, SortedIs DEF Sorted
  <1> HIDE DEF N
  <1>4. AfterFcn(tree, list, w, N, f)
    BY <1>3, AfterExists, Zenon
  <1> HIDE DEF f
  <1>5. \A i \in 0..N : f[i] = IF i = 0 THEN Start(tree, list) ELSE Removed(f[i - 1], w[i])
    BY <1>4 DEF AfterFcn
  <1> DEFINE Good(i) == Held(f[i].tree, f[i].list, PartOf(w, i + 1, N))
             B == {i \in 0..N : ~Good(i)}
  <1>6. B = {}
    <2> SUFFICES ASSUME B # {} PROVE FALSE
      OBVIOUS
    <2>1. PICK i \in B : \A j \in B : [b \in B |-> b][i] <= [b \in B |-> b][j]
      <3>1. [b \in B |-> b] \in [B -> Nat] /\ B # {}
        BY <1>3
      <3> QED  BY ONLY <3>1, Least
    <2>2. i \in 0..N /\ ~Good(i) /\ \A j \in B : i <= j
      BY <2>1
    <2>3. CASE i = 0
      <3>1. PartOf(w, 1, N) = S
        BY <1>3 DEF PartOf
      <3>2. f[0].tree = tree /\ f[0].list = list
        BY <1>3, <1>5 DEF Start
      <3>3. Good(0)
        BY <3>1, <3>2
      <3> QED  BY <2>2, <2>3, <3>3
    <2>4. CASE i # 0
      <3>1. i - 1 \in 0..N /\ ~(i <= i - 1) /\ i \in 1..N /\ (i - 1) + 1 = i
        BY <1>3, <2>2, <2>4
      <3>2. i - 1 \notin B
        <4> HIDE DEF B
        <4> QED  BY <2>2, <3>1
      <3>3. Held(f[i - 1].tree, f[i - 1].list, PartOf(w, i, N))
        <4>1. Good(i - 1)
          BY <3>1, <3>2
        <4> QED  BY <3>1, <4>1
      <3>4. w[i] \in PartOf(w, i, N)
        BY <3>1 DEF PartOf
      <3>5. PartOf(w, i, N) \ {w[i]} = PartOf(w, i + 1, N)
        BY <1>3, <3>1 DEF PartOf
      <3>6. f[i].tree = RemovedFromTree(f[i - 1].tree, w[i])
            /\ f[i].list = RemovedFromList(f[i - 1].list, w[i])
        <4>1. f[i] = Removed(f[i - 1], w[i])
          BY <1>5, <2>2, <2>4
        <4> QED  BY <4>1 DEF Removed
      <3>7. Good(i)
        BY <3>3, <3>4, <3>5, <3>6, RemovedHeld
      <3> QED  BY <2>2, <3>7
    <2> QED  BY <2>3, <2>4
  <1>7. Good(N)
    <2>1. N \in 0..N
      BY <1>3
    <2> QED  BY <1>6, <2>1
  <1>8. PartOf(w, N + 1, N) = {}
    BY <1>3 DEF PartOf
  <1> QED  BY <1>1, <1>3, <1>7, <1>8

-----------------------------------------------------------------------------
(* What the invariant says of the tree and of the list *)

\* The nodes of the sequence.
LEMMA RangeIs ==
    ASSUME NEW X, X \subseteq Nodes, NEW w, Sorted(w, X)
    PROVE  Range(w) = X
  <1>1. DOMAIN w = 1..Len(w) /\ (\A i \in 1..Len(w) : w[i] \in X)
        /\ \A x \in X : \E i \in 1..Len(w) : w[i] = x
    BY SortedIs DEF Sorted
  <1> QED  BY <1>1 DEF Range

\* rbt_find finds what is listed, and nothing else.
LEMMA FindsListed ==
    ASSUME NEW S, Held(tree, list, S)
    PROVE  FindsWhatIsListed
  <1>1. Range(Walk(list)) = S /\ S \subseteq Nodes /\ Null \notin S /\ Distinct(S)
    BY HeldIs, RangeIs
  <1>2. PICK D : Shape(tree, S, D)
    BY DEF Held
  <1>3. ASSUME NEW k \in Range(Key), NEW found, found = {n \in S : Key[n] = k}
        PROVE  Find(tree, k) = IF found = {} THEN Null ELSE CHOOSE n \in found : TRUE
    <2>1. k \in Nat
      BY RbtAssumption DEF Range
    <2>2. \/ Find(tree, k) \in S /\ Key[Find(tree, k)] = k
          \/ Find(tree, k) = Null /\ \A z \in S : Key[z] # k
      BY <1>2, <2>1, FindIs
    <2>3. CASE Find(tree, k) \in S /\ Key[Find(tree, k)] = k
      <3>1. found = {Find(tree, k)}
        BY <1>1, <1>3, <2>3 DEF Distinct
      <3> QED  BY <3>1
    <2>4. CASE Find(tree, k) = Null /\ \A z \in S : Key[z] # k
      <3>1. found = {}
        BY <1>3, <2>4
      <3> QED  BY <2>4, <3>1
    <2> QED  BY <2>2, <2>3, <2>4
  <1> QED  BY <1>1, <1>3 DEF FindsWhatIsListed

\* The invariant says what SearchTree does.
LEMMA TreeFollows == IInv => SearchTree
  <1> SUFFICES ASSUME IInv PROVE SearchTree
    OBVIOUS
  <1>1. PICK S : Held(tree, list, S) /\ nelem = Cardinality(S)
    BY DEF IInv
  <1>2. /\ tree \in Trees /\ list \in Lists /\ S \subseteq Nodes /\ Null \notin S
        /\ nelem \in 0..Cardinality(Nodes) /\ Loose(tree, S)
    BY <1>1, HeldIs DEF Held
  <1>3. PICK D : Shape(tree, S, D)
    BY <1>1 DEF Held
  <1> DEFINE w == InOrder(tree)
  <1>4. Sorted(w, S)
    BY <1>1, HeldIs
  <1> HIDE DEF w
  <1>5. Range(w) = S /\ DOMAIN w = 1..Len(w)
        /\ \A i, j \in 1..Len(w) : i < j => Key[w[i]] < Key[w[j]]
    BY <1>2, <1>4, RangeIs, SortedIs DEF Sorted
  <1>6. tree.root # Null => tree.parent[tree.root] = Null
    BY <1>3 DEF Shape, Rooted
  <1>7. \A n \in S, a \in Sides : tree[a][n] # Null => tree.parent[tree[a][n]] = n
    BY <1>3 DEF Shape, Joint
  <1>8. \A n \in Nodes \ S : tree.parent[n] = Null /\ tree.left[n] = Null /\ tree.right[n] = Null
    BY <1>2, LinksAre DEF Loose, Bare, Sides
  <1>9. TypeOK /\ FindsWhatIsListed
    BY <1>1, <1>2, FindsListed DEF TypeOK
  <1> QED  BY <1>5, <1>6, <1>7, <1>8, <1>9 DEF SearchTree, w

\* The place i of w, or Null beyond its ends.
At(w, i) == IF i \in DOMAIN w THEN w[i] ELSE Null

\* Neighbours by key are neighbours in the sequence.
LEMMA ChainOrder ==
    ASSUME NEW l, NEW S, Chain(l, S), NEW w, Sorted(w, S)
    PROVE  /\ l.head = At(w, 1) /\ l.tail = At(w, Len(w))
           /\ \A i \in DOMAIN w : l.prev[w[i]] = At(w, i - 1) /\ l.next[w[i]] = At(w, i + 1)
  <1> DEFINE N == Len(w)
  <1>1. /\ S \subseteq Nodes
        /\ HalfChain(l.prev, l.head, S, "left") /\ HalfChain(l.next, l.tail, S, "right")
        /\ Null \notin S
    BY RbtAssumption DEF Chain
  <1>2. /\ N \in Nat /\ DOMAIN w = 1..N
        /\ \A i \in 1..N : w[i] \in S /\ Key[w[i]] \in Nat
        /\ \A i, j \in 1..N : i < j => Key[w[i]] < Key[w[j]]
        /\ \A i, j \in 1..N : Key[w[i]] < Key[w[j]] => i < j
        /\ \A x \in S : \E i \in 1..N : w[i] = x
    BY <1>1, SortedIs DEF Sorted
  <1> HIDE DEF N
  <1>3. l.head = At(w, 1)
    <2>1. EndIs(S, "left", l.head)
      BY <1>1 DEF HalfChain
    <2>2. CASE l.head = Null
      <3>1. 1 \notin 1..N
        BY <1>2, <2>1, <2>2 DEF EndIs
      <3> QED  BY <1>2, <2>2, <3>1 DEF At
    <2>3. CASE l.head # Null
      <3>1. l.head \in S /\ \A z \in S \ {l.head} : Key[l.head] < Key[z]
        BY <2>1, <2>3 DEF EndIs, Before
      <3>2. PICK i \in 1..N : w[i] = l.head
        BY <1>2, <3>1
      <3>3. 1 \in 1..N
        BY <1>2
      <3>4. w[1] = l.head
        <4> SUFFICES ASSUME w[1] # l.head PROVE FALSE
          OBVIOUS
        <4>1. Key[w[i]] < Key[w[1]]
          BY <1>2, <3>1, <3>2, <3>3
        <4>2. i < 1
          BY <1>2, <3>3, <4>1
        <4> QED  BY <1>2, <4>2
      <3> QED  BY <1>2, <3>3, <3>4 DEF At
    <2> QED  BY <2>2, <2>3
  <1>4. l.tail = At(w, N)
    <2>1. EndIs(S, "right", l.tail)
      BY <1>1 DEF HalfChain
    <2>2. CASE l.tail = Null
      <3>1. N \notin 1..N
        BY <1>2, <2>1, <2>2 DEF EndIs
      <3> QED  BY <1>2, <2>2, <3>1 DEF At
    <2>3. CASE l.tail # Null
      <3>1. l.tail \in S /\ \A z \in S \ {l.tail} : Key[z] < Key[l.tail]
        BY <2>1, <2>3 DEF EndIs, Before
      <3>2. PICK i \in 1..N : w[i] = l.tail
        BY <1>2, <3>1
      <3>3. N \in 1..N
        BY <1>2
      <3>4. w[N] = l.tail
        <4> SUFFICES ASSUME w[N] # l.tail PROVE FALSE
          OBVIOUS
        <4>1. Key[w[N]] < Key[w[i]]
          BY <1>2, <3>1, <3>2, <3>3
        <4>2. N < i
          BY <1>2, <3>3, <4>1
        <4> QED  BY <1>2, <4>2
      <3> QED  BY <1>2, <3>3, <3>4 DEF At
    <2> QED  BY <2>2, <2>3
  <1>5. ASSUME NEW i \in 1..N PROVE l.prev[w[i]] = At(w, i - 1)
    <2> DEFINE p == l.prev[w[i]]
    <2>1. Nearest(S, "left", w[i], p)
      BY <1>1, <1>2 DEF HalfChain
    <2> HIDE DEF p
    <2>2. CASE p = Null
      <3>1. i - 1 \notin 1..N
        <4> SUFFICES ASSUME i - 1 \in 1..N PROVE FALSE
          OBVIOUS
        <4>1. Key[w[i - 1]] < Key[w[i]] /\ w[i - 1] \in S
          BY <1>2
        <4> QED  BY <2>1, <2>2, <4>1 DEF Nearest, Before
      <3> QED  BY <1>2, <2>2, <3>1 DEF At, p
    <2>3. CASE p # Null
      <3>1. p \in S /\ Key[p] < Key[w[i]]
            /\ \A z \in S : Key[z] < Key[w[i]] => z = p \/ Key[z] < Key[p]
        BY <2>1, <2>3 DEF Nearest, Before
      <3>2. PICK j \in 1..N : w[j] = p
        BY <1>2, <3>1
      <3>3. j < i /\ i - 1 \in 1..N
        BY <1>2, <3>1, <3>2
      <3>4. w[i - 1] = w[j]
        <4>1. w[i - 1] \in S /\ Key[w[i - 1]] < Key[w[i]]
          BY <1>2, <3>3
        <4>2. w[i - 1] = w[j] \/ i - 1 < j
          BY <1>2, <3>1, <3>2, <3>3, <4>1
        <4> QED  BY <1>2, <3>3, <4>2
      <3> QED  BY <1>2, <3>2, <3>3, <3>4 DEF At, p
    <2> QED  BY <2>2, <2>3
  <1>6. ASSUME NEW i \in 1..N PROVE l.next[w[i]] = At(w, i + 1)
    <2> DEFINE q == l.next[w[i]]
    <2>1. Nearest(S, "right", w[i], q)
      BY <1>1, <1>2 DEF HalfChain
    <2> HIDE DEF q
    <2>2. CASE q = Null
      <3>1. i + 1 \notin 1..N
        <4> SUFFICES ASSUME i + 1 \in 1..N PROVE FALSE
          OBVIOUS
        <4>1. Key[w[i]] < Key[w[i + 1]] /\ w[i + 1] \in S
          BY <1>2
        <4> QED  BY <2>1, <2>2, <4>1 DEF Nearest, Before
      <3> QED  BY <1>2, <2>2, <3>1 DEF At, q
    <2>3. CASE q # Null
      <3>1. q \in S /\ Key[w[i]] < Key[q]
            /\ \A z \in S : Key[w[i]] < Key[z] => z = q \/ Key[q] < Key[z]
        BY <2>1, <2>3 DEF Nearest, Before
      <3>2. PICK j \in 1..N : w[j] = q
        BY <1>2, <3>1
      <3>3. i < j /\ i + 1 \in 1..N
        BY <1>2, <3>1, <3>2
      <3>4. w[i + 1] = w[j]
        <4>1. w[i + 1] \in S /\ Key[w[i]] < Key[w[i + 1]]
          BY <1>2, <3>3
        <4>2. w[i + 1] = w[j] \/ j < i + 1
          BY <1>2, <3>1, <3>2, <3>3, <4>1
        <4> QED  BY <1>2, <3>3, <4>2
      <3> QED  BY <1>2, <3>2, <3>3, <3>4 DEF At, q
    <2> QED  BY <2>2, <2>3
  <1> QED  BY <1>2, <1>3, <1>4, <1>5, <1>6 DEF N

\* And what ListInOrder does.
LEMMA ListFollows == IInv => ListInOrder
  <1> SUFFICES ASSUME IInv PROVE ListInOrder
    OBVIOUS
  <1>1. PICK S : Held(tree, list, S) /\ nelem = Cardinality(S)
    BY DEF IInv
  <1> DEFINE w == InOrder(tree)
  <1>2. Sorted(w, S) /\ S \subseteq Nodes /\ Chain(list, S)
    BY <1>1, HeldIs DEF Held
  <1> HIDE DEF w
  <1>3. Range(w) = S /\ Len(w) = nelem
    BY <1>1, <1>2, RangeIs, SortedIs
  <1>4. /\ list.head = At(w, 1) /\ list.tail = At(w, Len(w))
        /\ \A i \in DOMAIN w :
             list.prev[w[i]] = At(w, i - 1) /\ list.next[w[i]] = At(w, i + 1)
    BY <1>2, ChainOrder
  <1>5. \A n \in Nodes \ S : list.prev[n] = Null /\ list.next[n] = Null
    BY <1>2 DEF Chain
  <1> QED  BY <1>3, <1>4, <1>5 DEF ListInOrder, At, w

-----------------------------------------------------------------------------
(* The theorems *)

\* What a step may do to the set of the nodes held.
LEMMA StepHolds ==
    ASSUME NEW S, Held(tree, list, S), nelem = Cardinality(S), [Next]_vars
    PROVE  \/ UNCHANGED vars
           \/ \E n \in Nodes \ S : /\ Held(tree', list', S \cup {n})
                                   /\ nelem' = Cardinality(S \cup {n})
           \/ \E n \in S : Held(tree', list', S \ {n}) /\ nelem' = Cardinality(S \ {n})
           \/ Held(tree', list', {}) /\ nelem' = 0
  <1>1. ASSUME NEW n \in Nodes, Insert(n)
        PROVE  \/ UNCHANGED vars
               \/ \E m \in Nodes \ S : /\ Held(tree', list', S \cup {m})
                                       /\ nelem' = Cardinality(S \cup {m})
    BY <1>1, InsertHolds
  <1>2. ASSUME NEW n \in Nodes, RemoveNode(n)
        PROVE  \E m \in S : Held(tree', list', S \ {m}) /\ nelem' = Cardinality(S \ {m})
    BY <1>2, RemoveHolds
  <1>3. ASSUME NEW k \in Range(Key), RemoveKey(k)
        PROVE  UNCHANGED vars \/ \E n \in Nodes : RemoveNode(n)
    <2>1. k \in Nat
      BY RbtAssumption DEF Range
    <2> QED  BY <1>3, <2>1, RemoveKeyHolds
  <1>4. ASSUME Fini PROVE Held(tree', list', {}) /\ nelem' = 0
    BY <1>4, FiniHolds
  <1>5. CASE UNCHANGED vars
    BY <1>5
  <1> QED  BY <1>1, <1>2, <1>3, <1>4, <1>5 DEF Next

\* The invariant is inductive.
LEMMA InvariantHolds == Spec => []IInv
  <1>1. Init => IInv
    BY InitHolds, FS_EmptySet DEF IInv
  <1>2. IInv /\ [Next]_vars => IInv'
    <2> SUFFICES ASSUME IInv, [Next]_vars PROVE IInv'
      OBVIOUS
    <2>1. PICK S : Held(tree, list, S) /\ nelem = Cardinality(S)
      BY DEF IInv
    <2>2. ASSUME NEW T, Held(tree', list', T), nelem' = Cardinality(T) PROVE IInv'
      BY <2>2 DEF IInv
    <2>3. CASE UNCHANGED vars
      BY <2>1, <2>2, <2>3 DEF vars
    <2>4. CASE \E n \in Nodes \ S : /\ Held(tree', list', S \cup {n})
                                    /\ nelem' = Cardinality(S \cup {n})
      BY <2>2, <2>4
    <2>5. CASE \E n \in S : Held(tree', list', S \ {n}) /\ nelem' = Cardinality(S \ {n})
      BY <2>2, <2>5
    <2>6. CASE Held(tree', list', {}) /\ nelem' = 0
      BY <2>2, <2>6, FS_EmptySet
    <2> QED  BY <2>1, <2>3, <2>4, <2>5, <2>6, StepHolds
  <1> QED  BY <1>1, <1>2, PTL DEF Spec

\* Through both adjustments and every splice the tree of rbt.c stays a binary
\* search tree with right parent links, a node outside is clean, and rbt_find
\* finds what is listed.
THEOREM TreeIsSearchTree == Spec => []SearchTree
  BY InvariantHolds, TreeFollows, PTL

\* The list of _rbt_insert and _rbt_remove_list is the in-order walk of the tree
\* both ways, and nelem counts it.
THEOREM ListKeepsOrder == Spec => []ListInOrder
  BY InvariantHolds, ListFollows, PTL

\* Each operation of rbt.c does to the list what it would do to a sorted set.
THEOREM TreeIsASortedSet == Spec => ImplementsSortedSet
  <1>1. Init => Abstract!SInit
    <2> SUFFICES ASSUME Init PROVE Walk(list) = <<>>
      BY DEF Abstract!SInit
    <2>1. Sorted(Walk(list), {})
      BY InitHolds, HeldIs
    <2> QED  BY <2>1, SortedNone
  <1>2. IInv /\ [Next]_vars => [Abstract!SNext]_(Walk(list))
    <2> SUFFICES ASSUME IInv, [Next]_vars, Walk(list') # Walk(list)
                 PROVE  Abstract!SNext
      OBVIOUS
    <2>1. PICK S : Held(tree, list, S) /\ nelem = Cardinality(S)
      BY DEF IInv
    <2> DEFINE w == Walk(list)
               v == Walk(list')
    <2>2. Sorted(w, S) /\ S \subseteq Nodes
      BY <2>1, HeldIs
    <2>3. ASSUME NEW T, Held(tree', list', T) PROVE Sorted(v, T) /\ Distinct(T)
      BY <2>3, HeldIs
    <2>4. ~UNCHANGED vars
      BY DEF vars
    <2>5. ASSUME NEW n \in Nodes \ S, Held(tree', list', S \cup {n}) PROVE Abstract!SInsert(n)
      <3>1. Sorted(v, S \cup {n}) /\ \A x \in S : Key[x] # Key[n]
        BY <2>3, <2>5 DEF Distinct
      <3> HIDE DEF v, w
      <3>2. InsertedIn(w, v, n)
        BY <2>2, <3>1, InsertSorted
      <3> QED  BY <3>2 DEF Abstract!SInsert, InsertedIn, v, w
    <2>6. ASSUME NEW n \in S, Held(tree', list', S \ {n}) PROVE Abstract!SRemove(n)
      <3>1. Sorted(v, S \ {n})
        BY <2>3, <2>6
      <3> HIDE DEF v, w
      <3>2. RemovedIn(w, v, n)
        BY <2>2, <3>1, RemoveSorted
      <3> QED  BY <3>2 DEF Abstract!SRemove, RemovedIn, v, w
    <2>7. ASSUME Held(tree', list', {}) PROVE Abstract!SClear
      <3>1. v = <<>>
        BY <2>3, <2>7, SortedNone
      <3> QED  BY <3>1 DEF Abstract!SClear
    <2> HIDE DEF v, w
    <2> QED  BY <2>1, <2>2, <2>4, <2>5, <2>6, <2>7, StepHolds DEF Abstract!SNext
  <1> QED
    BY <1>1, <1>2, InvariantHolds, PTL DEF Spec, ImplementsSortedSet, Abstract!SSpec
=============================================================================
