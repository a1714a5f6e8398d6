----------------------------- MODULE BTrieProofs -----------------------------
(***************************************************************************)
(* The bit trie of btrie.c, of keys of any width.                          *)
(*                                                                         *)
(* The argument is that the links say no more than which places have a     *)
(* node: a child is there just when its place is, and every node but the   *)
(* roots is a child.  An operation is then a set of places that come or    *)
(* go.                                                                     *)
(***************************************************************************)
EXTENDS BTrie, FiniteSetTheorems, SequenceTheorems, TLAPS

-----------------------------------------------------------------------------
(* Induction, over sets of numbers *)

LEMMA Induction ==
  ASSUME NEW T \in SUBSET Nat, 0 \in T, \A n \in T : n + 1 \in T
  PROVE  T = Nat
<1> DEFINE R == {ss \in Nat \X Nat : ss[1] < ss[2]}
           U == Nat \ T
<1>1. IsWellFoundedOn(R, Nat)
  BY NatLessThanWellFounded DEF OpToRel
<1>2. \A x, y \in Nat : y < x => <<y, x>> \in R
  OBVIOUS
<1> HIDE DEF R
<1>3. ASSUME U # {} PROVE FALSE
  <2> DEFINE V == U
  <2>1. V \subseteq Nat /\ V # {}
    BY <1>3
  <2> HIDE DEF V
  <2>2. PICK x \in V : \A y \in V : <<y, x>> \notin R
    BY <1>1, <2>1, WFMin
  <2>3. x \in Nat /\ x \notin T /\ x # 0
    BY <2>2 DEF V
  <2>4. x - 1 \in Nat /\ x - 1 < x /\ (x - 1) + 1 = x
    BY <2>3
  <2>5. x - 1 \in V
    BY <2>3, <2>4 DEF V
  <2> QED
    BY <1>2, <2>2, <2>3, <2>4, <2>5
<1> QED
  BY <1>3

-----------------------------------------------------------------------------
(* Places *)

LEMMA FunIsSeq ==
  ASSUME NEW S, NEW n \in Nat, NEW f \in [1..n -> S]
  PROVE  f \in Seq(S) /\ Len(f) = n
  OBVIOUS

LEMMA PlaceIs ==
  ASSUME NEW n \in Places
  PROVE  /\ n[1] \in 0..TREE_DEPTH - 1 /\ n[1] \in Nat
         /\ n[2] \in Seq({0, 1}) /\ Len(n[2]) \in 0..n[1] /\ n = <<n[1], n[2]>>
<1>1. PICK r \in 0..TREE_DEPTH - 1 : n \in {<<r, p>> : p \in UNION {[1..k -> {0, 1}] : k \in 0..r}}
  BY DEF Places
<1>2. PICK k \in 0..r : \E p \in [1..k -> {0, 1}] : n = <<r, p>>
  BY <1>1
<1>3. PICK p \in [1..k -> {0, 1}] : n = <<r, p>>
  BY <1>2
<1>4. r \in Nat /\ k \in Nat
  BY BTrieAssumption
<1>5. p \in Seq({0, 1}) /\ Len(p) = k
  BY <1>4, FunIsSeq
<1> QED
  BY <1>3, <1>4, <1>5

LEMMA PlaceIf ==
  ASSUME NEW r \in 0..TREE_DEPTH - 1, NEW p \in Seq({0, 1}), Len(p) <= r
  PROVE  <<r, p>> \in Places
<1>1. Len(p) \in Nat /\ p \in [1..Len(p) -> {0, 1}]
  BY LenProperties
<1>2. r \in Nat
  BY BTrieAssumption
<1>3. Len(p) \in 0..r
  BY <1>1, <1>2
<1>4. p \in UNION {[1..k -> {0, 1}] : k \in 0..r}
  BY <1>1, <1>3
<1> QED
  BY <1>4 DEF Places

\* How many bits follow a place.
Height(n) == n[1] - Len(n[2])

LEMMA HeightIs ==
  ASSUME NEW n \in Places
  PROVE  Height(n) \in Nat /\ Height(n) <= TREE_DEPTH - 1 /\ TREE_DEPTH \in Nat
  BY PlaceIs, BTrieAssumption DEF Height

LEMMA RootIs ==
  ASSUME NEW r \in 0..TREE_DEPTH - 1
  PROVE  /\ RootAt(r) \in Places /\ RootAt(r) \in Roots /\ Height(RootAt(r)) = r
         /\ RootAt(r)[1] = r /\ RootAt(r)[2] = <<>>
<1> DEFINE e == <<>>
<1>1. e \in Seq({0, 1}) /\ Len(e) = 0 /\ r \in Nat
  BY BTrieAssumption
<1>2. <<r, e>> \in Places
  <2> HIDE DEF e
  <2>1. e \in Seq({0, 1}) /\ Len(e) <= r
    BY <1>1
  <2> QED  BY <2>1, PlaceIf
<1> QED
  BY <1>1, <1>2 DEF RootAt, Roots, Height

LEMMA RootsArePlaces == Roots \subseteq Places
<1> SUFFICES ASSUME NEW n \in Roots PROVE n \in Places
  OBVIOUS
<1>1. PICK r \in 0..TREE_DEPTH - 1 : n = RootAt(r)
  BY DEF Roots
<1>2. RootAt(r) \in Places
  BY RootIs
<1> QED
  BY <1>1, <1>2

LEMMA RootLen ==
  ASSUME NEW n \in Places
  PROVE  n \in Roots <=> Len(n[2]) = 0
<1>1. n[1] \in 0..TREE_DEPTH - 1 /\ n[2] \in Seq({0, 1}) /\ n = <<n[1], n[2]>>
  BY PlaceIs
<1>2. Len(n[2]) = 0 => n \in Roots
  <2>1. Len(n[2]) = 0 => n[2] = <<>>
    BY <1>1, EmptySeq
  <2> QED  BY <1>1, <2>1 DEF Roots, RootAt
<1>3. n \in Roots => Len(n[2]) = 0
  BY RootIs DEF Roots, RootAt
<1> QED
  BY <1>2, <1>3

LEMMA KidIs ==
  ASSUME NEW q \in Places, NEW s \in {0, 1}
  PROVE  /\ Kid(q, s)[1] = q[1] /\ Kid(q, s)[2] \in Seq({0, 1})
         /\ Len(Kid(q, s)[2]) = Len(q[2]) + 1
         /\ \A i \in 1..Len(q[2]) : Kid(q, s)[2][i] = q[2][i]
         /\ Kid(q, s)[2][Len(q[2]) + 1] = s
         /\ Height(Kid(q, s)) = Height(q) - 1
         /\ Kid(q, s) \notin Roots
         /\ Kid(q, s) \in Places <=> Height(q) > 0
<1>1. q[1] \in 0..TREE_DEPTH - 1 /\ q[1] \in Nat /\ q[2] \in Seq({0, 1}) /\ Len(q[2]) \in Nat
  BY PlaceIs, LenProperties
<1> DEFINE p == q[2]
           a == Append(p, s)
<1>2. /\ a \in Seq({0, 1}) /\ Len(a) = Len(p) + 1
      /\ \A i \in 1..Len(p) : a[i] = p[i]
      /\ a[Len(p) + 1] = s
  BY <1>1, AppendProperties
<1>3. Kid(q, s)[1] = q[1] /\ Kid(q, s)[2] = a /\ Kid(q, s) = <<q[1], a>>
  BY DEF Kid
<1> HIDE DEF a
<1>4. Height(Kid(q, s)) = Height(q) - 1
  BY <1>1, <1>2, <1>3 DEF Height
<1>5. Kid(q, s) \in Places => Height(q) > 0
  BY <1>1, <1>4, HeightIs
<1>6. Height(q) > 0 => Kid(q, s) \in Places
  <2>1. Height(q) > 0 => Len(a) <= q[1]
    BY <1>1, <1>2 DEF Height
  <2> QED  BY <1>1, <1>2, <1>3, <2>1, PlaceIf
<1>7. Kid(q, s) \notin Roots
  <2>1. Len(a) # 0
    BY <1>1, <1>2
  <2> QED  BY <1>3, <2>1, RootIs DEF Roots
<1> QED
  BY <1>2, <1>3, <1>4, <1>5, <1>6, <1>7

LEMMA KidOnce ==
  ASSUME NEW q \in Places, NEW s \in {0, 1}, NEW z \in Places, NEW t \in {0, 1},
         Kid(q, s) = Kid(z, t)
  PROVE  q = z /\ s = t
<1>1. /\ q[2] \in Seq({0, 1}) /\ z[2] \in Seq({0, 1}) /\ q = <<q[1], q[2]>> /\ z = <<z[1], z[2]>>
      /\ Len(q[2]) \in Nat /\ Len(z[2]) \in Nat
  BY PlaceIs, LenProperties
<1>2. q[1] = z[1] /\ Len(q[2]) = Len(z[2]) /\ s = t
  <2>1. q[1] = z[1] /\ Len(q[2]) + 1 = Len(z[2]) + 1
    BY KidIs
  <2>2. Len(q[2]) = Len(z[2])
    BY <1>1, <2>1
  <2> QED  BY <2>1, <2>2, KidIs
<1>3. \A i \in 1..Len(q[2]) : q[2][i] = z[2][i]
  BY <1>2, KidIs, SMTT(40)
<1>4. q[2] = z[2]
  BY <1>1, <1>2, <1>3, SeqEqual
<1> QED
  BY <1>1, <1>2, <1>4

\* Place k is below place n.
Under(k, n) ==
    /\ k[1] = n[1] /\ Len(n[2]) < Len(k[2])
    /\ \A i \in 1..Len(n[2]) : k[2][i] = n[2][i]

LEMMA UnderKid ==
  ASSUME NEW q \in Places, NEW s \in {0, 1}, NEW n \in Places
  PROVE  Under(Kid(q, s), n) <=> q = n \/ Under(q, n)
<1> DEFINE k == Kid(q, s)
<1>1. /\ q[2] \in Seq({0, 1}) /\ n[2] \in Seq({0, 1}) /\ q = <<q[1], q[2]>> /\ n = <<n[1], n[2]>>
      /\ Len(q[2]) \in Nat /\ Len(n[2]) \in Nat
  BY PlaceIs, LenProperties
<1>2. /\ k[1] = q[1] /\ Len(k[2]) = Len(q[2]) + 1
      /\ \A i \in 1..Len(q[2]) : k[2][i] = q[2][i]
  BY KidIs
<1> HIDE DEF k
<1>3. ASSUME q = n PROVE Under(k, n)
  BY <1>1, <1>2, <1>3 DEF Under
<1>4. ASSUME Under(q, n) PROVE Under(k, n)
  <2>1. \A i \in 1..Len(n[2]) : i \in 1..Len(q[2]) /\ q[2][i] = n[2][i]
    BY <1>1, <1>4 DEF Under
  <2> QED  BY <1>1, <1>2, <1>4, <2>1 DEF Under
<1>5. ASSUME Under(k, n) PROVE q = n \/ Under(q, n)
  <2>1. q[1] = n[1] /\ Len(n[2]) <= Len(q[2])
    BY <1>1, <1>2, <1>5 DEF Under
  <2>2. \A i \in 1..Len(n[2]) : q[2][i] = n[2][i]
    <3>1. \A i \in 1..Len(n[2]) : i \in 1..Len(q[2])
      BY <1>1, <2>1
    <3> QED  BY <1>2, <1>5, <3>1 DEF Under
  <2>3. CASE Len(n[2]) = Len(q[2])
    <3>1. q[2] = n[2]
      BY <1>1, <2>2, <2>3, SeqEqual
    <3> QED  BY <1>1, <2>1, <3>1
  <2>4. CASE Len(n[2]) < Len(q[2])
    BY <2>1, <2>2, <2>4 DEF Under
  <2> QED  BY <1>1, <2>1, <2>3, <2>4
<1> QED
  BY <1>3, <1>4, <1>5 DEF k

LEMMA UnderHeight ==
  ASSUME NEW k \in Places, NEW n \in Places, Under(k, n)
  PROVE  Height(k) < Height(n) /\ k \notin Roots /\ k # n
<1>1. Len(k[2]) \in Nat /\ Len(n[2]) \in Nat /\ k[1] \in Nat /\ n[1] \in Nat
  BY PlaceIs, LenProperties
<1>2. k[1] = n[1] /\ Len(n[2]) < Len(k[2])
  BY DEF Under
<1> QED
  BY <1>1, <1>2, RootLen DEF Height

-----------------------------------------------------------------------------
(* Tries *)

\* Places from which one comes up to a root.
Closed(D) ==
    /\ Roots \subseteq D /\ D \subseteq Places /\ IsFiniteSet(D)
    /\ \A k \in D \ Roots : \E n \in D, s \in {0, 1} : k = Kid(n, s)

Down(D, n, s) == IF Kid(n, s) \in D THEN Kid(n, s) ELSE Null

\* The fields v of the node at n go with its place, where D is what is allocated.
Fits(D, n, v) ==
    /\ v.idx = Height(n)
    /\ \A s \in {0, 1} : v.child[s] = Down(D, n, s)
    /\ n \in Roots => v.parent = Null
    /\ \A q \in Places, s \in {0, 1} : n = Kid(q, s) => v.parent = q /\ v.sel = s

Shape(m) ==
    /\ Closed(DOMAIN m)
    /\ m \in [DOMAIN m -> Fields]
    /\ \A n \in DOMAIN m : Fits(DOMAIN m, n, m[n])

Size(m) == Cardinality(DOMAIN m \ Roots)

\* What is below a place.
Sub(D, n) == {k \in D : Under(k, n)}

LEMMA UnderRoot ==
  ASSUME NEW k \in Roots, NEW n \in Places
  PROVE  ~Under(k, n)
<1>1. k \in Places
  BY RootsArePlaces
<1> QED
  BY <1>1, UnderHeight

\* k is a place next below n, or below one of these.
ByKid(D, k, n) ==
    \E s \in {0, 1} : Kid(n, s) \in D /\ (k = Kid(n, s) \/ Under(k, Kid(n, s)))

LEMMA SubStep ==
  ASSUME NEW D, Closed(D), NEW n \in D, NEW k \in D
  PROVE  Under(k, n) <=> ByKid(D, k, n)
<1> USE DEF ByKid
<1> DEFINE P(x) == Under(x, n) <=> ByKid(D, x, n)
           T == {h \in Nat : \A x \in D : Len(x[2]) = h => P(x)}
<1>0. n \in Places /\ D \subseteq Places
  BY DEF Closed
<1>1. ASSUME NEW x \in D, x \in Roots PROVE P(x)
  <2>1. ~Under(x, n)
    BY <1>0, <1>1, UnderRoot
  <2>2. ASSUME NEW s \in {0, 1}, Kid(n, s) \in D
        PROVE  x # Kid(n, s) /\ ~Under(x, Kid(n, s))
    BY <1>0, <1>1, <2>2, KidIs, UnderRoot
  <2> QED  BY <2>1, <2>2
<1>2. ASSUME NEW q \in D, NEW t \in {0, 1}, Kid(q, t) \in D, P(q) PROVE P(Kid(q, t))
  <2> DEFINE x == Kid(q, t)
  <2>0. q \in Places
    BY <1>0
  <2>1. Under(x, n) <=> q = n \/ Under(q, n)
    BY <1>0, <2>0, UnderKid
  <2>2. ASSUME NEW s \in {0, 1}, Kid(n, s) \in D
        PROVE  /\ Under(x, Kid(n, s)) <=> q = Kid(n, s) \/ Under(q, Kid(n, s))
               /\ x = Kid(n, s) => q = n
    BY <1>0, <2>0, <2>2, UnderKid, KidOnce
  <2> HIDE DEF x
  <2>3. CASE q = n
    <3>1. x = Kid(n, t) /\ Kid(n, t) \in D
      BY <1>2, <2>3 DEF x
    <3>2. P(x)
      BY <2>1, <2>3, <3>1
    <3> QED  BY <3>2 DEF x
  <2>4. CASE q # n
    <3>1. P(x)
      BY <1>2, <2>1, <2>2, <2>4
    <3> QED  BY <3>1 DEF x
  <2> QED  BY <2>3, <2>4
<1>3. 0 \in T
  <2>1. ASSUME NEW x \in D, Len(x[2]) = 0 PROVE P(x)
    <3>1. x \in Roots
      BY <1>0, <2>1, RootLen
    <3> QED  BY <1>1, <3>1
  <2> HIDE DEF P
  <2> QED  BY <2>1
<1>4. ASSUME NEW h \in T PROVE h + 1 \in T
  <2>1. ASSUME NEW x \in D, Len(x[2]) = h + 1 PROVE P(x)
    <3>1. x \notin Roots
      BY <1>0, <2>1, RootLen
    <3>2. PICK q \in D, t \in {0, 1} : x = Kid(q, t)
      BY <3>1 DEF Closed
    <3>3. Len(x[2]) = Len(q[2]) + 1 /\ Len(q[2]) \in Nat
      BY <1>0, <3>2, KidIs, PlaceIs, LenProperties
    <3>4. Len(q[2]) = h
      BY <2>1, <3>3
    <3> HIDE DEF P
    <3>5. P(q)
      BY <3>4
    <3>6. P(Kid(q, t))
      BY <1>2, <3>2, <3>5
    <3> QED  BY <3>2, <3>6
  <2> HIDE DEF P
  <2> QED  BY <2>1
<1>5. T = Nat
  <2> HIDE DEF T
  <2> QED  BY <1>3, <1>4, Induction DEF T
<1>6. Len(k[2]) \in Nat
  BY <1>0, PlaceIs, LenProperties
<1>7. P(k)
  <2> HIDE DEF P
  <2> QED  BY <1>5, <1>6
<1> QED
  BY <1>7

LEMMA KidsAre ==
  ASSUME NEW m, Shape(m), NEW n \in DOMAIN m
  PROVE  /\ \A k : k \in Kids(m, n) <=> \E s \in {0, 1} : k = Kid(n, s) /\ Kid(n, s) \in DOMAIN m
         /\ Kids(m, n) \subseteq DOMAIN m
<1>1. \A s \in {0, 1} : m[n].child[s] = Down(DOMAIN m, n, s)
  BY DEF Shape, Fits
<1>2. Null \notin DOMAIN m
  BY NullAssumption DEF Shape, Closed
<1>3. Kids(m, n) = {Down(DOMAIN m, n, 0), Down(DOMAIN m, n, 1)} \ {Null}
  BY <1>1 DEF Kids
<1> QED
  BY <1>2, <1>3 DEF Down

LEMMA BelowIs ==
  ASSUME NEW m, Shape(m), NEW n \in DOMAIN m
  PROVE  Below(m, n) = Sub(DOMAIN m, n)
<1> DEFINE D == DOMAIN m
           Eq(g) == g = [x \in D |-> Kids(m, x) \cup UNION {g[k] : k \in Kids(m, x)}]
           f == [x \in D |-> Sub(D, x)]
<1>0. Closed(D) /\ D \subseteq Places
  BY DEF Shape, Closed
<1>1. ASSUME NEW x \in D
      PROVE  Sub(D, x) = Kids(m, x) \cup UNION {Sub(D, k) : k \in Kids(m, x)}
  <2>1. \A k : k \in Kids(m, x) <=> \E s \in {0, 1} : k = Kid(x, s) /\ Kid(x, s) \in D
    BY KidsAre
  <2>2. Kids(m, x) \subseteq D
    BY KidsAre
  <2>3. \A k \in D : Under(k, x) <=> ByKid(D, k, x)
    BY <1>0, SubStep
  <2> HIDE DEF D
  <2>4. ASSUME NEW k \in D
        PROVE  Under(k, x) <=> k \in Kids(m, x) \/ \E l \in Kids(m, x) : Under(k, l)
    BY <2>1, <2>3, <2>4 DEF ByKid
  <2> QED  BY <2>2, <2>4 DEF Sub
<1>2. Eq(f)
  <2>1. ASSUME NEW x \in D
        PROVE  f[x] = Kids(m, x) \cup UNION {f[k] : k \in Kids(m, x)}
    <3>1. f[x] = Sub(D, x) /\ \A k \in Kids(m, x) : f[k] = Sub(D, k)
      BY KidsAre
    <3>2. Sub(D, x) = Kids(m, x) \cup UNION {Sub(D, k) : k \in Kids(m, x)}
      BY <1>1
    <3> HIDE DEF f, D
    <3>3. {f[k] : k \in Kids(m, x)} = {Sub(D, k) : k \in Kids(m, x)}
      BY ONLY <3>1
    <3> QED  BY ONLY <3>1, <3>2, <3>3
  <2> QED  BY <2>1
<1>3. ASSUME NEW g, Eq(g) PROVE \A x \in D : g[x] = Sub(D, x)
  <2> DEFINE T == {h \in Nat : \A x \in D : Height(x) = h => g[x] = Sub(D, x)}
  <2>1. \A x \in D : g[x] = Kids(m, x) \cup UNION {g[k] : k \in Kids(m, x)}
    BY <1>3
  <2>2. ASSUME NEW x \in D, \A k \in Kids(m, x) : g[k] = Sub(D, k)
        PROVE  g[x] = Sub(D, x)
    <3>1. {g[k] : k \in Kids(m, x)} = {Sub(D, k) : k \in Kids(m, x)}
      BY <2>2
    <3> QED  BY <1>1, <2>1, <3>1
  <2>3. ASSUME NEW x \in D, NEW k \in Kids(m, x)
        PROVE  k \in D /\ Height(k) = Height(x) - 1 /\ Height(x) > 0 /\ Height(x) \in Nat
    <3>1. PICK s \in {0, 1} : k = Kid(x, s) /\ k \in D
      BY KidsAre
    <3> QED  BY <1>0, <3>1, KidIs, HeightIs
  <2>4. 0 \in T
    <3>1. ASSUME NEW x \in D, Height(x) = 0 PROVE g[x] = Sub(D, x)
      <4>1. \A k \in Kids(m, x) : FALSE
        BY <2>3, <3>1
      <4> QED  BY <2>2, <4>1
    <3> QED  BY <3>1
  <2>5. ASSUME NEW h \in T PROVE h + 1 \in T
    <3>1. ASSUME NEW x \in D, Height(x) = h + 1 PROVE g[x] = Sub(D, x)
      <4>1. \A k \in Kids(m, x) : k \in D /\ Height(k) = h
        BY <2>3, <3>1
      <4> QED  BY <2>2, <4>1
    <3> QED  BY <3>1
  <2>6. T = Nat
    <3> HIDE DEF T
    <3> QED  BY <2>4, <2>5, Induction DEF T
  <2> QED  BY <1>0, <2>6, HeightIs
<1> DEFINE b == CHOOSE g : Eq(g)
<1>4. Eq(b)
  <2> HIDE DEF f, Eq
  <2> QED  BY <1>2
<1>5. Below(m, n) = b[n]
  BY DEF Below
<1> HIDE DEF b, Eq
<1> QED
  BY <1>3, <1>4, <1>5

-----------------------------------------------------------------------------
(* Nodes that go *)

\* m2 is m without the nodes of G, and their parents have lost them.
Cropped(m, m2, G) ==
    /\ m2 \in [DOMAIN m \ G -> Fields]
    /\ \A n \in DOMAIN m \ G :
           /\ m2[n].parent = m[n].parent /\ m2[n].idx = m[n].idx /\ m2[n].sel = m[n].sel
           /\ \A s \in {0, 1} : m2[n].child[s] = IF m[n].child[s] \in G THEN Null
                                                ELSE m[n].child[s]

\* G has what is next below each of its places.
Whole(D, G) ==
    /\ G \subseteq D \ Roots
    /\ \A n \in G, s \in {0, 1} : Kid(n, s) \in D => Kid(n, s) \in G

LEMMA CropShape ==
  ASSUME NEW m, Shape(m), NEW G, Whole(DOMAIN m, G), NEW m2, Cropped(m, m2, G)
  PROVE  Shape(m2) /\ DOMAIN m2 = DOMAIN m \ G
<1> DEFINE D == DOMAIN m
           D2 == D \ G
<1>1. DOMAIN m2 = D2 /\ m2 \in [D2 -> Fields]
  BY DEF Cropped
<1>2. Closed(D) /\ D \subseteq Places /\ Null \notin D
  BY NullAssumption DEF Shape, Closed
<1>3. Closed(D2)
  <2>1. Roots \subseteq D2 /\ D2 \subseteq Places /\ IsFiniteSet(D2)
    BY <1>2, FS_Subset DEF Closed, Whole
  <2>2. ASSUME NEW k \in D2 \ Roots PROVE \E n \in D2, s \in {0, 1} : k = Kid(n, s)
    <3>1. PICK n \in D, s \in {0, 1} : k = Kid(n, s)
      BY <1>2 DEF Closed
    <3>2. n \notin G
      BY <3>1 DEF Whole
    <3> QED  BY <3>1, <3>2
  <2> QED  BY <2>1, <2>2 DEF Closed
<1>4. ASSUME NEW n \in D2 PROVE Fits(D2, n, m2[n])
  <2>1. Fits(D, n, m[n])
    BY DEF Shape
  <2>2. /\ m2[n].parent = m[n].parent /\ m2[n].idx = m[n].idx /\ m2[n].sel = m[n].sel
        /\ \A s \in {0, 1} : m2[n].child[s] = IF m[n].child[s] \in G THEN Null
                                             ELSE m[n].child[s]
    BY DEF Cropped
  <2>3. ASSUME NEW s \in {0, 1} PROVE m2[n].child[s] = Down(D2, n, s)
    <3>1. m[n].child[s] = Down(D, n, s)
      BY <2>1 DEF Fits
    <3>2. G \subseteq D
      BY DEF Whole
    <3> QED  BY <1>2, <2>2, <3>1, <3>2 DEF Down
  <2> QED  BY <2>1, <2>2, <2>3 DEF Fits
<1> QED
  BY <1>1, <1>3, <1>4 DEF Shape

LEMMA CropSize ==
  ASSUME NEW m, Shape(m), NEW G, Whole(DOMAIN m, G), NEW m2, Cropped(m, m2, G)
  PROVE  /\ IsFiniteSet(G) /\ Cardinality(G) \in Nat /\ Size(m) \in Nat
         /\ Size(m2) = Size(m) - Cardinality(G)
<1> DEFINE W == DOMAIN m \ Roots
<1>1. IsFiniteSet(W) /\ G \subseteq W
  BY FS_Subset DEF Shape, Closed, Whole
<1>2. DOMAIN m2 \ Roots = W \ G
  BY DEF Cropped
<1> HIDE DEF W
<1>3. IsFiniteSet(G) /\ Cardinality(G) \in Nat /\ Cardinality(W) \in Nat
  BY <1>1, FS_Subset, FS_CardinalityType
<1>4. W \cap G = G
  BY <1>1
<1>5. Cardinality(W \ G) = Cardinality(W) - Cardinality(W \cap G)
  BY <1>1, FS_Difference
<1>6. Cardinality(W \ G) = Cardinality(W) - Cardinality(G)
  BY <1>4, <1>5
<1> QED
  BY <1>2, <1>3, <1>6 DEF Size, W

\* The orphans of a trie, and what keeps a node from being one.
OrphansOf(m) == {n \in DOMAIN m \ Roots : IsOrphan(m, n)}

LEMMA OrphanIs ==
  ASSUME NEW m, Shape(m), NEW n \in DOMAIN m
  PROVE  IsOrphan(m, n) <=> m[n].value = Null /\ \A s \in {0, 1} : Kid(n, s) \notin DOMAIN m
  BY KidsAre DEF IsOrphan

\* Only the parents of what went have become orphans.
LEMMA CropOrphans ==
  ASSUME NEW m, Shape(m), NEW G, Whole(DOMAIN m, G), NEW m2, Cropped(m, m2, G),
         \A n \in DOMAIN m2 \ Roots : m2[n].value = m[n].value,
         NEW n \in OrphansOf(m2)
  PROVE  n \in OrphansOf(m) \/ \E s \in {0, 1} : Kid(n, s) \in G
<1>1. Shape(m2) /\ DOMAIN m2 = DOMAIN m \ G
  BY CropShape
<1>2. n \in DOMAIN m2 \ Roots /\ n \in DOMAIN m /\ IsOrphan(m2, n)
  BY <1>1 DEF OrphansOf
<1>3. m2[n].value = Null /\ \A s \in {0, 1} : Kid(n, s) \notin DOMAIN m2
  BY <1>1, <1>2, OrphanIs
<1>4. m[n].value = Null
  BY <1>2, <1>3
<1>5. ASSUME \A s \in {0, 1} : Kid(n, s) \notin G PROVE n \in OrphansOf(m)
  <2>1. \A s \in {0, 1} : Kid(n, s) \notin DOMAIN m
    BY <1>1, <1>3, <1>5
  <2>2. IsOrphan(m, n)
    BY <1>2, <1>4, <2>1, OrphanIs
  <2> QED  BY <1>2, <2>2 DEF OrphansOf
<1> QED
  BY <1>5

-----------------------------------------------------------------------------
(* Bits *)

Half(key, w, j) == IF j = 0 THEN key ELSE w[j - 1] \div 2

Halves(key, w, n) == w = [j \in 0..n |-> Half(key, w, j)]

LEMMA HalvesExist ==
  ASSUME NEW key, NEW n \in Nat
  PROVE  \E w : Halves(key, w, n)
<1> DEFINE T == {k \in Nat : \E w : Halves(key, w, k)}
<1>1. 0 \in T
  <2> DEFINE w == [j \in 0..0 |-> Half(key, <<>>, j)]
  <2>1. Halves(key, w, 0)
    BY DEF Halves, Half
  <2> QED  BY <2>1
<1>2. ASSUME NEW k \in T PROVE k + 1 \in T
  <2>1. PICK w : Halves(key, w, k)
    OBVIOUS
  <2> DEFINE v == [j \in 0..k + 1 |-> Half(key, w, j)]
  <2>2. \A j \in 0..k : w[j] = Half(key, w, j)
    BY <2>1 DEF Halves
  <2>3. ASSUME NEW j \in 0..k + 1 PROVE Half(key, w, j) = Half(key, v, j)
    <3>1. CASE j = 0
      BY <3>1 DEF Half
    <3>2. CASE j # 0
      <4>1. j - 1 \in 0..k /\ j - 1 \in 0..k + 1
        BY <3>2
      <4>2. v[j - 1] = w[j - 1]
        BY <2>2, <4>1
      <4> QED  BY <3>2, <4>2 DEF Half
    <3> QED  BY <3>1, <3>2
  <2>4. Halves(key, v, k + 1)
    BY <2>3 DEF Halves
  <2> QED  BY <2>4
<1>3. T = Nat
  <2> HIDE DEF T
  <2> QED  BY <1>1, <1>2, Induction DEF T
<1> QED
  BY <1>3

LEMMA ShiftedNat ==
  ASSUME NEW key \in Nat, NEW i \in Nat
  PROVE  Shifted(key, i) \in Nat
<1> DEFINE h == CHOOSE w : Halves(key, w, i)
<1>1. Halves(key, h, i)
  BY HalvesExist
<1>2. Shifted(key, i) = h[i]
  BY DEF Shifted, Halves, Half
<1> HIDE DEF h
<1>3. \A j \in 0..i : h[j] = Half(key, h, j)
  BY <1>1 DEF Halves
<1> DEFINE T == {k \in Nat : k <= i => h[k] \in Nat}
<1>4. 0 \in T
  BY <1>3 DEF Half
<1>5. ASSUME NEW k \in T PROVE k + 1 \in T
  <2>1. ASSUME k + 1 <= i PROVE h[k + 1] \in Nat
    <3>1. k + 1 \in 0..i /\ k + 1 # 0 /\ (k + 1) - 1 = k /\ h[k] \in Nat
      BY <2>1
    <3>2. h[k + 1] = h[k] \div 2
      BY <1>3, <3>1 DEF Half
    <3> QED  BY <3>1, <3>2
  <2> QED  BY <2>1
<1>6. T = Nat
  <2> HIDE DEF T
  <2> QED  BY <1>4, <1>5, Induction DEF T
<1> QED
  BY <1>2, <1>6

LEMMA BitIs ==
  ASSUME NEW key \in Keys, NEW i \in Nat
  PROVE  Bit(key, i) \in {0, 1}
<1>1. key \in Nat
  BY BTrieAssumption
<1> DEFINE h == Shifted(key, i)
<1>2. h \in Nat
  BY <1>1, ShiftedNat
<1>3. Bit(key, i) = h % 2
  BY DEF Bit
<1> HIDE DEF h
<1> QED
  BY <1>2, <1>3

LEMMA MsbIs ==
  ASSUME NEW key \in Keys
  PROVE  Msb(key) \in 0..TREE_DEPTH - 1 /\ Msb(key) \in Nat
<1>1. \E r \in 0..TREE_DEPTH - 1 : Shifted(key, r) = 1
  BY BTrieAssumption
<1>2. Msb(key) \in 0..TREE_DEPTH - 1
  BY <1>1 DEF Msb
<1> QED
  BY <1>2, BTrieAssumption

-----------------------------------------------------------------------------
(* A node that comes *)

\* m2 is m with a new node below q, on side s.
Grown(m, m2, q, s) ==
    /\ m2 \in [DOMAIN m \cup {Kid(q, s)} -> Fields]
    /\ m2[Kid(q, s)] = Node(q, Height(q) - 1, s)
    /\ \A n \in DOMAIN m \ {q} : m2[n] = m[n]
    /\ m2[q].parent = m[q].parent /\ m2[q].idx = m[q].idx /\ m2[q].sel = m[q].sel
    /\ m2[q].value = m[q].value
    /\ \A t \in {0, 1} : m2[q].child[t] = IF t = s THEN Kid(q, s) ELSE m[q].child[t]

\* ... where there was none.
Grows(m, m2, q, s) ==
    /\ Shape(m) /\ q \in DOMAIN m /\ s \in {0, 1}
    /\ Kid(q, s) \notin DOMAIN m /\ Height(q) > 0
    /\ Grown(m, m2, q, s)

LEMMA GrowShape ==
  ASSUME NEW m, NEW m2, NEW q, NEW s, Grows(m, m2, q, s)
  PROVE  Shape(m2) /\ DOMAIN m2 = DOMAIN m \cup {Kid(q, s)} /\ Size(m2) = Size(m) + 1
<1> USE DEF Grows
<1> DEFINE D == DOMAIN m
           k == Kid(q, s)
           D2 == D \cup {k}
<1>1. DOMAIN m2 = D2 /\ m2 \in [D2 -> Fields]
  BY DEF Grown
<1>2. Closed(D) /\ D \subseteq Places /\ Null \notin D /\ Roots \subseteq D
  BY NullAssumption DEF Shape, Closed
<1>3. q \in Places /\ k \in Places /\ k \notin Roots /\ Height(k) = Height(q) - 1
  BY <1>2, KidIs
<1>4. ASSUME NEW n \in D, NEW t \in {0, 1} PROVE Kid(n, t) = k => n = q /\ t = s
  BY <1>2, <1>3, KidOnce
<1>5. ASSUME NEW t \in {0, 1} PROVE Kid(k, t) \notin D2
  <2>1. Kid(k, t) # k
    BY <1>3, KidIs, HeightIs
  <2>2. ASSUME Kid(k, t) \in D PROVE FALSE
    <3>1. Kid(k, t) \in Places /\ Kid(k, t) \notin Roots
      BY <1>2, <1>3, <2>2, KidIs
    <3>2. PICK n \in D, u \in {0, 1} : Kid(k, t) = Kid(n, u)
      BY <1>2, <2>2, <3>1 DEF Closed
    <3>3. k = n
      BY <1>2, <1>3, <3>2, KidOnce
    <3> QED  BY <3>3
  <2> QED  BY <2>1, <2>2
<1>6. Closed(D2)
  <2>1. IsFiniteSet(D2)
    BY <1>2, FS_AddElement DEF Closed
  <2>2. ASSUME NEW x \in D2 \ Roots PROVE \E n \in D2, t \in {0, 1} : x = Kid(n, t)
    BY <1>2 DEF Closed
  <2> QED  BY <1>2, <1>3, <2>1, <2>2 DEF Closed
<1> HIDE DEF k
<1>7. Fits(D2, k, m2[k])
  <2>1. m2[k] = Node(q, Height(q) - 1, s)
    BY DEF Grown, k
  <2>2. m2[k].idx = Height(k) /\ m2[k].parent = q /\ m2[k].sel = s
    BY <1>3, <2>1 DEF Node
  <2>3. ASSUME NEW t \in {0, 1} PROVE m2[k].child[t] = Down(D2, k, t)
    <3>1. m2[k].child[t] = Null
      BY <2>1 DEF Node
    <3> QED  BY <1>5, <3>1 DEF Down
  <2>4. \A z \in Places, t \in {0, 1} : k = Kid(z, t) => z = q /\ t = s
    BY <1>3, KidOnce DEF k
  <2> QED  BY <1>3, <2>2, <2>3, <2>4 DEF Fits
<1>8. ASSUME NEW n \in D \ {q} PROVE Fits(D2, n, m2[n])
  <2>1. Fits(D, n, m[n]) /\ m2[n] = m[n]
    BY DEF Shape, Grown
  <2>2. ASSUME NEW t \in {0, 1} PROVE Down(D2, n, t) = Down(D, n, t)
    BY <1>4 DEF Down
  <2> QED  BY <2>1, <2>2 DEF Fits
<1>9. Fits(D2, q, m2[q])
  <2>1. Fits(D, q, m[q])
    BY DEF Shape
  <2>2. ASSUME NEW t \in {0, 1} PROVE m2[q].child[t] = Down(D2, q, t)
    <3>1. m2[q].child[t] = IF t = s THEN k ELSE m[q].child[t]
      BY DEF Grown, k
    <3>2. m[q].child[t] = Down(D, q, t)
      BY <2>1 DEF Fits
    <3>3. CASE t = s
      <4>1. Kid(q, t) = k
        BY <3>3 DEF k
      <4> QED  BY <3>1, <3>3, <4>1 DEF Down
    <3>4. CASE t # s
      BY <1>4, <3>1, <3>2, <3>4 DEF Down
    <3> QED  BY <3>3, <3>4
  <2>3. m2[q].parent = m[q].parent /\ m2[q].idx = m[q].idx /\ m2[q].sel = m[q].sel
    BY DEF Grown
  <2> QED  BY <2>1, <2>2, <2>3 DEF Fits
<1>10. Shape(m2)
  BY <1>1, <1>6, <1>7, <1>8, <1>9 DEF Shape
<1>11. Size(m2) = Size(m) + 1
  <2> DEFINE W == D \ Roots
  <2>1. DOMAIN m2 \ Roots = W \cup {k}
    BY <1>1, <1>3
  <2>2. IsFiniteSet(W) /\ k \notin W
    BY <1>2, FS_Subset DEF Closed, k
  <2> HIDE DEF W
  <2>3. Cardinality(W \cup {k}) = Cardinality(W) + 1
    BY <2>2, FS_AddElement
  <2> QED  BY <2>1, <2>3 DEF Size, W
<1> QED
  BY <1>1, <1>10, <1>11 DEF k

LEMMA GrowOrphans ==
  ASSUME NEW m, NEW m2, NEW q, NEW s, Grows(m, m2, q, s)
  PROVE  OrphansOf(m2) \subseteq (OrphansOf(m) \ {q}) \cup {Kid(q, s)}
<1>1. Shape(m2) /\ DOMAIN m2 = DOMAIN m \cup {Kid(q, s)}
  BY GrowShape
<1> USE DEF Grows
<1> SUFFICES ASSUME NEW n \in OrphansOf(m2), n # Kid(q, s) PROVE n \in OrphansOf(m) \ {q}
  OBVIOUS
<1>2. n \in DOMAIN m2 \ Roots /\ n \in DOMAIN m /\ IsOrphan(m2, n)
  BY <1>1 DEF OrphansOf
<1>3. m2[n].value = Null /\ \A t \in {0, 1} : Kid(n, t) \notin DOMAIN m2
  BY <1>1, <1>2, OrphanIs
<1>4. n # q
  BY <1>1, <1>3
<1>5. m[n].value = Null /\ \A t \in {0, 1} : Kid(n, t) \notin DOMAIN m
  BY <1>1, <1>2, <1>3, <1>4 DEF Grown
<1>6. IsOrphan(m, n)
  BY <1>2, <1>5, OrphanIs
<1> QED
  BY <1>2, <1>4, <1>6 DEF OrphansOf

-----------------------------------------------------------------------------
(* btrie_add_node *)

\* The node that one turn of the loop makes.
Made(m, q, i, s) ==
    [n \in DOMAIN m \cup {Kid(q, s)} |->
        IF n = Kid(q, s) THEN Node(q, i, s)
        ELSE IF n = q THEN [m[n] EXCEPT !.child[s] = Kid(q, s)]
        ELSE m[n]]

LEMMA NodeIs ==
  ASSUME NEW q \in Places \cup {Null}, NEW i \in 0..TREE_DEPTH - 1, NEW s \in {0, 1}
  PROVE  Node(q, i, s) \in Fields
  BY DEF Node, Fields

LEMMA MadeIs ==
  ASSUME NEW m, Shape(m), NEW q \in DOMAIN m, NEW s \in {0, 1},
         Kid(q, s) \notin DOMAIN m, Height(q) > 0
  PROVE  Grows(m, Made(m, q, Height(q) - 1, s), q, s)
<1> DEFINE i == Height(q) - 1
           k == Kid(q, s)
           m2 == Made(m, q, i, s)
<1>1. q \in Places /\ k \in Places /\ k # q
  BY KidIs DEF Shape, Closed
<1>2. i \in 0..TREE_DEPTH - 1
  BY <1>1, HeightIs
<1>3. m \in [DOMAIN m -> Fields] /\ m[q] \in Fields
  BY DEF Shape
<1> HIDE DEF i, k
<1> DEFINE v == [m[q] EXCEPT !.child[s] = k]
<1>4. /\ v \in Fields /\ v.parent = m[q].parent /\ v.idx = m[q].idx /\ v.sel = m[q].sel
      /\ v.value = m[q].value
      /\ \A t \in {0, 1} : v.child[t] = IF t = s THEN k ELSE m[q].child[t]
  BY <1>1, <1>3 DEF Fields
<1>5. Node(q, i, s) \in Fields
  BY <1>1, <1>2, NodeIs
<1>6. DOMAIN m2 = DOMAIN m \cup {k} /\ m2 = [n \in DOMAIN m2 |-> m2[n]]
  BY DEF Made, k
<1>7. m2[k] = Node(q, i, s) /\ m2[q] = v /\ \A n \in DOMAIN m \ {q} : m2[n] = m[n]
  BY <1>1 DEF Made, k
<1> HIDE DEF v, m2
<1>8. \A n \in DOMAIN m2 : m2[n] \in Fields
  BY <1>3, <1>4, <1>5, <1>6, <1>7
<1>9. m2 \in [DOMAIN m \cup {k} -> Fields]
  BY <1>6, <1>8
<1>10. Grown(m, m2, q, s)
  BY <1>4, <1>7, <1>9 DEF Grown, i, k
<1> QED
  BY <1>10 DEF Grows, m2, i

\* The trie after the turns of the loop for the bits down to i.
Walked(s, i) ==
    /\ DOMAIN s = {"mem", "volume", "cur"}
    /\ Shape(s.mem) /\ s.volume = Size(s.mem)
    /\ s.cur \in DOMAIN s.mem /\ Height(s.cur) = i
    /\ OrphansOf(s.mem) \ {s.cur} \subseteq OrphansOf(mem)

AddStep(s, key, i) ==
    LET sel == Bit(key, i)
        kid == s.mem[s.cur].child[sel]
        new == Kid(s.cur, sel)
    IN  IF kid # Null THEN [s EXCEPT !.cur = kid]
        ELSE [mem |-> Made(s.mem, s.cur, i, sel), volume |-> s.volume + 1, cur |-> new]

LEMMA AddStepIs ==
  ASSUME NEW key \in Keys, NEW i \in Nat, NEW s, Walked(s, i + 1)
  PROVE  Walked(AddStep(s, key, i), i)
<1> DEFINE sel == Bit(key, i)
           m == s.mem
           q == s.cur
           kid == m[q].child[sel]
           new == Kid(q, sel)
           u == AddStep(s, key, i)
<1>1. sel \in {0, 1}
  BY BitIs
<1>2. Shape(m) /\ q \in DOMAIN m /\ Height(q) = i + 1 /\ s.volume = Size(m)
  BY DEF Walked
<1>3. q \in Places /\ Null \notin DOMAIN m
  BY <1>2, NullAssumption DEF Shape, Closed
<1>4. kid = IF new \in DOMAIN m THEN new ELSE Null
  BY <1>1, <1>2 DEF Shape, Fits, Down
<1>5. Height(new) = i /\ Height(q) > 0 /\ Height(q) - 1 = i
  BY <1>1, <1>2, <1>3, KidIs
<1>6. CASE new \in DOMAIN m
  <2>1. DOMAIN u = {"mem", "volume", "cur"} /\ u.mem = m /\ u.volume = s.volume /\ u.cur = new
    <3>1. u = [s EXCEPT !.cur = new]
      BY <1>3, <1>4, <1>6 DEF AddStep
    <3> HIDE DEF new
    <3> QED  BY <3>1 DEF Walked
  <2>2. OrphansOf(m) \ {new} \subseteq OrphansOf(mem)
    <3>1. q \notin OrphansOf(m)
      <4>1. ~IsOrphan(m, q)
        BY <1>1, <1>2, <1>6, OrphanIs
      <4> QED  BY <4>1 DEF OrphansOf
    <3> QED  BY <3>1 DEF Walked
  <2> QED  BY <1>2, <1>5, <1>6, <2>1, <2>2 DEF Walked
<1>7. CASE new \notin DOMAIN m
  <2> DEFINE m2 == Made(m, q, i, sel)
  <2>1. u = [mem |-> m2, volume |-> s.volume + 1, cur |-> new]
    BY <1>4, <1>7 DEF AddStep
  <2>2. Grows(m, m2, q, sel)
    <3>1. Grows(m, Made(m, q, Height(q) - 1, sel), q, sel)
      BY <1>1, <1>2, <1>5, <1>7, MadeIs
    <3> QED  BY <1>5, <3>1
  <2> HIDE DEF m2
  <2>3. Shape(m2) /\ DOMAIN m2 = DOMAIN m \cup {new} /\ Size(m2) = Size(m) + 1
    BY <2>2, GrowShape
  <2>4. OrphansOf(m2) \subseteq (OrphansOf(m) \ {q}) \cup {new}
    BY <2>2, GrowOrphans
  <2>5. DOMAIN u = {"mem", "volume", "cur"} /\ u.mem = m2 /\ u.volume = s.volume + 1 /\ u.cur = new
    <3> HIDE DEF new, u
    <3> QED  BY <2>1
  <2>6. OrphansOf(m2) \ {new} \subseteq OrphansOf(mem)
    BY <2>4 DEF Walked
  <2> QED  BY <1>2, <1>5, <2>3, <2>5, <2>6 DEF Walked
<1> QED
  BY <1>6, <1>7

Follow(key, w, i) ==
    IF i = Msb(key) THEN [mem |-> mem, volume |-> volume, cur |-> Root(key)]
    ELSE AddStep(w[i + 1], key, i)

Follows(key, w, n) == w = [i \in n..Msb(key) |-> Follow(key, w, i)]

LEMMA FollowsExist ==
  ASSUME NEW key \in Keys
  PROVE  \E w : Follows(key, w, 0)
<1> DEFINE r == Msb(key)
           T == {k \in Nat : k <= r => \E w : Follows(key, w, r - k)}
<1>0. r \in Nat
  BY MsbIs
<1> HIDE DEF r
<1>1. 0 \in T
  <2> DEFINE w == [i \in r..r |-> Follow(key, <<>>, i)]
  <2>1. ASSUME NEW i \in r..r PROVE Follow(key, <<>>, i) = Follow(key, w, i)
    <3>1. i = r
      BY <1>0
    <3> HIDE DEF w
    <3> QED  BY <3>1 DEF Follow, r
  <2>2. Follows(key, w, r)
    BY <2>1 DEF Follows, r
  <2> HIDE DEF w
  <2>3. r - 0 = r
    BY <1>0
  <2> QED  BY <2>2, <2>3
<1>2. ASSUME NEW k \in T PROVE k + 1 \in T
  <2>1. ASSUME k + 1 <= r PROVE \E w : Follows(key, w, r - (k + 1))
    <3> DEFINE n == r - (k + 1)
    <3>1. k <= r /\ r - k = n + 1 /\ n \in Nat /\ n < r
      BY <1>0, <2>1
    <3> HIDE DEF n
    <3>2. PICK w : Follows(key, w, n + 1)
      BY <3>1
    <3> DEFINE v == [i \in n..r |-> Follow(key, w, i)]
    <3>3. \A i \in n + 1..r : w[i] = Follow(key, w, i)
      BY <3>2 DEF Follows, r
    <3>4. ASSUME NEW i \in n..r PROVE Follow(key, w, i) = Follow(key, v, i)
      <4>1. CASE i = r
        BY <4>1 DEF Follow, r
      <4>2. CASE i # r
        <5>1. i + 1 \in n + 1..r /\ i + 1 \in n..r
          BY <1>0, <3>1, <4>2
        <5>2. v[i + 1] = w[i + 1]
          BY <3>3, <5>1
        <5> HIDE DEF v
        <5> QED  BY <5>2 DEF Follow
      <4> QED  BY <4>1, <4>2
    <3>5. Follows(key, v, n)
      BY <3>4 DEF Follows, r
    <3> HIDE DEF v
    <3> QED  BY <3>5 DEF n
  <2> QED  BY <2>1
<1>3. T = Nat
  <2> HIDE DEF T
  <2> QED  BY <1>1, <1>2, Induction DEF T
<1>4. r \in T /\ r <= r /\ r - r = 0
  BY <1>0, <1>3
<1> QED
  BY <1>4

LEMMA AddNodeIs ==
  ASSUME NEW key \in Keys, Shape(mem), volume = Size(mem)
  PROVE  Walked(AddNode(key), 0)
<1> DEFINE w == CHOOSE w : Follows(key, w, 0)
           r == Msb(key)
<1>1. Follows(key, w, 0)
  BY FollowsExist
<1>2. AddNode(key) = w[0]
  BY DEF AddNode, Follows, Follow, AddStep, Made
<1>3. r \in 0..TREE_DEPTH - 1 /\ r \in Nat
  BY MsbIs
<1> HIDE DEF w, r
<1>4. \A i \in 0..r : w[i] = Follow(key, w, i)
  BY <1>1 DEF Follows, r
<1> DEFINE T == {k \in Nat : k <= r => Walked(w[r - k], r - k)}
<1>5. 0 \in T
  <2> DEFINE u == [mem |-> mem, volume |-> volume, cur |-> Root(key)]
  <2>1. w[r] = u
    BY <1>3, <1>4 DEF Follow, r
  <2>2. DOMAIN u = {"mem", "volume", "cur"} /\ u.mem = mem /\ u.volume = volume /\ u.cur = Root(key)
    OBVIOUS
  <2> HIDE DEF u
  <2>3. Root(key) \in Roots /\ Height(Root(key)) = r
    BY <1>3, RootIs DEF Root, r
  <2>4. Root(key) \in DOMAIN mem
    BY <2>3 DEF Shape, Closed
  <2>5. Walked(u, r)
    BY <2>2, <2>3, <2>4 DEF Walked
  <2>6. r - 0 = r
    BY <1>3
  <2> QED  BY <2>1, <2>5, <2>6
<1>6. ASSUME NEW k \in T PROVE k + 1 \in T
  <2>1. ASSUME k + 1 <= r PROVE Walked(w[r - (k + 1)], r - (k + 1))
    <3> DEFINE n == r - (k + 1)
    <3>1. k <= r /\ r - k = n + 1 /\ n \in Nat /\ n # r /\ n \in 0..r
      BY <1>3, <2>1
    <3> HIDE DEF n
    <3>2. w[n] = AddStep(w[n + 1], key, n)
      BY <1>4, <3>1 DEF Follow, r
    <3>3. Walked(w[n + 1], n + 1)
      BY <3>1
    <3>4. Walked(AddStep(w[n + 1], key, n), n)
      BY <3>1, <3>3, AddStepIs
    <3> QED  BY <3>2, <3>4 DEF n
  <2> QED  BY <2>1
<1>7. T = Nat
  <2> HIDE DEF T
  <2> QED  BY <1>5, <1>6, Induction DEF T
<1>8. r <= r /\ r - r = 0
  BY <1>3
<1>9. r \in T
  <2> HIDE DEF T
  <2> QED  BY <1>3, <1>7
<1> QED
  BY <1>2, <1>8, <1>9

-----------------------------------------------------------------------------
(* A value that is written *)

\* m2 is m with another value in the node at x.
Written(m, m2, x) ==
    /\ m2 \in [DOMAIN m -> Fields]
    /\ \A n \in DOMAIN m \ {x} : m2[n] = m[n]
    /\ m2[x].parent = m[x].parent /\ m2[x].idx = m[x].idx /\ m2[x].sel = m[x].sel
    /\ m2[x].child = m[x].child

LEMMA WriteIs ==
  ASSUME NEW m, Shape(m), NEW x \in DOMAIN m, NEW v \in {Null, Val}
  PROVE  Written(m, [m EXCEPT ![x].value = v], x)
<1> DEFINE u == [m[x] EXCEPT !.value = v]
           m2 == [m EXCEPT ![x].value = v]
<1>1. m \in [DOMAIN m -> Fields] /\ m[x] \in Fields
  BY DEF Shape
<1>2. /\ u \in Fields /\ u.parent = m[x].parent /\ u.idx = m[x].idx /\ u.sel = m[x].sel
      /\ u.child = m[x].child
  BY <1>1 DEF Fields
<1>3. m2 = [m EXCEPT ![x] = u]
  OBVIOUS
<1> HIDE DEF u, m2
<1>4. DOMAIN m2 = DOMAIN m /\ m2[x] = u /\ \A n \in DOMAIN m \ {x} : m2[n] = m[n]
  BY <1>1, <1>3
<1>5. m2 \in [DOMAIN m -> Fields]
  BY <1>1, <1>2, <1>3
<1> QED
  BY <1>2, <1>4, <1>5 DEF Written, m2

LEMMA WrittenShape ==
  ASSUME NEW m, Shape(m), NEW x \in DOMAIN m, NEW m2, Written(m, m2, x)
  PROVE  /\ Shape(m2) /\ DOMAIN m2 = DOMAIN m /\ Size(m2) = Size(m)
         /\ OrphansOf(m2) \subseteq OrphansOf(m) \cup {x}
<1>1. DOMAIN m2 = DOMAIN m
  BY DEF Written
<1>2. ASSUME NEW n \in DOMAIN m PROVE Fits(DOMAIN m, n, m2[n])
  <2>1. Fits(DOMAIN m, n, m[n])
    BY DEF Shape
  <2>2. /\ m2[n].parent = m[n].parent /\ m2[n].idx = m[n].idx /\ m2[n].sel = m[n].sel
        /\ m2[n].child = m[n].child
    BY DEF Written
  <2> QED  BY <2>1, <2>2 DEF Fits
<1>3. Shape(m2)
  BY <1>1, <1>2 DEF Shape, Written
<1>4. ASSUME NEW n \in OrphansOf(m2), n # x PROVE n \in OrphansOf(m)
  <2>1. n \in DOMAIN m \ Roots /\ IsOrphan(m2, n) /\ m2[n] = m[n]
    BY <1>1, <1>4 DEF OrphansOf, Written
  <2>2. IsOrphan(m, n)
    BY <2>1 DEF IsOrphan, Kids
  <2> QED  BY <2>1, <2>2 DEF OrphansOf
<1> QED
  BY <1>1, <1>3, <1>4 DEF Size

-----------------------------------------------------------------------------
(* btrie_find_exact *)

Seek(key, w, i) ==
    IF i = Msb(key) THEN Root(key)
    ELSE IF w[i + 1] = Null THEN Null ELSE mem[w[i + 1]].child[Bit(key, i)]

Seeks(key, w, n) == w = [i \in n..Msb(key) |-> Seek(key, w, i)]

LEMMA SeeksExist ==
  ASSUME NEW key \in Keys
  PROVE  \E w : Seeks(key, w, 0)
<1> DEFINE r == Msb(key)
           T == {k \in Nat : k <= r => \E w : Seeks(key, w, r - k)}
<1>0. r \in Nat
  BY MsbIs
<1> HIDE DEF r
<1>1. 0 \in T
  <2> DEFINE w == [i \in r..r |-> Seek(key, <<>>, i)]
  <2>1. ASSUME NEW i \in r..r PROVE Seek(key, <<>>, i) = Seek(key, w, i)
    <3>1. i = r
      BY <1>0
    <3> HIDE DEF w
    <3> QED  BY <3>1 DEF Seek, r
  <2>2. Seeks(key, w, r)
    BY <2>1 DEF Seeks, r
  <2> HIDE DEF w
  <2>3. r - 0 = r
    BY <1>0
  <2> QED  BY <2>2, <2>3
<1>2. ASSUME NEW k \in T PROVE k + 1 \in T
  <2>1. ASSUME k + 1 <= r PROVE \E w : Seeks(key, w, r - (k + 1))
    <3> DEFINE n == r - (k + 1)
    <3>1. k <= r /\ r - k = n + 1 /\ n \in Nat /\ n < r
      BY <1>0, <2>1
    <3> HIDE DEF n
    <3>2. PICK w : Seeks(key, w, n + 1)
      BY <3>1
    <3> DEFINE v == [i \in n..r |-> Seek(key, w, i)]
    <3>3. \A i \in n + 1..r : w[i] = Seek(key, w, i)
      BY <3>2 DEF Seeks, r
    <3>4. ASSUME NEW i \in n..r PROVE Seek(key, w, i) = Seek(key, v, i)
      <4>1. CASE i = r
        BY <4>1 DEF Seek, r
      <4>2. CASE i # r
        <5>1. i + 1 \in n + 1..r /\ i + 1 \in n..r
          BY <1>0, <3>1, <4>2
        <5>2. v[i + 1] = w[i + 1]
          BY <3>3, <5>1
        <5> HIDE DEF v
        <5> QED  BY <5>2 DEF Seek
      <4> QED  BY <4>1, <4>2
    <3>5. Seeks(key, v, n)
      BY <3>4 DEF Seeks, r
    <3> HIDE DEF v
    <3> QED  BY <3>5 DEF n
  <2> QED  BY <2>1
<1>3. T = Nat
  <2> HIDE DEF T
  <2> QED  BY <1>1, <1>2, Induction DEF T
<1>4. r \in T /\ r <= r /\ r - r = 0
  BY <1>0, <1>3
<1> QED
  BY <1>4

LEMMA FindExactIs ==
  ASSUME NEW key \in Keys, Shape(mem), FindExact(key) # Null
  PROVE  FindExact(key) \in DOMAIN mem
<1> DEFINE w == CHOOSE w : Seeks(key, w, 0)
           r == Msb(key)
           X == DOMAIN mem \cup {Null}
<1>1. Seeks(key, w, 0)
  BY SeeksExist
<1>2. FindExact(key) = w[0]
  BY DEF FindExact, Seeks, Seek
<1>3. r \in 0..TREE_DEPTH - 1 /\ r \in Nat
  BY MsbIs
<1> HIDE DEF w, r
<1>4. \A i \in 0..r : w[i] = Seek(key, w, i)
  BY <1>1 DEF Seeks, r
<1> DEFINE T == {k \in Nat : k <= r => w[r - k] \in X}
<1>5. 0 \in T
  <2>1. w[r] = Root(key)
    BY <1>3, <1>4 DEF Seek, r
  <2>2. Root(key) \in Roots
    BY <1>3, RootIs DEF Root, r
  <2>3. Root(key) \in DOMAIN mem
    BY <2>2 DEF Shape, Closed
  <2>4. r - 0 = r
    BY <1>3
  <2> QED  BY <2>1, <2>3, <2>4
<1>6. ASSUME NEW k \in T PROVE k + 1 \in T
  <2>1. ASSUME k + 1 <= r PROVE w[r - (k + 1)] \in X
    <3> DEFINE n == r - (k + 1)
    <3>1. k <= r /\ r - k = n + 1 /\ n \in Nat /\ n # r /\ n \in 0..r
      BY <1>3, <2>1
    <3> HIDE DEF n
    <3>2. w[n] = IF w[n + 1] = Null THEN Null ELSE mem[w[n + 1]].child[Bit(key, n)]
      BY <1>4, <3>1 DEF Seek, r
    <3>3. w[n + 1] \in X
      BY <3>1
    <3>4. Bit(key, n) \in {0, 1}
      BY <3>1, BitIs
    <3> HIDE DEF X
    <3>5. ASSUME NEW x \in DOMAIN mem, NEW b \in {0, 1} PROVE mem[x].child[b] \in X
      BY DEF Shape, Fits, Down, X
    <3>6. Null \in X /\ \A x \in X : x # Null => x \in DOMAIN mem
      BY DEF X
    <3>7. w[n] \in X
      BY <3>2, <3>3, <3>4, <3>5, <3>6
    <3> QED  BY <3>7 DEF n
  <2> QED  BY <2>1
<1>7. T = Nat
  <2> HIDE DEF T
  <2> QED  BY <1>5, <1>6, Induction DEF T
<1>8. r <= r /\ r - r = 0
  BY <1>3
<1>9. r \in T
  <2> HIDE DEF T
  <2> QED  BY <1>3, <1>7
<1> QED
  BY <1>2, <1>8, <1>9

-----------------------------------------------------------------------------
(* btrie_node_fini, and a node that is cut off *)

LEMMA SubWhole ==
  ASSUME NEW m, Shape(m), NEW x \in DOMAIN m
  PROVE  /\ Whole(DOMAIN m, Sub(DOMAIN m, x)) /\ x \notin Sub(DOMAIN m, x)
         /\ \A n \in DOMAIN m, s \in {0, 1} :
              Kid(n, s) \in Sub(DOMAIN m, x) => n = x \/ n \in Sub(DOMAIN m, x)
         /\ \A s \in {0, 1} : Kid(x, s) \in DOMAIN m => Kid(x, s) \in Sub(DOMAIN m, x)
<1> DEFINE D == DOMAIN m
           B == Sub(D, x)
<1>1. D \subseteq Places /\ x \in Places
  BY DEF Shape, Closed
<1>2. ASSUME NEW n \in D, NEW s \in {0, 1}
      PROVE  Under(Kid(n, s), x) <=> n = x \/ Under(n, x)
  BY <1>1, UnderKid
<1>3. B \subseteq D \ Roots /\ x \notin B
  BY <1>1, UnderHeight DEF Sub
<1>4. \A n \in B, s \in {0, 1} : Kid(n, s) \in D => Kid(n, s) \in B
  BY <1>2 DEF Sub
<1>5. \A n \in D, s \in {0, 1} : Kid(n, s) \in B => n = x \/ n \in B
  BY <1>2 DEF Sub
<1>6. \A s \in {0, 1} : Kid(x, s) \in D => Kid(x, s) \in B
  BY <1>2 DEF Sub
<1>7. Whole(D, B)
  BY <1>3, <1>4 DEF Whole
<1> QED
  BY <1>3, <1>5, <1>6, <1>7

\* m2 is m without the nodes of B; the node at x may be any.
Without(m, m2, B, x) ==
    /\ m2 \in [DOMAIN m \ B -> Fields]
    /\ \A n \in DOMAIN m \ (B \cup {x}) : m2[n] = m[n]

\* What btrie_node_fini does.
LEMMA FiniIs ==
  ASSUME NEW t, Shape(t.mem), NEW x \in DOMAIN t.mem
  PROVE  LET f == NodeFini(t, x)
             B == Sub(DOMAIN t.mem, x)
         IN  /\ f.volume = t.volume - Cardinality(B)
             /\ Without(t.mem, f.mem, B, x)
             /\ f.mem[x].idx = t.mem[x].idx /\ f.mem[x].sel = t.mem[x].sel
             /\ f.mem[x].value = t.mem[x].value
             /\ f.mem[x].parent = Null /\ \A s \in {0, 1} : f.mem[x].child[s] = Null
<1> DEFINE m == t.mem
           f == NodeFini(t, x)
           B == Sub(DOMAIN m, x)
           c == [s \in {0, 1} |-> Null]
           a == Free(m, B)
           u == [a[x] EXCEPT !.parent = Null]
           b == [a EXCEPT ![x] = u]
           v == [u EXCEPT !.child = c]
           e == [b EXCEPT ![x] = [b[x] EXCEPT !.child = c]]
<1>1. Below(m, x) = B
  BY BelowIs
<1>2. f = [mem |-> e, volume |-> t.volume - Cardinality(B)]
  BY <1>1 DEF NodeFini
<1>3. x \in DOMAIN m \ B /\ B \subseteq DOMAIN m
  BY SubWhole DEF Whole
<1>4. m \in [DOMAIN m -> Fields]
  BY DEF Shape
<1> HIDE DEF B, m
<1>5. a \in [DOMAIN m \ B -> Fields] /\ \A n \in DOMAIN m \ B : a[n] = m[n]
  BY <1>4 DEF Free
<1> HIDE DEF a
<1>6. a[x] \in Fields /\ a[x] = m[x]
  BY <1>3, <1>5
<1>7. c \in [{0, 1} -> Places \cup {Null}] /\ \A s \in {0, 1} : c[s] = Null
  OBVIOUS
<1>8. f.mem = [a EXCEPT ![x] = v] /\ f.volume = t.volume - Cardinality(B)
  <2>1. f.mem = e /\ f.volume = t.volume - Cardinality(B)
    <3> HIDE DEF e, f
    <3> QED  BY <1>2
  <2> HIDE DEF c, u, f
  <2>2. b[x] = u
    BY <1>3, <1>5
  <2>3. e = [b EXCEPT ![x] = v]
    BY <2>2
  <2> HIDE DEF v, e
  <2>4. e = [a EXCEPT ![x] = v]
    BY <1>3, <1>5, <2>3
  <2> QED  BY <2>1, <2>4
<1> HIDE DEF c
<1>9. /\ v \in Fields /\ v.idx = m[x].idx /\ v.sel = m[x].sel /\ v.value = m[x].value
      /\ v.parent = Null /\ v.child = c
  BY <1>6, <1>7 DEF Fields
<1> HIDE DEF v, f
<1>10. f.mem \in [DOMAIN m \ B -> Fields] /\ f.mem[x] = v
       /\ \A n \in DOMAIN m \ B : n # x => f.mem[n] = a[n]
  BY <1>3, <1>5, <1>8, <1>9
<1>11. Without(m, f.mem, B, x)
  BY <1>5, <1>10 DEF Without
<1> QED
  BY <1>7, <1>8, <1>9, <1>10, <1>11 DEF f, m, B

\* A root only loses what is below it.
LEMMA FiniRoot ==
  ASSUME NEW t, Shape(t.mem), NEW x \in Roots
  PROVE  /\ Whole(DOMAIN t.mem, Sub(DOMAIN t.mem, x))
         /\ Cropped(t.mem, NodeFini(t, x).mem, Sub(DOMAIN t.mem, x))
         /\ NodeFini(t, x).volume = t.volume - Cardinality(Sub(DOMAIN t.mem, x))
<1> DEFINE m == t.mem
           m2 == NodeFini(t, x).mem
           D == DOMAIN m
           B == Sub(D, x)
<1>1. x \in D
  BY DEF Shape, Closed
<1>2. /\ NodeFini(t, x).volume = t.volume - Cardinality(B)
      /\ Without(m, m2, B, x)
      /\ m2[x].idx = m[x].idx /\ m2[x].sel = m[x].sel
      /\ m2[x].parent = Null /\ \A s \in {0, 1} : m2[x].child[s] = Null
  BY <1>1, FiniIs
<1>3. /\ Whole(D, B) /\ x \notin B
      /\ \A n \in D, s \in {0, 1} : Kid(n, s) \in B => n = x \/ n \in B
      /\ \A s \in {0, 1} : Kid(x, s) \in D => Kid(x, s) \in B
  BY <1>1, SubWhole
<1>4. Null \notin D /\ B \subseteq D
  BY <1>3, NullAssumption DEF Shape, Closed, Whole
<1>5. Shape(m) /\ x \in Roots
  OBVIOUS
<1> HIDE DEF B, m2, D, m
<1>6. \A n \in D : Fits(D, n, m[n])
  BY <1>5 DEF Shape, D
<1>7. ASSUME NEW n \in D \ B
      PROVE  /\ m2[n].parent = m[n].parent /\ m2[n].idx = m[n].idx /\ m2[n].sel = m[n].sel
             /\ \A s \in {0, 1} : m2[n].child[s] = IF m[n].child[s] \in B THEN Null
                                                  ELSE m[n].child[s]
  <2>1. \A s \in {0, 1} : m[n].child[s] = Down(D, n, s)
    BY <1>6 DEF Fits
  <2>2. CASE n = x
    <3>1. m[x].parent = Null
      BY <1>1, <1>5, <1>6 DEF Fits
    <3>2. ASSUME NEW s \in {0, 1}
          PROVE  m2[n].child[s] = IF m[n].child[s] \in B THEN Null ELSE m[n].child[s]
      BY <1>2, <1>3, <2>1, <2>2 DEF Down
    <3> QED  BY <1>2, <2>2, <3>1, <3>2
  <2>3. CASE n # x
    <3>1. m2[n] = m[n]
      BY <1>2, <2>3 DEF Without, D
    <3>2. ASSUME NEW s \in {0, 1} PROVE m[n].child[s] \notin B
      BY <1>3, <1>4, <2>1, <2>3 DEF Down
    <3> QED  BY <3>1, <3>2
  <2> QED  BY <2>2, <2>3
<1>8. Cropped(m, m2, B)
  BY <1>2, <1>7 DEF Cropped, Without, D
<1> QED
  BY <1>2, <1>3, <1>8 DEF m, m2, D, B

\* The node that is above another, and the side it has it on.
LEMMA ParentIs ==
  ASSUME NEW m, Shape(m), NEW x \in DOMAIN m \ Roots
  PROVE  /\ m[x].parent \in DOMAIN m /\ m[x].sel \in {0, 1}
         /\ x = Kid(m[x].parent, m[x].sel) /\ Height(m[x].parent) = Height(x) + 1
<1>1. PICK q \in DOMAIN m, s \in {0, 1} : x = Kid(q, s)
  BY DEF Shape, Closed
<1>2. q \in Places /\ x \in Places
  BY DEF Shape, Closed
<1>3. Fits(DOMAIN m, x, m[x])
  BY DEF Shape
<1>4. m[x].parent = q /\ m[x].sel = s
  BY <1>1, <1>2, <1>3 DEF Fits
<1>5. Height(x) = Height(q) - 1 /\ Height(q) \in Nat
  BY <1>1, <1>2, KidIs, HeightIs
<1> QED
  BY <1>1, <1>4, <1>5

\* q is the parent of x, and t has none of the nodes below x any more.
CutHere(m, x, B, t, q) ==
    /\ Shape(m) /\ x \in DOMAIN m \ Roots /\ B = Sub(DOMAIN m, x)
    /\ Without(m, t.mem, B, x) /\ q = m[x].parent

\* ... and what is left when x is cut off, too.
CutOff(m, x, B, t, q) ==
    LET c == Cut(t, x, q)
        G == B \cup {x}
    IN  /\ Whole(DOMAIN m, G) /\ Cropped(m, c.mem, G) /\ c.volume = t.volume - 1
        /\ \A n \in DOMAIN m \ G : c.mem[n].value = m[n].value
        /\ q \in DOMAIN m \ G
        /\ \A n \in DOMAIN m \ G, s \in {0, 1} : Kid(n, s) \in G => n = q

LEMMA CutIs ==
  ASSUME NEW m, NEW x, NEW B, NEW t, NEW q, CutHere(m, x, B, t, q)
  PROVE  CutOff(m, x, B, t, q)
<1> USE DEF CutHere
<1> DEFINE D == DOMAIN m
           G == B \cup {x}
           c == Cut(t, x, q)
           u == IF t.mem[q].child[0] = x THEN 0 ELSE 1
           a == Free(t.mem, {x})
           v == [a[q] EXCEPT !.child[u] = Null]
<1>0. Closed(D) /\ D \subseteq Places /\ Null \notin D /\ m \in [D -> Fields]
      /\ \A n \in D : Fits(D, n, m[n])
  BY NullAssumption DEF Shape, Closed
<1> DEFINE s0 == m[x].sel
<1>1. q \in D /\ s0 \in {0, 1} /\ x = Kid(q, s0) /\ x \in D /\ x \notin Roots /\ Height(q) = Height(x) + 1
  BY ParentIs
<1>2. /\ Whole(D, B) /\ x \notin B
      /\ \A n \in D, s \in {0, 1} : Kid(n, s) \in B => n = x \/ n \in B
      /\ \A s \in {0, 1} : Kid(x, s) \in D => Kid(x, s) \in B
  BY SubWhole
<1> HIDE DEF D, s0
<1>3. q # x /\ q \notin B
  <2>1. q \in Places /\ x \in Places /\ Height(x) \in Nat
    BY <1>0, <1>1, HeightIs
  <2>2. q # x
    BY <1>1, <2>1
  <2>3. ASSUME Under(q, x) PROVE FALSE
    <3>1. Height(q) < Height(x)
      BY <2>1, <2>3, UnderHeight
    <3>2. Height(q) = Height(x) + 1
      BY <1>1
    <3> QED  BY <2>1, <3>1, <3>2
  <2> QED  BY <2>2, <2>3 DEF Sub
<1>4. q \in D \ G /\ B \subseteq D \ Roots
  BY <1>1, <1>2, <1>3 DEF Whole
<1>5. Whole(D, G)
  BY <1>1, <1>2 DEF Whole
<1>6. \A n \in D \ G, s \in {0, 1} : Kid(n, s) \in G => n = q /\ s = s0
  <2> TAKE n \in D \ G, s \in {0, 1}
  <2>1. Kid(n, s) \notin B
    BY <1>2
  <2>2. n \in Places /\ q \in Places
    BY <1>0, <1>1
  <2>3. Kid(n, s) = Kid(q, s0) => n = q /\ s = s0
    BY <1>1, <2>2, KidOnce
  <2> QED  BY <1>1, <2>1, <2>3
<1>7. t.mem \in [D \ B -> Fields] /\ \A n \in D \ G : t.mem[n] = m[n]
  BY DEF Without, D
<1>8. a \in [D \ G -> Fields] /\ \A n \in D \ G : a[n] = m[n]
  BY <1>7 DEF Free
<1>9. \A s \in {0, 1} : m[q].child[s] = Down(D, q, s)
  BY <1>0, <1>1 DEF Fits
<1>10. u = s0
  <2>1. t.mem[q] = m[q]
    BY <1>4, <1>7
  <2>2. m[q].child[s0] = x
    BY <1>1, <1>9 DEF Down
  <2>3. s0 = 1 => m[q].child[0] # x
    <3>1. q \in Places
      BY <1>0, <1>1
    <3>2. Kid(q, 0) = Kid(q, 1) => FALSE
      BY <3>1, KidOnce
    <3> QED  BY <1>0, <1>1, <1>9, <3>2 DEF Down
  <2> QED  BY <1>1, <2>1, <2>2, <2>3
<1>11. c.mem = [a EXCEPT ![q] = v] /\ c.volume = t.volume - 1
  <2> DEFINE e == [a EXCEPT ![q].child[u] = Null]
  <2>1. c = [mem |-> e, volume |-> t.volume - 1]
    BY DEF Cut
  <2>2. e = [a EXCEPT ![q] = v]
    OBVIOUS
  <2> HIDE DEF e, c
  <2> QED  BY <2>1, <2>2
<1> HIDE DEF c, a, u
<1>12. a[q] \in Fields /\ a[q] = m[q]
  BY <1>4, <1>8
<1>13. /\ v \in Fields /\ v.parent = m[q].parent /\ v.idx = m[q].idx /\ v.sel = m[q].sel
       /\ v.value = m[q].value
       /\ \A s \in {0, 1} : v.child[s] = IF s = u THEN Null ELSE m[q].child[s]
  BY <1>12 DEF Fields
<1> HIDE DEF v
<1>14. c.mem \in [D \ G -> Fields] /\ c.mem[q] = v /\ \A n \in D \ G : n # q => c.mem[n] = m[n]
  BY <1>4, <1>8, <1>11, <1>13
<1>15. \A n \in D \ G, s \in {0, 1} :
         c.mem[n].child[s] = IF m[n].child[s] \in G THEN Null ELSE m[n].child[s]
  <2> TAKE n \in D \ G, s \in {0, 1}
  <2>1. m[n].child[s] = Down(D, n, s)
    BY <1>0 DEF Fits
  <2>2. m[n].child[s] \in G => n = q /\ s = s0
    <3>1. Null \notin G
      BY <1>0, <1>1, <1>4
    <3> QED  BY <1>6, <2>1, <3>1 DEF Down
  <2>3. n = q /\ s = s0 => m[n].child[s] = x
    BY <1>1, <2>1 DEF Down
  <2>4. CASE n = q
    BY <1>10, <1>13, <1>14, <2>2, <2>3, <2>4
  <2>5. CASE n # q
    BY <1>14, <2>2, <2>5
  <2> QED  BY <2>4, <2>5
<1>16. \A n \in D \ G : /\ c.mem[n].parent = m[n].parent /\ c.mem[n].idx = m[n].idx
                       /\ c.mem[n].sel = m[n].sel /\ c.mem[n].value = m[n].value
  BY <1>13, <1>14
<1>17. Cropped(m, c.mem, G)
  BY <1>14, <1>15, <1>16 DEF Cropped, D
<1> QED
  BY <1>4, <1>5, <1>6, <1>11, <1>16, <1>17 DEF c, D, CutOff

-----------------------------------------------------------------------------
(* Removals *)

\* t is what is left of m, where nothing but p may have become an orphan.
Remains(m, t, p) ==
    /\ Shape(t.mem) /\ t.volume = Size(t.mem) /\ DOMAIN t.mem \subseteq DOMAIN m
    /\ p = Null \/ p \in DOMAIN t.mem
    /\ OrphansOf(t.mem) \subseteq OrphansOf(m) \cup {p}

LEMMA LossIs ==
  ASSUME NEW m, Shape(m), NEW G, Whole(DOMAIN m, G), NEW t, Cropped(m, t.mem, G),
         \A n \in DOMAIN m \ (G \cup Roots) : t.mem[n].value = m[n].value,
         t.volume = Size(m) - Cardinality(G),
         NEW p, p = Null \/ p \in DOMAIN m \ G,
         \A n \in DOMAIN m \ (G \cup Roots), s \in {0, 1} : Kid(n, s) \in G => n = p
  PROVE  Remains(m, t, p)
<1>1. Shape(t.mem) /\ DOMAIN t.mem = DOMAIN m \ G
  BY CropShape
<1>2. t.volume = Size(t.mem)
  BY CropSize
<1>3. ASSUME NEW n \in OrphansOf(t.mem) PROVE n \in OrphansOf(m) \cup {p}
  <2>1. n \in DOMAIN m \ (G \cup Roots)
    BY <1>1 DEF OrphansOf
  <2>2. \A k \in DOMAIN t.mem \ Roots : t.mem[k].value = m[k].value
    BY <1>1
  <2>3. n \in OrphansOf(m) \/ \E s \in {0, 1} : Kid(n, s) \in G
    BY <2>2, CropOrphans
  <2> QED  BY <2>1, <2>3
<1> QED
  BY <1>1, <1>2, <1>3 DEF Remains

LEMMA EmptiedIs ==
  ASSUME Shape(mem), volume = Size(mem), NEW n \in DOMAIN mem
  PROVE  /\ Shape(Emptied(n).mem) /\ DOMAIN Emptied(n).mem = DOMAIN mem
         /\ Emptied(n).volume = Size(Emptied(n).mem)
         /\ OrphansOf(Emptied(n).mem) \subseteq OrphansOf(mem) \cup {n}
         /\ Emptied(n).mem[n].parent = mem[n].parent
<1> DEFINE m2 == [mem EXCEPT ![n].value = Null]
<1>1. Emptied(n).mem = m2 /\ Emptied(n).volume = volume
  BY DEF Emptied, Trie
<1>2. Written(mem, m2, n)
  BY WriteIs
<1> HIDE DEF m2
<1>3. /\ Shape(m2) /\ DOMAIN m2 = DOMAIN mem /\ Size(m2) = Size(mem)
      /\ OrphansOf(m2) \subseteq OrphansOf(mem) \cup {n}
  BY <1>2, WrittenShape
<1>4. m2[n].parent = mem[n].parent
  BY <1>2 DEF Written
<1> QED
  BY <1>1, <1>3, <1>4

LEMMA RemoveBodyIs ==
  ASSUME Shape(mem), volume = Size(mem), NEW n \in DOMAIN mem
  PROVE  Remains(mem, RemoveBody(n), mem[n].parent)
<1> DEFINE e == Emptied(n)
           m == e.mem
           B == Sub(DOMAIN m, n)
           f == NodeFini(e, n)
           p == mem[n].parent
           t == RemoveBody(n)
<1>1. /\ Shape(m) /\ DOMAIN m = DOMAIN mem /\ e.volume = Size(m) /\ m[n].parent = p
      /\ OrphansOf(m) \subseteq OrphansOf(mem) \cup {n}
  BY EmptiedIs
<1>2. t = IF p = Null THEN f ELSE Cut(f, n, p)
  BY DEF RemoveBody
<1> HIDE DEF e, p, t
<1>3. /\ f.volume = e.volume - Cardinality(B) /\ Without(m, f.mem, B, n)
      /\ f.mem[n].value = m[n].value
  BY <1>1, FiniIs
<1> HIDE DEF f
<1>4. /\ Whole(DOMAIN m, B) /\ n \notin B
      /\ \A k \in DOMAIN m, s \in {0, 1} : Kid(k, s) \in B => k = n \/ k \in B
  BY <1>1, SubWhole
<1>5. IsFiniteSet(B)
  BY <1>1, <1>4, FS_Subset DEF Shape, Closed, Whole
<1>6. CASE n \in Roots
  <2>1. p = Null
    BY <1>1, <1>6 DEF Shape, Fits
  <2>2. t = f
    BY <1>2, <2>1
  <2>3. Cropped(m, f.mem, B)
    BY <1>1, <1>6, FiniRoot DEF f
  <2>4. \A k \in DOMAIN m \ (B \cup Roots) : f.mem[k].value = m[k].value
    BY <1>3, <1>6 DEF Without
  <2> HIDE DEF m, B
  <2>5. Remains(m, f, Null)
    <3>1. f.volume = Size(m) - Cardinality(B)
      BY <1>1, <1>3
    <3>2. \A k \in DOMAIN m \ (B \cup Roots), s \in {0, 1} : Kid(k, s) \in B => k = Null
      BY <1>4, <1>6
    <3> QED  BY <1>1, <1>4, <2>3, <2>4, <3>1, <3>2, LossIs
  <2>6. OrphansOf(f.mem) \subseteq OrphansOf(mem) \cup {p}
    BY <1>1, <1>6, <2>1, <2>5 DEF Remains, OrphansOf
  <2>7. Remains(mem, t, p)
    BY <1>1, <2>1, <2>2, <2>5, <2>6 DEF Remains
  <2> QED  BY <2>7 DEF t, p
<1>7. CASE n \notin Roots
  <2> DEFINE G == B \cup {n}
             c == Cut(f, n, p)
  <2>1. p # Null
    <3>1. p \in DOMAIN m
      BY <1>1, <1>7, ParentIs
    <3> QED  BY <1>1, <3>1, NullAssumption DEF Shape, Closed
  <2>2. t = c
    BY <1>2, <2>1
  <2>3. /\ Whole(DOMAIN m, G) /\ Cropped(m, c.mem, G) /\ c.volume = f.volume - 1
        /\ \A k \in DOMAIN m \ G : c.mem[k].value = m[k].value
        /\ p \in DOMAIN m \ G
        /\ \A k \in DOMAIN m \ G, s \in {0, 1} : Kid(k, s) \in G => k = p
    <3>1. CutHere(m, n, B, f, p)
      BY <1>1, <1>3, <1>7 DEF CutHere
    <3> HIDE DEF B, m
    <3>2. CutOff(m, n, B, f, p)
      BY <3>1, CutIs
    <3> QED  BY <3>2 DEF CutOff
  <2>4. Cardinality(G) = Cardinality(B) + 1 /\ Cardinality(B) \in Nat
    BY <1>4, <1>5, FS_AddElement, FS_CardinalityType
  <2> HIDE DEF m, B, c
  <2>5. c.volume = Size(m) - Cardinality(G)
    <3>1. Size(m) \in Nat
      BY <1>1, <2>3, CropSize
    <3> HIDE DEF G
    <3> QED  BY <1>1, <1>3, <2>3, <2>4, <3>1
  <2>6. n \in G
    OBVIOUS
  <2> HIDE DEF G
  <2>7. Remains(m, c, p)
    BY <1>1, <2>3, <2>5, LossIs
  <2>8. DOMAIN c.mem = DOMAIN m \ G
    BY <2>3 DEF Cropped
  <2>9. OrphansOf(c.mem) \subseteq OrphansOf(mem) \cup {p}
    BY <1>1, <2>6, <2>7, <2>8 DEF Remains, OrphansOf
  <2>10. Remains(mem, t, p)
    BY <1>1, <2>2, <2>7, <2>9 DEF Remains
  <2> QED  BY <2>10 DEF t, p
<1> QED
  BY <1>6, <1>7

-----------------------------------------------------------------------------
(* cleanup_orphans *)

ClimbStep(c) ==
    IF \/ c.n = Null
       \/ c.t.mem[c.n].parent = Null
       \/ ~IsOrphan(c.t.mem, c.n)
    THEN [c EXCEPT !.n = Null]
    ELSE LET p == c.t.mem[c.n].parent IN [t |-> Cut(c.t, c.n, p), n |-> p]

Climb(trie, node, w, k) ==
    IF k = 0 THEN [t |-> trie, n |-> node] ELSE ClimbStep(w[k - 1])

Climbs(trie, node, w, h) == w = [k \in 0..h |-> Climb(trie, node, w, k)]

LEMMA ClimbsExist ==
  ASSUME NEW trie, NEW node, NEW h \in Nat
  PROVE  \E w : Climbs(trie, node, w, h)
<1> DEFINE T == {k \in Nat : \E w : Climbs(trie, node, w, k)}
<1>1. 0 \in T
  <2> DEFINE w == [j \in 0..0 |-> Climb(trie, node, <<>>, j)]
  <2>1. Climbs(trie, node, w, 0)
    BY DEF Climbs, Climb
  <2> QED  BY <2>1
<1>2. ASSUME NEW k \in T PROVE k + 1 \in T
  <2>1. PICK w : Climbs(trie, node, w, k)
    OBVIOUS
  <2> DEFINE v == [j \in 0..k + 1 |-> Climb(trie, node, w, j)]
  <2>2. \A j \in 0..k : w[j] = Climb(trie, node, w, j)
    BY <2>1 DEF Climbs
  <2>3. ASSUME NEW j \in 0..k + 1 PROVE Climb(trie, node, w, j) = Climb(trie, node, v, j)
    <3>1. CASE j = 0
      BY <3>1 DEF Climb
    <3>2. CASE j # 0
      <4>1. j - 1 \in 0..k /\ j - 1 \in 0..k + 1
        BY <3>2
      <4>2. v[j - 1] = w[j - 1]
        BY <2>2, <4>1
      <4> HIDE DEF v
      <4> QED  BY <3>2, <4>2 DEF Climb
    <3> QED  BY <3>1, <3>2
  <2>4. Climbs(trie, node, v, k + 1)
    BY <2>3 DEF Climbs
  <2> QED  BY <2>4
<1>3. T = Nat
  <2> HIDE DEF T
  <2> QED  BY <1>1, <1>2, Induction DEF T
<1> QED
  BY <1>3

\* After k turns of the loop: nothing but the node it is at may be an orphan
\* that m had not.
Climbed(m, c, k) ==
    /\ DOMAIN c = {"t", "n"} /\ Remains(m, c.t, c.n)
    /\ c.n # Null => Height(c.n) >= k

LEMMA ClimbStepIs ==
  ASSUME NEW m, NEW c, NEW k \in Nat, Climbed(m, c, k)
  PROVE  Climbed(m, ClimbStep(c), k + 1)
<1> DEFINE a == c.t.mem
           x == c.n
           p == a[x].parent
           u == ClimbStep(c)
<1>1. /\ DOMAIN c = {"t", "n"} /\ Remains(m, c.t, x)
      /\ x # Null => Height(x) >= k
      /\ Shape(a) /\ c.t.volume = Size(a) /\ DOMAIN a \subseteq DOMAIN m
      /\ x = Null \/ x \in DOMAIN a
      /\ OrphansOf(a) \subseteq OrphansOf(m) \cup {x}
  BY DEF Climbed, Remains
<1>2. Null \notin DOMAIN a /\ DOMAIN a \subseteq Places
  BY <1>1, NullAssumption DEF Shape, Closed
<1>3. x \in Roots => p = Null
  BY <1>1, <1>2 DEF Shape, Fits, Closed
<1>4. x \in DOMAIN a \ Roots => p \in DOMAIN a /\ Height(p) = Height(x) + 1 /\ Height(x) \in Nat
  BY <1>1, <1>2, ParentIs, HeightIs
<1> HIDE DEF a, x, p
<1>5. CASE x = Null \/ p = Null \/ ~IsOrphan(a, x)
  <2>1. u = [c EXCEPT !.n = Null]
    BY <1>5 DEF ClimbStep, a, x, p
  <2> HIDE DEF u
  <2>2. DOMAIN u = {"t", "n"} /\ u.t = c.t /\ u.n = Null
    BY <1>1, <2>1
  <2>3. x \notin OrphansOf(a)
    BY <1>2, <1>4, <1>5 DEF OrphansOf
  <2>4. Remains(m, u.t, Null)
    BY <1>1, <2>2, <2>3 DEF Remains, a
  <2>5. Climbed(m, u, k + 1)
    BY <2>2, <2>4 DEF Climbed
  <2> QED  BY <2>5 DEF u
<1>6. CASE ~(x = Null \/ p = Null \/ ~IsOrphan(a, x))
  <2> DEFINE d == Cut(c.t, x, p)
             B == {}
             G == B \cup {x}
  <2>0. x \in DOMAIN a \ Roots /\ IsOrphan(a, x)
    BY <1>1, <1>3, <1>6
  <2>1. DOMAIN u = {"t", "n"} /\ u.t = d /\ u.n = p
    <3>1. u = [t |-> d, n |-> p]
      BY <1>6 DEF ClimbStep, a, x, p
    <3> HIDE DEF u, d
    <3> QED  BY <3>1
  <2>2. Sub(DOMAIN a, x) = B
    <3>1. Kids(a, x) = {} /\ Below(a, x) = Sub(DOMAIN a, x)
      BY <1>1, <2>0, BelowIs DEF IsOrphan
    <3>2. ASSUME NEW y \in DOMAIN a, Under(y, x) PROVE FALSE
      <4>1. ByKid(DOMAIN a, y, x)
        BY <1>1, <2>0, <3>2, SubStep DEF Shape
      <4> QED  BY <1>1, <2>0, <3>1, <4>1, KidsAre DEF ByKid
    <3> QED  BY <3>2 DEF Sub
  <2>3. CutHere(a, x, B, c.t, p)
    <3>1. a = c.t.mem /\ a \in [DOMAIN a -> Fields] /\ p = a[x].parent
      BY <1>1 DEF Shape, a, p
    <3>2. Without(a, c.t.mem, B, x)
      BY <3>1 DEF Without
    <3> QED  BY <1>1, <2>0, <2>2, <3>1, <3>2 DEF CutHere
  <2>4. CutOff(a, x, B, c.t, p)
    <3> HIDE DEF B
    <3> QED  BY <2>3, CutIs
  <2>5. /\ Whole(DOMAIN a, G) /\ Cropped(a, d.mem, G) /\ d.volume = c.t.volume - 1
        /\ \A n \in DOMAIN a \ G : d.mem[n].value = a[n].value
        /\ p \in DOMAIN a \ G
        /\ \A n \in DOMAIN a \ G, s \in {0, 1} : Kid(n, s) \in G => n = p
    BY <2>4 DEF CutOff
  <2>6. Cardinality(G) = 1 /\ x \in G
    <3>1. G = {x}
      OBVIOUS
    <3> HIDE DEF G
    <3> QED  BY <3>1, FS_Singleton
  <2> HIDE DEF G, d, u
  <2>7. d.volume = Size(a) - Cardinality(G)
    BY <1>1, <2>5, <2>6
  <2>8. Remains(a, d, p)
    BY <1>1, <2>5, <2>7, LossIs
  <2>9. DOMAIN d.mem = DOMAIN a \ G
    BY <2>5 DEF Cropped
  <2>10. OrphansOf(d.mem) \subseteq OrphansOf(m) \cup {p}
    BY <1>1, <2>6, <2>8, <2>9 DEF Remains, OrphansOf
  <2>11. Remains(m, d, p)
    BY <1>1, <2>8, <2>10 DEF Remains
  <2>12. Height(p) >= k + 1
    <3> DEFINE hx == Height(x)
               hp == Height(p)
    <3>1. hp = hx + 1 /\ hx \in Nat /\ hx >= k
      BY <1>1, <1>4, <1>6, <2>0
    <3> HIDE DEF hx, hp
    <3>2. hp >= k + 1
      BY <3>1
    <3> QED  BY <3>2 DEF hp
  <2>13. Climbed(m, u, k + 1)
    BY <2>1, <2>11, <2>12 DEF Climbed
  <2> QED  BY <2>13 DEF u
<1> QED
  BY <1>5, <1>6

LEMMA CleanupIs ==
  ASSUME NEW m, NEW trie, NEW node, Remains(m, trie, node), DOMAIN m \subseteq Places
  PROVE  Remains(m, CleanupOrphans(trie, node), Null)
<1> DEFINE h == TREE_DEPTH
           w == CHOOSE w : Climbs(trie, node, w, h)
<1>0. h \in Nat
  BY BTrieAssumption
<1>1. Climbs(trie, node, w, h)
  BY <1>0, ClimbsExist
<1>2. CleanupOrphans(trie, node) = w[h].t
  BY DEF CleanupOrphans, Climbs, Climb, ClimbStep
<1> HIDE DEF w, h
<1>3. \A k \in 0..h : w[k] = Climb(trie, node, w, k)
  BY <1>1 DEF Climbs
<1> DEFINE T == {k \in Nat : k <= h => Climbed(m, w[k], k)}
<1>4. 0 \in T
  <2> DEFINE c == [t |-> trie, n |-> node]
  <2>1. w[0] = c
    BY <1>0, <1>3 DEF Climb
  <2>2. DOMAIN c = {"t", "n"} /\ c.t = trie /\ c.n = node
    OBVIOUS
  <2> HIDE DEF c
  <2>3. node # Null => Height(node) >= 0
    <3>1. node # Null => node \in Places
      BY DEF Remains
    <3>2. node # Null => Height(node) \in Nat
      BY <3>1, HeightIs
    <3> QED  BY <3>2
  <2>4. Climbed(m, c, 0)
    BY <2>2, <2>3 DEF Climbed
  <2> QED  BY <2>1, <2>4
<1>5. ASSUME NEW k \in T PROVE k + 1 \in T
  <2>1. ASSUME k + 1 <= h PROVE Climbed(m, w[k + 1], k + 1)
    <3>1. k + 1 \in 0..h /\ k + 1 # 0 /\ (k + 1) - 1 = k /\ Climbed(m, w[k], k) /\ k \in Nat
      BY <1>0, <2>1
    <3>2. w[k + 1] = ClimbStep(w[k])
      BY <1>3, <3>1 DEF Climb
    <3> QED  BY <3>1, <3>2, ClimbStepIs
  <2> QED  BY <2>1
<1>6. T = Nat
  <2> HIDE DEF T
  <2> QED  BY <1>4, <1>5, Induction DEF T
<1>7. Climbed(m, w[h], h)
  BY <1>0, <1>6
<1>8. w[h].n = Null
  <2> DEFINE x == w[h].n
  <2>1. ASSUME x # Null PROVE FALSE
    <3>1. x \in Places /\ Height(x) >= h
      BY <1>7, <2>1 DEF Climbed, Remains
    <3>2. Height(x) \in Nat /\ Height(x) <= h - 1
      BY <3>1, HeightIs DEF h
    <3> QED  BY <1>0, <3>1, <3>2
  <2> QED  BY <2>1
<1> QED
  BY <1>2, <1>7, <1>8 DEF Climbed

-----------------------------------------------------------------------------
(* btrie_cleanup *)

LEMMA NodeCleanupIs ==
  ASSUME Shape(mem), volume = Size(mem)
  PROVE  Remains(mem, NodeCleanup, Null) /\ OrphansOf(NodeCleanup.mem) = {}
<1> DEFINE D == DOMAIN mem
           gone == {n \in D \ Roots : Empty(n)}
           t == NodeCleanup
           C(n) == [s \in {0, 1} |-> IF mem[n].child[s] \in gone THEN Null ELSE mem[n].child[s]]
           V(n) == [mem[n] EXCEPT !.child = C(n)]
           m2 == [n \in D \ gone |-> V(n)]
<1>1. t.mem = m2 /\ t.volume = volume - Cardinality(gone)
  <2>1. t = [mem |-> m2, volume |-> volume - Cardinality(gone)]
    BY DEF NodeCleanup
  <2> HIDE DEF t, m2, gone
  <2> QED  BY <2>1
<1>2. /\ Closed(D) /\ D \subseteq Places /\ mem \in [D -> Fields]
      /\ \A n \in D : Fits(D, n, mem[n])
  BY DEF Shape, Closed
<1>3. \A n \in D : Below(mem, n) = Sub(D, n)
  BY BelowIs
<1>4. \A n \in gone : n \in D \ Roots /\ \A k \in Sub(D, n) \cup {n} : mem[k].value = Null
  BY <1>3 DEF Empty
<1>5. \A n \in (D \ Roots) \ gone : \E k \in Sub(D, n) \cup {n} : mem[k].value # Null
  BY <1>3 DEF Empty
<1>6. \A n \in D \ Roots : (\A k \in Sub(D, n) \cup {n} : mem[k].value = Null) => n \in gone
  BY <1>3 DEF Empty
<1> HIDE DEF gone, t
<1>7. Whole(D, gone)
  <2>1. ASSUME NEW n \in gone, NEW s \in {0, 1}, Kid(n, s) \in D PROVE Kid(n, s) \in gone
    <3> DEFINE x == Kid(n, s)
    <3>1. n \in D /\ n \in Places /\ x \in Places /\ x \in D \ Roots
      BY <1>2, <1>4, <2>1, KidIs
    <3>2. ASSUME NEW k \in D, k = x \/ Under(k, x) PROVE k \in Sub(D, n)
      <4>1. ByKid(D, k, n)
        BY <2>1, <3>2 DEF ByKid
      <4>2. Under(k, n)
        BY <1>2, <3>1, <4>1, SubStep
      <4> QED  BY <4>2 DEF Sub
    <3> HIDE DEF x
    <3>3. \A k \in Sub(D, x) \cup {x} : k \in Sub(D, n)
      BY <3>1, <3>2 DEF Sub
    <3>4. \A k \in Sub(D, x) \cup {x} : mem[k].value = Null
      BY <1>4, <3>3
    <3>5. x \in gone
      BY <1>6, <3>1, <3>4
    <3> QED  BY <3>5 DEF x
  <2>2. gone \subseteq D \ Roots
    BY <1>4
  <2> QED  BY <2>1, <2>2 DEF Whole
<1>8. ASSUME NEW n \in D \ gone
      PROVE  /\ V(n) \in Fields /\ V(n).parent = mem[n].parent /\ V(n).idx = mem[n].idx
             /\ V(n).sel = mem[n].sel /\ V(n).value = mem[n].value
             /\ \A s \in {0, 1} : V(n).child[s] = IF mem[n].child[s] \in gone THEN Null
                                                 ELSE mem[n].child[s]
  <2> DEFINE c == C(n)
  <2>1. mem[n] \in Fields
    BY <1>2
  <2>2. mem[n].child \in [{0, 1} -> Places \cup {Null}]
    BY <2>1 DEF Fields
  <2>3. c \in [{0, 1} -> Places \cup {Null}]
    BY <2>2
  <2>4. \A s \in {0, 1} : c[s] = IF mem[n].child[s] \in gone THEN Null ELSE mem[n].child[s]
    OBVIOUS
  <2> HIDE DEF C
  <2> QED  BY <2>1, <2>3, <2>4 DEF Fields
<1>9. DOMAIN m2 = D \ gone /\ \A n \in D \ gone : m2[n] = V(n)
  OBVIOUS
<1>10. m2 \in [D \ gone -> Fields]
  <2> HIDE DEF V
  <2> QED  BY <1>8
<1> HIDE DEF m2, V
<1>11. Cropped(mem, m2, gone)
  BY <1>8, <1>9, <1>10 DEF Cropped
<1>12. \A n \in D \ gone : m2[n].value = mem[n].value
  BY <1>8, <1>9
<1>13. Shape(m2) /\ DOMAIN m2 = D \ gone /\ Size(m2) = Size(mem) - Cardinality(gone)
  BY <1>7, <1>11, CropShape, CropSize
<1>14. OrphansOf(m2) = {}
  <2> SUFFICES ASSUME NEW n \in OrphansOf(m2) PROVE FALSE
    OBVIOUS
  <2>1. n \in (D \ Roots) \ gone /\ n \in DOMAIN m2 /\ IsOrphan(m2, n)
    BY <1>13 DEF OrphansOf
  <2>2. m2[n].value = Null /\ \A s \in {0, 1} : Kid(n, s) \notin DOMAIN m2
    BY <1>13, <2>1, OrphanIs
  <2>3. PICK k \in Sub(D, n) \cup {n} : mem[k].value # Null
    BY <1>5, <2>1
  <2>4. k # n
    BY <1>12, <2>1, <2>2, <2>3
  <2>5. k \in D /\ Under(k, n) /\ k \in Places /\ n \in Places
    BY <1>2, <2>1, <2>3, <2>4 DEF Sub
  <2>6. k \notin gone
    BY <1>4, <2>3
  <2>7. ByKid(D \ gone, k, n)
    <3>1. Closed(D \ gone)
      BY <1>13 DEF Shape
    <3>2. k \in D \ gone /\ n \in D \ gone
      BY <2>1, <2>5, <2>6
    <3> QED  BY <2>5, <3>1, <3>2, SubStep
  <2> QED  BY <1>13, <2>2, <2>7 DEF ByKid
<1>15. Remains(mem, t, Null)
  BY <1>1, <1>13, <1>14 DEF Remains
<1> QED
  BY <1>1, <1>14, <1>15 DEF t

-----------------------------------------------------------------------------
(* btrie_fini *)

FiniTurn(w, i) == IF i = 0 THEN Trie ELSE NodeFini(w[i - 1], RootAt(i - 1))

FiniTurns(w, h) == w = [i \in 0..h |-> FiniTurn(w, i)]

LEMMA FiniTurnsExist ==
  ASSUME NEW h \in Nat
  PROVE  \E w : FiniTurns(w, h)
<1> DEFINE T == {k \in Nat : \E w : FiniTurns(w, k)}
<1>1. 0 \in T
  <2> DEFINE w == [j \in 0..0 |-> FiniTurn(<<>>, j)]
  <2>1. FiniTurns(w, 0)
    BY DEF FiniTurns, FiniTurn
  <2> QED  BY <2>1
<1>2. ASSUME NEW k \in T PROVE k + 1 \in T
  <2>1. PICK w : FiniTurns(w, k)
    OBVIOUS
  <2> DEFINE v == [j \in 0..k + 1 |-> FiniTurn(w, j)]
  <2>2. \A j \in 0..k : w[j] = FiniTurn(w, j)
    BY <2>1 DEF FiniTurns
  <2>3. ASSUME NEW j \in 0..k + 1 PROVE FiniTurn(w, j) = FiniTurn(v, j)
    <3>1. CASE j = 0
      BY <3>1 DEF FiniTurn
    <3>2. CASE j # 0
      <4>1. j - 1 \in 0..k /\ j - 1 \in 0..k + 1
        BY <3>2
      <4>2. v[j - 1] = w[j - 1]
        BY <2>2, <4>1
      <4> HIDE DEF v
      <4> QED  BY <3>2, <4>2 DEF FiniTurn
    <3> QED  BY <3>1, <3>2
  <2>4. FiniTurns(v, k + 1)
    BY <2>3 DEF FiniTurns
  <2> QED  BY <2>4
<1>3. T = Nat
  <2> HIDE DEF T
  <2> QED  BY <1>1, <1>2, Induction DEF T
<1> QED
  BY <1>3

\* The roots before i have nothing below them.
FiniBefore(t, i) ==
    /\ Shape(t.mem) /\ t.volume = Size(t.mem)
    /\ \A n \in DOMAIN t.mem \ Roots : n[1] >= i

LEMMA FiniTurnIs ==
  ASSUME NEW i \in 0..TREE_DEPTH - 1, NEW t, FiniBefore(t, i)
  PROVE  FiniBefore(NodeFini(t, RootAt(i)), i + 1)
<1> DEFINE x == RootAt(i)
           f == NodeFini(t, x)
           m == t.mem
           B == Sub(DOMAIN m, x)
<1>1. Shape(m) /\ t.volume = Size(m) /\ \A n \in DOMAIN m \ Roots : n[1] >= i
  BY DEF FiniBefore
<1>2. x \in Roots /\ x[1] = i /\ x[2] = <<>>
  BY RootIs
<1>3. i \in Nat
  BY BTrieAssumption
<1> HIDE DEF x
<1>4. Whole(DOMAIN m, B) /\ Cropped(m, f.mem, B) /\ f.volume = t.volume - Cardinality(B)
  BY <1>1, <1>2, FiniRoot
<1> HIDE DEF f, B, m
<1>5. Shape(f.mem) /\ DOMAIN f.mem = DOMAIN m \ B
  BY <1>1, <1>4, CropShape
<1>6. f.volume = Size(f.mem)
  BY <1>1, <1>4, CropSize
<1>7. ASSUME NEW n \in DOMAIN f.mem \ Roots PROVE n[1] >= i + 1
  <2>1. n \in DOMAIN m \ Roots /\ n \notin B /\ n[1] >= i
    BY <1>1, <1>5
  <2>2. n \in Places
    BY <1>1, <2>1 DEF Shape, Closed
  <2>3. n[1] \in Nat /\ Len(n[2]) \in Nat /\ Len(n[2]) # 0
    BY <2>1, <2>2, PlaceIs, RootLen, LenProperties
  <2>4. n[1] # i
    <3>1. ASSUME n[1] = i PROVE Under(n, x)
      BY <1>2, <2>3, <3>1 DEF Under
    <3> QED  BY <2>1, <3>1 DEF B, Sub
  <2> QED  BY <1>3, <2>1, <2>3, <2>4
<1>8. FiniBefore(f, i + 1)
  BY <1>5, <1>6, <1>7 DEF FiniBefore
<1> QED
  BY <1>8 DEF f, x

LEMMA AllFiniIs ==
  ASSUME Shape(mem), volume = Size(mem)
  PROVE  /\ Shape(AllFini.mem) /\ AllFini.volume = Size(AllFini.mem)
         /\ DOMAIN AllFini.mem = Roots
<1> DEFINE h == TREE_DEPTH
           w == CHOOSE w : FiniTurns(w, h)
<1>0. h \in Nat
  BY BTrieAssumption
<1>1. FiniTurns(w, h)
  BY <1>0, FiniTurnsExist
<1>2. AllFini = w[h]
  BY DEF AllFini, FiniTurns, FiniTurn
<1> HIDE DEF w
<1>3. \A k \in 0..h : w[k] = FiniTurn(w, k)
  BY <1>1 DEF FiniTurns
<1> DEFINE T == {k \in Nat : k <= h => FiniBefore(w[k], k)}
<1>4. 0 \in T
  <2>1. w[0] = Trie
    BY <1>0, <1>3 DEF FiniTurn
  <2>2. Trie.mem = mem /\ Trie.volume = volume
    BY DEF Trie
  <2>3. \A n \in DOMAIN mem \ Roots : n[1] >= 0
    BY PlaceIs DEF Shape, Closed
  <2>4. FiniBefore(Trie, 0)
    BY <2>2, <2>3 DEF FiniBefore
  <2> QED  BY <2>1, <2>4
<1>5. ASSUME NEW k \in T PROVE k + 1 \in T
  <2>1. ASSUME k + 1 <= h PROVE FiniBefore(w[k + 1], k + 1)
    <3>1. /\ k + 1 \in 0..h /\ k + 1 # 0 /\ (k + 1) - 1 = k /\ FiniBefore(w[k], k)
          /\ k \in 0..TREE_DEPTH - 1
      BY <1>0, <2>1
    <3>2. w[k + 1] = NodeFini(w[k], RootAt(k))
      BY <1>3, <3>1 DEF FiniTurn
    <3> QED  BY <3>1, <3>2, FiniTurnIs
  <2> QED  BY <2>1
<1>6. T = Nat
  <2> HIDE DEF T
  <2> QED  BY <1>4, <1>5, Induction DEF T
<1>7. FiniBefore(w[h], h)
  BY <1>0, <1>6
<1>8. DOMAIN w[h].mem = Roots
  <2>1. Roots \subseteq DOMAIN w[h].mem /\ DOMAIN w[h].mem \subseteq Places
    BY <1>7 DEF FiniBefore, Shape, Closed
  <2>2. ASSUME NEW n \in DOMAIN w[h].mem \ Roots PROVE FALSE
    <3>1. n[1] \in Nat /\ n[1] <= h - 1
      BY <1>0, <2>1, PlaceIs
    <3>2. n[1] >= h
      BY <1>7 DEF FiniBefore
    <3> QED  BY <1>0, <3>1, <3>2
  <2> QED  BY <2>1, <2>2
<1> QED
  BY <1>2, <1>7, <1>8 DEF FiniBefore

-----------------------------------------------------------------------------
(* btrie_init *)

Fresh == [n \in Roots |-> Node(Null, n[1], 0)]

LEMMA FreshIs ==
  Shape(Fresh) /\ DOMAIN Fresh = Roots /\ Size(Fresh) = 0 /\ OrphansOf(Fresh) = {}
<1>1. DOMAIN Fresh = Roots /\ \A n \in Roots : Fresh[n] = Node(Null, n[1], 0)
  BY DEF Fresh
<1>2. ASSUME NEW n \in Roots
      PROVE  /\ n \in Places /\ n[1] \in 0..TREE_DEPTH - 1 /\ Height(n) = n[1]
             /\ \A s \in {0, 1} : Kid(n, s) \notin Roots
  <2>1. PICK r \in 0..TREE_DEPTH - 1 : n = RootAt(r)
    BY DEF Roots
  <2>2. n \in Places /\ n[1] = r /\ Height(n) = r
    BY <2>1, RootIs
  <2> QED  BY <2>2, KidIs
<1>3. Closed(Roots)
  <2> DEFINE R == 0..TREE_DEPTH - 1
             F == [r \in R |-> RootAt(r)]
  <2>1. IsFiniteSet(R)
    BY BTrieAssumption, FS_Interval
  <2>2. F \in Surjection(R, Roots)
    BY DEF Surjection, Roots
  <2> HIDE DEF R, F
  <2>3. IsFiniteSet(Roots)
    BY <2>1, <2>2, FS_Surjection
  <2> QED  BY <1>2, <2>3 DEF Closed
<1>4. Fresh \in [Roots -> Fields]
  <2>1. \A n \in Roots : Node(Null, n[1], 0) \in Fields
    BY <1>2, NodeIs
  <2> QED  BY <2>1 DEF Fresh
<1>5. ASSUME NEW n \in Roots PROVE Fits(Roots, n, Fresh[n])
  <2>1. Fresh[n].idx = Height(n) /\ Fresh[n].parent = Null
    BY <1>1, <1>2 DEF Node
  <2>2. ASSUME NEW s \in {0, 1} PROVE Fresh[n].child[s] = Down(Roots, n, s)
    <3>1. Fresh[n].child[s] = Null
      BY <1>1 DEF Node
    <3> QED  BY <1>2, <3>1 DEF Down
  <2>3. \A q \in Places, s \in {0, 1} : n # Kid(q, s)
    BY KidIs
  <2> QED  BY <2>1, <2>2, <2>3 DEF Fits
<1>6. Shape(Fresh)
  BY <1>1, <1>3, <1>4, <1>5 DEF Shape
<1>7. DOMAIN Fresh \ Roots = {}
  BY <1>1
<1> QED
  BY <1>1, <1>6, <1>7, FS_EmptySet DEF Size, OrphansOf

-----------------------------------------------------------------------------
(* The invariant, and what a step does *)

IInv ==
    /\ Shape(mem) /\ volume = Size(mem)
    /\ ~inited => DOMAIN mem = Roots

\* No node but the one at x has become an orphan.
Tidy(x) ==
    /\ Shape(mem') /\ volume' = Size(mem')
    /\ OrphansOf(mem') \subseteq OrphansOf(mem) \cup {x}

LEMMA AddTidy ==
  ASSUME IInv, NEW key \in Keys, NEW value \in {Null, Val}, Add(key, value)
  PROVE  inited' /\ \E x : Tidy(x)
<1> DEFINE a == AddNode(key)
           m2 == [a.mem EXCEPT ![a.cur].value = value]
<1>1. Walked(a, 0)
  BY AddNodeIs DEF IInv
<1>2. /\ mem' = IF value = Null THEN a.mem ELSE m2
      /\ volume' = a.volume /\ inited'
  BY DEF Add
<1> HIDE DEF a
<1>3. /\ Shape(a.mem) /\ a.volume = Size(a.mem) /\ a.cur \in DOMAIN a.mem
      /\ OrphansOf(a.mem) \subseteq OrphansOf(mem) \cup {a.cur}
  BY <1>1 DEF Walked
<1>4. Written(a.mem, m2, a.cur)
  BY <1>3, WriteIs
<1> HIDE DEF m2
<1>5. /\ Shape(m2) /\ Size(m2) = Size(a.mem)
      /\ OrphansOf(m2) \subseteq OrphansOf(a.mem) \cup {a.cur}
  BY <1>3, <1>4, WrittenShape
<1>6. Tidy(a.cur)
  <2>1. mem' = a.mem \/ mem' = m2
    BY <1>2
  <2>2. CASE mem' = a.mem
    BY <1>2, <1>3, <2>2 DEF Tidy
  <2>3. CASE mem' = m2
    BY <1>2, <1>3, <1>5, <2>3 DEF Tidy
  <2> QED  BY <2>1, <2>2, <2>3
<1> QED
  BY <1>2, <1>6

LEMMA ForgetTidy ==
  ASSUME IInv, NEW key \in Keys, Forget(key)
  PROVE  inited' /\ \E x : Tidy(x)
<1> DEFINE x == FindExact(key)
           m2 == [mem EXCEPT ![x].value = Null]
<1>1. mem' = m2 /\ volume' = volume /\ inited' /\ x # Null
  BY DEF Forget
<1>2. x \in DOMAIN mem
  BY <1>1, FindExactIs DEF IInv
<1> HIDE DEF x
<1>3. Written(mem, m2, x)
  BY <1>2, WriteIs DEF IInv
<1> HIDE DEF m2
<1>4. Tidy(x)
  BY <1>1, <1>2, <1>3, WrittenShape DEF Tidy, IInv
<1> QED
  BY <1>1, <1>4

LEMMA RemoveNoCleanupTidy ==
  ASSUME IInv, NEW n, RemoveNoCleanup(n)
  PROVE  inited' /\ \E x : Tidy(x)
<1>1. n \in DOMAIN mem /\ inited'
  BY DEF RemoveNoCleanup, Removable
<1>2. Remains(mem, RemoveBody(n), mem[n].parent)
  BY <1>1, RemoveBodyIs DEF IInv
<1>3. mem' = RemoveBody(n).mem /\ volume' = RemoveBody(n).volume
  BY DEF RemoveNoCleanup, Become
<1>4. Tidy(mem[n].parent)
  BY <1>2, <1>3 DEF Tidy, Remains
<1> QED
  BY <1>1, <1>4

LEMMA RemoveTidy ==
  ASSUME IInv, NEW n, Remove(n)
  PROVE  inited' /\ Tidy(Null)
<1> DEFINE t == CleanupOrphans(RemoveBody(n), mem[n].parent)
<1>1. n \in DOMAIN mem /\ inited'
  BY DEF Remove, Removable
<1>2. Remains(mem, RemoveBody(n), mem[n].parent)
  BY <1>1, RemoveBodyIs DEF IInv
<1>3. DOMAIN mem \subseteq Places
  BY DEF IInv, Shape, Closed
<1>4. Remains(mem, t, Null)
  BY <1>2, <1>3, CleanupIs
<1>5. mem' = t.mem /\ volume' = t.volume
  BY DEF Remove, Become
<1> HIDE DEF t
<1> QED
  BY <1>1, <1>4, <1>5 DEF Tidy, Remains

LEMMA CleanupTidy ==
  ASSUME IInv, Cleanup
  PROVE  inited' /\ Tidy(Null) /\ OrphansOf(mem') = {}
<1>1. Remains(mem, NodeCleanup, Null) /\ OrphansOf(NodeCleanup.mem) = {}
  BY NodeCleanupIs DEF IInv
<1>2. mem' = NodeCleanup.mem /\ volume' = NodeCleanup.volume /\ inited'
  BY DEF Cleanup, Become
<1> QED
  BY <1>1, <1>2 DEF Tidy, Remains

LEMMA FiniTidy ==
  ASSUME IInv, Fini
  PROVE  DOMAIN mem' = Roots /\ Tidy(Null)
<1>1. /\ Shape(AllFini.mem) /\ AllFini.volume = Size(AllFini.mem)
      /\ DOMAIN AllFini.mem = Roots
  BY AllFiniIs DEF IInv
<1>2. mem' = AllFini.mem /\ volume' = AllFini.volume
  BY DEF Fini, Become
<1>3. OrphansOf(mem') = {}
  BY <1>1, <1>2 DEF OrphansOf
<1> QED
  BY <1>1, <1>2, <1>3 DEF Tidy

LEMMA InitAgainTidy ==
  ASSUME IInv, InitAgain
  PROVE  inited' /\ Tidy(Null)
<1>1. mem' = Fresh /\ volume' = 0 /\ inited'
  BY DEF InitAgain, Fresh
<1> QED
  BY <1>1, FreshIs DEF Tidy

\* Every action leaves at most one orphan that was none, and the invariant.
LEMMA StepTidy ==
  ASSUME IInv, Next
  PROVE  IInv' /\ \E x : Tidy(x)
<1>1. \A x : Tidy(x) => Shape(mem') /\ volume' = Size(mem')
  BY DEF Tidy
<1>2. ASSUME inited', NEW x, Tidy(x) PROVE IInv'
  <2>1. Shape(mem)' /\ (volume = Size(mem))'
    BY <1>1, <1>2
  <2> QED  BY <1>2, <2>1 DEF IInv
<1>3. ASSUME NEW key \in Keys, NEW value \in {Null, Val}, Add(key, value)
      PROVE  IInv' /\ \E x : Tidy(x)
  BY <1>2, <1>3, AddTidy
<1>4. ASSUME NEW key \in Keys, Forget(key)
      PROVE  IInv' /\ \E x : Tidy(x)
  BY <1>2, <1>4, ForgetTidy
<1>5. ASSUME NEW n \in Places, RemoveNoCleanup(n)
      PROVE  IInv' /\ \E x : Tidy(x)
  BY <1>2, <1>5, RemoveNoCleanupTidy
<1>6. ASSUME NEW n \in Places, Remove(n)
      PROVE  IInv' /\ \E x : Tidy(x)
  BY <1>2, <1>6, RemoveTidy
<1>7. CASE Cleanup
  BY <1>2, <1>7, CleanupTidy
<1>8. CASE Fini
  <2>1. DOMAIN mem' = Roots /\ Tidy(Null)
    BY <1>8, FiniTidy
  <2>2. IInv'
    BY <1>1, <2>1 DEF IInv
  <2> QED  BY <2>1, <2>2
<1>9. CASE InitAgain
  BY <1>2, <1>9, InitAgainTidy
<1> QED
  BY <1>3, <1>4, <1>5, <1>6, <1>7, <1>8, <1>9 DEF Next

LEMMA Invariance == Spec => []IInv
<1>1. Init => IInv
  BY FreshIs DEF Init, IInv, Fresh
<1>2. IInv /\ UNCHANGED vars => IInv'
  BY DEF IInv, vars, Shape, Size
<1>3. IInv /\ [Next]_vars => IInv'
  BY <1>2, StepTidy
<1> QED
  BY <1>1, <1>3, PTL DEF Spec

\* The links, the parents, the indices, the selectors and the volume agree after
\* any number of calls of btrie.c, for keys of any width.
THEOREM TrieLinks == Spec => []WellLinked
<1>1. ASSUME IInv PROVE WellLinked
  <2> DEFINE D == DOMAIN mem
  <2>1. /\ Closed(D) /\ D \subseteq Places /\ Null \notin D /\ mem \in [D -> Fields]
        /\ \A n \in D : Fits(D, n, mem[n])
    BY <1>1, NullAssumption DEF IInv, Shape, Closed
  <2>2. ASSUME NEW n \in D, NEW s \in {0, 1}, mem[n].child[s] # Null
        PROVE  LET kid == mem[n].child[s]
               IN  /\ kid \in D \ Roots /\ mem[kid].parent = n
                   /\ mem[kid].idx + 1 = mem[n].idx /\ mem[kid].sel = s
    <3> DEFINE kid == mem[n].child[s]
    <3>1. kid = Kid(n, s) /\ kid \in D
      BY <2>1, <2>2 DEF Fits, Down
    <3>2. n \in Places /\ kid \in Places /\ kid \notin Roots /\ Height(kid) = Height(n) - 1
      BY <2>1, <3>1, KidIs
    <3> HIDE DEF kid
    <3>3. mem[kid].parent = n /\ mem[kid].sel = s
      BY <2>1, <3>1, <3>2 DEF Fits
    <3>4. mem[kid].idx + 1 = mem[n].idx
      <4>1. mem[kid].idx = Height(kid) /\ mem[n].idx = Height(n) /\ Height(n) \in Nat
        BY <2>1, <3>1, <3>2, HeightIs DEF Fits
      <4> DEFINE hn == Height(n)
                 hk == Height(kid)
      <4>2. hk = hn - 1 /\ hn \in Nat
        BY <3>2, <4>1
      <4> HIDE DEF hn, hk
      <4>3. hk + 1 = hn
        BY <4>2
      <4> QED  BY <4>1, <4>3 DEF hn, hk
    <3>5. kid \in D \ Roots /\ mem[kid].parent = n /\ mem[kid].idx + 1 = mem[n].idx /\ mem[kid].sel = s
      BY <3>1, <3>2, <3>3, <3>4
    <3> QED  BY <3>5 DEF kid
  <2>3. ASSUME NEW n \in D \ Roots
        PROVE  mem[n].parent \in D /\ n \in Kids(mem, mem[n].parent)
    <3>1. mem[n].parent \in D /\ mem[n].sel \in {0, 1} /\ n = Kid(mem[n].parent, mem[n].sel)
      BY <1>1, ParentIs DEF IInv
    <3>2. \A k : k \in Kids(mem, mem[n].parent)
                   <=> \E s \in {0, 1} : k = Kid(mem[n].parent, s) /\ Kid(mem[n].parent, s) \in D
      BY <1>1, <3>1, KidsAre DEF IInv
    <3> QED  BY <3>1, <3>2
  <2>4. volume = Cardinality(D \ Roots)
    BY <1>1 DEF IInv, Size
  <2>5. ~inited => volume = 0
    <3>1. ~inited => D \ Roots = {}
      BY <1>1 DEF IInv
    <3> QED  BY <2>4, <3>1, FS_EmptySet
  <2> QED  BY <2>1, <2>2, <2>3, <2>4, <2>5 DEF WellLinked
<1> QED
  BY <1>1, Invariance, PTL

\* No operation leaves more than one empty branch behind: that of the node added
\* or emptied, or of the parent of what btrie_remove_node_no_cleanup took away;
\* btrie_remove_node leaves none that was not there, and btrie_cleanup none.
THEOREM TrieTidy == Spec => TidyUp
<1>1. Orphans = OrphansOf(mem) /\ Orphans' = OrphansOf(mem')
  BY DEF Orphans, OrphansOf
<1>2. ASSUME IInv, Cleanup PROVE Orphans' = {}
  BY <1>1, <1>2, CleanupTidy
<1>3. ASSUME IInv, NEW n \in Places, Remove(n) PROVE Orphans' \subseteq Orphans
  <2>1. Tidy(Null)
    BY <1>3, RemoveTidy
  <2>2. Null \notin OrphansOf(mem')
    BY <2>1, NullAssumption DEF Tidy, Shape, Closed, OrphansOf
  <2> QED  BY <1>1, <2>1, <2>2 DEF Tidy
<1>4. ASSUME IInv, Next PROVE Cardinality(Orphans' \ Orphans) =< 1
  <2>1. PICK x : Tidy(x)
    BY <1>4, StepTidy
  <2>2. Orphans' \ Orphans \subseteq {x}
    BY <1>1, <2>1 DEF Tidy
  <2>3. IsFiniteSet({x}) /\ Cardinality({x}) = 1
    BY FS_Singleton
  <2> DEFINE W == Orphans' \ Orphans
  <2> HIDE DEF W
  <2>4. Cardinality(W) <= Cardinality({x})
    BY <2>2, <2>3, FS_Subset DEF W
  <2> QED  BY <2>3, <2>4 DEF W
<1>5. IInv /\ [Next]_vars
        => [ /\ Cleanup => Orphans' = {}
             /\ \A n \in Places : Remove(n) => Orphans' \subseteq Orphans
             /\ Cardinality(Orphans' \ Orphans) =< 1 ]_vars
  BY <1>2, <1>3, <1>4
<1> QED
  BY <1>5, Invariance, PTL DEF Spec, TidyUp
=============================================================================
