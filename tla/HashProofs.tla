------------------------------ MODULE HashProofs ------------------------------
(***************************************************************************)
(* The invariants of the hash table, for any number of items, keys, values *)
(* and table sizes, any hash function and any finalizer.                   *)
(*                                                                         *)
(* The argument names the chains: ch[b] is the sequence of the items that  *)
(* next leads through from slot b.  An operation is shown to turn the      *)
(* chains before it into the chains after it, and only then are the walks  *)
(* along next, by which the code and the properties speak of them, shown   *)
(* to follow the chains.                                                   *)
(*                                                                         *)
(* The chains also say which values each key has, and in what order: the   *)
(* last part shows every operation to do to these stacks what the          *)
(* dictionary of module Dict does.                                         *)
(***************************************************************************)
EXTENDS Hash, FiniteSetTheorems, SequenceTheorems, TLAPS

-----------------------------------------------------------------------------
(* Induction, over sets of numbers *)

LEMMA Induction ==
  ASSUME NEW T \in SUBSET Nat, 0 \in T, \A n \in T : n + 1 \in T
  PROVE  T = Nat
<1> DEFINE R == {ss \in Nat \X Nat : ss[1] < ss[2]}
           U == Nat \ T
<1>1. IsWellFoundedOn(R, Nat)
  BY NatLessThanWellFounded DEF OpToRel
<1>2. \A x, y \in Nat : y < x => <<y, x>> \in R
  OBVIOUS
<1> HIDE DEF R
<1>3. ASSUME U # {} PROVE FALSE
  <2> DEFINE V == U
  <2>1. V \subseteq Nat /\ V # {}
    BY <1>3
  <2> HIDE DEF V
  <2>2. PICK x \in V : \A y \in V : <<y, x>> \notin R
    BY <1>1, <2>1, WFMin
  <2>3. x \in Nat /\ x # 0 /\ x - 1 \in Nat /\ x - 1 < x
    BY <2>1 DEF V
  <2>4. x - 1 \notin V
    BY <1>2, <2>2, <2>3
  <2>5. x - 1 \in T /\ (x - 1) + 1 = x /\ x \notin T
    BY <2>3, <2>4 DEF V
  <2> QED
    BY <2>5
<1> QED
  BY <1>3

-----------------------------------------------------------------------------
(* The walk along next *)

N == Cardinality(Items)
X == Items \cup {NULL}

\* Cells whose next is an item or NULL.
Nexts(hp) == DOMAIN hp \subseteq Items /\ \A x \in DOMAIN hp : hp[x].next \in X

LEMMA ItemsNat == N \in Nat
  BY HashAssumption, FS_CardinalityType DEF N

\* The walks of at most i items along next, from each place, and all up to n.
Rung(hp, w, i) ==
    [y \in X |-> IF i = 0 \/ y = NULL THEN <<>>
                 ELSE IF y \in DOMAIN hp THEN <<y>> \o w[i - 1][hp[y].next]
                 ELSE <<y>>]
Rungs(hp, w, n) == w = [i \in 0..n |-> Rung(hp, w, i)]

LEMMA RungsExist ==
  ASSUME NEW hp, NEW n \in Nat
  PROVE  \E w : Rungs(hp, w, n)
<1> DEFINE T == {m \in Nat : \E w : Rungs(hp, w, m)}
<1>1. 0 \in T
  <2> DEFINE w == [i \in 0..0 |-> Rung(hp, <<>>, i)]
  <2>1. Rungs(hp, w, 0)
    BY DEF Rungs, Rung
  <2> QED  BY <2>1
<1>2. ASSUME NEW m \in T PROVE m + 1 \in T
  <2>1. PICK w : Rungs(hp, w, m)
    OBVIOUS
  <2> DEFINE v == [i \in 0..m + 1 |-> Rung(hp, w, i)]
  <2>2. \A i \in 0..m : v[i] = w[i]
    BY <2>1 DEF Rungs
  <2>3. ASSUME NEW i \in 0..m + 1 PROVE Rung(hp, w, i) = Rung(hp, v, i)
    <3>1. i # 0 => i - 1 \in 0..m
      OBVIOUS
    <3>2. i # 0 => v[i - 1] = w[i - 1]
      BY <2>2, <3>1
    <3> HIDE DEF v
    <3> QED
      BY <3>2 DEF Rung
  <2>4. Rungs(hp, v, m + 1)
    BY <2>3 DEF Rungs
  <2> QED  BY <2>4
<1>3. T = Nat
  <2> HIDE DEF T
  <2> QED  BY <1>1, <1>2, Induction DEF T
<1> QED
  BY <1>3

LEMMA WalkIs ==
  ASSUME NEW hp
  PROVE  \E w : Rungs(hp, w, N) /\ \A x : Walk(hp, x) = w[N][x]
<1>1. \E w : Rungs(hp, w, N)
  BY ItemsNat, RungsExist
<1> DEFINE w == CHOOSE w : Rungs(hp, w, N)
<1>2. Rungs(hp, w, N)
  BY <1>1
<1>3. \A x : Walk(hp, x) = w[N][x]
  BY DEF Walk, Rungs, Rung, N, X
<1> QED
  BY <1>2, <1>3

LEMMA FunIsSeq ==
  ASSUME NEW S, NEW n \in Nat, NEW f \in [1..n -> S]
  PROVE  f \in Seq(S) /\ Len(f) = n
  OBVIOUS

LEMMA SameSeq ==
  ASSUME NEW S, NEW s \in Seq(S), NEW t \in Seq(S), Len(s) = Len(t),
         \A i \in 1..Len(s) : s[i] = t[i]
  PROVE  s = t
  BY SeqEqual

\* A sequence and the item before it.
Prefixed(a, t) == [i \in 1..Len(t) + 1 |-> IF i = 1 THEN a ELSE t[i - 1]]

LEMMA PrefixedIs ==
  ASSUME NEW S, NEW a \in S, NEW t \in Seq(S)
  PROVE  /\ <<a>> \o t = Prefixed(a, t)
         /\ Prefixed(a, t) \in Seq(S) /\ Len(Prefixed(a, t)) = Len(t) + 1
         /\ Len(t) \in Nat
<1>1. Len(t) \in Nat /\ \A i \in 1..Len(t) : t[i] \in S
  BY LenProperties, ElementOfSeq
<1>2. Prefixed(a, t) \in [1..Len(t) + 1 -> S]
  <2>1. \A i \in 1..Len(t) + 1 : i # 1 => i - 1 \in 1..Len(t)
    BY <1>1
  <2> QED
    BY <1>1, <2>1 DEF Prefixed
<1>3. Prefixed(a, t) \in Seq(S) /\ Len(Prefixed(a, t)) = Len(t) + 1
  BY <1>1, <1>2, FunIsSeq
<1>4. <<a>> \in Seq(S) /\ Len(<<a>>) = 1 /\ <<a>>[1] = a
  OBVIOUS
<1>5. /\ <<a>> \o t \in Seq(S) /\ Len(<<a>> \o t) = 1 + Len(t)
      /\ \A i \in 1..1 + Len(t) : (<<a>> \o t)[i] = IF i <= 1 THEN <<a>>[i] ELSE t[i - 1]
  BY <1>4, ConcatProperties
<1>6. \A i \in 1..Len(t) + 1 : (<<a>> \o t)[i] = Prefixed(a, t)[i]
  <2>1. \A i \in 1..Len(t) + 1 : i <= 1 <=> i = 1
    BY <1>1
  <2> QED  BY <1>1, <1>4, <1>5, <2>1 DEF Prefixed
<1>7. <<a>> \o t = Prefixed(a, t)
  <2> DEFINE u == <<a>> \o t
             v == Prefixed(a, t)
  <2>1. u \in Seq(S) /\ v \in Seq(S) /\ Len(u) = Len(v) /\ \A i \in 1..Len(u) : u[i] = v[i]
    BY <1>1, <1>3, <1>5, <1>6
  <2> HIDE DEF u, v
  <2>2. u = v
    BY <2>1, SameSeq
  <2> QED  BY <2>2 DEF u, v
<1> QED
  BY <1>1, <1>3, <1>7

LEMMA PrefixedItems ==
  ASSUME NEW a \in Items, NEW t \in Seq(Items)
  PROVE  LET p == Prefixed(a, t) IN
         /\ p \in Seq(Items) /\ Len(p) = Len(t) + 1
         /\ p[1] = a /\ \A i \in 1..Len(t) : p[i + 1] = t[i]
<1>1. /\ Prefixed(a, t) \in Seq(Items) /\ Len(Prefixed(a, t)) = Len(t) + 1
      /\ Len(t) \in Nat
  BY PrefixedIs
<1>2. ASSUME NEW i \in 1..Len(t) PROVE Prefixed(a, t)[i + 1] = t[i]
  <2>1. i + 1 \in 1..Len(t) + 1 /\ i + 1 # 1 /\ (i + 1) - 1 = i
    BY <1>1
  <2> QED  BY <2>1 DEF Prefixed
<1>3. Prefixed(a, t)[1] = a
  BY <1>1 DEF Prefixed
<1> QED
  BY <1>1, <1>2, <1>3

\* s is what next leads through from x, to the end.
Path(hp, s, x) ==
    /\ s \in Seq(Items)
    /\ x = IF s = <<>> THEN NULL ELSE s[1]
    /\ \A i \in 1..Len(s) :
         s[i] \in DOMAIN hp /\ hp[s[i]].next = IF i = Len(s) THEN NULL ELSE s[i + 1]

Once(s) == \A i, j \in 1..Len(s) : s[i] = s[j] => i = j

LEMMA NotLonger ==
  ASSUME NEW s \in Seq(Items), Once(s)
  PROVE  Len(s) \in Nat /\ Len(s) <= N
<1>1. Len(s) \in Nat /\ s \in [1..Len(s) -> Items]
  BY LenProperties
<1>2. s \in Injection(1..Len(s), Items)
  BY <1>1 DEF Once, Injection, IsInjective
<1>3. Cardinality(1..Len(s)) <= N
  BY <1>2, FS_Injection, HashAssumption DEF N
<1>4. Cardinality(1..Len(s)) = Len(s)
  BY <1>1, FS_Interval
<1> QED
  BY <1>1, <1>3, <1>4

LEMMA WalkFollows ==
  ASSUME NEW hp, NEW s, NEW x, Path(hp, s, x), Once(s)
  PROVE  Walk(hp, x) = s
<1> DEFINE n == Len(s)
           Rest(m) == [i \in 1..m |-> s[n - m + i]]
           At(m) == IF m = 0 THEN NULL ELSE s[n - m + 1]
<1>1. n \in Nat /\ n <= N /\ N \in Nat /\ s \in Seq(Items)
  BY NotLonger, ItemsNat DEF Path
<1>2. \A i \in 1..n : s[i] \in Items /\ s[i] # NULL
  BY <1>1, HashAssumption
<1>3. PICK w : Rungs(hp, w, N) /\ \A y : Walk(hp, y) = w[N][y]
  BY WalkIs
<1>4. \A i \in 0..N : w[i] = Rung(hp, w, i)
  BY <1>3 DEF Rungs
<1> HIDE DEF n
<1>5. ASSUME NEW m \in 0..n PROVE Rest(m) \in Seq(Items) /\ Len(Rest(m)) = m /\ At(m) \in X
  <2>1. \A i \in 1..m : n - m + i \in 1..n
    BY <1>1
  <2>2. Rest(m) \in [1..m -> Items]
    BY <1>2, <2>1
  <2>3. Rest(m) \in Seq(Items) /\ Len(Rest(m)) = m
    <3> HIDE DEF Rest
    <3> QED  BY <1>1, <2>2, FunIsSeq
  <2>4. m # 0 => n - m + 1 \in 1..n
    BY <1>1
  <2> QED  BY <1>2, <2>3, <2>4 DEF X
<1> DEFINE T == {m \in Nat : m <= n => \A i \in m..N : w[i][At(m)] = Rest(m)}
<1>6. 0 \in T
  <2>1. ASSUME NEW i \in 0..N PROVE w[i][NULL] = <<>>
    BY <1>4 DEF Rung, X
  <2>2. Rest(0) = <<>>
    <3> HIDE DEF Rest
    <3>1. Rest(0) \in Seq(Items) /\ Len(Rest(0)) = 0
      BY <1>1, <1>5
    <3> QED  BY <3>1
  <2> QED  BY <1>1, <2>1, <2>2
<1>7. ASSUME NEW m \in T PROVE m + 1 \in T
  <2> SUFFICES ASSUME m + 1 <= n, NEW i \in m + 1..N PROVE w[i][At(m + 1)] = Rest(m + 1)
    OBVIOUS
  <2> DEFINE p == n - m
             y == s[p]
  <2>1. p \in 1..n /\ m + 1 # 0 /\ n - (m + 1) + 1 = p /\ (p = n <=> m = 0) /\ p + 1 = n - m + 1
        /\ i - 1 \in m..N /\ i \in 0..N /\ i # 0 /\ m <= n /\ m \in 0..n /\ m + 1 \in 0..n
    BY <1>1
  <2>2. At(m + 1) = y /\ y \in X /\ y # NULL /\ y \in Items
    BY <1>2, <2>1 DEF X
  <2>3. y \in DOMAIN hp /\ hp[y].next = IF p = n THEN NULL ELSE s[p + 1]
    BY <2>1 DEF Path, n
  <2>4. hp[y].next = At(m)
    BY <2>1, <2>3
  <2>5. w[i - 1][At(m)] = Rest(m)
    BY <2>1
  <2>6. w[i][y] = <<y>> \o Rest(m)
    <3> HIDE DEF y, At, Rest
    <3>1. y \in X /\ y # NULL /\ y \in DOMAIN hp /\ i \in 0..N /\ i # 0
      BY <2>1, <2>2, <2>3
    <3>2. w[i] = Rung(hp, w, i)
      BY ONLY <1>4, <3>1
    <3>3. Rung(hp, w, i)[y] = <<y>> \o w[i - 1][hp[y].next]
      BY ONLY <3>1 DEF Rung
    <3> QED  BY ONLY <2>4, <2>5, <3>2, <3>3
  <2>7. <<y>> \o Rest(m) = Prefixed(y, Rest(m)) /\ Len(Rest(m)) = m
    <3> HIDE DEF y, At, Rest
    <3> QED  BY <1>5, <2>1, <2>2, PrefixedIs
  <2>8. Prefixed(y, Rest(m)) = Rest(m + 1)
    <3>1. ASSUME NEW j \in 1..m + 1 PROVE (IF j = 1 THEN y ELSE Rest(m)[j - 1]) = s[n - (m + 1) + j]
      <4>1. CASE j = 1
        BY <2>1, <4>1
      <4>2. CASE j # 1
        <5>1. j - 1 \in 1..m /\ n - m + (j - 1) = n - (m + 1) + j
          BY <1>1, <2>1, <4>2
        <5> QED  BY <4>2, <5>1
      <4> QED  BY <4>1, <4>2
    <3> QED  BY <2>7, <3>1 DEF Prefixed
  <2> QED
    BY <2>2, <2>6, <2>7, <2>8
<1>8. T = Nat
  <2> HIDE DEF T
  <2> QED  BY <1>6, <1>7, Induction DEF T
<1>9. w[N][At(n)] = Rest(n)
  BY <1>1, <1>8
<1>10. Rest(n) = s
  <2>1. \A i \in 1..n : Rest(n)[i] = s[i]
    BY <1>1
  <2> HIDE DEF Rest
  <2>2. n \in 0..n
    BY <1>1
  <2> QED  BY <1>1, <1>5, <2>1, <2>2, SameSeq DEF n
<1>11. At(n) = x
  <2>1. n = 0 <=> s = <<>>
    BY <1>1 DEF n
  <2>2. n - n + 1 = 1
    BY <1>1
  <2> QED  BY <2>1, <2>2 DEF Path
<1> QED
  BY <1>3, <1>9, <1>10, <1>11

-----------------------------------------------------------------------------
(* The invariant *)

\* ch names the chains of table t over the cells hp; no item is on them twice.
Shape(t, hp, ch) ==
    /\ ch \in [DOMAIN t -> Seq(Items)]
    /\ \A b \in DOMAIN t : Path(hp, ch[b], t[b])
    /\ \A b, c \in DOMAIN t : \A i \in 1..Len(ch[b]), j \in 1..Len(ch[c]) :
         ch[b][i] = ch[c][j] => b = c /\ i = j

On(t, ch) == {x \in Items : \E b \in DOMAIN t : \E i \in 1..Len(ch[b]) : ch[b][i] = x}

\* Item x at place i of chain b is where its key belongs and has its links, or it is a
\* head without proper ones.
Placed1(t, hp, b, x) == HashFn[hp[x].key] % Cardinality(DOMAIN t) = b
Linked1(hp, s, b, i, sus) ==
    LET c == hp[s[i]]
    IN  IF i = 1
        THEN IF s[i] \in sus THEN {c.prev, c.bucket} \subseteq {NULL, Junk}
             ELSE c.prev = NULL /\ c.bucket = b
        ELSE s[i] \notin sus /\ c.prev = s[i - 1] /\ c.bucket = NULL

Linked(t, hp, ch, sus) ==
    \A b \in DOMAIN t : \A i \in 1..Len(ch[b]) :
      Placed1(t, hp, b, ch[b][i]) /\ Linked1(hp, ch[b], b, i, sus)

Chained(ch) ==
    /\ Shape(table, heap, ch)
    /\ Linked(table, heap, ch, suspect)
    /\ suspect \subseteq On(table, ch)
    /\ Live = On(table, ch) \cup leaked
    /\ On(table, ch) \cap leaked = {}

\* What lies ahead of place i of chain b0.
Ahead(ch, b0, i) ==
    {x \in Items : \E b \in DOMAIN ch : \E j \in 1..Len(ch[b]) :
       ch[b][j] = x /\ (b > b0 \/ (b = b0 /\ j > i))}

TravsOf(ch) == {t \in Travs : t.b \in DOMAIN ch}

\* Traversal t stands at place i of its chain, with next behind it; it holds the item
\* there unless the callback has deleted it; and what it has ahead it has not seen.
Stands(ch, t, i) ==
    LET s == ch[t.b]
    IN  /\ t.next = IF i = Len(s) THEN NULL ELSE s[i + 1]
        /\ t.cur = NULL => t.kind = "traverse"
        /\ t.cur # NULL => i # 0 /\ t.cur = s[i]
        /\ t.cur \notin t.seen
        /\ Ahead(ch, t.b, i) \cap t.seen = {}
        /\ t.owed \subseteq Ahead(ch, t.b, i)

Visits(ch, t) == t \in TravsOf(ch) /\ \E i \in 0..Len(ch[t.b]) : Stands(ch, t, i)

Ch == [b \in Slots |-> Chain(b)]

IInv ==
    /\ TypeOK /\ DeathsExplained
    /\ elnum = Cardinality(Live)
    /\ st = "fini" => trav = NULL /\ \A b \in Slots : table[b] = NULL
    /\ Chained(Ch)
    /\ trav # NULL => Visits(Ch, trav)

-----------------------------------------------------------------------------
(* Slots and chains *)

LEMMA SlotsAre ==
  ASSUME TypeOK
  PROVE  /\ \E sz \in Sizes : Slots = 0..sz - 1 /\ Cardinality(Slots) = sz
         /\ Cardinality(Slots) \in Nat \ {0} /\ Slots = 0..Cardinality(Slots) - 1
         /\ table \in [Slots -> X]
         /\ NULL \notin Slots /\ Junk \notin Slots
         /\ \A k \in Keys : Idx(k) \in Slots
<1>1. PICK sz \in Sizes : table \in [0..sz - 1 -> X]
  BY DEF TypeOK, X
<1>2. sz \in Nat \ {0} /\ Slots = 0..sz - 1
  BY <1>1, HashAssumption DEF Slots
<1>3. Cardinality(Slots) = sz
  BY <1>2, FS_Interval
<1>4. \A k \in Keys : HashFn[k] % sz \in 0..sz - 1
  BY <1>2, HashAssumption
<1>5. NULL \notin Slots /\ Junk \notin Slots
  BY <1>2, HashAssumption
<1> QED
  BY <1>1, <1>2, <1>3, <1>4, <1>5 DEF Idx

\* What is known of a chain.
LEMMA ChainIs ==
  ASSUME NEW t, NEW hp, NEW ch, Shape(t, hp, ch), NEW b \in DOMAIN t
  PROVE  LET s == ch[b] IN
         /\ s \in Seq(Items) /\ Len(s) \in Nat /\ Once(s)
         /\ t[b] = IF s = <<>> THEN NULL ELSE s[1]
         /\ s = <<>> <=> Len(s) = 0
         /\ \A i \in 1..Len(s) :
              /\ s[i] \in Items /\ s[i] # NULL /\ s[i] # Junk /\ s[i] \in On(t, ch)
              /\ s[i] \in DOMAIN hp /\ hp[s[i]].next = IF i = Len(s) THEN NULL ELSE s[i + 1]
<1> DEFINE s == ch[b]
<1>1. Path(hp, s, t[b])
  BY DEF Shape
<1>2. s \in Seq(Items) /\ Len(s) \in Nat
  BY <1>1 DEF Path
<1>3. Once(s)
  BY DEF Shape, Once
<1>4. \A i \in 1..Len(s) : s[i] \in Items /\ s[i] # NULL /\ s[i] # Junk
  BY <1>2, HashAssumption
<1>5. \A i \in 1..Len(s) : s[i] \in On(t, ch)
  BY <1>4 DEF On
<1>6. s = <<>> <=> Len(s) = 0
  BY <1>2
<1> QED
  BY <1>1, <1>2, <1>3, <1>4, <1>5, <1>6 DEF Path

\* The walks follow the chains.
LEMMA WalksAre ==
  ASSUME NEW t, NEW hp, NEW ch, Shape(t, hp, ch)
  PROVE  [b \in DOMAIN t |-> Walk(hp, t[b])] = ch
<1>1. ASSUME NEW b \in DOMAIN t PROVE Walk(hp, t[b]) = ch[b]
  <2>1. Path(hp, ch[b], t[b])
    BY DEF Shape
  <2> QED
    BY <2>1, ChainIs, WalkFollows
<1>2. ch = [b \in DOMAIN t |-> ch[b]]
  BY DEF Shape
<1> QED
  BY <1>1, <1>2

\* Item x becomes the first of chain b.
Pushed(ch, b, x) == [ch EXCEPT ![b] = Prefixed(x, ch[b])]

LEMMA PushShape ==
  ASSUME NEW t, NEW hp, NEW ch, NEW t2, NEW hp2, NEW b \in DOMAIN t, NEW x \in Items,
         Shape(t, hp, ch), x \notin On(t, ch), t \in [DOMAIN t -> X],
         DOMAIN t2 = DOMAIN t, t2[b] = x, \A c \in DOMAIN t \ {b} : t2[c] = t[c],
         DOMAIN hp2 = DOMAIN hp \cup {x},
         hp2[x].next = t[b],
         \A y \in DOMAIN hp \ {x} : hp2[y].next = hp[y].next
  PROVE  /\ Shape(t2, hp2, Pushed(ch, b, x))
         /\ On(t2, Pushed(ch, b, x)) = On(t, ch) \cup {x}
         /\ DOMAIN t2 = DOMAIN t
<1> DEFINE s == ch[b]
           n == Len(s)
           p == Prefixed(x, s)
           ch2 == Pushed(ch, b, x)
<1>1. /\ s \in Seq(Items) /\ n \in Nat /\ Once(s)
      /\ t[b] = IF s = <<>> THEN NULL ELSE s[1]
      /\ s = <<>> <=> n = 0
      /\ \A i \in 1..n :
           /\ s[i] \in Items /\ s[i] # x
           /\ s[i] \in DOMAIN hp /\ hp[s[i]].next = IF i = n THEN NULL ELSE s[i + 1]
  BY ChainIs
<1>2. p \in Seq(Items) /\ Len(p) = n + 1 /\ p[1] = x /\ \A i \in 1..n : p[i + 1] = s[i]
  <2>1. s \in Seq(Items)
    BY <1>1
  <2> HIDE DEF s
  <2> QED  BY ONLY x \in Items, <2>1, PrefixedItems
<1>3. /\ DOMAIN t2 = DOMAIN t /\ t2[b] = x /\ \A c \in DOMAIN t \ {b} : t2[c] = t[c]
      /\ ch2 \in [DOMAIN t -> Seq(Items)] /\ ch2[b] = p
      /\ \A c \in DOMAIN t \ {b} : ch2[c] = ch[c]
  BY <1>2 DEF Shape, Pushed
<1> HIDE DEF s, n, p, ch2
<1>4. \A i \in 1..n + 1 : i = 1 \/ (i - 1 \in 1..n /\ p[i] = s[i - 1] /\ i - 1 + 1 = i)
  <2>1. ASSUME NEW i \in 1..n + 1, i # 1 PROVE i - 1 \in 1..n /\ (i - 1) + 1 = i
    BY <1>1, <2>1
  <2> QED  BY <1>2, <2>1
<1>5. ASSUME NEW c \in DOMAIN t PROVE Path(hp2, ch2[c], t2[c])
  <2>1. CASE c = b
    <3>1. p # <<>> /\ 1 \in 1..n + 1
      BY <1>1, <1>2
    <3>2. ASSUME NEW i \in 1..n + 1
          PROVE  p[i] \in DOMAIN hp2 /\ hp2[p[i]].next = IF i = n + 1 THEN NULL ELSE p[i + 1]
      <4>1. CASE i = 1
        <5>1. i = n + 1 <=> n = 0
          BY <1>1, <4>1
        <5>2. n # 0 => p[i + 1] = s[1]
          <6>1. n # 0 => 1 \in 1..n
            BY <1>1
          <6> QED  BY <1>2, <4>1, <6>1
        <5> QED  BY <1>1, <1>2, <4>1, <5>1, <5>2
      <4>2. CASE i # 1
        <5>1. i - 1 \in 1..n /\ p[i] = s[i - 1] /\ (i - 1) + 1 = i
          BY <1>4, <4>2
        <5>2. i = n + 1 <=> i - 1 = n
          BY <1>1, <5>1
        <5>3. i # n + 1 => i \in 1..n /\ p[i + 1] = s[i]
          BY <1>1, <1>2
        <5>4. s[i - 1] \in DOMAIN hp /\ hp[s[i - 1]].next = IF i - 1 = n THEN NULL ELSE s[(i - 1) + 1]
          BY <1>1, <5>1
        <5>5. s[i - 1] # x
          BY <1>1, <5>1
        <5>6. s[i - 1] \in DOMAIN hp2 /\ hp2[s[i - 1]].next = hp[s[i - 1]].next
          BY <5>4, <5>5
        <5> QED  BY ONLY <5>1, <5>2, <5>3, <5>4, <5>6
      <4> QED  BY <4>1, <4>2
    <3> QED  BY <1>2, <1>3, <2>1, <3>1, <3>2 DEF Path
  <2>2. CASE c # b
    <3>1. Path(hp, ch[c], t[c])
      BY DEF Shape
    <3>2. \A i \in 1..Len(ch[c]) : ch[c][i] \in DOMAIN hp \ {x}
      BY ChainIs
    <3> QED  BY <1>3, <2>2, <3>1, <3>2 DEF Path
  <2> QED  BY <2>1, <2>2
<1>6. ASSUME NEW c \in DOMAIN t, NEW i \in 1..Len(ch2[c])
      PROVE  \/ c = b /\ i = 1 /\ ch2[c][i] = x
             \/ c = b /\ i # 1 /\ i - 1 \in 1..Len(ch[b]) /\ ch2[c][i] = ch[b][i - 1]
             \/ c # b /\ i \in 1..Len(ch[c]) /\ ch2[c][i] = ch[c][i]
  BY <1>2, <1>3, <1>4 DEF s, n
<1>7. \A c \in DOMAIN t : \A i \in 1..Len(ch[c]) : ch[c][i] # x
  BY ChainIs
<1>8. ASSUME NEW c \in DOMAIN t, NEW d \in DOMAIN t, NEW i \in 1..Len(ch2[c]),
             NEW j \in 1..Len(ch2[d]), ch2[c][i] = ch2[d][j]
      PROVE  c = d /\ i = j
  <2>1. i \in Int /\ j \in Int
    OBVIOUS
  <2>2. \A e, f \in DOMAIN t : \A k \in 1..Len(ch[e]), l \in 1..Len(ch[f]) :
          ch[e][k] = ch[f][l] => e = f /\ k = l
    BY DEF Shape
  <2>3. \/ c = b /\ i = 1 /\ ch2[c][i] = x
        \/ c = b /\ i # 1 /\ i - 1 \in 1..Len(ch[b]) /\ ch2[c][i] = ch[b][i - 1]
        \/ c # b /\ i \in 1..Len(ch[c]) /\ ch2[c][i] = ch[c][i]
    BY <1>6
  <2>4. \/ d = b /\ j = 1 /\ ch2[d][j] = x
        \/ d = b /\ j # 1 /\ j - 1 \in 1..Len(ch[b]) /\ ch2[d][j] = ch[b][j - 1]
        \/ d # b /\ j \in 1..Len(ch[d]) /\ ch2[d][j] = ch[d][j]
    BY <1>6
  <2>5. CASE c = b /\ i = 1
    <3>1. ch2[c][i] = x
      BY <2>3, <2>5
    <3>2. ch2[d][j] = x
      BY <1>8, <3>1
    <3>3. d = b /\ j = 1
      BY <1>7, <2>4, <3>2
    <3> QED  BY <2>5, <3>3
  <2>6. CASE d = b /\ j = 1
    <3>1. ch2[d][j] = x
      BY <2>4, <2>6
    <3>2. ch2[c][i] = x
      BY <1>8, <3>1
    <3>3. c = b /\ i = 1
      BY <1>7, <2>3, <3>2
    <3> QED  BY <2>6, <3>3
  <2>7. CASE (c = b /\ i # 1) /\ (d = b /\ j # 1)
    <3>1. i - 1 = j - 1
      BY <1>8, <2>2, <2>3, <2>4, <2>7
    <3> QED  BY <2>1, <2>7, <3>1
  <2>8. CASE (c = b /\ i # 1) /\ d # b
    BY <1>8, <2>2, <2>3, <2>4, <2>8
  <2>9. CASE c # b /\ (d = b /\ j # 1)
    BY <1>8, <2>2, <2>3, <2>4, <2>9
  <2>10. CASE c # b /\ d # b
    BY <1>8, <2>2, <2>3, <2>4, <2>10
  <2> QED  BY <2>5, <2>6, <2>7, <2>8, <2>9, <2>10
<1>9. Shape(t2, hp2, ch2)
  BY <1>3, <1>5, <1>8 DEF Shape
<1>10. On(t2, ch2) \subseteq On(t, ch) \cup {x}
  BY <1>3, <1>6 DEF On
<1>11. x \in On(t2, ch2)
  <2>1. 1 \in 1..Len(ch2[b])
    BY <1>1, <1>2, <1>3
  <2> QED  BY <1>2, <1>3, <2>1 DEF On
<1>12. ASSUME NEW y \in On(t, ch) PROVE y \in On(t2, ch2)
  <2>1. PICK c \in DOMAIN t : \E i \in 1..Len(ch[c]) : ch[c][i] = y
    BY DEF On
  <2>2. PICK i \in 1..Len(ch[c]) : ch[c][i] = y
    BY <2>1
  <2>3. CASE c = b
    <3>1. i \in 1..n /\ i + 1 \in 1..Len(ch2[b]) /\ ch2[b][i + 1] = y
      BY <1>1, <1>2, <1>3, <2>2, <2>3 DEF n, s
    <3> QED  BY <1>3, <3>1 DEF On
  <2>4. CASE c # b
    BY <1>3, <2>2, <2>4 DEF On
  <2> QED  BY <2>3, <2>4
<1> QED
  BY <1>3, <1>9, <1>10, <1>11, <1>12 DEF ch2

\* Tables t and t2, cells hp and hp2 and suspects sus and sus2 are so before and after.
Pushes(t, hp, sus, t2, hp2, sus2, b, x) ==
    /\ DOMAIN t2 = DOMAIN t /\ t2[b] = x /\ \A c \in DOMAIN t \ {b} : t2[c] = t[c]
    /\ HashFn[hp2[x].key] % Cardinality(DOMAIN t) = b
    /\ IF x \in sus2 THEN {hp2[x].prev, hp2[x].bucket} \subseteq {NULL, Junk}
       ELSE hp2[x].prev = NULL /\ hp2[x].bucket = b
    /\ \A y \in DOMAIN hp \ {x} : hp2[y].key = hp[y].key
    /\ \A y \in DOMAIN hp \ {x, t[b]} :
         hp2[y].prev = hp[y].prev /\ hp2[y].bucket = hp[y].bucket
    /\ t[b] # NULL => hp2[t[b]].prev = x /\ hp2[t[b]].bucket = NULL /\ t[b] \notin sus2
    /\ \A y \in Items \ {x, t[b]} : y \in sus2 <=> y \in sus

LEMMA PushLinked ==
  ASSUME NEW t, NEW hp, NEW ch, NEW sus, NEW t2, NEW hp2, NEW sus2,
         NEW b \in DOMAIN t, NEW x \in Items,
         Shape(t, hp, ch), x \notin On(t, ch), t \in [DOMAIN t -> X],
         Linked(t, hp, ch, sus), Pushes(t, hp, sus, t2, hp2, sus2, b, x)
  PROVE  Linked(t2, hp2, Pushed(ch, b, x), sus2)
<1> USE DEF Pushes
<1> DEFINE s == ch[b]
           n == Len(s)
           p == Prefixed(x, s)
           ch2 == Pushed(ch, b, x)
<1>1. /\ s \in Seq(Items) /\ n \in Nat /\ Once(s)
      /\ t[b] = IF s = <<>> THEN NULL ELSE s[1]
      /\ s = <<>> <=> n = 0
      /\ \A i \in 1..n : s[i] \in Items /\ s[i] # NULL /\ s[i] # x /\ s[i] \in DOMAIN hp
  BY ChainIs
<1>2. p \in Seq(Items) /\ Len(p) = n + 1 /\ p[1] = x /\ \A i \in 1..n : p[i + 1] = s[i]
  <2>1. s \in Seq(Items)
    BY <1>1
  <2> HIDE DEF s
  <2> QED  BY ONLY x \in Items, <2>1, PrefixedItems
<1>3. /\ DOMAIN t2 = DOMAIN t /\ ch2[b] = p
      /\ \A c \in DOMAIN t \ {b} : ch2[c] = ch[c]
  BY <1>2 DEF Shape, Pushed
<1> HIDE DEF s, n, p, ch2
<1>4. ASSUME NEW c \in DOMAIN t, NEW i \in 1..Len(ch[c]), c # b
      PROVE  Placed1(t, hp2, c, ch[c][i]) /\ Linked1(hp2, ch[c], c, i, sus2)
  <2>1. ch[c][i] \in DOMAIN hp /\ ch[c][i] # x /\ ch[c][i] \in Items
    BY ChainIs
  <2>2. ch[c][i] # t[b]
    <3>1. CASE n = 0
      BY <1>1, <2>1, HashAssumption, <3>1
    <3>2. CASE n # 0
      <4>1. 1 \in 1..Len(ch[b])
        BY <1>1, <3>2 DEF n, s
      <4> QED  BY <1>1, <1>4, <3>2, <4>1 DEF Shape, s
    <3> QED  BY <3>1, <3>2
  <2>3. Placed1(t, hp, c, ch[c][i]) /\ Linked1(hp, ch[c], c, i, sus)
    BY DEF Linked
  <2> QED  BY <2>1, <2>2, <2>3 DEF Placed1, Linked1
<1>5. ASSUME NEW i \in 1..n + 1
      PROVE  Placed1(t, hp2, b, p[i]) /\ Linked1(hp2, p, b, i, sus2)
  <2>1. CASE i = 1
    BY <1>2, <2>1 DEF Placed1, Linked1
  <2>2. CASE i # 1
    <3> DEFINE j == i - 1
    <3>1. j \in 1..n /\ j + 1 = i
      BY <1>1, <2>2
    <3>2. p[i] = s[j] /\ s[j] \in DOMAIN hp /\ s[j] # x /\ s[j] \in Items
      BY <1>1, <1>2, <3>1
    <3>3. Placed1(t, hp, b, s[j]) /\ Linked1(hp, s, b, j, sus)
      BY <3>1 DEF Linked, n, s
    <3>4. CASE j = 1
      <4>1. t[b] = s[j] /\ t[b] # NULL /\ p[j] = x
        BY <1>1, <1>2, <3>1, <3>4
      <4> QED  BY <2>2, <3>2, <3>3, <4>1 DEF Placed1, Linked1
    <3>5. CASE j # 1
      <4>1. j - 1 \in 1..n /\ (j - 1) + 1 = j /\ 1 \in 1..n
        <5>1. n \in Nat
          BY <1>1
        <5> QED  BY ONLY <3>1, <3>5, <5>1
      <4>2. p[j] = s[j - 1] /\ s[j] # t[b]
        <5>1. p[(j - 1) + 1] = s[j - 1]
          BY <1>2, <4>1
        <5>2. s[j] # s[1]
          BY <1>1, <3>1, <3>5, <4>1 DEF Once, n
        <5> QED  BY <1>1, <3>1, <4>1, <5>1, <5>2
      <4> HIDE DEF j
      <4>3. hp2[s[j]].key = hp[s[j]].key /\ hp2[s[j]].prev = hp[s[j]].prev
            /\ hp2[s[j]].bucket = hp[s[j]].bucket /\ (s[j] \in sus2 <=> s[j] \in sus)
        BY <3>2, <4>2
      <4>4. i - 1 = j
        BY <3>1
      <4> QED  BY <2>2, <3>2, <3>3, <3>5, <4>2, <4>3, <4>4 DEF Placed1, Linked1
    <3> QED  BY <3>4, <3>5
  <2> QED  BY <2>1, <2>2
<1>6. ASSUME NEW c \in DOMAIN t2, NEW i \in 1..Len(ch2[c])
      PROVE  Placed1(t2, hp2, c, ch2[c][i]) /\ Linked1(hp2, ch2[c], c, i, sus2)
  <2>1. CASE c = b
    BY <1>2, <1>3, <1>5, <2>1 DEF Placed1
  <2>2. CASE c # b
    BY <1>3, <1>4, <2>2 DEF Placed1
  <2> QED  BY <2>1, <2>2
<1> QED
  BY <1>6 DEF Linked, ch2

\* A cell, its bucket in bs.
Cells(bs) == [bucket : bs, prev : Items \cup {NULL, Junk}, next : Items \cup {NULL},
              key : Keys, value : Values \cup {NoValue}]

Demoted(a, x) == [a EXCEPT !.prev = x, !.bucket = NULL]

LEMMA CellDemoted ==
  ASSUME NEW bs, NEW a \in Cells(bs), NEW x \in Items, NULL \in bs
  PROVE  LET d == Demoted(a, x) IN
         /\ d \in Cells(bs) /\ d.next = a.next /\ d.prev = x /\ d.bucket = NULL
         /\ d.key = a.key /\ d.value = a.value
<1> DEFINE d == Demoted(a, x)
<1>1. /\ d.next = a.next /\ d.prev = x /\ d.bucket = NULL
      /\ d.key = a.key /\ d.value = a.value
  BY DEF Cells, Demoted
<1>2. d \in Cells(bs)
  BY DEF Cells, Demoted
<1> QED
  BY <1>1, <1>2

\* Cell c of item x fits in front of chain b of q, and r is q with it there.
Fits(q, ch, sus, sus2, bs, b, x, c) ==
    /\ b \in DOMAIN q.table /\ x \in Items /\ c \in Cells(bs) /\ NULL \in bs
    /\ q.heap \in [DOMAIN q.heap -> Cells(bs)] /\ DOMAIN q.heap \subseteq Items
    /\ q.table \in [DOMAIN q.table -> X]
    /\ Shape(q.table, q.heap, ch) /\ x \notin On(q.table, ch) /\ Linked(q.table, q.heap, ch, sus)
    /\ HashFn[c.key] % Cardinality(DOMAIN q.table) = b
    /\ IF x \in sus2 THEN {c.prev, c.bucket} \subseteq {NULL, Junk}
       ELSE c.prev = NULL /\ c.bucket = b
    /\ q.table[b] # NULL => q.table[b] \notin sus2
    /\ \A y \in Items \ {x, q.table[b]} : y \in sus2 <=> y \in sus

Fitted(q, r, ch, sus2, bs, b, x, c) ==
    LET ch2 == Pushed(ch, b, x)
    IN  /\ DOMAIN r.table = DOMAIN q.table /\ r.table \in [DOMAIN r.table -> X]
        /\ DOMAIN r.heap = DOMAIN q.heap \cup {x} /\ r.heap \in [DOMAIN r.heap -> Cells(bs)]
        /\ Shape(r.table, r.heap, ch2) /\ Linked(r.table, r.heap, ch2, sus2)
        /\ On(r.table, ch2) = On(q.table, ch) \cup {x}
        /\ r.heap[x].key = c.key /\ r.heap[x].value = c.value
        /\ \A y \in DOMAIN q.heap \ {x} :
             r.heap[y].key = q.heap[y].key /\ r.heap[y].value = q.heap[y].value

LEMMA LinkFirstIs ==
  ASSUME NEW q, NEW ch, NEW sus, NEW sus2, NEW bs, NEW b, NEW x, NEW c,
         Fits(q, ch, sus, sus2, bs, b, x, c)
  PROVE  Fitted(q, LinkFirst(q, x, b, c), ch, sus2, bs, b, x, c)
<1> DEFINE t == q.table
           hp == q.heap
<1>0. /\ b \in DOMAIN t /\ x \in Items /\ c \in Cells(bs) /\ NULL \in bs
      /\ hp \in [DOMAIN hp -> Cells(bs)] /\ DOMAIN hp \subseteq Items
      /\ t \in [DOMAIN t -> X]
      /\ Shape(t, hp, ch) /\ x \notin On(t, ch) /\ Linked(t, hp, ch, sus)
      /\ HashFn[c.key] % Cardinality(DOMAIN t) = b
      /\ IF x \in sus2 THEN {c.prev, c.bucket} \subseteq {NULL, Junk}
         ELSE c.prev = NULL /\ c.bucket = b
      /\ t[b] # NULL => t[b] \notin sus2
      /\ \A y \in Items \ {x, t[b]} : y \in sus2 <=> y \in sus
  BY DEF Fits
<1>01. LinkFirst(q, x, b, c).table = [t EXCEPT ![b] = x]
  BY DEF LinkFirst
<1>02. LinkFirst(q, x, b, c).heap = [y \in DOMAIN hp \cup {x} |->
                                      CASE y = x    -> [c EXCEPT !.next = t[b]]
                                        [] y = t[b] -> [hp[y] EXCEPT !.prev = x, !.bucket = NULL]
                                        [] OTHER    -> hp[y]]
  BY DEF LinkFirst
<1> HIDE DEF t, hp
<1> USE <1>0
<1> DEFINE r == LinkFirst(q, x, b, c)
           old == t[b]
           cell(y) == CASE y = x   -> [c EXCEPT !.next = old]
                        [] y = old -> [hp[y] EXCEPT !.prev = x, !.bucket = NULL]
                        [] OTHER   -> hp[y]
           t2 == [t EXCEPT ![b] = x]
           hp2 == [y \in DOMAIN hp \cup {x} |-> cell(y)]
<1>1. r.table = t2 /\ r.heap = hp2
  BY <1>01, <1>02
<1>2. old \in X /\ old # x /\ (old # NULL => old \in DOMAIN hp) /\ NULL \notin Items
      /\ On(t, ch) \subseteq DOMAIN hp
  <2>1. old \in X /\ NULL \notin Items
    BY HashAssumption
  <2>2. old = NULL \/ (1 \in 1..Len(ch[b]) /\ old = ch[b][1])
    BY ChainIs
  <2>3. old # x /\ (old # NULL => old \in DOMAIN hp)
    BY <2>1, <2>2, ChainIs
  <2>4. On(t, ch) \subseteq DOMAIN hp
    BY ChainIs DEF On
  <2> QED  BY <2>1, <2>3, <2>4
<1> HIDE DEF r
<1>3. hp2[x] = [c EXCEPT !.next = old] /\ hp2[x] \in Cells(bs)
      /\ hp2[x].next = old /\ hp2[x].prev = c.prev /\ hp2[x].bucket = c.bucket
      /\ hp2[x].key = c.key /\ hp2[x].value = c.value
  <2>1. cell(x) = [c EXCEPT !.next = old]
    BY <1>2
  <2>2. hp2[x] = cell(x)
    <3> HIDE DEF cell
    <3> QED  OBVIOUS
  <2> HIDE DEF hp2, cell
  <2> QED  BY <1>2, <2>1, <2>2 DEF Cells, X
<1>4. ASSUME old # NULL
      PROVE  /\ hp2[old] \in Cells(bs) /\ hp2[old].next = hp[old].next
             /\ hp2[old].prev = x /\ hp2[old].bucket = NULL
             /\ hp2[old].key = hp[old].key /\ hp2[old].value = hp[old].value
  <2>1. cell(old) = [hp[old] EXCEPT !.prev = x, !.bucket = NULL]
    BY <1>2
  <2>2. hp2[old] = cell(old) /\ hp[old] \in Cells(bs)
    <3> HIDE DEF cell
    <3> QED  BY <1>2, <1>4
  <2> DEFINE a == hp[old]
             d == Demoted(a, x)
  <2>3. a \in Cells(bs)
    BY <2>2
  <2> HIDE DEF hp2, cell, a
  <2>4. /\ d \in Cells(bs) /\ d.next = a.next /\ d.prev = x /\ d.bucket = NULL
        /\ d.key = a.key /\ d.value = a.value
    BY <2>3, CellDemoted
  <2> HIDE DEF d
  <2>5. hp2[old] = d
    BY <2>1, <2>2 DEF d, a, Demoted
  <2> QED  BY <2>4, <2>5 DEF a
<1>5. ASSUME NEW y \in DOMAIN hp \ {x, old} PROVE hp2[y] = hp[y] /\ hp2[y] \in Cells(bs)
  <2>1. cell(y) = hp[y]
    OBVIOUS
  <2>2. hp2[y] = cell(y)
    <3> HIDE DEF cell
    <3> QED  OBVIOUS
  <2> HIDE DEF hp2, cell
  <2> QED  BY <2>1, <2>2
<1>6. \A y \in DOMAIN hp \ {x} : /\ hp2[y].next = hp[y].next /\ hp2[y].key = hp[y].key
                                 /\ hp2[y].value = hp[y].value /\ hp2[y] \in Cells(bs)
  <2> TAKE y \in DOMAIN hp \ {x}
  <2>1. CASE y = old
    <3>1. old # NULL
      BY <1>2, <2>1
    <3> QED  BY <1>4, <2>1, <3>1
  <2>2. CASE y # old
    BY <1>5, <2>2
  <2> QED  BY <2>1, <2>2
<1>7. t2 \in [DOMAIN t -> X] /\ DOMAIN t2 = DOMAIN t
  BY DEF X
<1>8. hp2 \in [DOMAIN hp \cup {x} -> Cells(bs)] /\ DOMAIN hp2 = DOMAIN hp \cup {x}
  <2> HIDE DEF cell
  <2>1. \A y \in DOMAIN hp \cup {x} : cell(y) \in Cells(bs)
    BY <1>3, <1>6
  <2> QED  BY <2>1
<1>a. DOMAIN t2 = DOMAIN t /\ t2[b] = x /\ \A d \in DOMAIN t \ {b} : t2[d] = t[d]
  OBVIOUS
<1> HIDE DEF t2, hp2
<1>9. Shape(t2, hp2, Pushed(ch, b, x)) /\ On(t2, Pushed(ch, b, x)) = On(t, ch) \cup {x}
  <2>1. hp2[x].next = t[b]
    BY <1>3
  <2>2. DOMAIN hp2 = DOMAIN hp \cup {x}
    BY <1>8
  <2>3. \A y \in DOMAIN hp \ {x} : hp2[y].next = hp[y].next
    BY <1>6
  <2> QED  BY <1>a, <2>1, <2>2, <2>3, PushShape
<1>10. Linked(t2, hp2, Pushed(ch, b, x), sus2)
  <2>1. /\ HashFn[hp2[x].key] % Cardinality(DOMAIN t) = b
        /\ IF x \in sus2 THEN {hp2[x].prev, hp2[x].bucket} \subseteq {NULL, Junk}
           ELSE hp2[x].prev = NULL /\ hp2[x].bucket = b
    BY <1>3
  <2>2. t[b] # NULL => hp2[t[b]].prev = x /\ hp2[t[b]].bucket = NULL /\ t[b] \notin sus2
    BY <1>4
  <2>3. \A y \in DOMAIN hp \ {x, t[b]} : hp2[y].prev = hp[y].prev /\ hp2[y].bucket = hp[y].bucket
    BY <1>5
  <2>4. Pushes(t, hp, sus, t2, hp2, sus2, b, x)
    BY <1>6, <1>a, <2>1, <2>2, <2>3 DEF Pushes
  <2> QED  BY <2>4, PushLinked
<1> QED
  BY <1>1, <1>3, <1>6, <1>7, <1>8, <1>9, <1>10 DEF r, Fitted, t, hp

\* The item at place k of chain b goes.
Dropped(s, k) == [i \in 1..Len(s) - 1 |-> IF i < k THEN s[i] ELSE s[i + 1]]
Drop(ch, b, k) == [ch EXCEPT ![b] = Dropped(ch[b], k)]

LEMMA DroppedIs ==
  ASSUME NEW s \in Seq(Items), NEW k \in 1..Len(s)
  PROVE  LET d == Dropped(s, k) IN
         /\ d \in Seq(Items) /\ Len(d) = Len(s) - 1 /\ Len(d) \in Nat
         /\ \A i \in 1..Len(d) : IF i < k THEN i \in 1..Len(s) /\ d[i] = s[i]
                                 ELSE i + 1 \in 1..Len(s) /\ d[i] = s[i + 1]
<1> DEFINE d == Dropped(s, k)
<1>1. Len(s) \in Nat /\ Len(s) - 1 \in Nat /\ \A i \in 1..Len(s) : s[i] \in Items
  BY LenProperties, ElementOfSeq
<1>2. \A i \in 1..Len(s) - 1 : i \in 1..Len(s) /\ i + 1 \in 1..Len(s)
  BY <1>1
<1>3. d \in [1..Len(s) - 1 -> Items]
  BY <1>1, <1>2 DEF Dropped
<1>4. d \in Seq(Items) /\ Len(d) = Len(s) - 1
  <2> HIDE DEF d
  <2> QED  BY <1>1, <1>3, FunIsSeq
<1>5. \A i \in 1..Len(s) - 1 : d[i] = IF i < k THEN s[i] ELSE s[i + 1]
  BY DEF Dropped
<1> QED
  BY <1>1, <1>2, <1>4, <1>5

\* The item at place k of chain b goes, and its neighbours are linked to each other.
Drops(t, hp, ch, sus, t2, hp2, sus2, b, k) ==
    LET x == ch[b][k]
        z == hp[x].next
    IN  /\ DOMAIN t2 = DOMAIN t /\ t2 \in [DOMAIN t2 -> X]
        /\ \A c \in DOMAIN t \ {b} : t2[c] = t[c]
        /\ t2[b] = IF k = 1 THEN z ELSE t[b]
        /\ DOMAIN hp2 = DOMAIN hp \ {x}
        /\ \A y \in DOMAIN hp2 :
             /\ hp2[y].next = IF k # 1 /\ y = ch[b][k - 1] THEN z ELSE hp[y].next
             /\ hp2[y].key = hp[y].key /\ hp2[y].value = hp[y].value
        /\ \A y \in DOMAIN hp2 \ {z} : hp2[y].prev = hp[y].prev /\ hp2[y].bucket = hp[y].bucket
        /\ z # NULL => IF k = 1
                       THEN hp2[z].prev = NULL /\ hp2[z].bucket = IF z \in sus2 THEN NULL ELSE b
                       ELSE /\ hp2[z].prev = ch[b][k - 1] /\ hp2[z].bucket = hp[z].bucket
                            /\ z \notin sus2
        /\ \A y \in Items \ {x, z} : y \in sus2 <=> y \in sus

LEMMA DropShape ==
  ASSUME NEW t, NEW hp, NEW ch, NEW sus, NEW t2, NEW hp2, NEW sus2,
         NEW b \in DOMAIN t, NEW k \in 1..Len(ch[b]),
         Shape(t, hp, ch), t \in [DOMAIN t -> X], Drops(t, hp, ch, sus, t2, hp2, sus2, b, k)
  PROVE  /\ Shape(t2, hp2, Drop(ch, b, k))
         /\ On(t2, Drop(ch, b, k)) = On(t, ch) \ {ch[b][k]}
<1>0. /\ DOMAIN t2 = DOMAIN t /\ \A c \in DOMAIN t \ {b} : t2[c] = t[c]
      /\ t2[b] = IF k = 1 THEN hp[ch[b][k]].next ELSE t[b]
      /\ DOMAIN hp2 = DOMAIN hp \ {ch[b][k]}
      /\ \A y \in DOMAIN hp2 :
           hp2[y].next = IF k # 1 /\ y = ch[b][k - 1] THEN hp[ch[b][k]].next ELSE hp[y].next
  BY DEF Drops
<1> USE <1>0
<1> DEFINE s == ch[b]
           n == Len(s)
           x == s[k]
           d == Dropped(s, k)
           ch2 == Drop(ch, b, k)
<1>1. /\ s \in Seq(Items) /\ n \in Nat /\ Once(s) /\ k \in 1..n
      /\ t[b] = IF s = <<>> THEN NULL ELSE s[1]
      /\ s = <<>> <=> n = 0
      /\ \A i \in 1..n :
           /\ s[i] \in Items
           /\ s[i] \in DOMAIN hp /\ hp[s[i]].next = IF i = n THEN NULL ELSE s[i + 1]
  BY ChainIs
<1>2. /\ d \in Seq(Items) /\ Len(d) = n - 1 /\ Len(d) \in Nat
      /\ \A i \in 1..Len(d) : IF i < k THEN i \in 1..n /\ d[i] = s[i]
                              ELSE i + 1 \in 1..n /\ d[i] = s[i + 1]
  BY <1>1, DroppedIs
<1>3. /\ ch2 \in [DOMAIN t -> Seq(Items)] /\ ch2[b] = d
      /\ \A c \in DOMAIN t \ {b} : ch2[c] = ch[c]
  BY <1>2 DEF Shape, Drop
<1> HIDE DEF s, n, d, ch2
<1>4. \A i \in 1..n : s[i] = x => i = k
  BY <1>1 DEF Once, n
<1>5. ASSUME NEW c \in DOMAIN t PROVE Path(hp2, ch2[c], t2[c])
  <2>1. CASE c = b
    <3>1. t2[b] = IF d = <<>> THEN NULL ELSE d[1]
      <4>1. d = <<>> <=> n = 1
        BY <1>1, <1>2
      <4>2. CASE k = 1
        <5>1. n # 1 => 1 \in 1..Len(d) /\ d[1] = s[2]
          BY <1>1, <1>2, <4>2
        <5>2. hp[x].next = IF k = n THEN NULL ELSE s[k + 1]
          BY <1>1
        <5> QED  BY <4>1, <4>2, <5>1, <5>2 DEF s
      <4>3. CASE k # 1
        <5>1. n # 1 /\ 1 \in 1..Len(d) /\ 1 < k /\ d[1] = s[1] /\ n # 0
          <6>1. n \in Nat /\ k \in 1..n /\ Len(d) = n - 1
            BY ONLY <1>1, <1>2
          <6>2. n # 1 /\ 1 \in 1..Len(d) /\ 1 < k /\ n # 0
            BY ONLY <4>3, <6>1
          <6> QED  BY ONLY <1>2, <6>2
        <5> QED  BY <1>1, <4>1, <4>3, <5>1
      <4> QED  BY <4>2, <4>3
    <3>2. ASSUME NEW i \in 1..Len(d)
          PROVE  d[i] \in DOMAIN hp2 /\ hp2[d[i]].next = IF i = Len(d) THEN NULL ELSE d[i + 1]
      <4>0. i \in Nat /\ k \in Nat /\ n \in Nat /\ Len(d) = n - 1
        BY <1>1, <1>2
      <4>1. CASE i < k - 1
        <5>1. i \in 1..n /\ d[i] = s[i] /\ i # n /\ i # k /\ i # Len(d)
          BY <1>1, <1>2, <4>0, <4>1
        <5>2. i + 1 \in 1..Len(d) /\ i + 1 < k /\ d[i + 1] = s[i + 1]
          BY <1>2, <4>0, <4>1, <5>1
        <5>3. s[i] # x /\ s[i] \in DOMAIN hp /\ hp[s[i]].next = s[i + 1]
          BY <1>1, <1>4, <5>1
        <5>4. k # 1 => s[i] # s[k - 1]
          <6>1. k - 1 \in Int /\ (k # 1 => k - 1 \in 1..n) /\ i # k - 1
            BY <1>1, <4>0, <4>1
          <6> QED  BY <1>1, <5>1, <6>1 DEF Once, n
        <5>5. s[i] \in DOMAIN hp2 /\ hp2[s[i]].next = s[i + 1]
          BY <5>3, <5>4 DEF s
        <5> QED  BY <5>1, <5>2, <5>5
      <4>2. CASE i = k - 1
        <5>1. i \in 1..n /\ d[i] = s[i] /\ i # k /\ k # 1 /\ (i = Len(d) <=> k = n)
          BY <1>1, <1>2, <4>0, <4>2
        <5>2. k # n => i + 1 \in 1..Len(d) /\ i + 1 = k /\ d[i + 1] = s[k + 1]
          BY <1>1, <1>2, <4>0, <4>2, SMTT(40)
        <5>3. s[i] # x /\ s[i] \in DOMAIN hp
          BY <1>1, <1>4, <5>1
        <5>4. s[i] \in DOMAIN hp2 /\ hp2[s[i]].next = hp[x].next
          BY <4>2, <5>1, <5>3 DEF s
        <5>5. hp[x].next = IF k = n THEN NULL ELSE s[k + 1]
          BY <1>1
        <5> QED  BY <5>1, <5>2, <5>4, <5>5
      <4>3. CASE i >= k
        <5>1. i + 1 \in 1..n /\ d[i] = s[i + 1] /\ i + 1 # k /\ (i + 1 = n <=> i = Len(d))
          BY <1>1, <1>2, <4>0, <4>3
        <5>2. i # Len(d) => i + 1 \in 1..Len(d) /\ d[i + 1] = s[(i + 1) + 1]
          <6> HAVE i # Len(d)
          <6>1. i + 1 \in 1..Len(d) /\ ~(i + 1 < k)
            BY <4>0, <4>3
          <6> QED  BY <1>2, <6>1
        <5>3. /\ s[i + 1] # x /\ s[i + 1] \in DOMAIN hp
              /\ hp[s[i + 1]].next = IF i + 1 = n THEN NULL ELSE s[(i + 1) + 1]
          BY <1>1, <1>4, <5>1
        <5>4. k # 1 => s[i + 1] # s[k - 1]
          <6>1. (k # 1 => k - 1 \in 1..n) /\ i + 1 # k - 1
            BY <1>1, <4>0, <4>3
          <6> QED  BY <1>1, <5>1, <6>1 DEF Once, n
        <5>5. s[i + 1] \in DOMAIN hp2 /\ hp2[s[i + 1]].next = hp[s[i + 1]].next
          BY <5>3, <5>4 DEF s
        <5> QED  BY <5>1, <5>2, <5>3, <5>5
      <4> QED  BY <4>0, <4>1, <4>2, <4>3
    <3> QED  BY <1>2, <1>3, <2>1, <3>1, <3>2 DEF Path
  <2>2. CASE c # b
    <3>1. Path(hp, ch[c], t[c])
      BY DEF Shape
    <3>2. \A i \in 1..Len(ch[c]) : /\ ch[c][i] \in DOMAIN hp /\ ch[c][i] # ch[b][k]
                                   /\ (k # 1 => ch[c][i] # ch[b][k - 1])
      <4> TAKE i \in 1..Len(ch[c])
      <4>1. ch[c][i] \in DOMAIN hp
        BY ChainIs
      <4>2. k # 1 => k - 1 \in 1..Len(ch[b])
        BY <1>1
      <4> QED  BY <2>2, <4>1, <4>2 DEF Shape
    <3>3. Len(ch2[c]) = Len(ch[c]) /\ ch2[c] = ch[c] /\ t2[c] = t[c]
      BY <1>3, <2>2
    <3>4. \A i \in 1..Len(ch[c]) : ch[c][i] \in DOMAIN hp2 /\ hp2[ch[c][i]].next = hp[ch[c][i]].next
      BY <3>2
    <3> QED  BY <3>1, <3>3, <3>4 DEF Path
  <2> QED  BY <2>1, <2>2
<1>6. ASSUME NEW c \in DOMAIN t, NEW i \in 1..Len(ch2[c])
      PROVE  \/ c = b /\ i < k /\ i \in 1..Len(ch[b]) /\ ch2[c][i] = ch[b][i]
             \/ c = b /\ ~(i < k) /\ i + 1 \in 1..Len(ch[b]) /\ ch2[c][i] = ch[b][i + 1]
             \/ c # b /\ i \in 1..Len(ch[c]) /\ ch2[c][i] = ch[c][i]
  BY <1>2, <1>3 DEF s, n
<1>7. ASSUME NEW c \in DOMAIN t, NEW e \in DOMAIN t, NEW i \in 1..Len(ch2[c]),
             NEW j \in 1..Len(ch2[e]), ch2[c][i] = ch2[e][j]
      PROVE  c = e /\ i = j
  <2>1. i \in Int /\ j \in Int
    OBVIOUS
  <2>2. \A g, f \in DOMAIN t : \A m \in 1..Len(ch[g]), l \in 1..Len(ch[f]) :
          ch[g][m] = ch[f][l] => g = f /\ m = l
    BY DEF Shape
  <2>3. \/ c = b /\ i < k /\ i \in 1..Len(ch[b]) /\ ch2[c][i] = ch[b][i]
        \/ c = b /\ ~(i < k) /\ i + 1 \in 1..Len(ch[b]) /\ ch2[c][i] = ch[b][i + 1]
        \/ c # b /\ i \in 1..Len(ch[c]) /\ ch2[c][i] = ch[c][i]
    BY <1>6
  <2>4. \/ e = b /\ j < k /\ j \in 1..Len(ch[b]) /\ ch2[e][j] = ch[b][j]
        \/ e = b /\ ~(j < k) /\ j + 1 \in 1..Len(ch[b]) /\ ch2[e][j] = ch[b][j + 1]
        \/ e # b /\ j \in 1..Len(ch[e]) /\ ch2[e][j] = ch[e][j]
    BY <1>6
  <2>5. CASE c = b /\ e = b
    <3>1. CASE i < k /\ j < k
      BY <1>7, <2>2, <2>3, <2>4, <2>5, <3>1
    <3>2. CASE i < k /\ ~(j < k)
      <4>1. i = j + 1
        BY <1>7, <2>2, <2>3, <2>4, <2>5, <3>2
      <4> QED  BY <1>1, <2>1, <3>2, <4>1
    <3>3. CASE ~(i < k) /\ j < k
      <4>1. i + 1 = j
        BY <1>7, <2>2, <2>3, <2>4, <2>5, <3>3
      <4> QED  BY <1>1, <2>1, <3>3, <4>1
    <3>4. CASE ~(i < k) /\ ~(j < k)
      <4>1. i + 1 = j + 1
        BY <1>7, <2>2, <2>3, <2>4, <2>5, <3>4
      <4> QED  BY <2>1, <2>5, <4>1
    <3> QED  BY <3>1, <3>2, <3>3, <3>4
  <2>6. CASE c = b /\ e # b
    <3>1. PICK m \in 1..Len(ch[b]) : ch2[c][i] = ch[b][m]
      BY <2>3, <2>6
    <3>2. j \in 1..Len(ch[e]) /\ ch[b][m] = ch[e][j]
      BY <1>7, <2>4, <2>6, <3>1
    <3>3. b = e
      BY ONLY b \in DOMAIN t, e \in DOMAIN t, m \in 1..Len(ch[b]), <2>2, <3>2
    <3> QED  BY <2>6, <3>3
  <2>7. CASE c # b /\ e = b
    BY <1>7, <2>2, <2>3, <2>4, <2>7
  <2>8. CASE c # b /\ e # b
    BY <1>7, <2>2, <2>3, <2>4, <2>8
  <2> QED  BY <2>5, <2>6, <2>7, <2>8
<1>8. Shape(t2, hp2, ch2)
  BY <1>3, <1>5, <1>7 DEF Shape
<1>9. \A c \in DOMAIN t : \A i \in 1..Len(ch[c]) : ch[c][i] = x => c = b /\ i = k
  BY <1>1 DEF Shape, s, n
<1>10. On(t2, ch2) \subseteq On(t, ch) \ {x}
  <2>0. ASSUME NEW y \in On(t2, ch2) PROVE \E c \in DOMAIN t : \E i \in 1..Len(ch2[c]) : ch2[c][i] = y
    BY DEF On
  <2> SUFFICES ASSUME NEW c \in DOMAIN t, NEW i \in 1..Len(ch2[c])
               PROVE  ch2[c][i] \in On(t, ch) \ {x}
    BY <2>0
  <2>1. CASE c = b /\ i < k
    <3>1. i \in 1..Len(ch[b]) /\ ch2[c][i] = ch[b][i] /\ i # k
      BY <1>1, <1>6, <2>1
    <3> QED  BY <1>9, <3>1, ChainIs
  <2>2. CASE c = b /\ ~(i < k)
    <3>1. i + 1 \in 1..Len(ch[b]) /\ ch2[c][i] = ch[b][i + 1] /\ i + 1 # k
      BY <1>1, <1>6, <2>2
    <3> QED  BY <1>9, <3>1, ChainIs
  <2>3. CASE c # b
    BY <1>6, <1>9, <2>3, ChainIs
  <2> QED  BY <2>1, <2>2, <2>3
<1>11. ASSUME NEW y \in On(t, ch) \ {x} PROVE y \in On(t2, ch2)
  <2>1. PICK c \in DOMAIN t : \E i \in 1..Len(ch[c]) : ch[c][i] = y
    BY DEF On
  <2>2. PICK i \in 1..Len(ch[c]) : ch[c][i] = y
    BY <2>1
  <2>3. y \in Items
    BY DEF On
  <2>4. CASE c = b
    <3>1. i \in 1..n /\ i # k /\ s[i] = y
      BY <2>2, <2>4 DEF n, s
    <3>2. CASE i < k
      <4>1. i \in 1..Len(d) /\ d[i] = y
        BY <1>1, <1>2, <3>1, <3>2
      <4> QED  BY <1>3, <2>3, <4>1 DEF On
    <3>3. CASE ~(i < k)
      <4>1. i - 1 \in 1..Len(d) /\ ~(i - 1 < k) /\ (i - 1) + 1 = i
        BY <1>1, <1>2, <3>1, <3>3
      <4>2. d[i - 1] = y
        BY <1>2, <3>1, <4>1
      <4> QED  BY <1>3, <2>3, <4>1, <4>2 DEF On
    <3> QED  BY <3>2, <3>3
  <2>5. CASE c # b
    BY <1>3, <2>2, <2>3, <2>5 DEF On
  <2> QED  BY <2>4, <2>5
<1> QED
  BY <1>8, <1>10, <1>11 DEF ch2, s

LEMMA DropLinked ==
  ASSUME NEW t, NEW hp, NEW ch, NEW sus, NEW t2, NEW hp2, NEW sus2,
         NEW b \in DOMAIN t, NEW k \in 1..Len(ch[b]),
         Shape(t, hp, ch), t \in [DOMAIN t -> X], Linked(t, hp, ch, sus),
         Drops(t, hp, ch, sus, t2, hp2, sus2, b, k)
  PROVE  Linked(t2, hp2, Drop(ch, b, k), sus2)
<1> DEFINE z == hp[ch[b][k]].next
<1>0. /\ z = hp[ch[b][k]].next
      /\ DOMAIN t2 = DOMAIN t
      /\ DOMAIN hp2 = DOMAIN hp \ {ch[b][k]}
      /\ \A y \in DOMAIN hp2 : hp2[y].key = hp[y].key
      /\ \A y \in DOMAIN hp2 \ {z} : hp2[y].prev = hp[y].prev /\ hp2[y].bucket = hp[y].bucket
      /\ z # NULL => IF k = 1
                     THEN hp2[z].prev = NULL /\ hp2[z].bucket = IF z \in sus2 THEN NULL ELSE b
                     ELSE /\ hp2[z].prev = ch[b][k - 1] /\ hp2[z].bucket = hp[z].bucket
                          /\ z \notin sus2
      /\ \A y \in Items \ {ch[b][k], z} : y \in sus2 <=> y \in sus
  BY DEF Drops
<1> HIDE DEF z
<1> USE <1>0
<1> DEFINE s == ch[b]
           n == Len(s)
           x == s[k]
           d == Dropped(s, k)
           ch2 == Drop(ch, b, k)
<1>1. /\ s \in Seq(Items) /\ n \in Nat /\ Once(s) /\ k \in 1..n /\ NULL \notin Items
      /\ \A i \in 1..n :
           /\ s[i] \in Items
           /\ s[i] \in DOMAIN hp /\ hp[s[i]].next = IF i = n THEN NULL ELSE s[i + 1]
  <2>1. NULL \notin Items /\ k \in 1..n
    BY HashAssumption
  <2>2. /\ s \in Seq(Items) /\ n \in Nat /\ Once(s)
        /\ \A i \in 1..n :
             /\ s[i] \in Items
             /\ s[i] \in DOMAIN hp /\ hp[s[i]].next = IF i = n THEN NULL ELSE s[i + 1]
    BY ONLY Shape(t, hp, ch), b \in DOMAIN t, ChainIs
  <2> HIDE DEF s, n
  <2> QED  BY ONLY <2>1, <2>2
<1>2. /\ d \in Seq(Items) /\ Len(d) = n - 1 /\ Len(d) \in Nat
      /\ \A i \in 1..Len(d) : IF i < k THEN i \in 1..n /\ d[i] = s[i]
                              ELSE i + 1 \in 1..n /\ d[i] = s[i + 1]
  BY <1>1, DroppedIs
<1>3. ch2[b] = d /\ \A c \in DOMAIN t \ {b} : ch2[c] = ch[c]
  BY <1>2 DEF Shape, Drop
<1> HIDE DEF s, n, d, ch2
<1>4. \A i, j \in 1..n : s[i] = s[j] => i = j
  BY <1>1 DEF Once, n
<1>5. z = IF k = n THEN NULL ELSE s[k + 1]
  BY <1>1 DEF s
<1>6. ASSUME NEW i \in 1..n, i # k, k = n \/ i # k + 1
      PROVE  /\ s[i] # x /\ s[i] # z
             /\ hp2[s[i]].key = hp[s[i]].key /\ hp2[s[i]].prev = hp[s[i]].prev
             /\ hp2[s[i]].bucket = hp[s[i]].bucket /\ (s[i] \in sus2 <=> s[i] \in sus)
             /\ Placed1(t, hp, b, s[i]) /\ Linked1(hp, s, b, i, sus)
  <2>1. s[i] # x /\ s[i] \in DOMAIN hp /\ s[i] \in Items
    BY <1>1, <1>4, <1>6
  <2>2. s[i] # z
    <3>1. k # n => k + 1 \in 1..n
      BY ONLY <1>1
    <3> QED  BY <1>1, <1>4, <1>5, <1>6, <2>1, <3>1
  <2>3. Placed1(t, hp, b, s[i]) /\ Linked1(hp, s, b, i, sus)
    BY DEF Linked, n, s
  <2>4. s[i] \in DOMAIN hp2 \ {z} /\ s[i] \in Items \ {ch[b][k], z}
    BY <2>1, <2>2 DEF s
  <2> QED  BY <2>1, <2>2, <2>3, <2>4
<1>7. ASSUME NEW i \in 1..Len(d)
      PROVE  Placed1(t, hp2, b, d[i]) /\ Linked1(hp2, d, b, i, sus2)
  <2>0. i \in Nat /\ k \in Nat /\ n \in Nat /\ Len(d) = n - 1
    BY ONLY i \in 1..Len(d), k \in 1..Len(ch[b]), <1>1, <1>2
  <2>1. CASE i < k
    <3>1. i \in 1..n /\ d[i] = s[i] /\ i # k /\ i # k + 1
      BY ONLY i \in 1..Len(d), <1>2, <2>0, <2>1
    <3>2. i # 1 => d[i - 1] = s[i - 1]
      <4> HAVE i # 1
      <4>1. i - 1 \in 1..Len(d) /\ i - 1 < k
        BY ONLY i \in 1..Len(d), i # 1, <2>0, <2>1
      <4> QED  BY <1>2, <4>1
    <3>3. /\ hp2[s[i]].key = hp[s[i]].key /\ hp2[s[i]].prev = hp[s[i]].prev
          /\ hp2[s[i]].bucket = hp[s[i]].bucket /\ (s[i] \in sus2 <=> s[i] \in sus)
          /\ Placed1(t, hp, b, s[i]) /\ Linked1(hp, s, b, i, sus)
      BY <1>6, <3>1
    <3>4. DOMAIN t2 = DOMAIN t
      OBVIOUS
    <3> QED  BY ONLY <3>1, <3>2, <3>3, <3>4 DEF Placed1, Linked1
  <2>2. CASE i = k
    <3>1. i + 1 \in 1..n /\ d[i] = s[i + 1] /\ k # n /\ z = d[i] /\ i + 1 # 1
          /\ (i + 1) - 1 = i /\ s[i + 1] # x /\ i + 1 # k
      BY <1>1, <1>2, <1>4, <1>5, <2>0, <2>2
    <3>2. Placed1(t, hp, b, s[i + 1]) /\ Linked1(hp, s, b, i + 1, sus)
      BY <3>1 DEF Linked, n, s
    <3>3. z # NULL /\ z \in DOMAIN hp2 /\ hp2[z].key = hp[z].key /\ hp[z].bucket = NULL
      <4>1. z # NULL /\ z \in DOMAIN hp /\ z # x /\ hp[z].bucket = NULL
        BY ONLY <1>1, <3>1, <3>2 DEF Linked1
      <4>2. DOMAIN hp2 = DOMAIN hp \ {x} /\ \A y \in DOMAIN hp2 : hp2[y].key = hp[y].key
        BY DEF s
      <4> QED  BY ONLY <4>1, <4>2
    <3>4. k # 1 => d[i - 1] = ch[b][k - 1]
      <4> HAVE k # 1
      <4>1. i - 1 \in 1..Len(d) /\ i - 1 < k
        BY ONLY i \in 1..Len(d), k # 1, <2>0, <2>2
      <4> QED  BY <1>2, <2>2, <4>1 DEF s
    <3>5. Placed1(t, hp2, b, d[i])
      BY <3>1, <3>2, <3>3 DEF Placed1
    <3>6. Linked1(hp2, d, b, i, sus2)
      <4>1. CASE k = 1
        BY <2>2, <3>1, <3>3, <4>1 DEF Linked1
      <4>2. CASE k # 1
        BY <2>2, <3>1, <3>3, <3>4, <4>2 DEF Linked1
      <4> QED  BY <4>1, <4>2
    <3> QED  BY <3>5, <3>6
  <2>3. CASE i > k
    <3>1. i + 1 \in 1..n /\ d[i] = s[i + 1] /\ i + 1 # k /\ i + 1 # k + 1 /\ i # 1 /\ i + 1 # 1
          /\ (i + 1) - 1 = i
      BY ONLY i \in 1..Len(d), k \in 1..Len(ch[b]), <1>1, <1>2, <2>0, <2>3
    <3>2. d[i - 1] = s[i]
      <4>1. i - 1 \in 1..Len(d) /\ ~(i - 1 < k) /\ (i - 1) + 1 = i
        BY ONLY i \in 1..Len(d), k \in 1..Len(ch[b]), <1>1, <2>0, <2>3
      <4> QED  BY <1>2, <4>1
    <3>3. /\ hp2[s[i + 1]].key = hp[s[i + 1]].key /\ hp2[s[i + 1]].prev = hp[s[i + 1]].prev
          /\ hp2[s[i + 1]].bucket = hp[s[i + 1]].bucket /\ (s[i + 1] \in sus2 <=> s[i + 1] \in sus)
          /\ Placed1(t, hp, b, s[i + 1]) /\ Linked1(hp, s, b, i + 1, sus)
      BY <1>6, <3>1
    <3> QED  BY ONLY <3>1, <3>2, <3>3 DEF Placed1, Linked1
  <2>4. i < k \/ i = k \/ i > k
    BY ONLY <2>0
  <2> QED  BY ONLY <2>1, <2>2, <2>3, <2>4
<1>8. ASSUME NEW c \in DOMAIN t, NEW i \in 1..Len(ch[c]), c # b
      PROVE  Placed1(t, hp2, c, ch[c][i]) /\ Linked1(hp2, ch[c], c, i, sus2)
  <2>1. ch[c][i] \in DOMAIN hp /\ ch[c][i] \in Items /\ ch[c][i] # x
    <3>1. k \in 1..Len(ch[b]) /\ x = ch[b][k]
      BY <1>1 DEF s, n
    <3>2. ch[c][i] # ch[b][k]
      BY <1>8, <3>1 DEF Shape
    <3> QED  BY <3>1, <3>2, ChainIs
  <2>2. ch[c][i] # z
    <3>1. k # n => k + 1 \in 1..Len(ch[b])
      <4>1. n \in Nat /\ k \in 1..n /\ n = Len(ch[b])
        BY <1>1 DEF n, s
      <4> QED  BY ONLY <4>1
    <3>2. k # n => ch[c][i] # ch[b][k + 1]
      BY <1>8, <3>1 DEF Shape
    <3> QED  BY <1>1, <1>5, <2>1, <3>2 DEF s
  <2>3. Placed1(t, hp, c, ch[c][i]) /\ Linked1(hp, ch[c], c, i, sus)
    BY DEF Linked
  <2>4. ch[c][i] \in DOMAIN hp2 \ {z} /\ ch[c][i] \in Items \ {ch[b][k], z}
    BY <2>1, <2>2 DEF s
  <2> QED  BY <2>3, <2>4 DEF Placed1, Linked1
<1>9. ASSUME NEW c \in DOMAIN t2, NEW i \in 1..Len(ch2[c])
      PROVE  Placed1(t2, hp2, c, ch2[c][i]) /\ Linked1(hp2, ch2[c], c, i, sus2)
  <2>1. CASE c = b
    BY <1>3, <1>7, <2>1 DEF Placed1
  <2>2. CASE c # b
    BY <1>3, <1>8, <2>2 DEF Placed1
  <2> QED  BY <2>1, <2>2
<1> QED
  BY <1>9 DEF Linked, ch2

-----------------------------------------------------------------------------
(* The table at rest: what every operation keeps, whatever the traversal does *)

Buckets == Slots \cup {NULL, Junk}
Sts == {"ok", "fini", "wild write", "assert bucket", "assert rehash"}

Core(ch) ==
    /\ \E sz \in Sizes : table \in [0..sz - 1 -> X]
    /\ Live \subseteq Items
    /\ heap \in [Live -> Cells(Buckets)]
    /\ elnum = Cardinality(Live)
    /\ st \in Sts
    /\ Chained(ch)

LEMMA CoreIs ==
  ASSUME NEW ch, Core(ch)
  PROVE  /\ TypeOK
         /\ IsFiniteSet(Live) /\ elnum \in Nat
         /\ On(table, ch) \subseteq Live /\ suspect \subseteq On(table, ch)
         /\ Ch = ch
<1>1. IsFiniteSet(Live) /\ elnum \in Nat
  BY FS_Subset, FS_CardinalityType, HashAssumption DEF Core
<1>2. On(table, ch) \subseteq Live /\ suspect \subseteq On(table, ch) /\ leaked \subseteq Live
  BY DEF Core, Chained
<1>3. TypeOK
  BY <1>1, <1>2 DEF Core, TypeOK, Cells, Buckets, Sts, X
<1>4. Ch = ch
  BY WalksAre DEF Core, Chained, Ch, Chain, Slots
<1> QED
  BY <1>1, <1>2, <1>3, <1>4

LEMMA CoreIf ==
  ASSUME IInv
  PROVE  Core(Ch)
  BY DEF IInv, TypeOK, Core, Cells, Buckets, Sts, X

LEMMA ReachableIs ==
  ASSUME NEW ch, Core(ch)
  PROVE  Reachable = On(table, ch)
<1>1. \A b \in Slots : Chain(b) = ch[b]
  BY CoreIs DEF Ch
<1>2. \A b \in Slots : ToSet(Chain(b)) = {ch[b][i] : i \in 1..Len(ch[b])}
  <2>1. ASSUME NEW b \in Slots PROVE ch[b] \in Seq(Items)
    BY DEF Core, Chained, Shape, Slots
  <2>2. \A b \in Slots : DOMAIN ch[b] = 1..Len(ch[b])
    BY <2>1
  <2> QED  BY <1>1, <2>2 DEF ToSet
<1>3. \A b \in Slots : \A i \in 1..Len(ch[b]) : ch[b][i] \in Items
  BY ChainIs DEF Core, Chained, Slots
<1> QED
  BY <1>2, <1>3 DEF Reachable, On, Slots

\* A new item for k goes first in its chain.
LEMMA InsertCore ==
  ASSUME NEW ch, Core(ch), NEW k \in Keys, NEW v \in Values \cup {NoValue},
         NEW x \in Items \ Live, NEW bk, NEW pv,
         NEW b, b = Idx(k), Insert(x, k, bk, pv, v), st' = st, leaked' = leaked,
         \/ bk = b /\ pv = NULL /\ suspect' = suspect \ {table[b]}
         \/ {bk, pv} \subseteq {NULL, Junk} /\ suspect' = (suspect \ {table[b]}) \cup {x}
  PROVE  /\ Core(Pushed(ch, b, x))'
         /\ On(table', Pushed(ch, b, x)) = On(table, ch) \cup {x}
         /\ Slots' = Slots
         /\ heap'[x].key = k /\ heap'[x].value = v
         /\ \A y \in Live : heap'[y].key = heap[y].key /\ heap'[y].value = heap[y].value
<1> DEFINE c == Cell(bk, pv, k, v)
           q == [table |-> table, heap |-> heap]
           r == LinkFirst(q, x, b, c)
           ch2 == Pushed(ch, b, x)
<1>1. /\ TypeOK /\ IsFiniteSet(Live) /\ elnum \in Nat
      /\ On(table, ch) \subseteq Live /\ suspect \subseteq On(table, ch)
  BY CoreIs
<1>2. b \in Slots /\ table \in [Slots -> X] /\ NULL \notin Slots /\ Junk \notin Slots
  BY <1>1, SlotsAre
<1>3. /\ c \in Cells(Buckets) /\ c.key = k /\ c.value = v /\ c.prev = pv /\ c.bucket = bk
  BY <1>2 DEF Cell, Cells, Buckets
<1>4. x \in Items /\ x \notin Live /\ x \notin On(table, ch) /\ x \notin suspect /\ NULL \in Buckets
      /\ NULL \notin Items
  BY <1>1, HashAssumption DEF Buckets
<1>5. IF x \in suspect' THEN {c.prev, c.bucket} \subseteq {NULL, Junk}
      ELSE c.prev = NULL /\ c.bucket = b
  BY <1>3, <1>4
<1>6. table[b] # NULL => table[b] \notin suspect'
  <2>1. table[b] # x
    <3>1. Shape(table, heap, ch) /\ b \in DOMAIN table
      BY <1>2 DEF Core, Chained, Slots
    <3>2. ch[b] # <<>> => 1 \in 1..Len(ch[b])
      BY <3>1, ChainIs
    <3>3. table[b] = NULL \/ table[b] \in On(table, ch)
      BY <3>1, <3>2, ChainIs
    <3> QED  BY <1>4, <3>3
  <2> QED  BY <2>1
<1>7. \A y \in Items \ {x, table[b]} : y \in suspect' <=> y \in suspect
  OBVIOUS
<1>8. table' = r.table /\ heap' = r.heap /\ elnum' = elnum + 1
  BY DEF Insert
<1>9. HashFn[c.key] % Cardinality(DOMAIN table) = b
  BY <1>3 DEF Idx, Slots
<1>10. Shape(table, heap, ch) /\ Linked(table, heap, ch, suspect) /\ b \in DOMAIN table
       /\ table \in [DOMAIN table -> X] /\ heap \in [DOMAIN heap -> Cells(Buckets)]
       /\ DOMAIN heap \subseteq Items
  BY <1>2 DEF Core, Chained, Slots, Live
<1>a. q.table = table /\ q.heap = heap
  OBVIOUS
<1> HIDE DEF q, r, c, ch2
<1>11. /\ DOMAIN r.table = DOMAIN table /\ r.table \in [DOMAIN r.table -> X]
       /\ DOMAIN r.heap = Live \cup {x} /\ r.heap \in [DOMAIN r.heap -> Cells(Buckets)]
       /\ Shape(r.table, r.heap, ch2) /\ Linked(r.table, r.heap, ch2, suspect')
       /\ On(r.table, ch2) = On(table, ch) \cup {x}
       /\ r.heap[x].key = c.key /\ r.heap[x].value = c.value
       /\ \A y \in Live \ {x} :
            r.heap[y].key = heap[y].key /\ r.heap[y].value = heap[y].value
  <2>1. Fits(q, ch, suspect, suspect', Buckets, b, x, c)
    BY <1>3, <1>4, <1>5, <1>6, <1>7, <1>9, <1>10, <1>a DEF Fits
  <2>2. Fitted(q, r, ch, suspect', Buckets, b, x, c)
    BY <2>1, LinkFirstIs DEF r
  <2> QED  BY <1>a, <2>2 DEF Fitted, ch2, Live
<1>12. /\ Slots' = Slots /\ Buckets' = Buckets /\ Live' = Live \cup {x}
       /\ On(table', ch2) = On(table, ch) \cup {x}
  BY <1>8, <1>11 DEF Slots, Live, Buckets
<1>13. /\ \E sz \in Sizes : table' \in [0..sz - 1 -> X]
       /\ Live' \subseteq Items /\ heap' \in [Live' -> Cells(Buckets)] /\ st' \in Sts
  BY <1>4, <1>8, <1>10, <1>11, <1>12 DEF Core, Live, Slots
<1>14. elnum' = Cardinality(Live')
  BY <1>1, <1>4, <1>8, <1>12, FS_AddElement DEF Core
<1>15. Chained(ch2)'
  <2>1. Shape(table', heap', ch2) /\ Linked(table', heap', ch2, suspect')
    BY <1>8, <1>11
  <2>2. suspect' \subseteq On(table', ch2)
    BY <1>1, <1>12
  <2>3. Live' = On(table', ch2) \cup leaked' /\ On(table', ch2) \cap leaked' = {}
    BY <1>4, <1>12 DEF Core, Chained
  <2> QED  BY <2>1, <2>2, <2>3 DEF Chained, ch2
<1>16. Core(ch2)'
  BY <1>12, <1>13, <1>14, <1>15 DEF Core, ch2
<1> QED
  BY <1>3, <1>4, <1>8, <1>11, <1>12, <1>16 DEF ch2, Live

\* What a removal does to the variables, the cells' types left open.
LEMMA DropCore ==
  ASSUME NEW ch, Core(ch), NEW b \in Slots, NEW k \in 1..Len(ch[b]), NEW x, x = ch[b][k],
         Drops(table, heap, ch, suspect, table', heap', suspect', b, k),
         heap' \in [Live' -> Cells(Buckets)], elnum' = elnum - 1, st' \in Sts, leaked' = leaked,
         suspect' \subseteq (suspect \ {x}) \cup ({heap[x].next} \ {NULL})
  PROVE  /\ Core(Drop(ch, b, k))' /\ On(table', Drop(ch, b, k)) = On(table, ch) \ {x}
         /\ Slots' = Slots /\ Live' = Live \ {x}
         /\ \A y \in Live' : heap'[y].key = heap[y].key /\ heap'[y].value = heap[y].value
<1> DEFINE z == heap[x].next
           ch2 == Drop(ch, b, k)
<1>1. /\ TypeOK /\ IsFiniteSet(Live) /\ elnum \in Nat
      /\ On(table, ch) \subseteq Live /\ suspect \subseteq On(table, ch)
  BY CoreIs
<1>2. b \in Slots /\ table \in [DOMAIN table -> X] /\ NULL \notin Slots
  BY <1>1, SlotsAre DEF Slots
<1>3. Shape(table, heap, ch) /\ Linked(table, heap, ch, suspect) /\ b \in DOMAIN table
  BY <1>2 DEF Core, Chained, Slots
<1>4. x \in Items /\ x \in On(table, ch) /\ x \in Live
  BY <1>1, <1>3, ChainIs
<1>5. z # NULL => z \in On(table, ch) \ {x}
  <2>1. z = IF k = Len(ch[b]) THEN NULL ELSE ch[b][k + 1]
    BY <1>3, ChainIs
  <2>2. k # Len(ch[b]) => k + 1 \in 1..Len(ch[b]) /\ k # k + 1
    <3>1. Len(ch[b]) \in Nat
      BY <1>3, ChainIs
    <3> QED  BY <3>1
  <2>3. k # Len(ch[b]) => ch[b][k + 1] \in On(table, ch)
    BY <1>3, <2>2, ChainIs
  <2>4. k # Len(ch[b]) => ch[b][k + 1] # x
    BY <1>3, <2>2 DEF Shape
  <2> QED  BY <2>1, <2>3, <2>4
<1>6. /\ DOMAIN table' = DOMAIN table /\ Live' = Live \ {x} /\ Slots' = Slots
      /\ table' \in [Slots -> X] /\ Buckets' = Buckets
      /\ \A y \in Live' : heap'[y].key = heap[y].key /\ heap'[y].value = heap[y].value
  BY DEF Drops, Live, Slots, Buckets
<1>7. Shape(table', heap', ch2) /\ On(table', ch2) = On(table, ch) \ {x}
  <2>1. /\ Drops(table, heap, ch, suspect, table', heap', suspect', b, k)
        /\ Shape(table, heap, ch) /\ b \in DOMAIN table /\ table \in [DOMAIN table -> X]
    BY <1>2, <1>3
  <2>2. Shape(table', heap', Drop(ch, b, k))
    BY ONLY k \in 1..Len(ch[b]), <2>1, DropShape
  <2>3. On(table', Drop(ch, b, k)) = On(table, ch) \ {ch[b][k]}
    BY ONLY k \in 1..Len(ch[b]), <2>1, DropShape
  <2> QED  BY ONLY x = ch[b][k], <2>2, <2>3
<1>8. Linked(table', heap', ch2, suspect')
  <2>1. /\ Drops(table, heap, ch, suspect, table', heap', suspect', b, k)
        /\ Shape(table, heap, ch) /\ Linked(table, heap, ch, suspect)
        /\ b \in DOMAIN table /\ table \in [DOMAIN table -> X]
    BY <1>2, <1>3
  <2> QED  BY ONLY k \in 1..Len(ch[b]), <2>1, DropLinked
<1>9. suspect' \subseteq On(table', ch2)
  BY <1>1, <1>5, <1>7
<1>10. Live' = On(table', ch2) \cup leaked' /\ On(table', ch2) \cap leaked' = {}
  BY <1>4, <1>6, <1>7 DEF Core, Chained
<1>11. elnum' = Cardinality(Live')
  BY <1>1, <1>4, <1>6, FS_RemoveElement DEF Core
<1>12. \E sz \in Sizes : table' \in [0..sz - 1 -> X]
  BY <1>6 DEF Core, Slots
<1>13. Chained(ch2)'
  BY <1>7, <1>8, <1>9, <1>10 DEF Chained
<1>14. Core(ch2)'
  BY <1>6, <1>11, <1>12, <1>13 DEF Core
<1> QED
  BY <1>6, <1>7, <1>14

LEMMA MinIs ==
  ASSUME NEW S \in SUBSET Nat, S # {}
  PROVE  Min(S) \in S /\ \A m \in S : Min(S) <= m
<1>1. \E n \in S : \A m \in S : n <= m
  <2> SUFFICES ASSUME \A n \in S : \E m \in S : ~(n <= m) PROVE FALSE
    OBVIOUS
  <2> DEFINE T == {n \in Nat : \A m \in 0..n : m \notin S}
  <2>1. 0 \in T
    <3>1. 0 \notin S
      OBVIOUS
    <3> QED  BY <3>1
  <2>2. ASSUME NEW n \in T PROVE n + 1 \in T
    <3>1. \A m \in Nat : m < n + 1 => m \notin S
      OBVIOUS
    <3>2. n + 1 \notin S
      BY <3>1
    <3> QED  BY <3>1, <3>2
  <2>3. T = Nat
    <3> HIDE DEF T
    <3> QED  BY <2>1, <2>2, Induction DEF T
  <2>4. PICK n \in S : TRUE
    OBVIOUS
  <2>5. n \in T /\ n \in 0..n
    BY <2>3
  <2> QED  BY <2>5
<1> QED
  BY <1>1 DEF Min

LEMMA ChainOf ==
  ASSUME NEW ch, Core(ch), NEW b \in Slots
  PROVE  LET s == ch[b] IN
         /\ s \in Seq(Items) /\ Len(s) \in Nat
         /\ table[b] = IF s = <<>> THEN NULL ELSE s[1]
         /\ s = <<>> <=> Len(s) = 0
         /\ Chain(b) = s
         /\ \A i \in 1..Len(s) :
              /\ s[i] \in Items /\ s[i] # NULL /\ s[i] # Junk /\ s[i] \in On(table, ch)
              /\ s[i] \in Live /\ heap[s[i]].next = IF i = Len(s) THEN NULL ELSE s[i + 1]
              /\ Placed1(table, heap, b, s[i]) /\ Linked1(heap, s, b, i, suspect)
              /\ \A c \in Slots : \A j \in 1..Len(ch[c]) : s[i] = ch[c][j] => b = c /\ i = j
<1>1. Shape(table, heap, ch) /\ Linked(table, heap, ch, suspect) /\ b \in DOMAIN table
  BY DEF Core, Chained, Slots
<1>2. Chain(b) = ch[b]
  BY CoreIs DEF Ch
<1>3. \A i \in 1..Len(ch[b]) :
        Placed1(table, heap, b, ch[b][i]) /\ Linked1(heap, ch[b], b, i, suspect)
  BY <1>1 DEF Linked
<1>4. \A i \in 1..Len(ch[b]) : \A c \in Slots : \A j \in 1..Len(ch[c]) :
        ch[b][i] = ch[c][j] => b = c /\ i = j
  BY <1>1 DEF Shape, Slots
<1>5. /\ ch[b] \in Seq(Items) /\ Len(ch[b]) \in Nat
      /\ table[b] = IF ch[b] = <<>> THEN NULL ELSE ch[b][1]
      /\ ch[b] = <<>> <=> Len(ch[b]) = 0
      /\ \A i \in 1..Len(ch[b]) :
           /\ ch[b][i] \in Items /\ ch[b][i] # NULL /\ ch[b][i] # Junk
           /\ ch[b][i] \in On(table, ch) /\ ch[b][i] \in Live
           /\ heap[ch[b][i]].next = IF i = Len(ch[b]) THEN NULL ELSE ch[b][i + 1]
  BY <1>1, ChainIs DEF Live
<1> QED
  BY <1>2, <1>3, <1>4, <1>5

\* A search ends at the first item of its chain with that key, and fails only if none
\* is there.
LEMMA SearchIs ==
  ASSUME NEW ch, Core(ch), NEW k \in Keys
  PROVE  LET b == Idx(k) IN
         /\ Search(k) # NULL =>
              \E i \in 1..Len(ch[b]) :
                /\ ch[b][i] = Search(k) /\ heap[ch[b][i]].key = k
                /\ \A j \in 1..i - 1 : heap[ch[b][j]].key # k
         /\ Search(k) = NULL => \A i \in 1..Len(ch[b]) : heap[ch[b][i]].key # k
<1> DEFINE b == Idx(k)
<1>1. b \in Slots
  BY CoreIs, SlotsAre
<1>2. /\ Chain(b) = ch[b] /\ ch[b] \in Seq(Items) /\ Len(ch[b]) \in Nat
      /\ \A i \in 1..Len(ch[b]) : ch[b][i] # NULL
  <2> HIDE DEF b
  <2> QED  BY <1>1, ChainOf
<1>3. Len(ch[b]) \in Nat /\ ch[b] \in Seq(Items)
  BY <1>2
<1>4. DOMAIN ch[b] = 1..Len(ch[b])
  BY <1>3
<1> DEFINE H == Hits(ch[b], k)
<1>5. H = {i \in 1..Len(ch[b]) : heap[ch[b][i]].key = k}
  BY <1>4 DEF Hits
<1>6. Search(k) = IF H = {} THEN NULL ELSE ch[b][Min(H)]
  BY <1>2 DEF Search
<1>7. H # {} => Min(H) \in H /\ \A m \in H : Min(H) <= m
  <2>1. H \in SUBSET Nat
    BY <1>3, <1>5
  <2> HIDE DEF H
  <2> QED  BY <2>1, MinIs
<1>8. ASSUME Search(k) # NULL
      PROVE  \E i \in 1..Len(ch[b]) :
               /\ ch[b][i] = Search(k) /\ heap[ch[b][i]].key = k
               /\ \A j \in 1..i - 1 : heap[ch[b][j]].key # k
  <2> DEFINE i == Min(H)
  <2> HIDE DEF H, b
  <2>1. H # {} /\ i \in H /\ Search(k) = ch[b][i] /\ \A m \in H : i <= m
    BY <1>6, <1>7, <1>8
  <2> HIDE DEF i
  <2>2. i \in 1..Len(ch[b]) /\ heap[ch[b][i]].key = k
    BY <1>5, <2>1
  <2>3. \A j \in 1..i - 1 : j \in 1..Len(ch[b]) /\ ~(i <= j)
    BY <1>3, <2>2
  <2>4. \A j \in 1..i - 1 : heap[ch[b][j]].key # k
    BY <1>5, <2>1, <2>3
  <2> QED  BY <2>1, <2>2, <2>4
<1>9. ASSUME Search(k) = NULL PROVE \A i \in 1..Len(ch[b]) : heap[ch[b][i]].key # k
  <2> HIDE DEF H, b
  <2> QED  BY <1>2, <1>5, <1>6, <1>7, <1>9
<1> QED
  BY <1>8, <1>9

Promoted(a, bz) == [a EXCEPT !.prev = NULL, !.bucket = bz]
Behind(a, y) == [a EXCEPT !.prev = y]
Before(a, y) == [a EXCEPT !.next = y]

LEMMA PromotedIs ==
  ASSUME NEW bs, NEW a \in Cells(bs), NEW bz \in bs, NULL \in bs
  PROVE  LET p == Promoted(a, bz) IN
         /\ p \in Cells(bs) /\ p.next = a.next /\ p.key = a.key /\ p.value = a.value
         /\ p.prev = NULL /\ p.bucket = bz
  BY DEF Promoted, Cells

LEMMA BehindIs ==
  ASSUME NEW bs, NEW a \in Cells(bs), NEW y \in Items
  PROVE  LET p == Behind(a, y) IN
         /\ p \in Cells(bs) /\ p.next = a.next /\ p.key = a.key /\ p.value = a.value
         /\ p.prev = y /\ p.bucket = a.bucket
  BY DEF Behind, Cells

LEMMA BeforeIs ==
  ASSUME NEW bs, NEW a \in Cells(bs), NEW y \in X
  PROVE  LET p == Before(a, y) IN
         /\ p \in Cells(bs) /\ p.next = y /\ p.key = a.key /\ p.value = a.value
         /\ p.prev = a.prev /\ p.bucket = a.bucket
  BY DEF Before, Cells, X

\* What a removal writes: the two neighbours, and the table if the item was a head.
Writes(ch, b, k, x, bz) ==
    LET z == heap[x].next
    IN  /\ DOMAIN heap' = Live \ {x} /\ heap' = [y \in DOMAIN heap' |-> heap'[y]]
        /\ z # NULL => heap'[z] = IF k = 1 THEN Promoted(heap[z], bz)
                                  ELSE Behind(heap[z], ch[b][k - 1])
        /\ k # 1 => heap'[ch[b][k - 1]] = Before(heap[ch[b][k - 1]], z)
        /\ \A y \in Live \ {x, z} : (k # 1 => y # ch[b][k - 1]) => heap'[y] = heap[y]
        /\ table' = IF k = 1 THEN [table EXCEPT ![b] = z] ELSE table
        /\ elnum' = elnum - 1

LEMMA WritesDrop ==
  ASSUME NEW ch, Core(ch), NEW b \in Slots, NEW k \in 1..Len(ch[b]), NEW x, x = ch[b][k],
         NEW bz \in Buckets, Writes(ch, b, k, x, bz), st' \in Sts, leaked' = leaked,
         k = 1 /\ heap[x].next # NULL => bz = IF heap[x].next \in suspect' THEN NULL ELSE b,
         k # 1 => suspect' = suspect,
         k = 1 => suspect' \in {suspect \ {x}, (suspect \ {x}) \cup ({heap[x].next} \ {NULL})}
  PROVE  /\ Core(Drop(ch, b, k))' /\ On(table', Drop(ch, b, k)) = On(table, ch) \ {x}
         /\ Slots' = Slots /\ Live' = Live \ {x}
         /\ \A y \in Live' : heap'[y].key = heap[y].key /\ heap'[y].value = heap[y].value
<1> DEFINE s == ch[b]
           n == Len(s)
           z == heap[x].next
           p == s[k - 1]
<1>1. /\ s \in Seq(Items) /\ n \in Nat /\ k \in 1..n /\ x = s[k]
      /\ table[b] = IF s = <<>> THEN NULL ELSE s[1]
      /\ \A i \in 1..n :
           /\ s[i] \in Items /\ s[i] # NULL /\ s[i] # Junk
           /\ s[i] \in Live /\ heap[s[i]].next = IF i = n THEN NULL ELSE s[i + 1]
           /\ Linked1(heap, s, b, i, suspect)
           /\ \A j \in 1..n : s[i] = s[j] => i = j
  BY ChainOf
<1>2. /\ TypeOK /\ table \in [Slots -> X] /\ NULL \in Buckets /\ NULL \notin Items
      /\ heap \in [Live -> Cells(Buckets)] /\ Live \subseteq Items
      /\ \A y \in Live : heap[y] \in Cells(Buckets)
  BY CoreIs, SlotsAre, HashAssumption DEF Core, Buckets
<1> HIDE DEF s, n
<1>3. /\ z = IF k = n THEN NULL ELSE s[k + 1]
      /\ z \in X
      /\ z # NULL => /\ z \in Live \ {x} /\ z \notin suspect /\ heap[z].bucket = NULL
                     /\ k # 1 => z # p
  <2>1. z = IF k = n THEN NULL ELSE s[k + 1]
    BY <1>1
  <2>2. k # n => k + 1 \in 1..n /\ k + 1 # k /\ k + 1 # 1 /\ k + 1 # k - 1
    BY <1>1
  <2>3. k # n => z = s[k + 1] /\ z \in Live /\ z # x /\ z # NULL /\ z \in Items
    BY <1>1, <2>1, <2>2
  <2>4. k # n => z \notin suspect /\ heap[z].bucket = NULL
    BY <1>1, <2>2, <2>3 DEF Linked1
  <2>5. k # n /\ k # 1 => k - 1 \in 1..n
    BY <1>1
  <2>6. k # n /\ k # 1 => z # p
    BY <1>1, <2>2, <2>3, <2>5
  <2> QED  BY <2>1, <2>3, <2>4, <2>6 DEF X
<1>4. k # 1 => p \in Live \ {x} /\ p \in Items
  <2>1. k # 1 => k - 1 \in 1..n /\ k - 1 # k
    BY <1>1
  <2> QED  BY <1>1, <2>1
<1> HIDE DEF z, p
<1>5. /\ DOMAIN heap' = Live \ {x} /\ heap' = [y \in DOMAIN heap' |-> heap'[y]]
      /\ z # NULL => heap'[z] = IF k = 1 THEN Promoted(heap[z], bz) ELSE Behind(heap[z], p)
      /\ k # 1 => heap'[p] = Before(heap[p], z)
      /\ \A y \in Live \ {x, z} : (k # 1 => y # p) => heap'[y] = heap[y]
      /\ table' = IF k = 1 THEN [table EXCEPT ![b] = z] ELSE table
      /\ elnum' = elnum - 1
  BY DEF Writes, z, p, s
<1>6. ASSUME z # NULL
      PROVE  /\ heap'[z] \in Cells(Buckets) /\ heap'[z].next = heap[z].next
             /\ heap'[z].key = heap[z].key /\ heap'[z].value = heap[z].value
             /\ IF k = 1 THEN heap'[z].prev = NULL /\ heap'[z].bucket = bz
                ELSE heap'[z].prev = p /\ heap'[z].bucket = heap[z].bucket
  <2>1. heap[z] \in Cells(Buckets)
    BY <1>2, <1>3, <1>6
  <2>2. CASE k = 1
    <3>1. heap'[z] = Promoted(heap[z], bz)
      BY <1>5, <1>6, <2>2
    <3> QED  BY <1>2, <2>1, <2>2, <3>1, PromotedIs
  <2>3. CASE k # 1
    <3>1. heap'[z] = Behind(heap[z], p)
      BY <1>5, <1>6, <2>3
    <3> QED  BY <1>4, <2>1, <2>3, <3>1, BehindIs
  <2> QED  BY <2>2, <2>3
<1>7. ASSUME k # 1
      PROVE  /\ heap'[p] \in Cells(Buckets) /\ heap'[p].next = z
             /\ heap'[p].key = heap[p].key /\ heap'[p].value = heap[p].value
             /\ heap'[p].prev = heap[p].prev /\ heap'[p].bucket = heap[p].bucket
  <2>1. heap[p] \in Cells(Buckets) /\ heap'[p] = Before(heap[p], z)
    BY <1>2, <1>4, <1>5, <1>7
  <2> QED  BY <1>3, <2>1, BeforeIs
<1>8. ASSUME NEW y \in DOMAIN heap'
      PROVE  /\ heap'[y] \in Cells(Buckets)
             /\ heap'[y].next = IF k # 1 /\ y = p THEN z ELSE heap[y].next
             /\ heap'[y].key = heap[y].key /\ heap'[y].value = heap[y].value
             /\ y # z => heap'[y].prev = heap[y].prev /\ heap'[y].bucket = heap[y].bucket
  <2>1. y \in Live /\ y # x /\ y # NULL /\ heap[y] \in Cells(Buckets)
    BY <1>2, <1>5
  <2>2. CASE y = z
    BY <1>3, <1>6, <2>1, <2>2
  <2>3. CASE k # 1 /\ y = p
    BY <1>7, <2>3
  <2>4. CASE y # z /\ ~(k # 1 /\ y = p)
    BY <1>5, <2>1, <2>4
  <2> QED  BY <2>2, <2>3, <2>4
<1>9. heap' \in [Live' -> Cells(Buckets)] /\ Live' = Live \ {x}
  BY <1>5, <1>8 DEF Live
<1>10. /\ DOMAIN table' = DOMAIN table /\ table' \in [DOMAIN table' -> X]
       /\ \A c \in DOMAIN table \ {b} : table'[c] = table[c]
       /\ table'[b] = IF k = 1 THEN z ELSE table[b]
  BY <1>2, <1>3, <1>5 DEF Slots
<1>11. \A y \in Items \ {x, z} : y \in suspect' <=> y \in suspect
  BY DEF z
<1>12. k # 1 /\ z # NULL => z \notin suspect'
  BY <1>3
<1>13. Drops(table, heap, ch, suspect, table', heap', suspect', b, k)
  <2>1. DOMAIN heap' = DOMAIN heap \ {x}
    BY <1>5 DEF Live
  <2>2. z # NULL => IF k = 1
                    THEN heap'[z].prev = NULL /\ heap'[z].bucket = IF z \in suspect' THEN NULL ELSE b
                    ELSE /\ heap'[z].prev = p /\ heap'[z].bucket = heap[z].bucket
                         /\ z \notin suspect'
    BY <1>6, <1>12 DEF z
  <2> QED  BY <1>8, <1>10, <1>11, <2>1, <2>2 DEF Drops, z, p, s
<1>14. suspect' \subseteq (suspect \ {x}) \cup ({heap[x].next} \ {NULL})
  <2>1. k # 1 => x \notin suspect
    BY <1>1 DEF Linked1
  <2> QED  BY <2>1
<1>15. elnum' = elnum - 1 /\ heap' \in [Live' -> Cells(Buckets)]
  BY <1>5, <1>9
<1> QED
  BY <1>13, <1>14, <1>15, DropCore

\* Where the neighbours of the item at place k of chain b are.
LEMMA Neighbours ==
  ASSUME NEW ch, Core(ch), NEW b \in Slots, NEW k \in 1..Len(ch[b]), NEW x, x = ch[b][k]
  PROVE  LET z == heap[x].next
             p == ch[b][k - 1] IN
         /\ x \in Live /\ x \in Items
         /\ z # NULL => z \in Live /\ z # x /\ z \notin suspect /\ heap[z].bucket = NULL
         /\ k # 1 => /\ p \in Live /\ p # x /\ p # z
                     /\ x \notin suspect /\ heap[x].prev = p /\ heap[x].bucket = NULL
         /\ table[b] = x <=> k = 1
         /\ k = 1 /\ x \notin suspect => heap[x].prev = NULL /\ heap[x].bucket = b
         /\ heap[x] \in Cells(Buckets) /\ NULL \notin Live /\ Junk \notin Live
<1> DEFINE s == ch[b]
           n == Len(s)
           z == heap[x].next
           p == s[k - 1]
<1>1. /\ n \in Nat /\ k \in 1..n /\ x = s[k]
      /\ table[b] = IF s = <<>> THEN NULL ELSE s[1]
      /\ s = <<>> <=> n = 0
      /\ \A i \in 1..n :
           /\ s[i] \in Items /\ s[i] # NULL
           /\ s[i] \in Live /\ heap[s[i]].next = IF i = n THEN NULL ELSE s[i + 1]
           /\ Linked1(heap, s, b, i, suspect)
           /\ \A j \in 1..n : s[i] = s[j] => i = j
  BY ChainOf
<1>2. NULL \notin Live /\ Junk \notin Live /\ heap[x] \in Cells(Buckets)
  BY <1>1, HashAssumption DEF Core
<1> HIDE DEF s, n
<1>3. z = IF k = n THEN NULL ELSE s[k + 1]
  BY <1>1
<1>4. k # n => k + 1 \in 1..n /\ k + 1 # k /\ k + 1 # 1 /\ k + 1 # k - 1
  BY <1>1
<1>5. k # n => z = s[k + 1] /\ z \in Live /\ z # x
  BY <1>1, <1>3, <1>4
<1>6. k # n => z \notin suspect /\ heap[z].bucket = NULL
  BY <1>1, <1>4, <1>5 DEF Linked1
<1>7. k # 1 => k - 1 \in 1..n /\ k - 1 # k
  BY <1>1
<1>8. k # 1 => p \in Live /\ p # x
  BY <1>1, <1>7
<1>9. k # 1 => p # z
  BY <1>1, <1>2, <1>3, <1>4, <1>5, <1>7, <1>8
<1>10. k # 1 => x \notin suspect /\ heap[x].prev = p /\ heap[x].bucket = NULL
  BY <1>1 DEF Linked1
<1>11. table[b] = x <=> k = 1
  <2>1. 1 \in 1..n /\ n # 0
    BY <1>1
  <2> QED  BY <1>1, <2>1
<1>12. k = 1 /\ x \notin suspect => heap[x].prev = NULL /\ heap[x].bucket = b
  BY <1>1 DEF Linked1
<1>13. z # NULL => z \in Live /\ z # x /\ z \notin suspect /\ heap[z].bucket = NULL
  BY <1>3, <1>5, <1>6
<1>14. x \in Live /\ x \in Items
  BY <1>1
<1> QED
  BY <1>2, <1>8, <1>9, <1>10, <1>11, <1>12, <1>13, <1>14 DEF s

LEMMA UnlinkWrites ==
  ASSUME NEW ch, Core(ch), NEW b \in Slots, NEW k \in 1..Len(ch[b]), NEW x, x = ch[b][k],
         x \notin suspect, Unlink(x)
  PROVE  Writes(ch, b, k, x, b)
<1> DEFINE c == heap[x]
           z == c.next
           p == ch[b][k - 1]
           cell(y) == CASE y = c.next /\ c.prev = NULL ->
                             [heap[y] EXCEPT !.prev = NULL, !.bucket = c.bucket]
                        [] y = c.next /\ c.prev # NULL -> [heap[y] EXCEPT !.prev = c.prev]
                        [] y = c.prev -> [heap[y] EXCEPT !.next = c.next]
                        [] OTHER -> heap[y]
<1>1. /\ x \in Live /\ (z # NULL => z \in Live /\ z # x)
      /\ k # 1 => p \in Live /\ p # x /\ p # z /\ c.prev = p
      /\ k = 1 => c.prev = NULL /\ c.bucket = b
      /\ NULL \notin Live
  BY Neighbours
<1>2. /\ heap' = [y \in DOMAIN [w \in Live |-> cell(w)] \ {x} |-> [w \in Live |-> cell(w)][y]]
      /\ table' = IF c.prev = NULL THEN [table EXCEPT ![c.bucket] = c.next] ELSE table
      /\ elnum' = elnum - 1
  BY DEF Unlink, Without
<1> HIDE DEF cell
<1>3. heap' = [y \in Live \ {x} |-> cell(y)]
  BY <1>2
<1>4. DOMAIN heap' = Live \ {x} /\ heap' = [y \in DOMAIN heap' |-> heap'[y]]
  BY <1>3
<1>5. \A y \in Live \ {x} : heap'[y] = cell(y)
  BY <1>3
<1>6. k # 1 => p # NULL /\ c.prev # NULL
  BY <1>1
<1>7. z # NULL => heap'[z] = IF k = 1 THEN Promoted(heap[z], b) ELSE Behind(heap[z], p)
  <2> SUFFICES ASSUME z # NULL PROVE heap'[z] = IF k = 1 THEN Promoted(heap[z], b) ELSE Behind(heap[z], p)
    OBVIOUS
  <2>1. heap'[z] = cell(z)
    BY <1>1, <1>5
  <2>2. CASE k = 1
    <3>1. cell(z) = [heap[z] EXCEPT !.prev = NULL, !.bucket = b]
      BY <1>1, <2>2 DEF cell
    <3> QED  BY <2>1, <2>2, <3>1 DEF Promoted
  <2>3. CASE k # 1
    <3>1. cell(z) = [heap[z] EXCEPT !.prev = p]
      BY <1>1, <1>6, <2>3 DEF cell
    <3> QED  BY <2>1, <2>3, <3>1 DEF Behind
  <2> QED  BY <2>2, <2>3
<1>8. k # 1 => heap'[p] = Before(heap[p], z)
  <2> HAVE k # 1
  <2>1. heap'[p] = cell(p)
    BY <1>1, <1>5
  <2>2. cell(p) = [heap[p] EXCEPT !.next = z]
    BY <1>1, <1>6 DEF cell
  <2> QED  BY <2>1, <2>2 DEF Before
<1>9. \A y \in Live \ {x, z} : (k # 1 => y # p) => heap'[y] = heap[y]
  <2> TAKE y \in Live \ {x, z}
  <2> HAVE k # 1 => y # p
  <2>1. heap'[y] = cell(y)
    BY <1>5
  <2>2. y # c.prev
    BY <1>1
  <2>3. cell(y) = heap[y]
    BY <1>1, <2>2 DEF cell
  <2> QED  BY <2>1, <2>3
<1>10. table' = IF k = 1 THEN [table EXCEPT ![b] = z] ELSE table
  BY <1>1, <1>2, <1>6
<1> QED
  BY <1>2, <1>4, <1>7, <1>8, <1>9, <1>10 DEF Writes

\* hash_delete_pair of an item with proper links.
LEMMA UnlinkCore ==
  ASSUME NEW ch, Core(ch), NEW b \in Slots, NEW k \in 1..Len(ch[b]), NEW x, x = ch[b][k],
         x \notin suspect, Unlink(x), st' \in Sts, leaked' = leaked
  PROVE  /\ Core(Drop(ch, b, k))' /\ On(table', Drop(ch, b, k)) = On(table, ch) \ {x}
         /\ Slots' = Slots /\ Live' = Live \ {x} /\ suspect' = suspect
         /\ \A y \in Live' : heap'[y].key = heap[y].key /\ heap'[y].value = heap[y].value
<1>0. Writes(ch, b, k, x, b)
  BY UnlinkWrites
<1>1. Writes(ch, b, k, x, b) /\ suspect' = suspect /\ b \in Buckets
  BY <1>0 DEF Unlink, Buckets
<1>2. heap[x].next # NULL => heap[x].next \notin suspect'
  BY <1>1, Neighbours
<1>3. k = 1 => suspect' \in {suspect \ {x}, (suspect \ {x}) \cup ({heap[x].next} \ {NULL})}
  BY <1>1
<1>4. k = 1 /\ heap[x].next # NULL => b = IF heap[x].next \in suspect' THEN NULL ELSE b
  BY <1>2
<1> QED
  BY <1>1, <1>3, <1>4, WritesDrop

\* hash_remove_item: a new head goes without its bucket.
LEMMA RemoveCore ==
  ASSUME NEW ch, Core(ch), NEW kk \in Keys, NEW b \in Slots, NEW k \in 1..Len(ch[b]),
         NEW x, x = ch[b][k], b = Idx(kk), x = Search(kk), RemoveItem(kk)
  PROVE  /\ Core(Drop(ch, b, k))' /\ On(table', Drop(ch, b, k)) = On(table, ch) \ {x}
         /\ Slots' = Slots /\ Live' = Live \ {x}
         /\ \A y \in Live' : heap'[y].key = heap[y].key /\ heap'[y].value = heap[y].value
<1> DEFINE c == heap[x]
           z == c.next
           p == ch[b][k - 1]
           cell(y) == CASE y = c.next /\ table[b] = x -> [heap[y] EXCEPT !.prev = NULL]
                        [] y = c.next /\ table[b] # x -> [heap[y] EXCEPT !.prev = c.prev]
                        [] y = c.prev /\ table[b] # x -> [heap[y] EXCEPT !.next = c.next]
                        [] OTHER -> heap[y]
<1>1. /\ x \in Live /\ (z # NULL => z \in Live /\ z # x /\ heap[z].bucket = NULL)
      /\ k # 1 => p \in Live /\ p # x /\ p # z /\ c.prev = p
      /\ table[b] = x <=> k = 1
      /\ NULL \notin Live
  BY Neighbours
<1>2. /\ heap' = [y \in DOMAIN [w \in Live |-> cell(w)] \ {x} |-> [w \in Live |-> cell(w)][y]]
      /\ IF table[b] = x
         THEN /\ table' = [table EXCEPT ![b] = c.next]
              /\ suspect' = (suspect \ {x}) \cup ({c.next} \ {NULL})
         ELSE UNCHANGED <<table, suspect>>
      /\ elnum' = elnum - 1 /\ leaked' = leaked /\ st' = st
  BY DEF RemoveItem, Without
<1> HIDE DEF cell
<1>3. heap' = [y \in Live \ {x} |-> cell(y)]
  BY <1>2
<1>4. DOMAIN heap' = Live \ {x} /\ heap' = [y \in DOMAIN heap' |-> heap'[y]]
  BY <1>3
<1>5. \A y \in Live \ {x} : heap'[y] = cell(y)
  BY <1>3
<1>6. NULL \in Buckets /\ \A y \in Live : heap[y] \in Cells(Buckets)
  BY DEF Core, Buckets
<1>7. z # NULL => heap'[z] = IF k = 1 THEN Promoted(heap[z], NULL) ELSE Behind(heap[z], p)
  <2> SUFFICES ASSUME z # NULL
               PROVE  heap'[z] = IF k = 1 THEN Promoted(heap[z], NULL) ELSE Behind(heap[z], p)
    OBVIOUS
  <2>1. heap'[z] = cell(z) /\ heap[z] \in Cells(Buckets) /\ heap[z].bucket = NULL
    BY <1>1, <1>5, <1>6
  <2>2. CASE k = 1
    <3>1. cell(z) = [heap[z] EXCEPT !.prev = NULL]
      BY <1>1, <2>2 DEF cell
    <3> DEFINE a == heap[z]
    <3>2. [a EXCEPT !.prev = NULL] = [a EXCEPT !.prev = NULL, !.bucket = NULL]
      <4>1. a \in Cells(Buckets) /\ a.bucket = NULL
        BY <2>1
      <4> HIDE DEF a
      <4> QED  BY <4>1 DEF Cells
    <3> QED  BY <2>1, <2>2, <3>1, <3>2 DEF Promoted
  <2>3. CASE k # 1
    <3>1. cell(z) = [heap[z] EXCEPT !.prev = p]
      BY <1>1, <2>3 DEF cell
    <3> QED  BY <2>1, <2>3, <3>1 DEF Behind
  <2> QED  BY <2>2, <2>3
<1>8. k # 1 => heap'[p] = Before(heap[p], z)
  <2> HAVE k # 1
  <2>1. heap'[p] = cell(p)
    BY <1>1, <1>5
  <2>2. cell(p) = [heap[p] EXCEPT !.next = z]
    BY <1>1 DEF cell
  <2> QED  BY <2>1, <2>2 DEF Before
<1>9. \A y \in Live \ {x, z} : (k # 1 => y # p) => heap'[y] = heap[y]
  <2> TAKE y \in Live \ {x, z}
  <2> HAVE k # 1 => y # p
  <2>1. heap'[y] = cell(y)
    BY <1>5
  <2>2. y # c.prev \/ table[b] = x
    BY <1>1
  <2>3. cell(y) = heap[y]
    BY <2>2 DEF cell
  <2> QED  BY <2>1, <2>3
<1>10. table' = IF k = 1 THEN [table EXCEPT ![b] = z] ELSE table
  BY <1>1, <1>2
<1>11. Writes(ch, b, k, x, NULL)
  BY <1>2, <1>4, <1>7, <1>8, <1>9, <1>10 DEF Writes
<1>12. st' \in Sts /\ leaked' = leaked
  BY <1>2 DEF Core
<1>13. k = 1 /\ heap[x].next # NULL => NULL = IF heap[x].next \in suspect' THEN NULL ELSE b
  BY <1>1, <1>2
<1>14. k # 1 => suspect' = suspect
  BY <1>1, <1>2
<1>15. k = 1 => suspect' \in {suspect \ {x}, (suspect \ {x}) \cup ({heap[x].next} \ {NULL})}
  BY <1>1, <1>2
<1>16. NULL \in Buckets
  BY <1>6
<1> QED
  BY <1>11, <1>12, <1>13, <1>14, <1>15, <1>16, WritesDrop

-----------------------------------------------------------------------------
(* Empty tables *)

Empty(S) == [b \in S |-> <<>>]

LEMMA EmptyIs ==
  ASSUME NEW t, NEW hp, NEW S, DOMAIN t = S, \A b \in S : t[b] = NULL
  PROVE  /\ Shape(t, hp, Empty(S)) /\ Linked(t, hp, Empty(S), {}) /\ On(t, Empty(S)) = {}
<1>1. \A b \in S : Empty(S)[b] = <<>> /\ Len(Empty(S)[b]) = 0
  BY DEF Empty
<1>2. Empty(S) \in [S -> Seq(Items)]
  <2>1. <<>> \in Seq(Items)
    OBVIOUS
  <2> QED  BY <2>1 DEF Empty
<1>3. ASSUME NEW b \in S, NEW i \in 1..Len(Empty(S)[b]) PROVE FALSE
  <2>1. Len(Empty(S)[b]) = 0
    BY <1>1
  <2> QED  BY <2>1
<1>4. ASSUME NEW b \in S PROVE Path(hp, Empty(S)[b], t[b])
  <2>1. Empty(S)[b] = <<>> /\ Empty(S)[b] \in Seq(Items)
    BY <1>1, <1>2
  <2> QED  BY <1>3, <2>1 DEF Path
<1>5. Shape(t, hp, Empty(S))
  BY <1>2, <1>3, <1>4 DEF Shape
<1> QED
  BY <1>3, <1>5 DEF Linked, On

\* A vetoed item and what follows it stay allocated, out of reach.
LEMMA CleanupCore ==
  ASSUME NEW ch, Core(ch), NEW veto, CleanupBody(veto), st' \in Sts, NEW e, e = Empty(Slots)
  PROVE  Core(e)' /\ Slots' = Slots /\ \A b \in Slots' : table'[b] = NULL
<1> DEFINE kept == {x \in Reachable : \E b \in Slots : \E i, j \in DOMAIN Chain(b) :
                      j <= i /\ Chain(b)[i] = x /\ Chain(b)[j] \in veto}
           R == Reachable
           G == R \ kept
<1>1. /\ heap' = Without(heap, G) /\ elnum' = elnum - Cardinality(G)
      /\ table' = [b \in Slots |-> NULL] /\ suspect' = {} /\ leaked' = leaked \cup kept
  BY DEF CleanupBody
<1>2. kept \subseteq R
  OBVIOUS
<1> HIDE DEF kept
<1>3. R = On(table, ch) /\ Live = R \cup leaked /\ R \cap leaked = {}
  BY ReachableIs DEF Core, Chained
<1> HIDE DEF R
<1>4. DOMAIN heap' = Live \ G /\ \A y \in Live \ G : heap'[y] = heap[y]
  BY <1>1 DEF Without, Live
<1>5. Live' = leaked \cup kept
  BY <1>2, <1>3, <1>4 DEF Live
<1>6. /\ Slots' = Slots /\ Buckets' = Buckets /\ DOMAIN table' = Slots
      /\ \A b \in Slots : table'[b] = NULL
  BY <1>1 DEF Slots, Buckets
<1>7. Shape(table', heap', e) /\ Linked(table', heap', e, suspect') /\ On(table', e) = {}
  BY <1>1, <1>6, EmptyIs
<1>8. Chained(e)'
  BY <1>1, <1>5, <1>7 DEF Chained
<1>9. elnum' = Cardinality(Live')
  <2>1. IsFiniteSet(Live) /\ G \subseteq Live /\ Live' = Live \ G /\ IsFiniteSet(G)
    BY <1>3, <1>4, CoreIs, FS_Subset DEF Live
  <2>2. Cardinality(Live \ G) = Cardinality(Live) - Cardinality(Live \cap G)
    BY <2>1, FS_Difference
  <2>3. Live \cap G = G
    BY <2>1
  <2> QED  BY <1>1, <2>1, <2>2, <2>3 DEF Core
<1>10. Live' \subseteq Items /\ heap' \in [Live' -> Cells(Buckets)]
  <2>1. heap' = [y \in DOMAIN heap' |-> heap'[y]]
    BY <1>1 DEF Without
  <2>2. Live' \subseteq Live /\ DOMAIN heap' = Live'
    BY <1>4 DEF Live
  <2>3. \A y \in Live' : heap'[y] \in Cells(Buckets)
    BY <1>4, <2>2 DEF Core
  <2> QED  BY <2>1, <2>2, <2>3 DEF Core
<1>11. \E sz \in Sizes : table' \in [0..sz - 1 -> X]
  <2>1. PICK sz \in Sizes : Slots = 0..sz - 1
    BY DEF Core, Slots
  <2> QED  BY <1>1, <2>1 DEF X
<1> QED
  BY <1>6, <1>8, <1>9, <1>10, <1>11 DEF Core

\* A table of sz empty slots and no item allocated, as hash_init leaves it.
LEMMA EmptyCore ==
  ASSUME NEW sz \in Sizes, NEW e, e = Empty(0..sz - 1), table = EmptyTable(sz), elnum = 0,
         DOMAIN heap = {}, heap = [y \in DOMAIN heap |-> heap[y]], st \in Sts, suspect = {}, leaked = {}
  PROVE  Core(e)
<1>1. DOMAIN table = 0..sz - 1 /\ \A b \in 0..sz - 1 : table[b] = NULL
  BY DEF EmptyTable
<1>2. Shape(table, heap, e) /\ Linked(table, heap, e, suspect) /\ On(table, e) = {}
  BY <1>1, EmptyIs
<1>3. Chained(e)
  BY <1>2 DEF Chained, Live
<1>4. table \in [0..sz - 1 -> X]
  BY DEF EmptyTable, X
<1>5. elnum = Cardinality(Live)
  BY FS_EmptySet DEF Live
<1>6. heap \in [Live -> Cells(Buckets)]
  BY DEF Live
<1> QED
  BY <1>3, <1>4, <1>5, <1>6 DEF Core, Live

-----------------------------------------------------------------------------
(* The traversal order *)

LEMMA Joined ==
  ASSUME NEW s \in Seq(Items), NEW t \in Seq(Items)
  PROVE  LET u == s \o t IN
         /\ u \in Seq(Items) /\ Len(u) = Len(s) + Len(t)
         /\ Len(s) \in Nat /\ Len(t) \in Nat
         /\ \A i \in 1..Len(s) : i \in 1..Len(u) /\ u[i] = s[i]
         /\ \A i \in 1..Len(t) : Len(s) + i \in 1..Len(u) /\ u[Len(s) + i] = t[i]
         /\ \A i \in 1..Len(u) : \/ i \in 1..Len(s)
                                 \/ i - Len(s) \in 1..Len(t) /\ i = Len(s) + (i - Len(s))
<1>1. /\ s \o t \in Seq(Items) /\ Len(s \o t) = Len(s) + Len(t)
      /\ \A i \in 1..Len(s) + Len(t) : (s \o t)[i] = IF i <= Len(s) THEN s[i] ELSE t[i - Len(s)]
  BY ConcatProperties
<1>2. Len(s) \in Nat /\ Len(t) \in Nat
  BY LenProperties
<1>3. ASSUME NEW i \in 1..Len(t) PROVE Len(s) + i \in 1..Len(s \o t) /\ (s \o t)[Len(s) + i] = t[i]
  <2>1. Len(s) + i \in 1..Len(s) + Len(t) /\ ~(Len(s) + i <= Len(s)) /\ (Len(s) + i) - Len(s) = i
    BY <1>2
  <2> QED  BY <1>1, <2>1
<1>4. ASSUME NEW i \in 1..Len(s) PROVE i \in 1..Len(s \o t) /\ (s \o t)[i] = s[i]
  BY <1>1, <1>2
<1>5. ASSUME NEW i \in 1..Len(s \o t)
      PROVE  i \in 1..Len(s) \/ (i - Len(s) \in 1..Len(t) /\ i = Len(s) + (i - Len(s)))
  BY <1>1, <1>2
<1> QED
  BY <1>1, <1>2, <1>3, <1>4, <1>5

Join(w, i) == IF i = 0 THEN <<>> ELSE w[i - 1] \o Chain(i - 1)
Joins(w, n) == w = [i \in 0..n |-> Join(w, i)]

LEMMA JoinsExist ==
  ASSUME NEW n \in Nat
  PROVE  \E w : Joins(w, n)
<1> DEFINE T == {m \in Nat : \E w : Joins(w, m)}
<1>1. 0 \in T
  <2> DEFINE w == [i \in 0..0 |-> Join(<<>>, i)]
  <2>1. Joins(w, 0)
    BY DEF Joins, Join
  <2> QED  BY <2>1
<1>2. ASSUME NEW m \in T PROVE m + 1 \in T
  <2>1. PICK w : Joins(w, m)
    OBVIOUS
  <2> DEFINE v == [i \in 0..m + 1 |-> Join(w, i)]
  <2>2. \A i \in 0..m : v[i] = w[i]
    BY <2>1 DEF Joins
  <2>3. ASSUME NEW i \in 0..m + 1 PROVE Join(w, i) = Join(v, i)
    <3>1. i # 0 => i - 1 \in 0..m
      OBVIOUS
    <3>2. i # 0 => v[i - 1] = w[i - 1]
      BY <2>2, <3>1
    <3> HIDE DEF v
    <3> QED
      BY <3>2 DEF Join
  <2>4. Joins(v, m + 1)
    BY <2>3 DEF Joins
  <2> QED  BY <2>4
<1>3. T = Nat
  <2> HIDE DEF T
  <2> QED  BY <1>1, <1>2, Induction DEF T
<1> QED
  BY <1>3

LEMMA TraversalUnfolds ==
  ASSUME TypeOK
  PROVE  \E w : Joins(w, Cardinality(Slots)) /\ Traversal = w[Cardinality(Slots)]
<1>1. \E w : Joins(w, Cardinality(Slots))
  BY SlotsAre, JoinsExist
<1> DEFINE w == CHOOSE w : Joins(w, Cardinality(Slots))
<1>2. Joins(w, Cardinality(Slots))
  BY <1>1
<1>3. Traversal = w[Cardinality(Slots)]
  BY DEF Traversal, Joins, Join
<1> QED
  BY <1>2, <1>3

\* s goes through the chains of the slots before n, each item once.
Goes(s, ch, n) ==
    /\ s \in Seq(Items) /\ Once(s)
    /\ \A i \in 1..Len(s) : \E b \in Slots : b < n /\ \E j \in 1..Len(ch[b]) : s[i] = ch[b][j]
    /\ \A b \in Slots : b < n => \A j \in 1..Len(ch[b]) : \E i \in 1..Len(s) : s[i] = ch[b][j]

LEMMA GoesOn ==
  ASSUME NEW ch, Core(ch), NEW n \in Slots, NEW s, Goes(s, ch, n)
  PROVE  Goes(s \o ch[n], ch, n + 1)
<1> DEFINE t == ch[n]
           u == s \o t
<1>0. n \in Nat /\ Slots \subseteq Nat
  BY CoreIs, SlotsAre
<1>1. s \in Seq(Items) /\ t \in Seq(Items)
  BY ChainOf DEF Goes
<1>2. /\ u \in Seq(Items) /\ Len(u) = Len(s) + Len(t)
      /\ Len(s) \in Nat /\ Len(t) \in Nat
      /\ \A i \in 1..Len(s) : i \in 1..Len(u) /\ u[i] = s[i]
      /\ \A i \in 1..Len(t) : Len(s) + i \in 1..Len(u) /\ u[Len(s) + i] = t[i]
      /\ \A i \in 1..Len(u) : \/ i \in 1..Len(s)
                              \/ i - Len(s) \in 1..Len(t) /\ i = Len(s) + (i - Len(s))
  BY <1>1, Joined
<1>3. \A b, c \in Slots : \A i \in 1..Len(ch[b]), j \in 1..Len(ch[c]) :
        ch[b][i] = ch[c][j] => b = c /\ i = j
  BY ChainOf
<1> HIDE DEF t, u
<1>4. \A i \in 1..Len(u) : \/ i \in 1..Len(s) /\ u[i] = s[i]
                           \/ i - Len(s) \in 1..Len(t) /\ u[i] = t[i - Len(s)]
  BY <1>2
<1>5. \A i \in 1..Len(s), j \in 1..Len(t) : s[i] # t[j]
  <2> TAKE i \in 1..Len(s), j \in 1..Len(t)
  <2>1. PICK b \in Slots : b < n /\ \E k \in 1..Len(ch[b]) : s[i] = ch[b][k]
    BY DEF Goes
  <2> QED  BY <1>0, <1>3, <2>1 DEF t
<1>6. Once(u)
  <2> SUFFICES ASSUME NEW i \in 1..Len(u), NEW j \in 1..Len(u), u[i] = u[j] PROVE i = j
    BY DEF Once
  <2>1. CASE i \in 1..Len(s) /\ j \in 1..Len(s)
    BY <1>2, <2>1 DEF Goes, Once
  <2>2. CASE i \in 1..Len(s) /\ j \notin 1..Len(s)
    BY <1>2, <1>4, <1>5, <2>2
  <2>3. CASE i \notin 1..Len(s) /\ j \in 1..Len(s)
    BY <1>2, <1>4, <1>5, <2>3
  <2>4. CASE i \notin 1..Len(s) /\ j \notin 1..Len(s)
    <3>1. /\ i - Len(s) \in 1..Len(ch[n]) /\ j - Len(s) \in 1..Len(ch[n])
          /\ ch[n][i - Len(s)] = ch[n][j - Len(s)]
      BY <1>4, <2>4 DEF t
    <3>2. i - Len(s) = j - Len(s)
      BY <1>3, <3>1
    <3> QED  BY <1>2, <3>2
  <2> QED  BY <2>1, <2>2, <2>3, <2>4
<1>7. ASSUME NEW i \in 1..Len(u)
      PROVE  \E b \in Slots : b < n + 1 /\ \E j \in 1..Len(ch[b]) : u[i] = ch[b][j]
  <2>1. CASE i \in 1..Len(s)
    <3>1. PICK b \in Slots : b < n /\ \E j \in 1..Len(ch[b]) : s[i] = ch[b][j]
      BY <2>1 DEF Goes
    <3> QED  BY <1>0, <1>2, <2>1, <3>1
  <2>2. CASE i \notin 1..Len(s)
    <3>1. i - Len(s) \in 1..Len(ch[n]) /\ u[i] = ch[n][i - Len(s)] /\ n < n + 1
      BY <1>0, <1>4, <2>2 DEF t
    <3> QED  BY <3>1
  <2> QED  BY <2>1, <2>2
<1>8. ASSUME NEW b \in Slots, b < n + 1, NEW j \in 1..Len(ch[b])
      PROVE  \E i \in 1..Len(u) : u[i] = ch[b][j]
  <2>1. CASE b = n
    <3>1. Len(s) + j \in 1..Len(u) /\ u[Len(s) + j] = t[j]
      BY <1>2, <2>1 DEF t
    <3> QED  BY <2>1, <3>1 DEF t
  <2>2. CASE b # n
    <3>1. b < n
      BY <1>0, <1>8, <2>2
    <3>2. PICK i \in 1..Len(s) : s[i] = ch[b][j]
      BY <3>1 DEF Goes
    <3> QED  BY <1>2, <3>2
  <2> QED  BY <2>1, <2>2
<1> QED
  BY <1>2, <1>6, <1>7, <1>8 DEF Goes, u, t

\* A traversal goes through what is reachable, each item once.
LEMMA TraversalIs ==
  ASSUME NEW ch, Core(ch)
  PROVE  /\ Traversal \in Seq(Items) /\ Once(Traversal) /\ Len(Traversal) \in Nat
         /\ \A i \in 1..Len(Traversal) : Traversal[i] \in On(table, ch)
         /\ \A x \in On(table, ch) : \E i \in 1..Len(Traversal) : Traversal[i] = x
         /\ Len(Traversal) = Cardinality(On(table, ch))
<1> DEFINE C == Cardinality(Slots)
<1>1. C \in Nat \ {0} /\ Slots = 0..C - 1
  BY CoreIs, SlotsAre
<1>2. PICK w : Joins(w, C) /\ Traversal = w[C]
  BY CoreIs, TraversalUnfolds
<1>3. \A n \in 0..C : w[n] = Join(w, n)
  BY <1>2 DEF Joins
<1> HIDE DEF C
<1> DEFINE T == {n \in Nat : n <= C => Goes(w[n], ch, n)}
<1>4. 0 \in T
  <2>1. w[0] = <<>>
    BY <1>1, <1>3 DEF Join
  <2>2. <<>> \in Seq(Items) /\ Len(<<>>) = 0 /\ \A i \in 1..0 : FALSE
    OBVIOUS
  <2>3. \A b \in Slots : ~(b < 0)
    BY <1>1
  <2>4. Goes(<<>>, ch, 0)
    BY <2>2, <2>3 DEF Goes, Once
  <2> QED  BY <2>1, <2>4
<1>5. ASSUME NEW n \in T PROVE n + 1 \in T
  <2> SUFFICES ASSUME n + 1 <= C PROVE Goes(w[n + 1], ch, n + 1)
    OBVIOUS
  <2>1. n \in Slots /\ n <= C /\ n + 1 \in 0..C /\ n + 1 # 0 /\ (n + 1) - 1 = n
    BY <1>1
  <2>2. w[n + 1] = w[n] \o ch[n]
    <3>1. Chain(n) = ch[n]
      BY <2>1, ChainOf
    <3>2. w[n + 1] = Join(w, n + 1)
      BY <1>3, <2>1
    <3> HIDE DEF T
    <3>3. Join(w, n + 1) = w[n] \o Chain(n)
      BY <2>1 DEF Join
    <3> QED  BY <3>1, <3>2, <3>3
  <2>3. Goes(w[n], ch, n)
    BY <2>1
  <2> QED  BY <2>1, <2>2, <2>3, GoesOn
<1>6. T = Nat
  <2> HIDE DEF T
  <2> QED  BY <1>4, <1>5, Induction DEF T
<1>7. Goes(Traversal, ch, C)
  BY <1>1, <1>2, <1>6
<1> DEFINE s == Traversal
           n == Len(s)
           R == On(table, ch)
<1>8. s \in Seq(Items) /\ Once(s) /\ n \in Nat
  BY <1>7, LenProperties DEF Goes
<1>9. \A i \in 1..n : s[i] \in R
  BY <1>7, ChainOf DEF Goes
<1>10. \A x \in R : \E i \in 1..n : s[i] = x
  <2> TAKE x \in R
  <2>1. PICK b \in Slots : \E j \in 1..Len(ch[b]) : ch[b][j] = x
    BY DEF On, Slots
  <2>2. b < C
    BY <1>1
  <2>3. PICK j \in 1..Len(ch[b]) : ch[b][j] = x
    BY <2>1
  <2>4. PICK i \in 1..Len(Traversal) : Traversal[i] = ch[b][j]
    BY <1>7, <2>2 DEF Goes
  <2> QED  BY <2>3, <2>4
<1>11. n = Cardinality(R)
  <2> DEFINE f == [i \in 1..n |-> s[i]]
  <2>1. f \in [1..n -> R] /\ \A i \in 1..n : f[i] = s[i]
    BY <1>9
  <2>2. f \in Bijection(1..n, R)
    <3> HIDE DEF f, R, n
    <3>1. \A x \in R : \E i \in 1..n : f[i] = x
      BY <1>10, <2>1
    <3>2. \A i, j \in 1..n : f[i] = f[j] => i = j
      BY <1>8, <2>1 DEF Once, n
    <3> QED  BY <2>1, <3>1, <3>2 DEF Bijection, Injection, IsInjective, Surjection
  <2>3. IsFiniteSet(1..n) /\ Cardinality(1..n) = n
    BY <1>8, FS_Interval
  <2> HIDE DEF f
  <2>4. ExistsBijection(1..n, R)
    BY <2>2 DEF ExistsBijection
  <2> QED  BY <2>3, <2>4, FS_Bijection
<1> QED
  BY <1>8, <1>9, <1>10, <1>11

-----------------------------------------------------------------------------
(* The values a chain has for a key *)

Vals == Values \cup {NoValue}

\* Chain c of cells hp, whose values are values.
Holds(hp, c) == c \in Seq(Items) /\ \A i \in 1..Len(c) : hp[c[i]].value \in Vals

\* Stack, of cells hp: the values for k among the first i items of c, for every i.
Sift(hp, c, k, w, i) ==
    IF i = 0 THEN <<>>
    ELSE IF hp[c[i]].key = k THEN Append(w[i - 1], hp[c[i]].value)
    ELSE w[i - 1]
Sifts(hp, c, k, w, n) == w = [i \in 0..n |-> Sift(hp, c, k, w, i)]

StackOf(hp, c, k) ==
    LET of[i \in 0..Len(c)] ==
            IF i = 0 THEN <<>>
            ELSE IF hp[c[i]].key = k THEN Append(of[i - 1], hp[c[i]].value)
            ELSE of[i - 1]
    IN  of[Len(c)]

LEMMA SiftsExist ==
  ASSUME NEW hp, NEW c, NEW k, NEW n \in Nat
  PROVE  \E w : Sifts(hp, c, k, w, n)
<1> DEFINE T == {m \in Nat : \E w : Sifts(hp, c, k, w, m)}
<1>1. 0 \in T
  <2> DEFINE w == [i \in 0..0 |-> Sift(hp, c, k, <<>>, i)]
  <2>1. \A i \in 0..0 : Sift(hp, c, k, <<>>, i) = Sift(hp, c, k, w, i)
    BY DEF Sift
  <2>2. Sifts(hp, c, k, w, 0)
    BY <2>1 DEF Sifts
  <2> QED  BY <2>2
<1>2. ASSUME NEW m \in T PROVE m + 1 \in T
  <2>1. PICK w : Sifts(hp, c, k, w, m)
    OBVIOUS
  <2> DEFINE v == [i \in 0..m + 1 |-> Sift(hp, c, k, w, i)]
  <2>2. \A i \in 0..m : v[i] = w[i]
    BY <2>1 DEF Sifts
  <2>3. ASSUME NEW i \in 0..m + 1 PROVE Sift(hp, c, k, w, i) = Sift(hp, c, k, v, i)
    <3>1. i # 0 => i - 1 \in 0..m
      OBVIOUS
    <3>2. i # 0 => v[i - 1] = w[i - 1]
      BY <2>2, <3>1
    <3> HIDE DEF v
    <3> QED
      BY <3>2 DEF Sift
  <2>4. Sifts(hp, c, k, v, m + 1)
    BY <2>3 DEF Sifts
  <2> QED  BY <2>4
<1>3. T = Nat
  <2> HIDE DEF T
  <2> QED  BY <1>1, <1>2, Induction DEF T
<1> QED
  BY <1>3

LEMMA StackUnfolds ==
  ASSUME NEW hp, NEW c, NEW k, Len(c) \in Nat
  PROVE  \E w : Sifts(hp, c, k, w, Len(c)) /\ StackOf(hp, c, k) = w[Len(c)]
<1>1. \E w : Sifts(hp, c, k, w, Len(c))
  BY SiftsExist
<1> DEFINE w == CHOOSE w : Sifts(hp, c, k, w, Len(c))
<1>2. Sifts(hp, c, k, w, Len(c))
  BY <1>1
<1>3. StackOf(hp, c, k) = w[Len(c)]
  BY DEF StackOf, Sifts, Sift
<1> QED
  BY <1>2, <1>3

\* A stack is a sequence of values.
LEMMA StackIsSeq ==
  ASSUME NEW hp, NEW c, NEW k, Holds(hp, c)
  PROVE  StackOf(hp, c, k) \in Seq(Vals)
<1>1. Len(c) \in Nat
  BY DEF Holds
<1>2. PICK w : Sifts(hp, c, k, w, Len(c)) /\ StackOf(hp, c, k) = w[Len(c)]
  BY <1>1, StackUnfolds
<1>3. \A i \in 0..Len(c) : w[i] = Sift(hp, c, k, w, i)
  BY <1>2 DEF Sifts
<1> DEFINE T == {m \in Nat : m <= Len(c) => w[m] \in Seq(Vals)}
<1>4. 0 \in T
  <2>1. w[0] = <<>>
    BY <1>1, <1>3 DEF Sift
  <2>2. w[0] \in Seq(Vals)
    BY <2>1, EmptySeq
  <2> QED  BY <2>2
<1>5. ASSUME NEW m \in T PROVE m + 1 \in T
  <2> SUFFICES ASSUME m + 1 <= Len(c) PROVE w[m + 1] \in Seq(Vals)
    OBVIOUS
  <2> DEFINE i == m + 1
  <2>1. i \in 0..Len(c) /\ i # 0 /\ i - 1 = m /\ m <= Len(c) /\ i \in 1..Len(c)
    BY <1>1
  <2>2. w[m] \in Seq(Vals) /\ hp[c[i]].value \in Vals
    BY <2>1 DEF Holds
  <2> HIDE DEF i
  <2>3. w[i] \in {Append(w[m], hp[c[i]].value), w[m]}
    BY <1>3, <2>1 DEF Sift
  <2>4. Append(w[m], hp[c[i]].value) \in Seq(Vals)
    BY <2>2, AppendProperties
  <2> QED  BY <2>2, <2>3, <2>4 DEF i
<1>6. T = Nat
  <2> HIDE DEF T
  <2> QED  BY <1>4, <1>5, Induction DEF T
<1> QED
  BY <1>1, <1>2, <1>6

\* As far as key k goes, the first m places are alike.
Alike(hp, c, hp2, c2, k, m) ==
    \A i \in 1..m : /\ hp2[c2[i]].key = k <=> hp[c[i]].key = k
                    /\ hp[c[i]].key = k => hp2[c2[i]].value = hp[c[i]].value

\* What stands at the first m places decides about the stack up to there.
LEMMA SiftsAgree ==
  ASSUME NEW hp, NEW c, NEW hp2, NEW c2, NEW k, NEW n \in Nat, NEW n2 \in Nat,
         NEW w, Sifts(hp, c, k, w, n), NEW w2, Sifts(hp2, c2, k, w2, n2),
         NEW m \in Nat, m <= n, m <= n2, Alike(hp, c, hp2, c2, k, m)
  PROVE  w[m] = w2[m]
<1>1. /\ \A i \in 0..n : w[i] = Sift(hp, c, k, w, i)
      /\ \A i \in 0..n2 : w2[i] = Sift(hp2, c2, k, w2, i)
  BY DEF Sifts
<1> DEFINE T == {j \in Nat : j <= m => w[j] = w2[j]}
<1>2. 0 \in T
  <2>1. w[0] = <<>> /\ w2[0] = <<>>
    BY <1>1 DEF Sift
  <2> QED  BY <2>1
<1>3. ASSUME NEW j \in T PROVE j + 1 \in T
  <2> SUFFICES ASSUME j + 1 <= m PROVE w[j + 1] = w2[j + 1]
    OBVIOUS
  <2> DEFINE i == j + 1
  <2>1. i \in 0..n /\ i \in 0..n2 /\ i # 0 /\ i - 1 = j /\ i \in 1..m /\ w[j] = w2[j]
    OBVIOUS
  <2> HIDE DEF i
  <2>2. w[i] = w2[i]
    BY <1>1, <2>1 DEF Sift, Alike
  <2> QED  BY <2>2 DEF i
<1>4. T = Nat
  <2> HIDE DEF T
  <2> QED  BY <1>2, <1>3, Induction DEF T
<1> QED
  BY <1>4

\* Two chains alike as far as k goes have the same stack for it.
LEMMA StackSame ==
  ASSUME NEW hp, NEW c, NEW hp2, NEW c2, NEW k, Len(c) \in Nat, Len(c2) = Len(c),
         Alike(hp, c, hp2, c2, k, Len(c))
  PROVE  StackOf(hp2, c2, k) = StackOf(hp, c, k)
<1>1. PICK w : Sifts(hp, c, k, w, Len(c)) /\ StackOf(hp, c, k) = w[Len(c)]
  BY StackUnfolds
<1>2. PICK w2 : Sifts(hp2, c2, k, w2, Len(c)) /\ StackOf(hp2, c2, k) = w2[Len(c)]
  BY StackUnfolds
<1>3. w[Len(c)] = w2[Len(c)]
  BY <1>1, <1>2, SiftsAgree
<1> QED
  BY <1>1, <1>2, <1>3

LEMMA StackEmpty ==
  ASSUME NEW hp, NEW k
  PROVE  StackOf(hp, <<>>, k) = <<>>
<1>1. Len(<<>>) = 0
  OBVIOUS
<1>2. PICK w : Sifts(hp, <<>>, k, w, 0) /\ StackOf(hp, <<>>, k) = w[0]
  BY <1>1, StackUnfolds
<1> QED
  BY <1>2 DEF Sifts, Sift

\* One more item at the end.
One(hp, x, k) == IF hp[x].key = k THEN <<hp[x].value>> ELSE <<>>

LEMMA StackSnoc ==
  ASSUME NEW hp, NEW c, NEW x \in Items, NEW k, Holds(hp, c), hp[x].value \in Vals,
         NEW d, d = c \o <<x>>
  PROVE  /\ StackOf(hp, d, k) = StackOf(hp, c, k) \o One(hp, x, k)
         /\ Holds(hp, d)
<1>1. c \in Seq(Items) /\ Len(c) \in Nat
  BY DEF Holds
<1>2. d \in Seq(Items) /\ Len(d) = Len(c) + 1 /\ d[Len(c) + 1] = x
      /\ \A i \in 1..Len(c) : d[i] = c[i]
  BY <1>1
<1>3. PICK w : Sifts(hp, c, k, w, Len(c)) /\ StackOf(hp, c, k) = w[Len(c)]
  BY <1>1, StackUnfolds
<1>4. Len(d) \in Nat
  BY <1>1, <1>2
<1>5. PICK v : Sifts(hp, d, k, v, Len(d)) /\ StackOf(hp, d, k) = v[Len(d)]
  BY <1>4, StackUnfolds
<1>6. w[Len(c)] = v[Len(c)]
  <2>1. Len(c) <= Len(d) /\ Len(c) <= Len(c)
    BY <1>1, <1>2
  <2>2. \A i \in 1..Len(c) : /\ hp[d[i]].key = k <=> hp[c[i]].key = k
                             /\ hp[c[i]].key = k => hp[d[i]].value = hp[c[i]].value
    BY <1>2
  <2>3. Sifts(hp, c, k, w, Len(c)) /\ Sifts(hp, d, k, v, Len(d))
    BY <1>3, <1>5
  <2> DEFINE n == Len(c)
             n2 == Len(d)
  <2>4. n \in Nat /\ n2 \in Nat /\ n <= n /\ n <= n2
    BY <1>1, <1>4, <2>1
  <2>5. Sifts(hp, c, k, w, n) /\ Sifts(hp, d, k, v, n2)
    BY <2>3
  <2>6. Alike(hp, c, hp, d, k, n)
    BY <2>2 DEF Alike
  <2> HIDE DEF n, n2
  <2>7. w[n] = v[n]
    BY <2>4, <2>5, <2>6, SiftsAgree
  <2> QED  BY <2>7 DEF n
<1>7. v[Len(d)] = Sift(hp, d, k, v, Len(d))
  <2>1. Len(d) \in 0..Len(d)
    BY <1>4
  <2> QED  BY <1>5, <2>1 DEF Sifts
<1>8. Len(d) # 0 /\ Len(d) - 1 = Len(c)
  BY <1>1, <1>2
<1>9. StackOf(hp, c, k) \in Seq(Vals)
  BY StackIsSeq
<1>10. v[Len(d)] = IF hp[x].key = k THEN Append(StackOf(hp, c, k), hp[x].value) ELSE StackOf(hp, c, k)
  BY <1>2, <1>3, <1>6, <1>7, <1>8 DEF Sift
<1>11. StackOf(hp, d, k) = StackOf(hp, c, k) \o One(hp, x, k)
  <2>1. Append(StackOf(hp, c, k), hp[x].value) = StackOf(hp, c, k) \o <<hp[x].value>>
    BY <1>9, AppendIsConcat
  <2>2. StackOf(hp, c, k) \o <<>> = StackOf(hp, c, k)
    BY <1>9, ConcatEmptySeq
  <2> QED  BY <1>5, <1>10, <2>1, <2>2 DEF One
<1>12. Holds(hp, d)
  <2>1. \A i \in 1..Len(d) : i \in 1..Len(c) \/ i = Len(c) + 1
    BY <1>1, <1>2
  <2> QED  BY <1>2, <2>1 DEF Holds
<1> QED
  BY <1>11, <1>12

LEMMA OneIs ==
  ASSUME NEW hp, NEW x, NEW k, hp[x].value \in Vals
  PROVE  One(hp, x, k) \in Seq(Vals)
<1>1. <<>> \in Seq(Vals)
  BY EmptySeq
<1>2. <<hp[x].value>> \in Seq(Vals)
  OBVIOUS
<1> QED
  BY <1>1, <1>2 DEF One

\* The stack of a chain is that of its parts.
LEMMA StackConcat ==
  ASSUME NEW hp, NEW a, NEW b, NEW k, Holds(hp, a), Holds(hp, b)
  PROVE  /\ StackOf(hp, a \o b, k) = StackOf(hp, a, k) \o StackOf(hp, b, k)
         /\ Holds(hp, a \o b)
<1> DEFINE A == StackOf(hp, a, k)
           Part(m) == SubSeq(b, 1, m)
           T == {m \in Nat : m <= Len(b) =>
                   /\ StackOf(hp, a \o Part(m), k) = A \o StackOf(hp, Part(m), k)
                   /\ Holds(hp, a \o Part(m)) /\ Holds(hp, Part(m))}
<1>1. /\ a \in Seq(Items) /\ b \in Seq(Items) /\ Len(b) \in Nat
      /\ A \in Seq(Vals)
  BY StackIsSeq DEF Holds
<1>2. 0 \in T
  <2>1. Part(0) = <<>>
    BY <1>1, SubSeqEmpty
  <2>2. StackOf(hp, <<>>, k) = <<>>
    BY StackEmpty
  <2>3. a \o <<>> = a
    BY <1>1, ConcatEmptySeq
  <2>4. A \o <<>> = A
    BY <1>1, ConcatEmptySeq
  <2>5. Holds(hp, <<>>)
    <3>1. <<>> \in Seq(Items) /\ Len(<<>>) = 0
      BY EmptySeq
    <3> QED  BY <3>1 DEF Holds
  <2> QED  BY <2>1, <2>2, <2>3, <2>4, <2>5
<1>3. ASSUME NEW m \in T PROVE m + 1 \in T
  <2> SUFFICES ASSUME m + 1 <= Len(b)
               PROVE  /\ StackOf(hp, a \o Part(m + 1), k) = A \o StackOf(hp, Part(m + 1), k)
                      /\ Holds(hp, a \o Part(m + 1)) /\ Holds(hp, Part(m + 1))
    OBVIOUS
  <2> DEFINE p == Part(m)
             q == Part(m + 1)
             x == b[m + 1]
  <2>1. m \in Nat /\ m <= Len(b)
    BY <1>1
  <2>2. /\ StackOf(hp, a \o p, k) = A \o StackOf(hp, p, k)
        /\ Holds(hp, a \o p) /\ Holds(hp, p)
    BY <2>1
  <2>3. q = p \o <<x>>
    <3>1. 1 \in 1..Len(b) /\ m + 1 \in 1..Len(b) /\ (m + 1) - 1 = m
      BY <1>1, <2>1
    <3> QED  BY <1>1, <3>1, SubSeqRecursiveSecond
  <2>4. x \in Items /\ hp[x].value \in Vals
    <3>1. m + 1 \in 1..Len(b)
      BY <1>1, <2>1
    <3> QED  BY <1>1, <3>1, ElementOfSeq DEF Holds
  <2> HIDE DEF p, q, x
  <2>5. p \in Seq(Items)
    BY <2>2 DEF Holds
  <2>6. StackOf(hp, q, k) = StackOf(hp, p, k) \o One(hp, x, k) /\ Holds(hp, q)
    BY <2>2, <2>3, <2>4, StackSnoc
  <2>7. a \o q = (a \o p) \o <<x>>
    <3>1. <<x>> \in Seq(Items)
      BY <2>4
    <3>2. a \in Seq(Items)
      BY <1>1
    <3>3. a \o (p \o <<x>>) = (a \o p) \o <<x>>
      BY ONLY <2>5, <3>1, <3>2, ConcatAssociative
    <3> QED  BY ONLY <2>3, <3>3
  <2>8. StackOf(hp, a \o q, k) = StackOf(hp, a \o p, k) \o One(hp, x, k) /\ Holds(hp, a \o q)
    BY <2>2, <2>4, <2>7, StackSnoc
  <2>9. (A \o StackOf(hp, p, k)) \o One(hp, x, k) = A \o (StackOf(hp, p, k) \o One(hp, x, k))
    <3>1. StackOf(hp, p, k) \in Seq(Vals) /\ One(hp, x, k) \in Seq(Vals)
      BY <2>2, <2>4, StackIsSeq, OneIs
    <3> DEFINE B == StackOf(hp, p, k)
               C == One(hp, x, k)
    <3>2. A \in Seq(Vals) /\ B \in Seq(Vals) /\ C \in Seq(Vals)
      BY <1>1, <3>1
    <3> HIDE DEF A, B, C, T
    <3>3. (A \o B) \o C = A \o (B \o C)
      BY <3>2, ConcatAssociative
    <3> QED  BY <3>3 DEF B, C
  <2>10. StackOf(hp, a \o q, k) = A \o StackOf(hp, q, k)
    BY <2>2, <2>6, <2>8, <2>9
  <2> QED
    <3>1. q = Part(m + 1)
      BY DEF q
    <3> HIDE DEF Part, A
    <3> QED  BY <2>6, <2>8, <2>10, <3>1
<1>4. Part(Len(b)) = b
  BY <1>1, SubSeqFull
<1>5. Len(b) \in T
  <2>1. T = Nat
    <3> HIDE DEF T
    <3> QED  BY <1>2, <1>3, Induction DEF T
  <2> QED  BY <1>1, <2>1
<1> HIDE DEF Part, A
<1>6. /\ StackOf(hp, a \o b, k) = A \o StackOf(hp, b, k)
      /\ Holds(hp, a \o b)
  BY <1>1, <1>4, <1>5
<1> QED
  BY <1>6 DEF A

LEMMA StackOne ==
  ASSUME NEW hp, NEW x \in Items, NEW k, hp[x].value \in Vals
  PROVE  StackOf(hp, <<x>>, k) = One(hp, x, k) /\ Holds(hp, <<x>>)
<1>1. Holds(hp, <<>>)
  <2>1. <<>> \in Seq(Items) /\ Len(<<>>) = 0
    BY EmptySeq
  <2> QED  BY <2>1 DEF Holds
<1>2. <<x>> = <<>> \o <<x>>
  <2>1. <<x>> \in Seq(Items)
    OBVIOUS
  <2> QED  BY <2>1, ConcatEmptySeq
<1>3. StackOf(hp, <<>>, k) = <<>>
  BY StackEmpty
<1>4. /\ StackOf(hp, <<x>>, k) = StackOf(hp, <<>>, k) \o One(hp, x, k)
      /\ Holds(hp, <<x>>)
  BY <1>1, <1>2, StackSnoc
<1>5. <<>> \o One(hp, x, k) = One(hp, x, k)
  BY OneIs, ConcatEmptySeq
<1> QED
  BY <1>3, <1>4, <1>5

\* A chain without the key has nothing for it.
LEMMA StackNone ==
  ASSUME NEW hp, NEW c, NEW k, Len(c) \in Nat, \A i \in 1..Len(c) : hp[c[i]].key # k
  PROVE  StackOf(hp, c, k) = <<>>
<1>1. PICK w : Sifts(hp, c, k, w, Len(c)) /\ StackOf(hp, c, k) = w[Len(c)]
  BY StackUnfolds
<1>2. \A i \in 0..Len(c) : w[i] = Sift(hp, c, k, w, i)
  BY <1>1 DEF Sifts
<1> DEFINE T == {m \in Nat : m <= Len(c) => w[m] = <<>>}
<1>3. 0 \in T
  BY <1>2 DEF Sift
<1>4. ASSUME NEW m \in T PROVE m + 1 \in T
  <2> SUFFICES ASSUME m + 1 <= Len(c) PROVE w[m + 1] = <<>>
    OBVIOUS
  <2> DEFINE i == m + 1
  <2>1. i \in 0..Len(c) /\ i # 0 /\ i - 1 = m /\ m <= Len(c) /\ i \in 1..Len(c)
    OBVIOUS
  <2>2. w[m] = <<>> /\ hp[c[i]].key # k
    BY <2>1
  <2> HIDE DEF i
  <2> QED  BY <1>2, <2>1, <2>2 DEF Sift, i
<1>5. T = Nat
  <2> HIDE DEF T
  <2> QED  BY <1>3, <1>4, Induction DEF T
<1> QED
  BY <1>1, <1>5

-----------------------------------------------------------------------------
(* The mapping from keys to stacks *)

At(t, ch, k) == ch[HashFn[k] % Cardinality(DOMAIN t)]
St(t, hp, ch, k) == StackOf(hp, At(t, ch, k), k)

\* Chains ch of table t and cells hp, as far as stacks go.
Tidy(t, hp, ch) ==
    /\ ch \in [DOMAIN t -> Seq(Items)]
    /\ \A k \in Keys : HashFn[k] % Cardinality(DOMAIN t) \in DOMAIN t
    /\ \A b \in DOMAIN t : \A i \in 1..Len(ch[b]) : ch[b][i] \in DOMAIN hp
    /\ \A y \in DOMAIN hp : hp[y].value \in Vals

\* The cells in S keep their keys and values.
Keeps(hp, hp2, S) ==
    \A y \in S : hp2[y].key = hp[y].key /\ hp2[y].value = hp[y].value

LEMMA TidyHolds ==
  ASSUME NEW t, NEW hp, NEW ch, Tidy(t, hp, ch), NEW b \in DOMAIN t
  PROVE  /\ Holds(hp, ch[b]) /\ ch[b] \in Seq(Items) /\ Len(ch[b]) \in Nat
         /\ \A k : StackOf(hp, ch[b], k) \in Seq(Vals)
<1>1. ch[b] \in Seq(Items) /\ Len(ch[b]) \in Nat
  BY DEF Tidy
<1>2. Holds(hp, ch[b])
  BY <1>1 DEF Tidy, Holds
<1> QED
  BY <1>1, <1>2, StackIsSeq

LEMMA KeptStack ==
  ASSUME NEW hp, NEW hp2, NEW c, Len(c) \in Nat, NEW S, Keeps(hp, hp2, S),
         \A i \in 1..Len(c) : c[i] \in S
  PROVE  /\ \A k : StackOf(hp2, c, k) = StackOf(hp, c, k)
         /\ Holds(hp, c) => Holds(hp2, c)
<1>1. \A k : Alike(hp, c, hp2, c, k, Len(c))
  BY DEF Keeps, Alike
<1>2. \A k : StackOf(hp2, c, k) = StackOf(hp, c, k)
  BY <1>1, StackSame
<1>3. Holds(hp, c) => Holds(hp2, c)
  BY DEF Keeps, Holds
<1> QED
  BY <1>2, <1>3

\* An item pushed in front of its chain goes on top of its stack.
LEMMA PushStack ==
  ASSUME NEW t, NEW hp, NEW ch, Tidy(t, hp, ch), NEW t2, NEW hp2, DOMAIN t2 = DOMAIN t,
         NEW b \in DOMAIN t, NEW x \in Items, Keeps(hp, hp2, DOMAIN hp),
         HashFn[hp2[x].key] % Cardinality(DOMAIN t) = b, hp2[x].value \in Vals,
         NEW k \in Keys
  PROVE  St(t2, hp2, Pushed(ch, b, x), k) = One(hp2, x, k) \o St(t, hp, ch, k)
<1> DEFINE a == HashFn[k] % Cardinality(DOMAIN t)
           ch2 == Pushed(ch, b, x)
           c == ch[a]
<1>1. a \in DOMAIN t
  BY DEF Tidy
<1>2. /\ Holds(hp, c) /\ c \in Seq(Items) /\ Len(c) \in Nat
      /\ StackOf(hp, c, k) \in Seq(Vals)
  BY <1>1, TidyHolds
<1>3. /\ St(t2, hp2, ch2, k) = StackOf(hp2, ch2[a], k)
      /\ St(t, hp, ch, k) = StackOf(hp, c, k)
  BY DEF St, At
<1>4. \A i \in 1..Len(c) : c[i] \in DOMAIN hp
  BY <1>1 DEF Tidy
<1> HIDE DEF a, c
<1>5. StackOf(hp2, c, k) = StackOf(hp, c, k) /\ Holds(hp2, c)
  BY <1>2, <1>4, KeptStack
<1>6. CASE a = b
  <2>1. ch2[a] = Prefixed(x, c)
    BY <1>6 DEF Pushed, c, Tidy
  <2>2. Prefixed(x, c) = <<x>> \o c
    BY <1>2, PrefixedIs
  <2>3. StackOf(hp2, <<x>>, k) = One(hp2, x, k) /\ Holds(hp2, <<x>>)
    BY StackOne
  <2>4. StackOf(hp2, ch2[a], k) = StackOf(hp2, <<x>>, k) \o StackOf(hp2, c, k)
    <3> DEFINE o == <<x>>
               e == ch2[a]
    <3>1. e = o \o c /\ Holds(hp2, o) /\ Holds(hp2, c)
      BY <1>5, <2>1, <2>2, <2>3
    <3> HIDE DEF o, e
    <3>2. StackOf(hp2, o \o c, k) = StackOf(hp2, o, k) \o StackOf(hp2, c, k)
      BY <3>1, StackConcat
    <3> QED  BY <3>1, <3>2 DEF o, e
  <2> QED  BY <1>3, <1>5, <2>3, <2>4
<1>7. CASE a # b
  <2>1. ch2[a] = c
    BY <1>1, <1>7 DEF Pushed, c, Tidy
  <2>2. hp2[x].key # k
    BY <1>7 DEF a
  <2>3. One(hp2, x, k) = <<>>
    BY <2>2 DEF One
  <2>4. <<>> \o StackOf(hp, c, k) = StackOf(hp, c, k)
    BY <1>2, ConcatEmptySeq
  <2>5. StackOf(hp2, ch2[a], k) = StackOf(hp, c, k)
    BY <1>5, <2>1
  <2> DEFINE e == St(t2, hp2, ch2, k)
             f == St(t, hp, ch, k)
  <2>6. e = StackOf(hp2, ch2[a], k) /\ f = StackOf(hp, c, k)
    BY <1>3
  <2> HIDE DEF ch2, a, c, e, f
  <2>7. e = One(hp2, x, k) \o f
    BY <2>3, <2>4, <2>5, <2>6
  <2> QED  BY <2>7 DEF e, f, ch2
<1> QED
  BY <1>6, <1>7

\* A sequence around its place i.
Pre(c, i) == SubSeq(c, 1, i - 1)
Suf(c, i) == SubSeq(c, i + 1, Len(c))

LEMMA Around ==
  ASSUME NEW c \in Seq(Items), NEW i \in 1..Len(c)
  PROVE  /\ Pre(c, i) \in Seq(Items) /\ Suf(c, i) \in Seq(Items)
         /\ Len(Pre(c, i)) = i - 1 /\ \A j \in 1..i - 1 : Pre(c, i)[j] = c[j]
         /\ Len(Suf(c, i)) = Len(c) - i /\ \A j \in 1..Len(c) - i : Suf(c, i)[j] = c[j + i]
         /\ c = (Pre(c, i) \o <<c[i]>>) \o Suf(c, i)
         /\ Dropped(c, i) = Pre(c, i) \o Suf(c, i)
<1>1. /\ Len(c) \in Nat /\ i \in Nat /\ c[i] \in Items
      /\ \A j \in 1..Len(c) : c[j] \in Items
  BY LenProperties, ElementOfSeq
<1>2. /\ Pre(c, i) \in Seq(Items) /\ Len(Pre(c, i)) = i - 1
      /\ \A j \in 1..i - 1 : Pre(c, i)[j] = c[j]
  <2>1. \A j \in 1..i - 1 : c[j] \in Items
    BY <1>1
  <2>2. /\ SubSeq(c, 1, i - 1) \in Seq(Items)
        /\ Len(SubSeq(c, 1, i - 1)) = IF 1 <= i - 1 THEN (i - 1) - 1 + 1 ELSE 0
        /\ \A j \in 1..(i - 1) - 1 + 1 : SubSeq(c, 1, i - 1)[j] = c[1 + j - 1]
    BY <1>1, <2>1, SubSeqProperties
  <2>3. \A j \in 1..i - 1 : 1 + j - 1 = j
    BY <1>1
  <2>4. (i - 1) - 1 + 1 = i - 1 /\ (IF 1 <= i - 1 THEN (i - 1) - 1 + 1 ELSE 0) = i - 1
    BY <1>1
  <2> QED  BY <2>2, <2>3, <2>4 DEF Pre
<1>3. /\ Suf(c, i) \in Seq(Items) /\ Len(Suf(c, i)) = Len(c) - i
      /\ \A j \in 1..Len(c) - i : Suf(c, i)[j] = c[j + i]
  <2> DEFINE m == i + 1
             n == Len(c)
  <2>1. \A j \in m..n : c[j] \in Items
    BY <1>1
  <2>2. m \in Int /\ n \in Int /\ n - m + 1 = n - i /\ (IF m <= n THEN n - m + 1 ELSE 0) = n - i
    BY <1>1
  <2>3. \A j \in 1..n - i : m + j - 1 = j + i
    BY <1>1
  <2> HIDE DEF m, n
  <2>4. /\ SubSeq(c, m, n) \in Seq(Items)
        /\ Len(SubSeq(c, m, n)) = IF m <= n THEN n - m + 1 ELSE 0
        /\ \A j \in 1..n - m + 1 : SubSeq(c, m, n)[j] = c[m + j - 1]
    BY <2>1, <2>2, SubSeqProperties
  <2>5. Suf(c, i) = SubSeq(c, m, n)
    BY DEF Suf, m, n
  <2> QED  BY <2>2, <2>3, <2>4, <2>5 DEF n
<1> DEFINE p == Pre(c, i)
           s == Suf(c, i)
           o == <<c[i]>>
           q == p \o o
           d == q \o s
           e == p \o s
           n == Len(c)
           f == Dropped(c, i)
<1>4. o \in Seq(Items) /\ Len(o) = 1 /\ o[1] = c[i]
  BY <1>1
<1>5. /\ p \in Seq(Items) /\ Len(p) = i - 1 /\ \A j \in 1..i - 1 : p[j] = c[j]
      /\ s \in Seq(Items) /\ Len(s) = n - i /\ \A j \in 1..n - i : s[j] = c[j + i]
      /\ n \in Nat /\ i \in Nat /\ 1 <= i /\ i <= n
  BY <1>1, <1>2, <1>3
<1>6. f \in Seq(Items) /\ Len(f) = n - 1 /\ \A j \in 1..n - 1 : f[j] = IF j < i THEN c[j] ELSE c[j + 1]
  <2>1. /\ f \in Seq(Items) /\ Len(f) = n - 1
        /\ \A j \in 1..Len(f) : IF j < i THEN f[j] = c[j] ELSE f[j] = c[j + 1]
    BY DroppedIs
  <2> QED  BY <2>1
<1> HIDE DEF p, s, o, n, f
<1>7. q \in Seq(Items) /\ Len(q) = i /\ \A j \in 1..i : q[j] = c[j]
  <2>1. /\ q \in Seq(Items) /\ Len(q) = Len(p) + Len(o)
        /\ \A j \in 1..Len(p) + Len(o) : q[j] = IF j <= Len(p) THEN p[j] ELSE o[j - Len(p)]
    BY <1>4, <1>5, ConcatProperties
  <2>2. Len(q) = i
    BY <1>4, <1>5, <2>1
  <2>3. ASSUME NEW j \in 1..i PROVE q[j] = c[j]
    <3>1. q[j] = IF j <= i - 1 THEN p[j] ELSE o[j - (i - 1)]
      BY <1>4, <1>5, <2>1
    <3>2. j \in 1..i - 1 \/ j = i
      BY <1>5
    <3>3. CASE j \in 1..i - 1
      BY <1>5, <3>1, <3>3
    <3>4. CASE j = i
      <4>1. ~(j <= i - 1) /\ j - (i - 1) = 1
        BY <1>5, <3>4
      <4> QED  BY <1>4, <3>1, <3>4, <4>1
    <3> QED  BY <3>2, <3>3, <3>4
  <2> QED  BY <2>1, <2>2, <2>3
<1>8. d = c
  <2> HIDE DEF q
  <2>1. /\ d \in Seq(Items) /\ Len(d) = Len(q) + Len(s)
        /\ \A j \in 1..Len(q) + Len(s) : d[j] = IF j <= Len(q) THEN q[j] ELSE s[j - Len(q)]
    BY <1>5, <1>7, ConcatProperties
  <2>2. Len(d) = n
    BY <1>5, <1>7, <2>1
  <2>3. ASSUME NEW j \in 1..n PROVE d[j] = c[j]
    <3>1. d[j] = IF j <= i THEN q[j] ELSE s[j - i]
      BY <1>5, <1>7, <2>1
    <3>2. CASE j <= i
      BY <1>5, <1>7, <3>1, <3>2
    <3>3. CASE ~(j <= i)
      <4>1. j - i \in 1..n - i /\ (j - i) + i = j
        BY <1>5, <3>3
      <4> QED  BY <1>5, <3>1, <3>3, <4>1
    <3> QED  BY <3>2, <3>3
  <2> HIDE DEF d
  <2> QED  BY <2>1, <2>2, <2>3, SameSeq DEF n
<1>9. f = e
  <2>1. /\ e \in Seq(Items) /\ Len(e) = Len(p) + Len(s)
        /\ \A j \in 1..Len(p) + Len(s) : e[j] = IF j <= Len(p) THEN p[j] ELSE s[j - Len(p)]
    BY <1>5, ConcatProperties
  <2>2. Len(e) = n - 1 /\ Len(p) + Len(s) = n - 1
    BY <1>5, <2>1
  <2>3. ASSUME NEW j \in 1..n - 1 PROVE f[j] = e[j]
    <3>1. e[j] = IF j <= i - 1 THEN p[j] ELSE s[j - (i - 1)]
      BY <1>5, <2>1, <2>2
    <3>2. CASE j < i
      <4>1. j <= i - 1 /\ j \in 1..i - 1
        BY <1>5, <3>2
      <4> QED  BY <1>5, <1>6, <3>1, <3>2, <4>1
    <3>3. CASE ~(j < i)
      <4>1. ~(j <= i - 1) /\ j - (i - 1) \in 1..n - i /\ (j - (i - 1)) + i = j + 1
        BY <1>5, <3>3
      <4> QED  BY <1>5, <1>6, <3>1, <3>3, <4>1
    <3> QED  BY <3>2, <3>3
  <2> HIDE DEF e
  <2> QED  BY <1>6, <2>1, <2>2, <2>3, SameSeq
<1> QED
  BY <1>5, <1>8, <1>9 DEF p, s, o, n, f

\* The stack of a chain, around place i.
LEMMA StackAround ==
  ASSUME NEW hp, NEW c, Holds(hp, c), NEW i \in 1..Len(c), NEW k
  PROVE  /\ StackOf(hp, c, k) = (StackOf(hp, Pre(c, i), k) \o One(hp, c[i], k))
                                  \o StackOf(hp, Suf(c, i), k)
         /\ StackOf(hp, Pre(c, i), k) \in Seq(Vals) /\ StackOf(hp, Suf(c, i), k) \in Seq(Vals)
         /\ Holds(hp, Pre(c, i)) /\ Holds(hp, Suf(c, i))
<1> DEFINE p == Pre(c, i)
           s == Suf(c, i)
           x == c[i]
           o == <<x>>
<1>1. /\ c \in Seq(Items) /\ Len(c) \in Nat /\ \A j \in 1..Len(c) : hp[c[j]].value \in Vals
      /\ x \in Items /\ hp[x].value \in Vals
  BY ElementOfSeq DEF Holds
<1>2. /\ p \in Seq(Items) /\ s \in Seq(Items) /\ Len(p) = i - 1 /\ Len(s) = Len(c) - i
      /\ \A j \in 1..i - 1 : p[j] = c[j]
      /\ \A j \in 1..Len(c) - i : s[j] = c[j + i]
      /\ c = (p \o o) \o s
  BY <1>1, Around
<1> HIDE DEF p, s, x, o
<1>3. Holds(hp, p)
  <2>1. \A j \in 1..i - 1 : j \in 1..Len(c)
    BY <1>1
  <2> QED  BY <1>1, <1>2, <2>1 DEF Holds
<1>4. Holds(hp, s)
  <2>1. \A j \in 1..Len(c) - i : j + i \in 1..Len(c)
    BY <1>1
  <2> QED  BY <1>1, <1>2, <2>1 DEF Holds
<1>5. StackOf(hp, o, k) = One(hp, x, k) /\ Holds(hp, o)
  BY <1>1, StackOne DEF o
<1>6. /\ StackOf(hp, p \o o, k) = StackOf(hp, p, k) \o StackOf(hp, o, k)
      /\ Holds(hp, p \o o)
  <2>1. Holds(hp, p) /\ Holds(hp, o)
    BY <1>3, <1>5
  <2> QED  BY <2>1, StackConcat
<1>7. StackOf(hp, (p \o o) \o s, k) = StackOf(hp, p \o o, k) \o StackOf(hp, s, k)
  <2> DEFINE q == p \o o
  <2>1. Holds(hp, q) /\ Holds(hp, s)
    BY <1>4, <1>6
  <2> HIDE DEF q
  <2>2. StackOf(hp, q \o s, k) = StackOf(hp, q, k) \o StackOf(hp, s, k)
    BY <2>1, StackConcat
  <2> QED  BY <2>2 DEF q
<1>8. StackOf(hp, p, k) \in Seq(Vals) /\ StackOf(hp, s, k) \in Seq(Vals)
  BY <1>3, <1>4, StackIsSeq
<1>9. StackOf(hp, c, k) = (StackOf(hp, p, k) \o One(hp, x, k)) \o StackOf(hp, s, k)
  BY <1>2, <1>5, <1>6, <1>7
<1> QED
  BY <1>3, <1>4, <1>8, <1>9 DEF p, s, x

\* The stack m of key k, of which f is what the items before some place have, and that
\* place's own value goes, or becomes v, to leave m2.
Taken(m, m2, f) ==
    \E u \in Vals, r \in Seq(Vals) : f \in Seq(Vals) /\ m = (f \o <<u>>) \o r /\ m2 = f \o r
Swapped(m, m2, f, v) ==
    \E u \in Vals, r \in Seq(Vals) :
      f \in Seq(Vals) /\ m = (f \o <<u>>) \o r /\ m2 = (f \o <<v>>) \o r

\* Item x is at place i of chain b, where its key belongs, and nowhere else, and the other
\* items keep their keys and values.
Touches(t, hp, ch, t2, hp2, b, i, x) ==
    /\ DOMAIN t2 = DOMAIN t /\ b \in DOMAIN t /\ i \in 1..Len(ch[b]) /\ x = ch[b][i]
    /\ Keeps(hp, hp2, DOMAIN hp \ {x}) /\ HashFn[hp[x].key] % Cardinality(DOMAIN t) = b
    /\ \A c \in DOMAIN t : \A j \in 1..Len(ch[c]) : ch[c][j] = x => c = b /\ j = i

LEMMA DropStack ==
  ASSUME NEW t, NEW hp, NEW ch, Tidy(t, hp, ch), NEW t2, NEW hp2, NEW b, NEW i, NEW x,
         Touches(t, hp, ch, t2, hp2, b, i, x),
         NEW k \in Keys
  PROVE  IF k = hp[x].key
         THEN Taken(St(t, hp, ch, k), St(t2, hp2, Drop(ch, b, i), k),
                    StackOf(hp, Pre(ch[b], i), k))
         ELSE St(t2, hp2, Drop(ch, b, i), k) = St(t, hp, ch, k)
<1>0. /\ DOMAIN t2 = DOMAIN t /\ b \in DOMAIN t /\ i \in 1..Len(ch[b]) /\ x = ch[b][i]
      /\ Keeps(hp, hp2, DOMAIN hp \ {x}) /\ HashFn[hp[x].key] % Cardinality(DOMAIN t) = b
      /\ \A c \in DOMAIN t : \A j \in 1..Len(ch[c]) : ch[c][j] = x => c = b /\ j = i
  BY DEF Touches
<1> USE <1>0
<1> DEFINE a == HashFn[k] % Cardinality(DOMAIN t)
           ch2 == Drop(ch, b, i)
           c == ch[a]
           S == DOMAIN hp \ {x}
<1>1. a \in DOMAIN t /\ DOMAIN ch = DOMAIN t
  BY DEF Tidy
<1>2. /\ Holds(hp, c) /\ c \in Seq(Items) /\ Len(c) \in Nat
      /\ StackOf(hp, c, k) \in Seq(Vals)
      /\ \A j \in 1..Len(c) : c[j] \in DOMAIN hp
  BY <1>1, TidyHolds DEF Tidy
<1>3. /\ St(t2, hp2, ch2, k) = StackOf(hp2, ch2[a], k)
      /\ St(t, hp, ch, k) = StackOf(hp, c, k)
  BY DEF St, At
<1>4. k = hp[x].key => a = b
  OBVIOUS
<1>5. CASE a = b
  <2> DEFINE p == Pre(c, i)
             s == Suf(c, i)
  <2>1. i \in 1..Len(c) /\ x = c[i] /\ i \in Nat
    BY <1>5
  <2>2. \A j \in 1..Len(c) : c[j] = x => j = i
    BY <1>5
  <2>3. ch2[a] = Dropped(c, i)
    BY <1>1, <1>5 DEF Drop
  <2> HIDE DEF a, ch2, c, S
  <2>4. /\ p \in Seq(Items) /\ s \in Seq(Items)
        /\ Len(p) = i - 1 /\ Len(s) = Len(c) - i
        /\ \A j \in 1..i - 1 : p[j] = c[j]
        /\ \A j \in 1..Len(c) - i : s[j] = c[j + i]
        /\ Dropped(c, i) = p \o s
    BY <1>2, <2>1, Around
  <2>5. /\ StackOf(hp, c, k) = (StackOf(hp, p, k) \o One(hp, x, k)) \o StackOf(hp, s, k)
        /\ StackOf(hp, p, k) \in Seq(Vals) /\ StackOf(hp, s, k) \in Seq(Vals)
        /\ Holds(hp, p) /\ Holds(hp, s)
    <3>1. Holds(hp, c) /\ i \in 1..Len(c)
      BY <1>2, <2>1
    <3>2. /\ StackOf(hp, c, k) = (StackOf(hp, p, k) \o One(hp, c[i], k)) \o StackOf(hp, s, k)
          /\ StackOf(hp, p, k) \in Seq(Vals) /\ StackOf(hp, s, k) \in Seq(Vals)
          /\ Holds(hp, p) /\ Holds(hp, s)
      BY <3>1, StackAround
    <3> HIDE DEF p, s
    <3> QED  BY <2>1, <3>2
  <2> HIDE DEF p, s
  <2>6. \A j \in 1..Len(p) : p[j] \in S
    <3>1. \A j \in 1..i - 1 : j \in 1..Len(c) /\ j # i
      BY <1>2, <2>1
    <3> QED  BY <1>2, <2>2, <2>4, <3>1 DEF S
  <2>7. \A j \in 1..Len(s) : s[j] \in S
    <3>1. \A j \in 1..Len(c) - i : j + i \in 1..Len(c) /\ j + i # i
      BY <1>2, <2>1
    <3> QED  BY <1>2, <2>2, <2>4, <3>1 DEF S
  <2>8. Keeps(hp, hp2, S) /\ Len(p) \in Nat /\ Len(s) \in Nat
    BY <1>2, <2>1, <2>4 DEF S
  <2>9. StackOf(hp2, p, k) = StackOf(hp, p, k) /\ Holds(hp2, p)
    BY <2>5, <2>6, <2>8, KeptStack
  <2>10. StackOf(hp2, s, k) = StackOf(hp, s, k) /\ Holds(hp2, s)
    BY <2>5, <2>7, <2>8, KeptStack
  <2>11. StackOf(hp2, p \o s, k) = StackOf(hp2, p, k) \o StackOf(hp2, s, k)
    BY <2>9, <2>10, StackConcat
  <2>12. St(t2, hp2, ch2, k) = StackOf(hp, p, k) \o StackOf(hp, s, k)
    BY <1>3, <2>3, <2>4, <2>9, <2>10, <2>11
  <2>13. CASE k = hp[x].key
    <3>1. One(hp, x, k) = <<hp[x].value>> /\ hp[x].value \in Vals
      BY <1>2, <2>1, <2>13 DEF One, Holds
    <3>2. Taken(St(t, hp, ch, k), St(t2, hp2, ch2, k), StackOf(hp, p, k))
      BY <1>3, <2>5, <2>12, <3>1 DEF Taken
    <3> QED  BY <1>5, <2>13, <3>2 DEF p, c, ch2
  <2>14. CASE k # hp[x].key
    <3>1. One(hp, x, k) = <<>>
      BY <2>14 DEF One
    <3>2. StackOf(hp, p, k) \o <<>> = StackOf(hp, p, k)
      BY <2>5, ConcatEmptySeq
    <3>3. St(t2, hp2, ch2, k) = St(t, hp, ch, k)
      BY <1>3, <2>5, <2>12, <3>1, <3>2
    <3> QED  BY <2>14, <3>3 DEF ch2
  <2> QED  BY <2>13, <2>14
<1>6. CASE a # b
  <2>1. ch2[a] = c
    BY <1>1, <1>6 DEF Drop
  <2>2. \A j \in 1..Len(c) : c[j] \in S
    BY <1>1, <1>2, <1>6
  <2> HIDE DEF a, ch2, c, S
  <2>3. Keeps(hp, hp2, S) /\ Len(c) \in Nat
    BY <1>2 DEF S
  <2>4. StackOf(hp2, c, k) = StackOf(hp, c, k)
    <3>1. \A kk : StackOf(hp2, c, kk) = StackOf(hp, c, kk)
      BY <2>2, <2>3, KeptStack
    <3> QED  BY <3>1
  <2>5. St(t2, hp2, ch2, k) = St(t, hp, ch, k)
    BY <1>3, <2>1, <2>4
  <2> QED  BY <1>4, <1>6, <2>5 DEF ch2
<1> QED
  BY <1>5, <1>6

LEMMA CutAt ==
  ASSUME NEW V, NEW f \in Seq(V), NEW r \in Seq(V), NEW m \in Seq(V), NEW a, NEW b,
         a = Len(f), b = Len(r), Len(m) = a + 1 + b,
         \A j \in 1..a : m[j] = f[j], \A j \in 1..b : m[a + 1 + j] = r[j]
  PROVE  SubSeq(m, 1, a) = f /\ SubSeq(m, a + 2, Len(m)) = r
<1>2. a \in Nat /\ b \in Nat /\ (\A j \in 1..a : f[j] \in V) /\ (\A j \in 1..b : r[j] \in V)
  BY LenProperties, ElementOfSeq
<1>4. /\ m \in Seq(V) /\ Len(m) = a + 1 + b
      /\ \A j \in 1..a : m[j] = f[j]
      /\ \A j \in 1..b : m[a + 1 + j] = r[j]
  OBVIOUS
<1> DEFINE x == SubSeq(m, 1, a)
           n == Len(m)
           y == SubSeq(m, a + 2, n)
<1>5. x = f
  <2>1. \A j \in 1..a : m[j] \in V
    BY <1>2, <1>4
  <2>2. /\ x \in Seq(V) /\ Len(x) = (IF 1 <= a THEN a - 1 + 1 ELSE 0)
        /\ \A j \in 1..a - 1 + 1 : x[j] = m[1 + j - 1]
    BY <1>2, <2>1, SubSeqProperties
  <2> HIDE DEF x
  <2>3. Len(x) = a /\ \A j \in 1..a : x[j] = m[j]
    BY <1>2, <2>2
  <2> QED  BY <1>4, <2>2, <2>3, SeqEqual
<1>6. y = r
  <2>1. \A j \in a + 2..n : m[j] \in V
    <3> TAKE j \in a + 2..n
    <3>1. j - (a + 1) \in 1..b /\ a + 1 + (j - (a + 1)) = j
      BY <1>2, <1>4
    <3> HIDE DEF n
    <3>2. m[a + 1 + (j - (a + 1))] = r[j - (a + 1)]
      BY <1>4, <3>1
    <3> QED  BY <1>2, <3>1, <3>2
  <2>2. a + 2 \in Int /\ n \in Int
    BY <1>2, <1>4
  <2>3. n = a + 1 + b
    BY <1>4
  <2> HIDE DEF n
  <2>4. /\ y \in Seq(V) /\ Len(y) = (IF a + 2 <= n THEN n - (a + 2) + 1 ELSE 0)
        /\ \A j \in 1..n - (a + 2) + 1 : y[j] = m[a + 2 + j - 1]
    BY <2>1, <2>2, SubSeqProperties
  <2> HIDE DEF y
  <2>5. Len(y) = b
    BY <1>2, <2>3, <2>4
  <2>6. \A j \in 1..b : y[j] = r[j]
    <3> TAKE j \in 1..b
    <3>1. j \in 1..n - (a + 2) + 1 /\ a + 2 + j - 1 = a + 1 + j
      BY <1>2, <2>3
    <3> QED  BY <1>4, <2>4, <3>1
  <2> QED  BY <2>4, <2>5, <2>6, SeqEqual
<1> QED
  BY <1>5, <1>6

LEMMA Cut ==
  ASSUME NEW V, NEW f \in Seq(V), NEW u \in V, NEW r \in Seq(V), NEW m, m = (f \o <<u>>) \o r
  PROVE  /\ m \in Seq(V) /\ Len(m) \in Nat /\ Len(f) + 1 \in 1..Len(m) /\ Len(f) \in Nat
         /\ SubSeq(m, 1, Len(f)) = f /\ SubSeq(m, Len(f) + 2, Len(m)) = r
<1> DEFINE o == <<u>>
           q == f \o o
           a == Len(f)
           b == Len(r)
<1>1. o \in Seq(V) /\ Len(o) = 1 /\ o[1] = u
  OBVIOUS
<1>2. a \in Nat /\ b \in Nat /\ (\A j \in 1..a : f[j] \in V) /\ (\A j \in 1..b : r[j] \in V)
  BY LenProperties, ElementOfSeq
<1> HIDE DEF o
<1>3. /\ q \in Seq(V) /\ Len(q) = a + 1
      /\ \A j \in 1..a : q[j] = f[j]
  <2>1. /\ q \in Seq(V) /\ Len(q) = Len(f) + Len(o)
        /\ \A j \in 1..Len(f) + Len(o) : q[j] = IF j <= Len(f) THEN f[j] ELSE o[j - Len(f)]
    BY <1>1, ConcatProperties
  <2> HIDE DEF q
  <2>2. q \in Seq(V) /\ Len(q) = a + 1
    BY <1>1, <2>1
  <2>3. \A j \in 1..a : q[j] = f[j]
    <3> TAKE j \in 1..a
    <3>1. j \in 1..Len(f) + Len(o) /\ j <= Len(f)
      BY <1>1, <1>2
    <3> QED  BY <2>1, <3>1
  <2> QED  BY <2>2, <2>3
<1> HIDE DEF q
<1>4. /\ m \in Seq(V) /\ Len(m) = a + 1 + b
      /\ \A j \in 1..a : m[j] = f[j]
      /\ \A j \in 1..b : m[a + 1 + j] = r[j]
  <2>1. m = q \o r
    BY DEF q, o
  <2>2. /\ m \in Seq(V) /\ Len(m) = Len(q) + Len(r)
        /\ \A j \in 1..Len(q) + Len(r) : m[j] = IF j <= Len(q) THEN q[j] ELSE r[j - Len(q)]
    BY <1>3, <2>1, ConcatProperties
  <2>3. \A j \in 1..a : m[j] = f[j]
    BY <1>2, <1>3, <2>2
  <2>4. \A j \in 1..b : m[a + 1 + j] = r[j]
    <3> TAKE j \in 1..b
    <3>1. a + 1 + j \in 1..Len(q) + Len(r) /\ ~(a + 1 + j <= Len(q)) /\ (a + 1 + j) - Len(q) = j
      BY <1>2, <1>3
    <3> QED  BY <2>2, <3>1
  <2> QED  BY <1>3, <2>2, <2>3, <2>4
<1> HIDE DEF a, b
<1>5. SubSeq(m, 1, a) = f /\ SubSeq(m, a + 2, Len(m)) = r
  <2>1. a = Len(f) /\ b = Len(r)
    BY DEF a, b
  <2> QED  BY <1>4, <2>1, CutAt
<1>7. Len(m) \in Nat /\ a + 1 \in 1..Len(m)
  BY <1>2, <1>4
<1> QED
  BY <1>2, <1>4, <1>5, <1>7 DEF a

LEMMA TakenIs ==
  ASSUME NEW m, NEW m2, NEW f, Taken(m, m2, f), NEW j, j = Len(f) + 1
  PROVE  /\ j \in DOMAIN m /\ m2 = SubSeq(m, 1, j - 1) \o SubSeq(m, j + 1, Len(m))
         /\ f = <<>> => m # <<>> /\ m2 = Tail(m)
<1>1. PICK u \in Vals, r \in Seq(Vals) : f \in Seq(Vals) /\ m = (f \o <<u>>) \o r /\ m2 = f \o r
  BY DEF Taken
<1>2. /\ m \in Seq(Vals) /\ Len(m) \in Nat /\ Len(f) + 1 \in 1..Len(m) /\ Len(f) \in Nat
      /\ SubSeq(m, 1, Len(f)) = f /\ SubSeq(m, Len(f) + 2, Len(m)) = r
  BY <1>1, Cut
<1>3. DOMAIN m = 1..Len(m)
  BY <1>2
<1>4. j - 1 = Len(f) /\ j + 1 = Len(f) + 2
  BY <1>2
<1>5. m2 = SubSeq(m, 1, j - 1) \o SubSeq(m, j + 1, Len(m))
  BY <1>1, <1>2, <1>4
<1>6. ASSUME f = <<>> PROVE m # <<>> /\ m2 = Tail(m)
  <2>1. Len(f) = 0
    BY <1>6
  <2>2. m # <<>>
    BY <1>2
  <2>3. Tail(m) = SubSeq(m, 2, Len(m))
    BY <1>2, <2>2, TailIsSubSeq
  <2>4. Len(f) + 2 = 2
    BY <2>1
  <2>5. Tail(m) = r
    BY <1>2, <2>3, <2>4
  <2>6. f \o r = r
    BY <1>1, <1>6, ConcatEmptySeq
  <2> QED  BY <1>1, <2>2, <2>5, <2>6
<1> QED
  BY <1>2, <1>3, <1>5, <1>6

LEMMA SwappedIs ==
  ASSUME NEW m, NEW m2, NEW v, Swapped(m, m2, <<>>, v), v \in Vals
  PROVE  m # <<>> /\ m2 = <<v>> \o Tail(m)
<1> DEFINE f == <<>>
<1>1. PICK u \in Vals, r \in Seq(Vals) :
        f \in Seq(Vals) /\ m = (f \o <<u>>) \o r /\ m2 = (f \o <<v>>) \o r
  BY DEF Swapped
<1>2. Taken(m, f \o r, f)
  BY <1>1 DEF Taken
<1>3. m # <<>> /\ f \o r = Tail(m)
  BY <1>2, TakenIs
<1>4. f \o r = r
  BY <1>1, ConcatEmptySeq
<1>5. <<v>> \in Seq(Vals)
  OBVIOUS
<1>6. f \o <<v>> = <<v>>
  BY <1>5, ConcatEmptySeq
<1> QED
  BY <1>1, <1>3, <1>4, <1>6

\* An item whose value changes changes it in its stack.
LEMMA SwapStack ==
  ASSUME NEW t, NEW hp, NEW ch, Tidy(t, hp, ch), NEW t2, NEW hp2, NEW b, NEW i, NEW x,
         Touches(t, hp, ch, t2, hp2, b, i, x),
         hp2[x].key = hp[x].key, hp2[x].value \in Vals,
         NEW k \in Keys
  PROVE  IF k = hp[x].key
         THEN Swapped(St(t, hp, ch, k), St(t2, hp2, ch, k), StackOf(hp, Pre(ch[b], i), k),
                      hp2[x].value)
         ELSE St(t2, hp2, ch, k) = St(t, hp, ch, k)
<1>0. /\ DOMAIN t2 = DOMAIN t /\ b \in DOMAIN t /\ i \in 1..Len(ch[b]) /\ x = ch[b][i]
      /\ Keeps(hp, hp2, DOMAIN hp \ {x}) /\ HashFn[hp[x].key] % Cardinality(DOMAIN t) = b
      /\ \A c \in DOMAIN t : \A j \in 1..Len(ch[c]) : ch[c][j] = x => c = b /\ j = i
  BY DEF Touches
<1> USE <1>0
<1> DEFINE a == HashFn[k] % Cardinality(DOMAIN t)
           c == ch[a]
           S == DOMAIN hp \ {x}
<1>1. a \in DOMAIN t /\ DOMAIN ch = DOMAIN t
  BY DEF Tidy
<1>2. /\ Holds(hp, c) /\ c \in Seq(Items) /\ Len(c) \in Nat
      /\ StackOf(hp, c, k) \in Seq(Vals)
      /\ \A j \in 1..Len(c) : c[j] \in DOMAIN hp
  BY <1>1, TidyHolds DEF Tidy
<1>3. /\ St(t2, hp2, ch, k) = StackOf(hp2, c, k)
      /\ St(t, hp, ch, k) = StackOf(hp, c, k)
  BY DEF St, At
<1>4. k = hp[x].key => a = b
  OBVIOUS
<1>5. CASE k = hp[x].key
  <2> DEFINE p == Pre(c, i)
             s == Suf(c, i)
  <2>1. i \in 1..Len(c) /\ x = c[i] /\ i \in Nat /\ a = b
    <3>1. a = b
      BY <1>4, <1>5
    <3>2. ch[a] = ch[b]
      BY <3>1
    <3>3. i \in 1..Len(ch[a]) /\ x = ch[a][i]
      BY <3>2
    <3>4. i \in Nat
      OBVIOUS
    <3> QED  BY <3>1, <3>3, <3>4
  <2>2. \A j \in 1..Len(c) : c[j] = x => j = i
    BY <2>1
  <2> HIDE DEF a, c, S
  <2>3. Holds(hp, c) /\ i \in 1..Len(c)
    BY <1>2, <2>1
  <2>4. /\ p \in Seq(Items) /\ s \in Seq(Items)
        /\ Len(p) = i - 1 /\ Len(s) = Len(c) - i
        /\ \A j \in 1..i - 1 : p[j] = c[j]
        /\ \A j \in 1..Len(c) - i : s[j] = c[j + i]
    BY <1>2, <2>1, Around
  <2>5. /\ StackOf(hp, c, k) = (StackOf(hp, p, k) \o One(hp, c[i], k)) \o StackOf(hp, s, k)
        /\ StackOf(hp, p, k) \in Seq(Vals) /\ StackOf(hp, s, k) \in Seq(Vals)
        /\ Holds(hp, p) /\ Holds(hp, s)
    BY <2>3, StackAround
  <2>6. Holds(hp2, c)
    <3>1. \A j \in 1..Len(c) : c[j] = x \/ c[j] \in S
      BY <1>2 DEF S
    <3>2. \A y \in S : hp2[y].value = hp[y].value
      BY DEF Keeps, S
    <3> QED  BY <1>2, <3>1, <3>2 DEF Holds
  <2>7. StackOf(hp2, c, k) = (StackOf(hp2, p, k) \o One(hp2, c[i], k)) \o StackOf(hp2, s, k)
    BY <2>3, <2>6, StackAround
  <2> HIDE DEF p, s
  <2>8. \A j \in 1..Len(p) : p[j] \in S
    <3>1. \A j \in 1..i - 1 : j \in 1..Len(c) /\ j # i
      BY <1>2, <2>1
    <3> QED  BY <1>2, <2>2, <2>4, <3>1 DEF S
  <2>9. \A j \in 1..Len(s) : s[j] \in S
    <3>1. \A j \in 1..Len(c) - i : j + i \in 1..Len(c) /\ j + i # i
      BY <1>2, <2>1
    <3> QED  BY <1>2, <2>2, <2>4, <3>1 DEF S
  <2>10. Keeps(hp, hp2, S) /\ Len(p) \in Nat /\ Len(s) \in Nat
    BY <1>2, <2>1, <2>4 DEF S
  <2>11. \A kk : StackOf(hp2, p, kk) = StackOf(hp, p, kk)
    BY <2>8, <2>10, KeptStack
  <2>12. \A kk : StackOf(hp2, s, kk) = StackOf(hp, s, kk)
    BY <2>9, <2>10, KeptStack
  <2>13. /\ One(hp, c[i], k) = <<hp[x].value>> /\ hp[x].value \in Vals
         /\ One(hp2, c[i], k) = <<hp2[x].value>>
    BY <1>2, <1>5, <2>1 DEF One, Holds
  <2>14. Swapped(St(t, hp, ch, k), St(t2, hp2, ch, k), StackOf(hp, p, k), hp2[x].value)
    BY <1>3, <2>5, <2>7, <2>11, <2>12, <2>13 DEF Swapped
  <2> QED  BY <1>5, <2>1, <2>14 DEF p, c
<1>6. CASE k # hp[x].key
  <2> HIDE DEF a, c
  <2>1. Alike(hp, c, hp2, c, k, Len(c))
    <3>1. ASSUME NEW j \in 1..Len(c)
          PROVE  /\ hp2[c[j]].key = k <=> hp[c[j]].key = k
                 /\ hp[c[j]].key = k => hp2[c[j]].value = hp[c[j]].value
      <4>1. CASE c[j] = x
        <5>1. hp[c[j]].key # k /\ hp2[c[j]].key # k
          BY <1>6, <4>1
        <5> QED  BY <5>1
      <4>2. CASE c[j] # x
        <5>1. hp2[c[j]].key = hp[c[j]].key /\ hp2[c[j]].value = hp[c[j]].value
          BY <1>2, <4>2 DEF Keeps
        <5> QED  BY <5>1
      <4> QED  BY <4>1, <4>2
    <3> QED  BY <3>1 DEF Alike
  <2>2. StackOf(hp2, c, k) = StackOf(hp, c, k)
    BY <1>2, <2>1, StackSame
  <2> QED  BY <1>3, <1>6, <2>2
<1> QED
  BY <1>5, <1>6

\* The first item with its key has nothing of the stack before it.
LEMMA FirstHit ==
  ASSUME NEW hp, NEW c \in Seq(Items), NEW i \in 1..Len(c), NEW k,
         \A j \in 1..i - 1 : hp[c[j]].key # k
  PROVE  StackOf(hp, Pre(c, i), k) = <<>>
<1>1. Len(c) \in Nat /\ i \in Nat
  BY LenProperties
<1> DEFINE p == Pre(c, i)
<1>2. Len(p) = i - 1 /\ \A j \in 1..i - 1 : p[j] = c[j]
  BY Around
<1> HIDE DEF p
<1>3. Len(p) \in Nat /\ \A j \in 1..Len(p) : hp[p[j]].key # k
  BY <1>1, <1>2
<1>4. StackOf(hp, p, k) = <<>>
  BY <1>3, StackNone
<1> QED
  BY <1>4 DEF p

\* The mapping that chains ch stand for.
DMap(t, hp, ch) == [k \in Keys |-> St(t, hp, ch, k)]

\* The mapping that Hash gives module Dict.
DM == [k \in Keys |-> Stack(Chain(Idx(k)), k)]

LEMMA MapOf ==
  ASSUME NEW t, NEW hp, NEW ch, Shape(t, hp, ch),
         \A k \in Keys : HashFn[k] % Cardinality(DOMAIN t) \in DOMAIN t
  PROVE  [k \in Keys |-> StackOf(hp, Walk(hp, t[HashFn[k] % Cardinality(DOMAIN t)]), k)]
           = DMap(t, hp, ch)
<1>1. [b \in DOMAIN t |-> Walk(hp, t[b])] = ch
  BY WalksAre
<1>2. \A b \in DOMAIN t : Walk(hp, t[b]) = ch[b]
  BY <1>1
<1> QED
  BY <1>2 DEF DMap, St, At

\* What Core knows of the chains is enough for the lemmas on stacks.
CoreBits(t, hp, ch) ==
    /\ \E sz \in Sizes : t \in [0..sz - 1 -> X]
    /\ \E bs : hp \in [DOMAIN hp -> Cells(bs)]
    /\ Shape(t, hp, ch)

LEMMA TidyIf ==
  ASSUME NEW t, NEW hp, NEW ch, CoreBits(t, hp, ch)
  PROVE  Tidy(t, hp, ch)
<1>1. PICK sz \in Sizes : t \in [0..sz - 1 -> X]
  BY DEF CoreBits
<1>2. PICK bs : hp \in [DOMAIN hp -> Cells(bs)]
  BY DEF CoreBits
<1>3. Shape(t, hp, ch)
  BY DEF CoreBits
<1>4. sz \in Nat \ {0} /\ DOMAIN t = 0..sz - 1
  BY <1>1, HashAssumption
<1>5. Cardinality(DOMAIN t) = sz
  <2>1. 0 \in Int /\ sz - 1 \in Int /\ ~(0 > sz - 1) /\ (sz - 1) - 0 + 1 = sz
    BY <1>4
  <2>2. Cardinality(0..sz - 1) = sz
    BY <2>1, FS_Interval
  <2> QED  BY <1>4, <2>2
<1>6. \A k \in Keys : HashFn[k] % Cardinality(DOMAIN t) \in DOMAIN t
  <2> TAKE k \in Keys
  <2>1. HashFn[k] \in Nat
    BY HashAssumption
  <2>2. HashFn[k] % sz \in 0..sz - 1
    BY <1>4, <2>1
  <2> QED  BY <1>4, <1>5, <2>2
<1>7. \A b \in DOMAIN t : \A i \in 1..Len(ch[b]) : ch[b][i] \in DOMAIN hp
  BY <1>3, ChainIs
<1>8. \A y \in DOMAIN hp : hp[y].value \in Vals
  BY <1>2 DEF Cells, Vals
<1> QED
  BY <1>3, <1>6, <1>7, <1>8 DEF Tidy, Shape

LEMMA MapIs ==
  ASSUME NEW ch, Core(ch)
  PROVE  DM = DMap(table, heap, ch) /\ Tidy(table, heap, ch) /\ Shape(table, heap, ch)
<1>1. CoreBits(table, heap, ch)
  BY DEF Core, CoreBits, Chained, Live
<1>2. Tidy(table, heap, ch)
  BY <1>1, TidyIf
<1>3. DM = [k \in Keys |->
              StackOf(heap, Walk(heap, table[HashFn[k] % Cardinality(DOMAIN table)]), k)]
  BY DEF DM, Stack, StackOf, Chain, Idx, Slots
<1>4. Shape(table, heap, ch)
  BY <1>1 DEF CoreBits
<1> QED
  BY <1>2, <1>3, <1>4, MapOf DEF Tidy

LEMMA MapNext ==
  ASSUME NEW ch, Core(ch)'
  PROVE  DM' = DMap(table', heap', ch) /\ Tidy(table', heap', ch)
<1>1. CoreBits(table', heap', ch)
  BY DEF Core, CoreBits, Chained, Live
<1>2. Tidy(table', heap', ch)
  BY <1>1, TidyIf
<1>3. DM' = [k \in Keys |->
              StackOf(heap', Walk(heap', table'[HashFn[k] % Cardinality(DOMAIN table')]), k)]
  BY DEF DM, Stack, StackOf, Chain, Idx, Slots
<1>4. Shape(table', heap', ch)
  BY <1>1 DEF CoreBits
<1> QED
  BY <1>2, <1>3, <1>4, MapOf DEF Tidy

\* The step of Dict, written about DM.
LEMMA Stays ==
  ASSUME NEW ch, Core(ch), Core(ch)', NEW S, Keeps(heap, heap', S),
         \A b \in Slots : \A i \in 1..Len(ch[b]) : ch[b][i] \in S, DOMAIN table' = DOMAIN table
  PROVE  DM' = DM
<1>1. DM = DMap(table, heap, ch) /\ Tidy(table, heap, ch) /\ DM' = DMap(table', heap', ch)
  BY MapIs, MapNext
<1>2. \A k \in Keys : St(table', heap', ch, k) = St(table, heap, ch, k)
  <2> TAKE k \in Keys
  <2> DEFINE a == HashFn[k] % Cardinality(DOMAIN table)
             c == ch[a]
  <2>1. a \in DOMAIN table /\ a \in Slots
    BY <1>1 DEF Tidy, Slots
  <2>2. Len(c) \in Nat
    BY <1>1, <2>1, TidyHolds
  <2>3. \A i \in 1..Len(c) : c[i] \in S
    BY <2>1
  <2>4. St(table', heap', ch, k) = StackOf(heap', c, k) /\ St(table, heap, ch, k) = StackOf(heap, c, k)
    BY DEF St, At
  <2> HIDE DEF c
  <2>5. \A kk : StackOf(heap', c, kk) = StackOf(heap, c, kk)
    BY <2>2, <2>3, KeptStack
  <2> QED  BY <2>4, <2>5
<1> QED
  BY <1>1, <1>2 DEF DMap

\* A traversal meets the values of a key in the order of their chain.
LEMMA TraversalStack ==
  ASSUME NEW ch, Core(ch), NEW k \in Keys
  PROVE  Holds(heap, Traversal) /\ StackOf(heap, Traversal, k) = StackOf(heap, ch[Idx(k)], k)
<1> DEFINE C == Cardinality(Slots)
           a == Idx(k)
<1>1. C \in Nat \ {0} /\ Slots = 0..C - 1 /\ a \in Slots
  BY CoreIs, SlotsAre
<1>2. PICK w : Joins(w, C) /\ Traversal = w[C]
  BY CoreIs, TraversalUnfolds
<1>3. \A n \in 0..C : w[n] = Join(w, n)
  BY <1>2 DEF Joins
<1>4. \A n \in Slots : Holds(heap, ch[n]) /\ StackOf(heap, ch[n], k) \in Seq(Vals)
  BY MapIs, TidyHolds DEF Slots
<1>5. \A n \in Slots : n # a => StackOf(heap, ch[n], k) = <<>>
  <2> SUFFICES ASSUME NEW n \in Slots, n # a PROVE StackOf(heap, ch[n], k) = <<>>
    OBVIOUS
  <2> DEFINE c == ch[n]
  <2>1. Len(c) \in Nat /\ \A i \in 1..Len(c) : Placed1(table, heap, n, c[i])
    BY ChainOf
  <2>2. \A i \in 1..Len(c) : heap[c[i]].key # k
    BY <2>1 DEF Placed1, Idx, Slots
  <2> HIDE DEF c
  <2>3. StackOf(heap, c, k) = <<>>
    BY <2>1, <2>2, StackNone
  <2> QED  BY <2>3 DEF c
<1> HIDE DEF C, a
<1> DEFINE A == StackOf(heap, ch[a], k)
           T == {n \in Nat : n <= C => /\ Holds(heap, w[n])
                                     /\ StackOf(heap, w[n], k) = IF a < n THEN A ELSE <<>>}
<1>6. 0 \in T
  <2>1. w[0] = <<>>
    BY <1>1, <1>3 DEF Join
  <2>2. <<>> \in Seq(Items) /\ Len(<<>>) = 0
    BY EmptySeq
  <2>3. Holds(heap, <<>>)
    BY <2>2 DEF Holds
  <2>4. ~(a < 0)
    BY <1>1
  <2> QED  BY <2>1, <2>3, <2>4, StackEmpty
<1>7. ASSUME NEW n \in T PROVE n + 1 \in T
  <2> SUFFICES ASSUME n + 1 <= C
               PROVE  /\ Holds(heap, w[n + 1])
                      /\ StackOf(heap, w[n + 1], k) = IF a < n + 1 THEN A ELSE <<>>
    OBVIOUS
  <2>1. n \in Slots /\ n <= C /\ n + 1 \in 0..C /\ n + 1 # 0 /\ (n + 1) - 1 = n
    BY <1>1
  <2>2. Holds(heap, w[n]) /\ StackOf(heap, w[n], k) = IF a < n THEN A ELSE <<>>
    BY <2>1
  <2>3. w[n + 1] = w[n] \o ch[n]
    <3>1. Chain(n) = ch[n]
      BY <2>1, ChainOf
    <3>2. w[n + 1] = Join(w, n + 1)
      BY <1>3, <2>1
    <3> HIDE DEF T
    <3>3. Join(w, n + 1) = w[n] \o Chain(n)
      BY <2>1 DEF Join
    <3> QED  BY <3>1, <3>2, <3>3
  <2> DEFINE u == w[n]
             c == ch[n]
             s == StackOf(heap, u, k)
             t == StackOf(heap, c, k)
  <2>4. Holds(heap, u) /\ Holds(heap, c)
    BY <1>4, <2>1, <2>2
  <2>5. A \in Seq(Vals) /\ t \in Seq(Vals)
    BY <1>1, <1>4, <2>1
  <2>6. n # a => t = <<>>
    BY <1>5, <2>1
  <2>7. n = a => t = A
    OBVIOUS
  <2>8. s = IF a < n THEN A ELSE <<>>
    BY <2>2
  <2> HIDE DEF u, c, A, T
  <2>9. StackOf(heap, u \o c, k) = s \o t /\ Holds(heap, u \o c)
    BY <2>4, StackConcat
  <2> HIDE DEF s, t
  <2>10. s \o t = IF a < n + 1 THEN A ELSE <<>>
    <3>1. A \o <<>> = A /\ <<>> \o A = A /\ <<>> \o <<>> = <<>>
      BY <2>5, ConcatEmptySeq, EmptySeq
    <3>2. n \in Nat /\ a \in Nat
      BY <1>1, <2>1
    <3>3. CASE a < n
      <4>1. t = <<>> /\ s = A /\ a < n + 1
        BY <2>6, <2>8, <3>2, <3>3
      <4> QED  BY <3>1, <4>1
    <3>4. CASE a = n
      <4>1. t = A /\ s = <<>> /\ a < n + 1
        BY <2>7, <2>8, <3>2, <3>4
      <4> QED  BY <3>1, <4>1
    <3>5. CASE n < a
      <4>1. t = <<>> /\ s = <<>> /\ ~(a < n + 1)
        BY <2>6, <2>8, <3>2, <3>5
      <4> QED  BY <3>1, <4>1
    <3> QED  BY <3>2, <3>3, <3>4, <3>5
  <2> QED  BY <2>3, <2>9, <2>10 DEF u, c
<1>8. T = Nat
  <2> HIDE DEF T
  <2> QED  BY <1>6, <1>7, Induction DEF T
<1>9. Holds(heap, w[C]) /\ StackOf(heap, w[C], k) = IF a < C THEN A ELSE <<>>
  BY <1>1, <1>8
<1>10. a < C
  BY <1>1
<1> QED
  BY <1>2, <1>9, <1>10 DEF A, a

\* A sequence the other way round.
Turned(s) == [i \in 1..Len(s) |-> s[(Len(s) - i) + 1]]

LEMMA TurnedOne ==
  ASSUME NEW V, NEW s \in Seq(V), NEW u \in V
  PROVE  Turned(s \o <<u>>) = <<u>> \o Turned(s) /\ Turned(s) \in Seq(V)
<1> DEFINE n == Len(s)
           o == <<u>>
           p == s \o o
           t == Turned(s)
<1>1. n \in Nat /\ (\A i \in 1..n : s[i] \in V) /\ o \in Seq(V) /\ Len(o) = 1 /\ o[1] = u
  BY LenProperties, ElementOfSeq
<1>2. /\ t \in Seq(V) /\ Len(t) = n /\ \A i \in 1..n : t[i] = s[(n - i) + 1]
  <2>1. \A i \in 1..n : (n - i) + 1 \in 1..n
    BY <1>1
  <2>2. t \in [1..n -> V] /\ \A i \in 1..n : t[i] = s[(n - i) + 1]
    BY <1>1, <2>1 DEF Turned
  <2> HIDE DEF t, n
  <2> QED  BY <1>1, <2>2, FunIsSeq
<1> HIDE DEF o, t
<1>3. /\ p \in Seq(V) /\ Len(p) = n + 1
      /\ \A i \in 1..n + 1 : p[i] = IF i <= n THEN s[i] ELSE u
  <2>1. /\ p \in Seq(V) /\ Len(p) = Len(s) + Len(o)
        /\ \A i \in 1..Len(s) + Len(o) : p[i] = IF i <= Len(s) THEN s[i] ELSE o[i - Len(s)]
    BY <1>1, ConcatProperties
  <2>2. \A i \in 1..n + 1 : ~(i <= n) => i - n = 1
    BY <1>1
  <2> HIDE DEF p
  <2> QED  BY <1>1, <2>1, <2>2
<1> HIDE DEF p
<1>4. o \o t = Prefixed(u, t) /\ Prefixed(u, t) \in Seq(V) /\ Len(Prefixed(u, t)) = Len(t) + 1
  BY <1>2, PrefixedIs DEF o
<1>5. Turned(p) = Prefixed(u, t)
  <2>1. ASSUME NEW i \in 1..n + 1
        PROVE  p[((n + 1) - i) + 1] = IF i = 1 THEN u ELSE t[i - 1]
    <3>1. ((n + 1) - i) + 1 \in 1..n + 1
      BY <1>1
    <3>2. CASE i = 1
      <4>1. ((n + 1) - i) + 1 = n + 1 /\ ~(n + 1 <= n) /\ n + 1 \in 1..n + 1
        BY <1>1, <3>2
      <4> QED  BY <1>3, <3>2, <4>1
    <3>3. CASE i # 1
      <4>1. i - 1 \in 1..n /\ ((n + 1) - i) + 1 <= n /\ ((n + 1) - i) + 1 = (n - (i - 1)) + 1
        BY <1>1, <3>3
      <4>2. t[i - 1] = s[(n - (i - 1)) + 1]
        BY <1>2, <4>1
      <4>3. p[((n + 1) - i) + 1] = s[((n + 1) - i) + 1]
        BY <1>3, <3>1, <4>1
      <4> QED  BY <3>3, <4>1, <4>2, <4>3
    <3> QED  BY <3>2, <3>3
  <2> HIDE DEF n
  <2> QED  BY <1>2, <1>3, <2>1 DEF Turned, Prefixed
<1> QED
  BY <1>2, <1>4, <1>5 DEF p, o, t

LEMMA TurnedEmpty == Turned(<<>>) = <<>>
<1>1. Len(<<>>) = 0 /\ 1..0 = {}
  OBVIOUS
<1>2. DOMAIN Turned(<<>>) = 1..0 /\ Turned(<<>>) = [i \in 1..0 |-> 0]
  BY <1>1 DEF Turned
<1>3. Turned(<<>>) \in Seq({0}) /\ Len(Turned(<<>>)) = 0
  <2> DEFINE f == [i \in 1..0 |-> 0]
  <2>1. f \in [1..0 -> {0}] /\ 0 \in Nat
    OBVIOUS
  <2>2. Turned(<<>>) = f
    BY <1>2
  <2> HIDE DEF f
  <2>3. f \in Seq({0}) /\ Len(f) = 0
    BY <2>1, FunIsSeq
  <2> QED  BY <2>2, <2>3
<1> DEFINE e == Turned(<<>>)
<1>4. e \in Seq({0}) /\ Len(e) = 0
  BY <1>3
<1> HIDE DEF e
<1>5. e = <<>>
  BY <1>4, EmptySeq
<1> QED
  BY <1>5 DEF e

-----------------------------------------------------------------------------
(* hash_rehash *)

NewCell(x, sz) == Cell(HashFn[heap[x].key] % sz, NULL, heap[x].key, heap[x].value)

Relink(w, seq, sz, n) ==
    IF n = 0 THEN [table |-> EmptyTable(sz), heap |-> heap]
    ELSE LinkFirst(w[n - 1], seq[n], HashFn[heap[seq[n]].key] % sz, NewCell(seq[n], sz))
Relinks(w, seq, sz, m) == w = [n \in 0..m |-> Relink(w, seq, sz, n)]

LEMMA RelinksExist ==
  ASSUME NEW seq, NEW sz, NEW n \in Nat
  PROVE  \E w : Relinks(w, seq, sz, n)
<1> DEFINE T == {m \in Nat : \E w : Relinks(w, seq, sz, m)}
<1>1. 0 \in T
  <2> DEFINE w == [i \in 0..0 |-> Relink(<<>>, seq, sz, i)]
  <2>1. \A i \in 0..0 : Relink(<<>>, seq, sz, i) = Relink(w, seq, sz, i)
    BY DEF Relink
  <2>2. Relinks(w, seq, sz, 0)
    BY <2>1 DEF Relinks
  <2> QED  BY <2>2
<1>2. ASSUME NEW m \in T PROVE m + 1 \in T
  <2>1. PICK w : Relinks(w, seq, sz, m)
    OBVIOUS
  <2> DEFINE v == [i \in 0..m + 1 |-> Relink(w, seq, sz, i)]
  <2>2. \A i \in 0..m : v[i] = w[i]
    BY <2>1 DEF Relinks
  <2>3. ASSUME NEW i \in 0..m + 1 PROVE Relink(w, seq, sz, i) = Relink(v, seq, sz, i)
    <3>1. i # 0 => i - 1 \in 0..m
      OBVIOUS
    <3>2. i # 0 => v[i - 1] = w[i - 1]
      BY <2>2, <3>1
    <3> HIDE DEF v
    <3> QED
      BY <3>2 DEF Relink
  <2>4. Relinks(v, seq, sz, m + 1)
    BY <2>3 DEF Relinks
  <2> QED  BY <2>4
<1>3. T = Nat
  <2> HIDE DEF T
  <2> QED  BY <1>1, <1>2, Induction DEF T
<1> QED
  BY <1>3

LEMMA RelinkedUnfolds ==
  ASSUME NEW seq, NEW sz, Len(seq) \in Nat
  PROVE  \E w : Relinks(w, seq, sz, Len(seq)) /\ Relinked(seq, sz) = w[Len(seq)]
<1>1. \E w : Relinks(w, seq, sz, Len(seq))
  BY RelinksExist
<1> DEFINE w == CHOOSE w : Relinks(w, seq, sz, Len(seq))
<1>2. Relinks(w, seq, sz, Len(seq))
  BY <1>1
<1>3. Relinked(seq, sz) = w[Len(seq)]
  BY DEF Relinked, Relinks, Relink, NewCell
<1> QED
  BY <1>2, <1>3

\* The first n items of seq hang from q, a table of sz slots, in chains c.
Hangs(q, c, seq, sz, bs, n) ==
    /\ DOMAIN q.table = 0..sz - 1 /\ q.table \in [DOMAIN q.table -> X]
    /\ DOMAIN q.heap = Live /\ q.heap \in [DOMAIN q.heap -> Cells(bs)]
    /\ Shape(q.table, q.heap, c) /\ Linked(q.table, q.heap, c, {})
    /\ \A x \in Items : x \in On(q.table, c) <=> \E i \in 1..n : seq[i] = x
    /\ \A y \in Live : q.heap[y].key = heap[y].key /\ q.heap[y].value = heap[y].value

LEMMA HangsOn ==
  ASSUME TypeOK, NEW sz \in Sizes, NEW bs, bs = Buckets \cup 0..sz - 1,
         NEW seq \in Seq(Items), Once(seq), \A i \in 1..Len(seq) : seq[i] \in Live,
         NEW n \in 1..Len(seq), NEW q, NEW c, Hangs(q, c, seq, sz, bs, n - 1),
         NEW r, r = LinkFirst(q, seq[n], HashFn[heap[seq[n]].key] % sz, NewCell(seq[n], sz))
  PROVE  /\ Hangs(r, Pushed(c, HashFn[heap[seq[n]].key] % sz, seq[n]), seq, sz, bs, n)
         /\ HashFn[heap[seq[n]].key] % sz \in 0..sz - 1 /\ Cardinality(0..sz - 1) = sz
         /\ heap[seq[n]].value \in Vals /\ seq[n] \in Items
<1> DEFINE x == seq[n]
           b == HashFn[heap[x].key] % sz
           cl == NewCell(x, sz)
<1>1. /\ sz \in Nat \ {0} /\ Len(seq) \in Nat /\ n \in Nat /\ x \in Live /\ x \in Items
      /\ heap[x].key \in Keys /\ heap[x].value \in Values \cup {NoValue}
      /\ Live \subseteq Items
  <2>1. sz \in Nat \ {0} /\ Len(seq) \in Nat /\ n \in Nat /\ x \in Live
    <3>1. Len(seq) \in Nat
      BY LenProperties
    <3>2. sz \in Nat \ {0}
      BY HashAssumption
    <3>3. x \in Live
      OBVIOUS
    <3> QED  BY <3>1, <3>2, <3>3
  <2>2. /\ DOMAIN heap \subseteq Items
        /\ \A i \in DOMAIN heap : heap[i].key \in Keys /\ heap[i].value \in Values \cup {NoValue}
    BY DEF TypeOK
  <2> HIDE DEF x
  <2>3. Live \subseteq Items /\ heap[x].key \in Keys /\ heap[x].value \in Values \cup {NoValue}
    BY <2>1, <2>2 DEF Live
  <2>4. x \in Items
    BY <2>1, <2>3
  <2> QED  BY <2>1, <2>3, <2>4
<1>2. b \in 0..sz - 1
  <2>1. HashFn[heap[x].key] \in Nat
    BY <1>1, HashAssumption
  <2> QED  BY <1>1, <2>1
<1>3. /\ cl \in Cells(bs) /\ cl.prev = NULL /\ cl.bucket = b
      /\ cl.key = heap[x].key /\ cl.value = heap[x].value
  BY <1>1, <1>2 DEF NewCell, Cell, Cells
<1>4. Cardinality(0..sz - 1) = sz
  <2>1. 0 \in Int /\ sz - 1 \in Int /\ ~(0 > sz - 1) /\ (sz - 1) - 0 + 1 = sz
    BY <1>1
  <2> QED  BY <2>1, FS_Interval
<1> HIDE DEF x, b, cl
<1>5. x \notin On(q.table, c)
  <2>1. \A i \in 1..n - 1 : i \in 1..Len(seq) /\ i # n
    BY <1>1
  <2>2. \A i \in 1..n - 1 : seq[i] # x
    BY <2>1 DEF Once, x
  <2> QED  BY <1>1, <2>2 DEF Hangs
<1>6. /\ DOMAIN q.table = 0..sz - 1 /\ q.table \in [DOMAIN q.table -> X]
      /\ DOMAIN q.heap = Live /\ q.heap \in [DOMAIN q.heap -> Cells(bs)]
      /\ Shape(q.table, q.heap, c) /\ Linked(q.table, q.heap, c, {})
      /\ \A y \in Items : y \in On(q.table, c) <=> \E i \in 1..n - 1 : seq[i] = y
      /\ \A y \in Live : q.heap[y].key = heap[y].key /\ q.heap[y].value = heap[y].value
  BY DEF Hangs
<1>7. HashFn[cl.key] % Cardinality(DOMAIN q.table) = b
  BY <1>3, <1>4, <1>6 DEF b
<1>8. Fits(q, c, {}, {}, bs, b, x, cl)
  BY <1>1, <1>2, <1>3, <1>5, <1>6, <1>7 DEF Fits, Buckets
<1>9. Fitted(q, r, c, {}, bs, b, x, cl)
  <2>1. r = LinkFirst(q, x, b, cl)
    BY DEF x, b, cl
  <2> QED  BY <1>8, <2>1, LinkFirstIs
<1> DEFINE d == Pushed(c, b, x)
<1>10. /\ DOMAIN r.table = 0..sz - 1 /\ r.table \in [DOMAIN r.table -> X]
       /\ DOMAIN r.heap = Live /\ r.heap \in [DOMAIN r.heap -> Cells(bs)]
       /\ Shape(r.table, r.heap, d) /\ Linked(r.table, r.heap, d, {})
       /\ On(r.table, d) = On(q.table, c) \cup {x}
       /\ r.heap[x].key = cl.key /\ r.heap[x].value = cl.value
       /\ \A y \in Live \ {x} :
            r.heap[y].key = q.heap[y].key /\ r.heap[y].value = q.heap[y].value
  BY <1>1, <1>6, <1>9 DEF Fitted
<1> HIDE DEF d
<1>11. \A y \in Live : r.heap[y].key = heap[y].key /\ r.heap[y].value = heap[y].value
  BY <1>3, <1>6, <1>10
<1>12. \A y \in Items : y \in On(r.table, d) <=> \E i \in 1..n : seq[i] = y
  <2>1. \A i \in 1..n : i = n \/ i \in 1..n - 1
    BY <1>1
  <2>2. \A i \in 1..n - 1 : i \in 1..n
    BY <1>1
  <2>3. n \in 1..n
    BY <1>1
  <2> QED  BY <1>6, <1>10, <2>1, <2>2, <2>3 DEF x
<1>13. Hangs(r, d, seq, sz, bs, n)
  BY <1>10, <1>11, <1>12 DEF Hangs
<1> QED
  BY <1>1, <1>2, <1>4, <1>13 DEF d, x, b, Vals

\* Of the first n items of seq, chains c have the values the other way round.
Stacked(q, c, seq, n) ==
    \A k \in Keys : St(q.table, q.heap, c, k) = Turned(StackOf(heap, SubSeq(seq, 1, n), k))

GoesTo(x, sz, b) == HashFn[heap[x].key] % sz = b

LEMMA StackedOn ==
  ASSUME TypeOK, NEW sz \in Sizes, NEW bs,
         NEW seq, Holds(heap, seq), NEW n \in 1..Len(seq), \A i \in 1..Len(seq) : seq[i] \in Live,
         NEW q, NEW c, Hangs(q, c, seq, sz, bs, n - 1), Stacked(q, c, seq, n - 1),
         NEW b \in 0..sz - 1, GoesTo(seq[n], sz, b), Cardinality(0..sz - 1) = sz,
         NEW r, Hangs(r, Pushed(c, b, seq[n]), seq, sz, bs, n)
  PROVE  Stacked(r, Pushed(c, b, seq[n]), seq, n)
<1> DEFINE x == seq[n]
           d == Pushed(c, b, x)
           p == SubSeq(seq, 1, n - 1)
           pp == SubSeq(seq, 1, n)
<1>1. /\ seq \in Seq(Items) /\ Len(seq) \in Nat /\ n \in Nat /\ x \in Items /\ x \in Live
      /\ heap[x].value \in Vals
  <2>1. seq \in Seq(Items) /\ \A i \in 1..Len(seq) : heap[seq[i]].value \in Vals
    BY DEF Holds
  <2>2. Len(seq) \in Nat /\ x \in Items
    BY <2>1, LenProperties, ElementOfSeq
  <2> QED  BY <2>1, <2>2
<1>2. Holds(heap, p)
  <2>1. \A i \in 1..n - 1 : i \in 1..Len(seq) /\ seq[i] \in Items
    BY <1>1, ElementOfSeq
  <2>2. /\ p \in Seq(Items) /\ Len(p) = (IF 1 <= n - 1 THEN (n - 1) - 1 + 1 ELSE 0)
        /\ \A i \in 1..(n - 1) - 1 + 1 : p[i] = seq[1 + i - 1]
    <3>1. 1 \in Int /\ n - 1 \in Int /\ \A i \in 1..n - 1 : seq[i] \in Items
      BY <1>1, <2>1
    <3> QED  BY <3>1, SubSeqProperties
  <2>3. Len(p) = n - 1 /\ \A i \in 1..n - 1 : p[i] = seq[i]
    BY <1>1, <2>2
  <2> HIDE DEF p
  <2> QED  BY <2>1, <2>2, <2>3 DEF Holds
<1>3. pp = p \o <<x>>
  <2>1. 1 \in 1..Len(seq) /\ n \in 1..Len(seq)
    BY <1>1
  <2> QED  BY <1>1, <2>1, SubSeqRecursiveSecond
<1>4. /\ DOMAIN q.table = 0..sz - 1 /\ q.table \in [DOMAIN q.table -> X]
      /\ DOMAIN q.heap = Live /\ q.heap \in [DOMAIN q.heap -> Cells(bs)]
      /\ Shape(q.table, q.heap, c)
      /\ \A y \in Live : q.heap[y].key = heap[y].key /\ q.heap[y].value = heap[y].value
  BY DEF Hangs
<1>5. /\ DOMAIN r.table = 0..sz - 1
      /\ \A y \in Live : r.heap[y].key = heap[y].key /\ r.heap[y].value = heap[y].value
  BY DEF Hangs
<1>6. Tidy(q.table, q.heap, c)
  <2>1. q.table \in [0..sz - 1 -> X]
    BY <1>4
  <2>2. CoreBits(q.table, q.heap, c)
    BY <1>4, <2>1 DEF CoreBits
  <2> QED  BY <2>2, TidyIf
<1> HIDE DEF x, d, p, pp
<1>7. ASSUME NEW k \in Keys
      PROVE  St(r.table, r.heap, d, k) = Turned(StackOf(heap, pp, k))
  <2> DEFINE t == q.table
             hp == q.heap
             t2 == r.table
             hp2 == r.heap
             s == StackOf(heap, p, k)
  <2>1. /\ Tidy(t, hp, c) /\ DOMAIN t2 = DOMAIN t /\ b \in DOMAIN t
        /\ HashFn[hp2[x].key] % Cardinality(DOMAIN t) = b /\ hp2[x].value \in Vals
    <3>1. hp2[x].key = heap[x].key /\ hp2[x].value = heap[x].value
      BY <1>1, <1>5
    <3>2. HashFn[heap[x].key] % sz = b
      BY DEF GoesTo, x
    <3>3. DOMAIN t = 0..sz - 1 /\ DOMAIN t2 = 0..sz - 1
      BY <1>4, <1>5
    <3> HIDE DEF t, hp, t2, hp2
    <3>4. HashFn[hp2[x].key] % Cardinality(DOMAIN t) = b
      BY <3>1, <3>2, <3>3
    <3>5. hp2[x].value \in Vals
      BY <1>1, <3>1
    <3>6. Tidy(t, hp, c)
      BY <1>6 DEF t, hp
    <3> QED  BY <3>3, <3>4, <3>5, <3>6
  <2>2. Keeps(hp, hp2, DOMAIN hp)
    BY <1>4, <1>5 DEF Keeps
  <2>3. hp2[x].key = heap[x].key /\ hp2[x].value = heap[x].value
    BY <1>1, <1>5
  <2>4. St(t, hp, c, k) = Turned(s)
    BY DEF Stacked, p
  <2> HIDE DEF t, hp, t2, hp2, s
  <2>5. St(t2, hp2, d, k) = One(hp2, x, k) \o St(t, hp, c, k)
    <3>1. St(t2, hp2, Pushed(c, b, x), k) = One(hp2, x, k) \o St(t, hp, c, k)
      <4>1. x \in Items
        BY <1>1
      <4> QED  BY <4>1, <2>1, <2>2, PushStack
    <3> QED  BY <3>1 DEF d
  <2>6. One(hp2, x, k) = One(heap, x, k)
    BY <2>3 DEF One
  <2>7. StackOf(heap, pp, k) = s \o One(heap, x, k)
    BY <1>1, <1>2, <1>3, StackSnoc DEF s
  <2>8. s \in Seq(Vals)
    BY <1>2, StackIsSeq DEF s
  <2>9. CASE heap[x].key = k
    <3> DEFINE v == heap[x].value
    <3>1. One(heap, x, k) = <<v>>
      BY <2>9 DEF One
    <3>2. v \in Vals
      BY <1>1
    <3> HIDE DEF v
    <3>3. Turned(s \o <<v>>) = <<v>> \o Turned(s)
      BY <2>8, <3>2, TurnedOne
    <3>4. St(t2, hp2, d, k) = Turned(StackOf(heap, pp, k))
      BY <2>4, <2>5, <2>6, <2>7, <3>1, <3>3
    <3> QED  BY <3>4 DEF t2, hp2
  <2>10. CASE heap[x].key # k
    <3>1. One(heap, x, k) = <<>>
      BY <2>10 DEF One
    <3>2. Turned(s) \in Seq(Vals)
      BY <1>1, <2>8, TurnedOne
    <3>3. s \o <<>> = s /\ <<>> \o Turned(s) = Turned(s)
      BY <2>8, <3>2, ConcatEmptySeq
    <3>4. St(t2, hp2, d, k) = Turned(StackOf(heap, pp, k))
      BY <2>4, <2>5, <2>6, <2>7, <3>1, <3>3
    <3> QED  BY <3>4 DEF t2, hp2
  <2> QED  BY <2>9, <2>10
<1> QED
  BY <1>7 DEF Stacked, d, pp, x

LEMMA HangsAll ==
  ASSUME NEW ch, Core(ch), NEW sz \in Sizes
  PROVE  \E c : /\ Hangs(Relinked(Traversal, sz), c, Traversal, sz, Buckets \cup 0..sz - 1,
                         Len(Traversal))
                /\ Stacked(Relinked(Traversal, sz), c, Traversal, Len(Traversal))
<1> DEFINE seq == Traversal
           n == Len(seq)
           bs == Buckets \cup 0..sz - 1
<1>1. /\ TypeOK /\ seq \in Seq(Items) /\ Once(seq) /\ n \in Nat
      /\ \A i \in 1..n : seq[i] \in Live
  BY CoreIs, TraversalIs
<1>2. PICK w : Relinks(w, seq, sz, n) /\ Relinked(seq, sz) = w[n]
  BY <1>1, RelinkedUnfolds
<1>3. \A i \in 0..n : w[i] = Relink(w, seq, sz, i)
  BY <1>2 DEF Relinks
<1>9. Holds(heap, seq)
  <2>1. \A i \in 1..n : heap[seq[i]].value \in Vals
    BY <1>1 DEF TypeOK, Vals
  <2> HIDE DEF seq
  <2> QED  BY <1>1, <2>1 DEF Holds
<1> HIDE DEF seq, n, bs
<1> DEFINE T == {i \in Nat : i <= n => \E c : Hangs(w[i], c, seq, sz, bs, i)
                                            /\ Stacked(w[i], c, seq, i)}
<1>4. 0 \in T
  <2> DEFINE q == w[0]
             e == Empty(0..sz - 1)
  <2>1. q = [table |-> EmptyTable(sz), heap |-> heap]
    BY <1>1, <1>3 DEF Relink, n
  <2>2. /\ q.heap = heap /\ DOMAIN q.table = 0..sz - 1 /\ \A b \in 0..sz - 1 : q.table[b] = NULL
        /\ q.table \in [0..sz - 1 -> X]
    BY <2>1 DEF EmptyTable, X
  <2>3. /\ Shape(q.table, q.heap, e) /\ Linked(q.table, q.heap, e, {}) /\ On(q.table, e) = {}
    BY <2>2, EmptyIs
  <2>4. heap \in [DOMAIN heap -> Cells(bs)]
    BY DEF Core, Cells, bs, Live
  <2> HIDE DEF q
  <2>5. Hangs(q, e, seq, sz, bs, 0)
    <3> HIDE DEF e
    <3> QED  BY <2>2, <2>3, <2>4 DEF Hangs, Live
  <2>6. Stacked(q, e, seq, 0)
    <3>1. Tidy(q.table, q.heap, e)
      <4>1. CoreBits(q.table, q.heap, e)
        BY <2>2, <2>3, <2>4 DEF CoreBits
      <4> QED  BY <4>1, TidyIf
    <3>2. SubSeq(seq, 1, 0) = <<>>
      BY SubSeqEmpty
    <3>3. ASSUME NEW k \in Keys PROVE St(q.table, q.heap, e, k) = <<>>
      <4>1. At(q.table, e, k) = <<>>
        BY <2>2, <3>1 DEF At, Empty, Tidy
      <4> QED  BY <4>1, StackEmpty DEF St
    <3> QED  BY <3>2, <3>3, StackEmpty, TurnedEmpty DEF Stacked
  <2> QED  BY <2>5, <2>6 DEF q
<1>5. ASSUME NEW i \in T PROVE i + 1 \in T
  <2> SUFFICES ASSUME i + 1 <= n
               PROVE  \E c : Hangs(w[i + 1], c, seq, sz, bs, i + 1) /\ Stacked(w[i + 1], c, seq, i + 1)
    OBVIOUS
  <2>1. i + 1 \in 1..n /\ i + 1 \in 0..n /\ i + 1 # 0 /\ (i + 1) - 1 = i /\ i <= n /\ i \in 0..n
    BY <1>1 DEF n
  <2>2. PICK c : Hangs(w[i], c, seq, sz, bs, i) /\ Stacked(w[i], c, seq, i)
    BY <2>1
  <2> DEFINE j == i + 1
  <2>3. j \in 1..Len(seq) /\ j - 1 = i /\ j # 0
    BY <2>1 DEF n
  <2>4. w[j] = Relink(w, seq, sz, j)
    BY <1>3, <2>1
  <2> HIDE DEF j, T
  <2>5. w[j] = LinkFirst(w[i], seq[j], HashFn[heap[seq[j]].key] % sz, NewCell(seq[j], sz))
    BY <2>3, <2>4 DEF Relink
  <2>6. Hangs(w[i], c, seq, sz, bs, j - 1)
    BY <2>2, <2>3
  <2>7. \A k \in 1..Len(seq) : seq[k] \in Live
    BY <1>1 DEF n
  <2>8. seq \in Seq(Items) /\ Once(seq)
    BY <1>1
  <2>9. bs = Buckets \cup 0..sz - 1
    BY DEF bs
  <2> DEFINE b == HashFn[heap[seq[j]].key] % sz
             d == Pushed(c, b, seq[j])
  <2>10. Hangs(w[j], d, seq, sz, bs, j) /\ b \in 0..sz - 1 /\ Cardinality(0..sz - 1) = sz
    BY <1>1, <2>3, <2>5, <2>6, <2>7, <2>8, <2>9, HangsOn
  <2>11. Stacked(w[i], c, seq, j - 1)
    BY <2>2, <2>3
  <2>12. GoesTo(seq[j], sz, b)
    BY DEF GoesTo
  <2> HIDE DEF b
  <2>13. Stacked(w[j], d, seq, j)
    BY <1>1, <1>9, <2>3, <2>6, <2>7, <2>10, <2>11, <2>12, StackedOn
  <2> QED  BY <2>10, <2>13 DEF j
<1>6. T = Nat
  <2> HIDE DEF T
  <2> QED  BY <1>4, <1>5, Induction DEF T
<1>7. n \in T /\ n <= n
  BY <1>1, <1>6 DEF n
<1>8. \E c : Hangs(w[n], c, seq, sz, bs, n) /\ Stacked(w[n], c, seq, n)
  BY <1>7
<1> QED
  BY <1>2, <1>8 DEF seq, n, bs

LEMMA RehashCore ==
  ASSUME NEW ch, Core(ch), NEW sz \in Sizes, Rehash(sz)
  PROVE  /\ \E c : /\ Core(c)'
                   /\ \/ UNCHANGED <<table, heap>>
                      \/ \A k \in Keys :
                           St(table', heap', c, k) = Turned(StackOf(heap, Traversal, k))
         /\ st' = "assert rehash" => leaked' # {}
         /\ st' \in {st, "assert rehash"}
<1> DEFINE seq == Traversal
           n == Len(seq)
           R == On(table, ch)
<1>1. /\ TypeOK /\ IsFiniteSet(Live) /\ R \subseteq Live
      /\ \A i \in 1..n : seq[i] \in R
      /\ \A x \in R : \E i \in 1..n : seq[i] = x
      /\ n = Cardinality(R)
  BY CoreIs, TraversalIs
<1>2. elnum = Cardinality(Live) /\ Live = R \cup leaked /\ R \cap leaked = {}
  BY DEF Core, Chained
<1>3. elnum' = elnum /\ leaked' = leaked
  BY DEF Rehash
<1> HIDE DEF seq, n, R
<1>4. CASE n # elnum
  <2>1. st' = "assert rehash" /\ UNCHANGED <<table, heap, suspect>>
    BY <1>4 DEF Rehash, seq, n
  <2>2. leaked # {}
    BY <1>1, <1>2, <1>4
  <2>3. Core(ch)'
    <3>1. st' \in Sts /\ Live' = Live /\ Slots' = Slots
      BY <2>1 DEF Sts, Live, Slots
    <3> QED  BY <1>3, <2>1, <3>1 DEF Core, Chained, Buckets
  <2> QED  BY <1>3, <2>1, <2>2, <2>3
<1>5. CASE n = elnum
  <2> DEFINE q == Relinked(seq, sz)
             bs == Buckets \cup 0..sz - 1
  <2>1. table' = q.table /\ heap' = q.heap /\ suspect' = {} /\ st' = st
    BY <1>5 DEF Rehash, seq, n
  <2>2. R = Live /\ leaked = {}
    <3>1. R = Live
      BY <1>1, <1>2, <1>5, FS_Subset
    <3> QED  BY <1>2, <3>1
  <2>3. PICK c : Hangs(q, c, seq, sz, bs, n) /\ Stacked(q, c, seq, n)
    BY HangsAll DEF seq, n
  <2>12. \A k \in Keys : St(table', heap', c, k) = Turned(StackOf(heap, Traversal, k))
    <3>1. SubSeq(seq, 1, n) = seq
      BY TraversalIs, SubSeqFull DEF seq, n
    <3> QED  BY <2>1, <2>3, <3>1 DEF Stacked, seq
  <2>4. /\ DOMAIN table' = 0..sz - 1 /\ table' \in [DOMAIN table' -> X]
        /\ Live' = Live /\ heap' \in [Live' -> Cells(bs)]
        /\ Shape(table', heap', c) /\ Linked(table', heap', c, {})
        /\ \A x \in Items : x \in On(table', c) <=> \E i \in 1..n : seq[i] = x
    <3> HIDE DEF q
    <3> QED  BY <2>1, <2>3 DEF Hangs, Live
  <2> HIDE DEF q, bs
  <2>5. Live \subseteq Items
    BY DEF Core
  <2>6. On(table', c) = Live'
    <3>1. On(table', c) \subseteq Items
      BY DEF On
    <3> QED  BY ZenonT(60), <1>1, <2>2, <2>4, <2>5, <3>1
  <2>7. \A y \in Live' : heap'[y] \in Cells(Slots' \cup {NULL, Junk})
    <3> TAKE y \in Live'
    <3>1. y \in On(table', c)
      BY <2>6
    <3>2. PICK b \in DOMAIN table' : \E i \in 1..Len(c[b]) : c[b][i] = y
      BY <3>1 DEF On
    <3>3. PICK i \in 1..Len(c[b]) : c[b][i] = y
      BY <3>2
    <3>4. Linked1(heap', c[b], b, i, {})
      BY <2>4 DEF Linked
    <3>5. heap'[y].bucket \in {b, NULL}
      BY <3>3, <3>4 DEF Linked1
    <3>6. heap'[y] \in Cells(bs)
      BY <2>4
    <3> QED  BY <3>5, <3>6 DEF Cells, Slots
  <2>8. heap' \in [Live' -> Cells(Buckets')]
    BY <2>4, <2>7 DEF Buckets
  <2>9. Chained(c)'
    BY <1>3, <2>1, <2>2, <2>4, <2>6 DEF Chained
  <2>10. Core(c)'
    BY <1>2, <1>3, <2>1, <2>4, <2>5, <2>8, <2>9 DEF Core
  <2>11. st' # "assert rehash"
    BY <2>1 DEF Rehash, Idle
  <2> QED  BY <2>1, <2>10, <2>11, <2>12
<1> QED
  BY <1>4, <1>5

-----------------------------------------------------------------------------
(* Traversals *)

LEMMA AheadIs ==
  ASSUME NEW ch, NEW b, NEW i, NEW x
  PROVE  x \in Ahead(ch, b, i) <=>
           x \in Items /\ \E c \in DOMAIN ch : \E j \in 1..Len(ch[c]) :
                            ch[c][j] = x /\ (c > b \/ (c = b /\ j > i))
  BY DEF Ahead

\* From a place in the table to the next item, the item there being owed no more.
LEMMA GoesToNext ==
  ASSUME NEW ch, Core(ch), NEW t, t \in TravsOf(ch), NEW b, b = t.b,
         NEW i \in 0..Len(ch[b]), NEW nx, nx = IF i = Len(ch[b]) THEN NULL ELSE ch[b][i + 1],
         Ahead(ch, b, i) \cap t.seen = {}, t.owed \subseteq Ahead(ch, b, i),
         Visit(GoOn(t, b, nx))
  PROVE  /\ trav' # NULL => Visits(ch, trav')
         /\ trav' = NULL => t.owed = {}
<1> DEFINE n == Len(ch[b])
           later == {j \in Slots : j > b /\ table[j] # NULL}
           Min2(j) == j \in later /\ \A l \in later : j <= l
<1>0. /\ DOMAIN ch = Slots /\ Slots \subseteq Nat /\ NULL \notin Items
      /\ b \in Slots /\ n \in Nat /\ i \in Nat
      /\ t.cur \in X /\ t.owed \subseteq Items /\ t.seen \subseteq Items
      /\ t.kind \in {"traverse", "iterate"}
  <2>1. DOMAIN ch = Slots /\ Slots \subseteq Nat
    BY CoreIs, SlotsAre DEF Core, Chained, Shape, Slots
  <2>2. b \in Slots
    BY <2>1 DEF TravsOf, Travs
  <2>3. n \in Nat
    BY <2>2, ChainOf
  <2> QED  BY <2>1, <2>2, <2>3, HashAssumption DEF TravsOf, Travs, X
<1>1. \A x, c, j : x \in Ahead(ch, c, j) <=>
           x \in Items /\ \E d \in Slots : \E k \in 1..Len(ch[d]) :
                            ch[d][k] = x /\ (d > c \/ (d = c /\ k > j))
  <2>1. DOMAIN ch = Slots
    BY <1>0
  <2> QED  BY <2>1 DEF Ahead
\* The step to place k of slot c.
<1>2. ASSUME NEW c \in Slots, NEW k \in 1..Len(ch[c]), NEW o,
             o = [t EXCEPT !.b = c, !.cur = ch[c][k], !.next = heap[ch[c][k]].next],
             \A x : x \in Ahead(ch, b, i) <=> x = ch[c][k] \/ x \in Ahead(ch, c, k),
             ch[c][k] \notin Ahead(ch, c, k), Visit(o)
      PROVE  trav' # NULL /\ Visits(ch, trav')
  <2> DEFINE x == ch[c][k]
  <2>1. /\ x \in Items /\ x # NULL /\ heap[x].next = IF k = Len(ch[c]) THEN NULL ELSE ch[c][k + 1]
        /\ Len(ch[c]) \in Nat /\ k \in Nat /\ k # 0
    BY ChainOf
  <2>2. heap[x].next \in X
    <3>1. k # Len(ch[c]) => k + 1 \in 1..Len(ch[c])
      BY <2>1
    <3> QED  BY <2>1, <3>1, ChainOf DEF X
  <2>3. x \in Ahead(ch, b, i) /\ x \notin t.seen
    BY <1>2
  <2> HIDE DEF x
  <2>4. /\ o \in TravsOf(ch) /\ o.b = c /\ o.cur = x /\ o.next = heap[x].next
        /\ o.seen = t.seen /\ o.owed = t.owed /\ o.kind = t.kind
    BY <1>0, <1>2, <2>1, <2>2 DEF TravsOf, Travs, X, x
  <2>5. trav' = [o EXCEPT !.owed = @ \ {o.cur}]
    BY <1>2, <2>1, <2>4 DEF Visit
  <2>6. /\ trav' \in TravsOf(ch) /\ trav'.b = c /\ trav'.cur = x /\ trav'.next = heap[x].next
        /\ trav'.seen = t.seen /\ trav'.owed = t.owed \ {x} /\ trav'.kind = t.kind
    BY <2>4, <2>5 DEF TravsOf, Travs
  <2>7. Ahead(ch, c, k) \cap t.seen = {} /\ t.owed \ {x} \subseteq Ahead(ch, c, k)
    BY <1>2 DEF x
  <2>8. k \in 0..Len(ch[trav'.b])
    BY <2>1, <2>6
  <2>9. Stands(ch, trav', k)
    BY <2>1, <2>3, <2>6, <2>7 DEF Stands, x
  <2>10. trav' # NULL
    BY <2>6, HashAssumption DEF TravsOf
  <2> QED  BY <2>6, <2>8, <2>9, <2>10 DEF Visits
\* Place k of slot c is the next one.
<1>3. ASSUME NEW c \in Slots, NEW k \in 1..Len(ch[c]),
             \/ c = b /\ k = i + 1
             \/ /\ c > b /\ k = 1 /\ i = n
                /\ \A d \in Slots : b < d /\ d < c => Len(ch[d]) = 0
      PROVE  /\ \A x : x \in Ahead(ch, b, i) <=> x = ch[c][k] \/ x \in Ahead(ch, c, k)
             /\ ch[c][k] \notin Ahead(ch, c, k)
  <2>1. \A d \in Slots : d \in Nat /\ Len(ch[d]) \in Nat
    BY <1>0, ChainOf
  <2>2. ch[c][k] \in Items
    BY ChainOf
  <2>3. ASSUME NEW d \in Slots, NEW j \in 1..Len(ch[d])
        PROVE  /\ (d > b \/ (d = b /\ j > i)) <=> ((d = c /\ j = k) \/ d > c \/ (d = c /\ j > k))
               /\ d = c /\ j = k => ~(d > c \/ (d = c /\ j > k))
    <3>1. CASE c = b /\ k = i + 1
      BY <1>0, <2>1, <3>1
    <3>2. CASE /\ c > b /\ k = 1 /\ i = n
               /\ \A e \in Slots : b < e /\ e < c => Len(ch[e]) = 0
      <4>1. d <= b \/ d >= c
        BY <1>0, <2>1, <3>2
      <4>2. d = b => j <= n
        BY <1>0, <2>1
      <4>3. c > b /\ k = 1 /\ i = n
        BY <3>2
      <4>4. c \in Nat /\ b \in Nat /\ d \in Nat /\ Len(ch[d]) \in Nat
        BY <1>0, <2>1
      <4>5. j \in Nat /\ j >= 1
        BY <4>4
      <4> HIDE DEF n
      <4> QED  BY <1>0, <4>1, <4>2, <4>3, <4>4, <4>5
    <3> QED  BY <1>3, <3>1, <3>2
  <2>4. ASSUME NEW d \in Slots, NEW j \in 1..Len(ch[d]) PROVE ch[d][j] = ch[c][k] => d = c /\ j = k
    BY ChainOf
  <2>5. ASSUME NEW x PROVE x \in Ahead(ch, b, i) => x = ch[c][k] \/ x \in Ahead(ch, c, k)
    <3> SUFFICES ASSUME x \in Ahead(ch, b, i) PROVE x = ch[c][k] \/ x \in Ahead(ch, c, k)
      OBVIOUS
    <3>1. x \in Items /\ \E d \in Slots : \E j \in 1..Len(ch[d]) :
                            ch[d][j] = x /\ (d > b \/ (d = b /\ j > i))
      BY <1>0, <1>1
    <3>2. PICK d \in Slots : \E j \in 1..Len(ch[d]) :
                            ch[d][j] = x /\ (d > b \/ (d = b /\ j > i))
      BY <3>1
    <3>3. PICK j \in 1..Len(ch[d]) : ch[d][j] = x /\ (d > b \/ (d = b /\ j > i))
      BY <3>2
    <3>4. (d = c /\ j = k) \/ (d > c \/ (d = c /\ j > k))
      BY <2>3, <3>3
    <3> QED  BY <1>0, <1>1, <3>1, <3>3, <3>4
  <2>6. ASSUME NEW x PROVE x \in Ahead(ch, c, k) => x \in Ahead(ch, b, i) /\ x # ch[c][k]
    <3> SUFFICES ASSUME x \in Ahead(ch, c, k) PROVE x \in Ahead(ch, b, i) /\ x # ch[c][k]
      OBVIOUS
    <3>1. x \in Items /\ \E d \in Slots : \E j \in 1..Len(ch[d]) :
                            ch[d][j] = x /\ (d > c \/ (d = c /\ j > k))
      BY <1>0, <1>1
    <3>2. PICK d \in Slots : \E j \in 1..Len(ch[d]) :
                            ch[d][j] = x /\ (d > c \/ (d = c /\ j > k))
      BY <3>1
    <3>3. PICK j \in 1..Len(ch[d]) : ch[d][j] = x /\ (d > c \/ (d = c /\ j > k))
      BY <3>2
    <3>4. (d > b \/ (d = b /\ j > i)) /\ ~(d = c /\ j = k)
      BY <2>3, <3>3
    <3>5. x # ch[c][k]
      BY <2>4, <3>3, <3>4
    <3> QED  BY <1>0, <1>1, <3>1, <3>3, <3>4, <3>5
  <2>7. ch[c][k] \in Ahead(ch, b, i)
    <3>1. c > b \/ (c = b /\ k > i)
      BY <2>3
    <3> QED  BY <1>0, <1>1, <2>2, <3>1
  <2> QED  BY <2>5, <2>6, <2>7
<1>4. ASSUME NEW j \in Slots PROVE (table[j] = NULL <=> Len(ch[j]) = 0) /\ (Len(ch[j]) # 0 => table[j] = ch[j][1])
  BY ChainOf
<1>5. CASE nx # NULL
  <2>1. i + 1 \in 1..Len(ch[b]) /\ nx = ch[b][i + 1]
    BY <1>0, <1>5
  <2> DEFINE o == [t EXCEPT !.b = b, !.cur = ch[b][i + 1], !.next = heap[ch[b][i + 1]].next]
  <2>2. GoOn(t, b, nx) = o
    BY <1>5, <2>1 DEF GoOn
  <2>3. Visit(o)
    BY <2>2
  <2>4. /\ \A x : x \in Ahead(ch, b, i) <=> x = ch[b][i + 1] \/ x \in Ahead(ch, b, i + 1)
        /\ ch[b][i + 1] \notin Ahead(ch, b, i + 1)
    BY <1>0, <1>3, <2>1
  <2> QED  BY <1>0, <1>2, <2>1, <2>3, <2>4
<1>6. ASSUME nx = NULL PROVE i = n
  <2>1. i # n => i + 1 \in 1..Len(ch[b]) /\ nx = ch[b][i + 1]
    BY <1>0
  <2>2. b \in Slots
    BY <1>0
  <2>3. \A j \in 1..Len(ch[b]) : ch[b][j] # NULL
    BY <2>2, ChainOf
  <2> QED  BY <1>6, <2>1, <2>3
<1>7. CASE nx = NULL /\ later # {}
  <2> DEFINE c == CHOOSE j \in later : \A l \in later : j <= l
  <2>1. c \in later /\ \A l \in later : c <= l
    <3>1. later \in SUBSET Nat /\ later # {}
      BY <1>0, <1>7
    <3>2. \E j \in later : \A l \in later : j <= l
      <4> HIDE DEF later
      <4> QED  BY <3>1, MinIs
    <3> HIDE DEF later
    <3> QED  BY <3>2
  <2>2. c \in Slots /\ c > b /\ table[c] # NULL
    BY <2>1
  <2> DEFINE o == [t EXCEPT !.b = c, !.cur = table[c], !.next = heap[table[c]].next]
  <2>3. GoOn(t, b, nx) = o
    BY <1>7 DEF GoOn
  <2>4. \A d \in Slots : b < d /\ d < c => Len(ch[d]) = 0
    <3> TAKE d \in Slots
    <3> HAVE b < d /\ d < c
    <3>1. d \notin later
      <4>1. c \in Nat /\ d \in Nat
        BY <1>0, <2>2
      <4> HIDE DEF c, later
      <4> QED  BY <2>1, <4>1
    <3>2. table[d] = NULL
      <4>1. d > b
        BY <1>0
      <4> QED  BY <3>1, <4>1
    <3> QED  BY <1>4, <3>2
  <2> HIDE DEF c
  <2>5. Len(ch[c]) \in Nat /\ Len(ch[c]) # 0 /\ table[c] = ch[c][1]
    BY <1>4, <2>2, ChainOf
  <2>6. 1 \in 1..Len(ch[c])
    BY <2>5
  <2>7. /\ \A x : x \in Ahead(ch, b, i) <=> x = ch[c][1] \/ x \in Ahead(ch, c, 1)
        /\ ch[c][1] \notin Ahead(ch, c, 1)
    BY <1>3, <1>6, <1>7, <2>2, <2>4, <2>6
  <2>8. Visit(o)
    BY <2>3
  <2>9. o = [t EXCEPT !.b = c, !.cur = ch[c][1], !.next = heap[ch[c][1]].next]
    BY <2>5
  <2> HIDE DEF o
  <2> QED  BY <1>2, <2>2, <2>6, <2>7, <2>8, <2>9
<1>8. CASE nx = NULL /\ later = {}
  <2> DEFINE o == [t EXCEPT !.cur = NULL]
  <2>1. GoOn(t, b, nx) = o
    BY <1>8 DEF GoOn
  <2>2. o.cur = NULL
    BY DEF TravsOf, Travs
  <2>3. trav' = NULL
    <3> HIDE DEF o
    <3> QED  BY <2>1, <2>2 DEF Visit
  <2>4. \A x : x \notin Ahead(ch, b, i)
    <3> SUFFICES ASSUME NEW x, x \in Ahead(ch, b, i) PROVE FALSE
      OBVIOUS
    <3>1. \E d \in Slots : \E j \in 1..Len(ch[d]) : d > b \/ (d = b /\ j > i)
      BY <1>0, <1>1
    <3>2. PICK d \in Slots : \E j \in 1..Len(ch[d]) : d > b \/ (d = b /\ j > i)
      BY <3>1
    <3>3. PICK j \in 1..Len(ch[d]) : d > b \/ (d = b /\ j > i)
      BY <3>2
    <3>4. d = b => j <= n
      BY <1>0
    <3>5. d > b
      BY <1>0, <1>6, <1>8, <3>3, <3>4
    <3>6. table[d] = NULL
      BY <1>8, <3>5
    <3>7. Len(ch[d]) = 0
      BY <1>4, <3>6
    <3> QED  BY <3>7
  <2> QED  BY <2>3, <2>4
<1> QED
  BY <1>5, <1>7, <1>8

LEMMA StartVisits ==
  ASSUME NEW ch, Core(ch), NEW kind \in {"traverse", "iterate"}, TraverseStart(kind)
  PROVE  trav' # NULL => Visits(ch, trav')
<1> DEFINE t == [kind |-> kind, b |-> 0, cur |-> NULL, next |-> NULL,
                 seen |-> {}, owed |-> Reachable]
<1>1. DOMAIN ch = Slots /\ Slots \subseteq Nat /\ 0 \in Slots
  <2>1. DOMAIN ch = Slots
    BY DEF Core, Chained, Shape, Slots
  <2> QED  BY <2>1, CoreIs, SlotsAre
<1>2. Reachable = On(table, ch) /\ Reachable \subseteq Items
  BY ReachableIs DEF On
<1>3. /\ t \in TravsOf(ch) /\ t.b = 0 /\ t.seen = {} /\ t.owed = Reachable
  BY <1>1, <1>2 DEF TravsOf, Travs
<1>4. Visit(GoOn(t, 0, table[0]))
  BY DEF TraverseStart
<1> HIDE DEF t
<1>5. /\ 0 \in 0..Len(ch[0])
      /\ table[0] = IF 0 = Len(ch[0]) THEN NULL ELSE ch[0][0 + 1]
  BY <1>1, ChainOf
<1>6. t.owed \subseteq Ahead(ch, 0, 0)
  <2> SUFFICES ASSUME NEW x, x \in On(table, ch) PROVE x \in Ahead(ch, 0, 0)
    BY <1>2, <1>3
  <2>1. PICK c \in Slots : \E j \in 1..Len(ch[c]) : ch[c][j] = x
    BY DEF On, Slots
  <2>2. PICK j \in 1..Len(ch[c]) : ch[c][j] = x
    BY <2>1
  <2>3. Len(ch[c]) \in Nat /\ c \in Nat
    BY <1>1, ChainOf
  <2>4. c > 0 \/ (c = 0 /\ j > 0)
    BY <2>3
  <2>5. x \in Items
    BY DEF On
  <2> QED  BY <1>1, <2>2, <2>4, <2>5, AheadIs
<1>7. Ahead(ch, 0, 0) \cap t.seen = {}
  BY <1>3
<1>8. t.b = 0 /\ t \in TravsOf(ch)
  BY <1>3
<1> QED
  BY <1>4, <1>5, <1>6, <1>7, <1>8, GoesToNext

LEMMA NextVisits ==
  ASSUME NEW ch, Core(ch), Visits(ch, trav), TraverseNext
  PROVE  /\ trav' # NULL => Visits(ch, trav')
         /\ trav' = NULL => trav.owed = {}
<1> DEFINE t == [trav EXCEPT !.seen = @ \cup ({trav.cur} \ {NULL})]
           b == trav.b
           nx == IF trav.kind = "traverse" THEN trav.next ELSE heap[trav.cur].next
<1>1. PICK i \in 0..Len(ch[b]) : Stands(ch, trav, i)
  BY DEF Visits
<1>2. /\ trav \in Travs /\ b \in Slots /\ NULL \notin Items
  <2>1. DOMAIN ch = Slots
    BY DEF Core, Chained, Shape, Slots
  <2> QED  BY <2>1, HashAssumption DEF Visits, TravsOf
<1>3. /\ t \in TravsOf(ch) /\ t.b = b /\ t.seen = trav.seen \cup ({trav.cur} \ {NULL})
      /\ t.owed = trav.owed
  BY <1>2 DEF Visits, TravsOf, Travs
<1>4. Visit(GoOn(t, b, nx))
  BY DEF TraverseNext
<1>5. Len(ch[b]) \in Nat /\ i \in Nat
  BY <1>2, ChainOf
<1>6. nx = IF i = Len(ch[b]) THEN NULL ELSE ch[b][i + 1]
  <2>1. CASE trav.kind = "traverse"
    BY <1>1, <2>1 DEF Stands
  <2>2. CASE trav.kind # "traverse"
    <3>1. trav.cur # NULL /\ i # 0 /\ trav.cur = ch[b][i]
      BY <1>1, <2>2 DEF Stands
    <3>2. i \in 1..Len(ch[b])
      BY <1>5, <3>1
    <3>3. heap[ch[b][i]].next = IF i = Len(ch[b]) THEN NULL ELSE ch[b][i + 1]
      BY <1>2, <3>2, ChainOf
    <3> QED  BY <2>2, <3>1, <3>3
  <2> QED  BY <2>1, <2>2
<1>7. Ahead(ch, b, i) \cap t.seen = {}
  <2>1. trav.cur # NULL => trav.cur \notin Ahead(ch, b, i)
    <3> SUFFICES ASSUME trav.cur # NULL, trav.cur \in Ahead(ch, b, i) PROVE FALSE
      OBVIOUS
    <3>1. trav.cur # NULL /\ i # 0 /\ trav.cur = ch[b][i]
      BY <1>1 DEF Stands
    <3>2. i \in 1..Len(ch[b])
      BY <1>5, <3>1
    <3>3. DOMAIN ch = Slots
      BY DEF Core, Chained, Shape, Slots
    <3>4. PICK c \in Slots : \E j \in 1..Len(ch[c]) :
                               ch[c][j] = trav.cur /\ (c > b \/ (c = b /\ j > i))
      BY <3>3, AheadIs
    <3>5. PICK j \in 1..Len(ch[c]) : ch[c][j] = trav.cur /\ (c > b \/ (c = b /\ j > i))
      BY <3>4
    <3>6. b = c /\ i = j
      BY <1>2, <3>1, <3>2, <3>5, ChainOf
    <3>7. b \in Nat
      BY <1>2, CoreIs, SlotsAre
    <3> QED  BY <1>5, <3>5, <3>6, <3>7
  <2>2. Ahead(ch, b, i) \cap trav.seen = {}
    BY <1>1 DEF Stands
  <2> QED  BY <1>3, <2>1, <2>2
<1>8. t.owed \subseteq Ahead(ch, b, i)
  BY <1>1, <1>3 DEF Stands
<1> HIDE DEF t, nx, b
<1>9. t \in TravsOf(ch) /\ b = t.b
  BY <1>3
<1>10. trav' = NULL => t.owed = {}
  BY <1>4, <1>6, <1>7, <1>8, <1>9, GoesToNext
<1>11. trav' # NULL => Visits(ch, trav')
  BY <1>4, <1>6, <1>7, <1>8, <1>9, GoesToNext
<1> QED
  BY <1>3, <1>10, <1>11

\* A traversal keeps its place when its callback inserts an item, ...
LEMMA PushVisits ==
  ASSUME NEW S \in SUBSET Nat, NEW ch \in [S -> Seq(Items)], NEW b \in S, NEW x \in Items,
         NEW t, Visits(ch, t), NEW t2 \in Travs,
         t2.kind = t.kind, t2.b = t.b, t2.cur = t.cur, t2.next = t.next,
         t2.seen = t.seen \ {x}, t2.owed = t.owed
  PROVE  Visits(Pushed(ch, b, x), t2)
<1> DEFINE s == ch[b]
           p == Prefixed(x, s)
           ch2 == Pushed(ch, b, x)
           c0 == t.b
<1>1. /\ s \in Seq(Items) /\ Len(s) \in Nat
      /\ p \in Seq(Items) /\ Len(p) = Len(s) + 1
      /\ p[1] = x /\ \A i \in 1..Len(s) : p[i + 1] = s[i]
  <2>1. s \in Seq(Items) /\ Len(s) \in Nat
    OBVIOUS
  <2> HIDE DEF s
  <2> QED  BY <2>1, PrefixedItems
<1> HIDE DEF p
<1>2. DOMAIN ch2 = S /\ ch2[b] = p /\ \A c \in S \ {b} : ch2[c] = ch[c]
  BY DEF Pushed, p
<1>3. \A c \in S : c \in Nat /\ Len(ch[c]) \in Nat
  OBVIOUS
<1>4. c0 \in S /\ t \in Travs
  BY DEF Visits, TravsOf
<1>5. PICK i \in 0..Len(ch[c0]) : Stands(ch, t, i)
  BY DEF Visits
<1> DEFINE i2 == IF c0 = b THEN i + 1 ELSE i
<1>6. i \in Nat /\ i2 \in 0..Len(ch2[c0])
  <2>1. Len(ch[c0]) \in Nat
    BY <1>3, <1>4
  <2>2. CASE c0 = b
    BY <1>1, <1>2, <2>1, <2>2
  <2>3. CASE c0 # b
    <3>1. ch2[c0] = ch[c0] /\ i2 = i
      BY <1>2, <1>4, <2>3
    <3> HIDE DEF ch2, i2
    <3> QED  BY ONLY i \in 0..Len(ch[c0]), <2>1, <3>1
  <2> QED  BY <2>2, <2>3
<1>7. t2.next = IF i2 = Len(ch2[c0]) THEN NULL ELSE ch2[c0][i2 + 1]
  <2>1. t2.next = IF i = Len(ch[c0]) THEN NULL ELSE ch[c0][i + 1]
    BY <1>5 DEF Stands
  <2>2. CASE c0 = b
    <3>1. i # Len(s) => i + 1 \in 1..Len(s)
      BY <1>1, <1>6, <2>2
    <3>2. i # Len(s) => p[(i + 1) + 1] = s[i + 1]
      BY <1>1, <3>1
    <3> QED  BY <1>1, <1>2, <1>6, <2>1, <2>2, <3>2
  <2>3. CASE c0 # b
    BY <1>2, <1>4, <2>1, <2>3
  <2> QED  BY <2>2, <2>3
<1>8. t2.cur # NULL => i2 # 0 /\ t2.cur = ch2[c0][i2]
  <2> SUFFICES ASSUME t2.cur # NULL PROVE i2 # 0 /\ t2.cur = ch2[c0][i2]
    OBVIOUS
  <2>1. i # 0 /\ t2.cur = ch[c0][i]
    BY <1>5 DEF Stands
  <2>2. CASE c0 = b
    <3>1. i \in 1..Len(s)
      BY <1>1, <1>6, <2>1, <2>2
    <3> QED  BY <1>1, <1>2, <1>6, <2>1, <2>2, <3>1
  <2>3. CASE c0 # b
    BY <1>2, <1>4, <2>1, <2>3
  <2> QED  BY <2>2, <2>3
<1> HIDE DEF s, ch2
<1>9. ASSUME NEW y, y \in Ahead(ch2, c0, i2) PROVE y \in Ahead(ch, c0, i) \/ y = x
  <2>1. y \in Items /\ \E c \in S : \E j \in 1..Len(ch2[c]) :
                         ch2[c][j] = y /\ (c > c0 \/ (c = c0 /\ j > i2))
    <3>1. DOMAIN ch2 = S /\ y \in Ahead(ch2, c0, i2)
      BY <1>2, <1>9
    <3> HIDE DEF i2
    <3> QED  BY ONLY <3>1 DEF Ahead
  <2>2. PICK c \in S : \E j \in 1..Len(ch2[c]) :
                         ch2[c][j] = y /\ (c > c0 \/ (c = c0 /\ j > i2))
    BY <2>1
  <2>3. PICK j \in 1..Len(ch2[c]) : ch2[c][j] = y /\ (c > c0 \/ (c = c0 /\ j > i2))
    BY <2>2
  <2>4. CASE c # b
    <3>1. ch2[c] = ch[c]
      BY <1>2, <2>4
    <3>2. c = c0 => i2 = i
      BY <2>4
    <3> HIDE DEF i2
    <3> QED  BY <2>1, <2>3, <3>1, <3>2, AheadIs
  <2>5. CASE c = b /\ j = 1
    BY <1>1, <1>2, <2>3, <2>5
  <2>6. CASE c = b /\ j # 1
    <3>1. j - 1 \in 1..Len(s) /\ (j - 1) + 1 = j /\ j \in Nat
      BY <1>1, <1>2, <2>6
    <3>2. y = ch[c][j - 1]
      BY <1>1, <1>2, <2>3, <2>6, <3>1 DEF s
    <3>3. c > c0 \/ (c = c0 /\ j - 1 > i)
      BY <1>6, <2>3, <2>6, <3>1
    <3>4. j - 1 \in 1..Len(ch[c])
      BY <2>6, <3>1 DEF s
    <3> QED  BY <2>1, <3>2, <3>3, <3>4, AheadIs
  <2> QED  BY <2>4, <2>5, <2>6
<1>10. ASSUME NEW y, y \in Ahead(ch, c0, i) PROVE y \in Ahead(ch2, c0, i2)
  <2>0. DOMAIN ch = S
    OBVIOUS
  <2>1. y \in Items /\ \E c \in S : \E j \in 1..Len(ch[c]) :
                         ch[c][j] = y /\ (c > c0 \/ (c = c0 /\ j > i))
    BY <1>10, <2>0 DEF Ahead
  <2>2. PICK c \in S : \E j \in 1..Len(ch[c]) :
                         ch[c][j] = y /\ (c > c0 \/ (c = c0 /\ j > i))
    BY <2>1
  <2>3. PICK j \in 1..Len(ch[c]) : ch[c][j] = y /\ (c > c0 \/ (c = c0 /\ j > i))
    BY <2>2
  <2>4. CASE c # b
    <3>1. ch2[c] = ch[c]
      BY <1>2, <2>4
    <3>2. c = c0 => i2 = i
      BY <2>4
    <3> HIDE DEF i2
    <3> QED  BY <1>2, <2>1, <2>3, <3>1, <3>2, AheadIs
  <2>5. CASE c = b
    <3>1. j + 1 \in 1..Len(ch2[c]) /\ j \in 1..Len(s) /\ j \in Nat
      BY <1>1, <1>2, <2>5 DEF s
    <3>2. y = ch2[c][j + 1]
      BY <1>1, <1>2, <2>3, <2>5, <3>1 DEF s
    <3>3. c > c0 \/ (c = c0 /\ j + 1 > i2)
      BY <1>6, <2>3, <2>5, <3>1
    <3> QED  BY <1>2, <2>1, <3>1, <3>2, <3>3, AheadIs
  <2> QED  BY <2>4, <2>5
<1> HIDE DEF i2
<1>11. Stands(ch2, t2, i2)
  <2>1. Ahead(ch, c0, i) \cap t.seen = {} /\ t.owed \subseteq Ahead(ch, c0, i)
        /\ t.cur \notin t.seen /\ (t.cur = NULL => t.kind = "traverse")
    BY <1>5 DEF Stands
  <2>2. Ahead(ch2, c0, i2) \cap t2.seen = {}
    BY <1>9, <2>1
  <2>3. t2.owed \subseteq Ahead(ch2, c0, i2)
    BY <1>10, <2>1
  <2> QED  BY <1>7, <1>8, <2>1, <2>2, <2>3 DEF Stands
<1>12. t2 \in TravsOf(ch2)
  BY <1>2, <1>4 DEF TravsOf
<1> QED
  BY <1>6, <1>11, <1>12 DEF Visits, ch2

\* A bucket is not ahead of itself.
LEMMA NotAboveItself ==
  ASSUME NEW n \in Nat
  PROVE  ~(n > n)
  OBVIOUS

\* ... and when it deletes the item it was given.
LEMMA DropVisits ==
  ASSUME NEW S \in SUBSET Nat, NEW ch \in [S -> Seq(Items)],
         NEW t, t \in TravsOf(ch), NEW b, b = t.b, NEW k \in 1..Len(ch[b]),
         Stands(ch, t, k), NEW t2 \in Travs, t.kind = "traverse",
         t2.kind = t.kind, t2.b = t.b, t2.cur = NULL, t2.next = t.next,
         t2.seen = t.seen, t2.owed = t.owed
  PROVE  Visits(Drop(ch, b, k), t2)
<1> DEFINE s == ch[b]
           d == Dropped(s, k)
           ch2 == Drop(ch, b, k)
           i2 == k - 1
<1>1. b \in S /\ s \in Seq(Items) /\ Len(s) \in Nat
  BY DEF TravsOf
<1>2. /\ d \in Seq(Items) /\ Len(d) = Len(s) - 1 /\ Len(d) \in Nat
      /\ \A i \in 1..Len(d) : IF i < k THEN i \in 1..Len(s) /\ d[i] = s[i]
                              ELSE i + 1 \in 1..Len(s) /\ d[i] = s[i + 1]
  BY <1>1, DroppedIs
<1>3. DOMAIN ch2 = S /\ ch2[b] = d /\ \A c \in S \ {b} : ch2[c] = ch[c]
  BY <1>1 DEF Drop
<1>4. k \in 1..Len(s) /\ i2 \in 0..Len(d) /\ k \in Nat /\ i2 + 1 = k
  BY <1>1, <1>2
<1> HIDE DEF d, s, ch2
<1>5. t2.next = IF i2 = Len(d) THEN NULL ELSE d[i2 + 1]
  <2>1. t2.next = IF k = Len(s) THEN NULL ELSE s[k + 1]
    BY DEF Stands, s
  <2>2. k # Len(s) => k \in 1..Len(d)
    BY <1>1, <1>2, <1>4
  <2>3. k # Len(s) => d[k] = s[k + 1]
    BY <1>2, <1>4, <2>2
  <2> QED  BY <1>1, <1>2, <1>4, <2>1, <2>3
<1>6. \A y : y \in Ahead(ch2, b, i2) <=> y \in Ahead(ch, b, k)
  <2> TAKE y
  <2>1. ASSUME NEW c \in S \ {b}, NEW j
        PROVE  (j \in 1..Len(ch2[c]) /\ ch2[c][j] = y /\ (c > b \/ (c = b /\ j > i2)))
               <=> (j \in 1..Len(ch[c]) /\ ch[c][j] = y /\ (c > b \/ (c = b /\ j > k)))
    BY <1>3
  <2>2. (\E j \in 1..Len(d) : d[j] = y /\ (b > b \/ (b = b /\ j > i2)))
        <=> (\E j \in 1..Len(s) : s[j] = y /\ (b > b \/ (b = b /\ j > k)))
    <3>0. ~(b > b)
      <4>1. b \in Nat
        BY <1>1
      <4> QED  BY ONLY <4>1, NotAboveItself
    <3>1. ASSUME NEW j \in 1..Len(d), d[j] = y, j > i2
          PROVE  \E l \in 1..Len(s) : s[l] = y /\ l > k
      <4>1. j + 1 \in 1..Len(s) /\ d[j] = s[j + 1] /\ j + 1 > k
        BY <1>2, <1>4, <3>1
      <4> QED  BY <3>1, <4>1
    <3>2. ASSUME NEW j \in 1..Len(s), s[j] = y, j > k
          PROVE  \E l \in 1..Len(d) : d[l] = y /\ l > i2
      <4>1. j - 1 \in 1..Len(d) /\ ~(j - 1 < k) /\ (j - 1) + 1 = j /\ j - 1 > i2
        BY <1>1, <1>2, <1>4, <3>2
      <4>2. d[j - 1] = s[j]
        BY <1>2, <4>1
      <4> QED  BY <3>2, <4>1, <4>2
    <3> QED  BY <3>0, <3>1, <3>2
  <2>3. \A c \in S :
          (\E j \in 1..Len(ch2[c]) : ch2[c][j] = y /\ (c > b \/ (c = b /\ j > i2)))
          <=> (\E j \in 1..Len(ch[c]) : ch[c][j] = y /\ (c > b \/ (c = b /\ j > k)))
    <3> TAKE c \in S
    <3>1. CASE c = b
      BY <1>3, <2>2, <3>1 DEF s
    <3>2. CASE c # b
      BY <2>1, <3>2
    <3> QED  BY <3>1, <3>2
  <2> HIDE DEF i2
  <2>4. y \in Ahead(ch2, b, i2) <=>
          y \in Items /\ \E c \in S : \E j \in 1..Len(ch2[c]) :
                           ch2[c][j] = y /\ (c > b \/ (c = b /\ j > i2))
    BY <1>3, AheadIs
  <2>5. y \in Ahead(ch, b, k) <=>
          y \in Items /\ \E c \in S : \E j \in 1..Len(ch[c]) :
                           ch[c][j] = y /\ (c > b \/ (c = b /\ j > k))
    <3>1. DOMAIN ch = S
      OBVIOUS
    <3> QED  BY <3>1 DEF Ahead
  <2> QED  BY <2>3, <2>4, <2>5
<1>7. NULL \notin t2.seen
  BY HashAssumption DEF Travs
<1>8. Stands(ch2, t2, i2)
  <2>1. Ahead(ch2, b, i2) \cap t2.seen = {} /\ t2.owed \subseteq Ahead(ch2, b, i2)
    BY <1>6 DEF Stands
  <2>2. t2.b = b /\ ch2[t2.b] = d
    BY <1>1, <1>3
  <2>3. t2.cur = NULL /\ t2.kind = "traverse"
    OBVIOUS
  <2> HIDE DEF i2
  <2> QED  BY <1>5, <1>7, <2>1, <2>2, <2>3 DEF Stands
<1>9. t2 \in TravsOf(ch2)
  BY <1>1, <1>3 DEF TravsOf
<1> QED
  BY <1>3, <1>4, <1>8, <1>9 DEF Visits, ch2

-----------------------------------------------------------------------------
(* The steps *)

\* IInv of chains ch.
Known(ch) ==
    /\ Core(ch) /\ DeathsExplained
    /\ st = "fini" => trav = NULL /\ \A b \in Slots : table[b] = NULL
    /\ trav # NULL => Visits(ch, trav)

LEMMA KnownIf ==
  ASSUME IInv
  PROVE  \E c : Known(c)
<1>1. Known(Ch)
  BY CoreIf DEF IInv, Known
<1> QED
  BY <1>1

LEMMA KnownIs ==
  ASSUME NEW ch, Known(ch)
  PROVE  IInv
<1>1. TypeOK /\ Ch = ch
  BY CoreIs DEF Known
<1> QED
  BY <1>1 DEF Known, Core, IInv

LEMMA KnownNext ==
  ASSUME NEW ch, Known(ch)'
  PROVE  IInv'
<1>1. Core(ch)'
  BY DEF Known
<1>2. IsFiniteSet(Live') /\ elnum' \in Nat
  BY <1>1, FS_Subset, FS_CardinalityType, HashAssumption DEF Core
<1>3. On(table', ch) \subseteq Live' /\ suspect' \subseteq On(table', ch) /\ leaked' \subseteq Live'
  BY <1>1 DEF Core, Chained
<1>4. TypeOK'
  BY <1>1, <1>2, <1>3 DEF Core, TypeOK, Cells, Buckets, Sts, X
<1>5. Ch' = ch
  BY <1>1, WalksAre DEF Core, Chained, Ch, Chain, Slots
<1> QED
  BY <1>4, <1>5 DEF Known, Core, IInv

\* What the chains of a known state are.
LEMMA KnownChains ==
  ASSUME NEW ch, Core(ch)
  PROVE  /\ Slots \in SUBSET Nat /\ ch \in [Slots -> Seq(Items)] /\ DOMAIN ch = Slots
         /\ \A k \in Keys : Idx(k) \in Slots
<1>1. TypeOK
  BY CoreIs
<1>2. Slots \in SUBSET Nat /\ \A k \in Keys : Idx(k) \in Slots
  <2>1. PICK sz \in Sizes : Slots = 0..sz - 1
    BY <1>1, SlotsAre
  <2>2. Slots \in SUBSET Nat
    BY <2>1, HashAssumption
  <2> QED  BY <1>1, <2>2, SlotsAre
<1>3. ch \in [Slots -> Seq(Items)]
  BY DEF Core, Chained, Shape, Slots
<1> QED
  BY <1>2, <1>3

LEMMA SetItemKeeps ==
  ASSUME NEW ch, Known(ch), NEW k \in Keys, NEW v \in Values \cup {NoValue}, SetItem(k, v)
  PROVE  \E c : Known(c)'
<1>1. PICK b : b = Idx(k)
  OBVIOUS
<1>2. PICK x \in Items \ Live :
        /\ Insert(x, k, b, NULL, v) /\ suspect' = suspect \ {table[b]}
        /\ trav' = IF trav = NULL THEN NULL ELSE [trav EXCEPT !.seen = @ \ {x}]
  BY <1>1 DEF SetItem
<1>3. st = "ok" /\ st' = st /\ leaked' = leaked /\ Core(ch) /\ b \in Slots
  BY <1>1, KnownChains DEF SetItem, Known
<1>4. Core(Pushed(ch, b, x))'
  BY <1>1, <1>2, <1>3, InsertCore
<1>5. trav' # NULL => Visits(Pushed(ch, b, x), trav')
  <2> SUFFICES ASSUME trav' # NULL PROVE Visits(Pushed(ch, b, x), trav')
    OBVIOUS
  <2>1. trav # NULL /\ Visits(ch, trav) /\ trav \in Travs
    BY <1>2 DEF Known, Visits, TravsOf
  <2>2. /\ trav' \in Travs /\ trav'.kind = trav.kind /\ trav'.b = trav.b
        /\ trav'.cur = trav.cur /\ trav'.next = trav.next
        /\ trav'.seen = trav.seen \ {x} /\ trav'.owed = trav.owed
    BY <1>2, <2>1 DEF Travs
  <2>3. Slots \in SUBSET Nat /\ ch \in [Slots -> Seq(Items)]
    BY <1>3, KnownChains
  <2> QED  BY <1>3, <2>1, <2>2, <2>3, PushVisits
<1>6. DeathsExplained'
  BY <1>3 DEF DeathsExplained
<1> QED
  BY <1>3, <1>4, <1>5, <1>6 DEF Known

LEMMA SetItemUniqKeeps ==
  ASSUME NEW ch, Known(ch), NEW k \in Keys, NEW v \in Values, SetItemUniq(k, v)
  PROVE  \E c : Known(c)'
<1>1. PICK b : b = Idx(k)
  OBVIOUS
<1>2. /\ st = "ok" /\ st' = st /\ leaked' = leaked /\ Core(ch) /\ b \in Slots
      /\ trav = NULL /\ trav' = NULL
  BY <1>1, KnownChains DEF SetItemUniq, Idle, Known
<1>3. DeathsExplained'
  BY <1>2 DEF DeathsExplained
<1>4. ASSUME NEW c, Core(c)' PROVE Known(c)'
  BY <1>2, <1>3, <1>4 DEF Known
<1>5. CASE /\ table[b] = NULL
           /\ \E x \in Items \ Live : Insert(x, k, b, NULL, v)
           /\ UNCHANGED suspect
  <2>1. PICK x \in Items \ Live : Insert(x, k, b, NULL, v)
    BY <1>5
  <2>2. suspect' = suspect \ {table[b]}
    <3>1. suspect \subseteq Items /\ NULL \notin Items
      BY <1>2, CoreIs, HashAssumption DEF On
    <3> QED  BY <1>5, <3>1
  <2>3. Core(Pushed(ch, b, x))'
    BY <1>1, <1>2, <2>1, <2>2, InsertCore
  <2> QED  BY <1>4, <2>3
<1>6. CASE /\ table[b] # NULL /\ Search(k) # NULL
           /\ heap' = [heap EXCEPT ![Search(k)].key = k, ![Search(k)].value = v]
           /\ UNCHANGED <<table, elnum, suspect>>
  <2>1. PICK i \in 1..Len(ch[b]) : ch[b][i] = Search(k) /\ heap[ch[b][i]].key = k
    BY <1>1, <1>2, <1>6, SearchIs
  <2>2. PICK x : x = Search(k)
    OBVIOUS
  <2>3. x \in Live /\ heap[x].key = k
    BY <1>2, <2>1, <2>2, ChainOf
  <2>4. heap \in [Live -> Cells(Buckets)]
    BY <1>2 DEF Core
  <2>5. heap' = [heap EXCEPT ![x].key = k, ![x].value = v]
    BY <1>6, <2>2
  <2>6. /\ heap' \in [Live -> Cells(Buckets)] /\ DOMAIN heap' = DOMAIN heap
        /\ \A y \in Live : /\ heap'[y].next = heap[y].next /\ heap'[y].key = heap[y].key
                           /\ heap'[y].prev = heap[y].prev /\ heap'[y].bucket = heap[y].bucket
    BY <2>3, <2>4, <2>5 DEF Cells, Live
  <2>7. Live' = Live /\ Slots' = Slots /\ Buckets' = Buckets /\ DOMAIN table' = DOMAIN table
    BY <1>6, <2>6 DEF Live, Slots, Buckets
  <2>8. \A c \in DOMAIN table : \A j \in 1..Len(ch[c]) : ch[c][j] \in Live
    BY <1>2, ChainIs DEF Core, Chained, Live
  <2>9. Shape(table', heap', ch)
    <3>1. Shape(table, heap, ch)
      BY <1>2 DEF Core, Chained
    <3> QED  BY <1>6, <2>6, <2>8, <3>1 DEF Shape, Path, Live
  <2>10. Linked(table', heap', ch, suspect')
    <3>1. Linked(table, heap, ch, suspect)
      BY <1>2 DEF Core, Chained
    <3>2. DOMAIN table' = DOMAIN table /\ suspect' = suspect
      BY <1>6
    <3>3. \A y \in Live : /\ heap'[y].key = heap[y].key
                           /\ heap'[y].prev = heap[y].prev /\ heap'[y].bucket = heap[y].bucket
      BY <2>6
    <3>4. ASSUME NEW c \in DOMAIN table, NEW j \in 1..Len(ch[c])
          PROVE  Placed1(table', heap', c, ch[c][j]) /\ Linked1(heap', ch[c], c, j, suspect')
      <4>1. Placed1(table, heap, c, ch[c][j]) /\ Linked1(heap, ch[c], c, j, suspect)
        BY ONLY <3>1, <3>4 DEF Linked
      <4>2. PICK y \in Live : y = ch[c][j]
        BY ONLY <2>8, <3>4
      <4>3. /\ heap'[y].key = heap[y].key
            /\ heap'[y].prev = heap[y].prev /\ heap'[y].bucket = heap[y].bucket
        BY ONLY <3>3, <4>2
      <4>4. Placed1(table', heap', c, ch[c][j])
        BY ONLY <3>2, <4>1, <4>2, <4>3 DEF Placed1
      <4>5. Linked1(heap', ch[c], c, j, suspect')
        BY ONLY <3>2, <4>1, <4>2, <4>3 DEF Linked1
      <4> QED  BY ONLY <4>4, <4>5
    <3> QED  BY ONLY <3>2, <3>4 DEF Linked
  <2>11. Chained(ch)'
    BY <1>2, <1>6, <2>7, <2>9, <2>10 DEF Core, Chained
  <2>12. Core(ch)'
    BY <1>2, <1>6, <2>6, <2>7, <2>11 DEF Core
  <2> QED  BY <1>4, <2>12
<1>7. CASE /\ table[b] # NULL /\ Search(k) = NULL
           /\ \E x \in Items \ Live, bucket, prev \in {NULL, Junk} :
                /\ Insert(x, k, bucket, prev, v)
                /\ suspect' = (suspect \ {table[b]}) \cup {x}
  <2>1. PICK x \in Items \ Live, bucket \in {NULL, Junk}, prev \in {NULL, Junk} :
          Insert(x, k, bucket, prev, v) /\ suspect' = (suspect \ {table[b]}) \cup {x}
    BY <1>7
  <2>2. {bucket, prev} \subseteq {NULL, Junk}
    OBVIOUS
  <2>3. Core(Pushed(ch, b, x))'
    BY <1>1, <1>2, <2>1, <2>2, InsertCore
  <2> QED  BY <1>4, <2>3
<1> QED
  BY <1>1, <1>5, <1>6, <1>7 DEF SetItemUniq

LEMMA RemoveItemKeeps ==
  ASSUME NEW ch, Known(ch), NEW k \in Keys, RemoveItem(k)
  PROVE  \E c : Known(c)'
<1>1. PICK b, x : b = Idx(k) /\ x = Search(k)
  OBVIOUS
<1>2. /\ st = "ok" /\ st' = st /\ Core(ch) /\ b \in Slots
      /\ trav = NULL /\ trav' = NULL /\ x # NULL
  BY <1>1, KnownChains DEF RemoveItem, Idle, Known
<1>3. PICK i \in 1..Len(ch[b]) : ch[b][i] = x
  BY <1>1, <1>2, SearchIs
<1>4. Core(Drop(ch, b, i))'
  BY <1>1, <1>2, <1>3, RemoveCore
<1>5. DeathsExplained'
  BY <1>2 DEF DeathsExplained
<1> QED
  BY <1>2, <1>4, <1>5 DEF Known

\* hash_delete_pair dies on a suspect item and only there.
LEMMA FateIs ==
  ASSUME NEW ch, Core(ch), NEW b \in Slots, NEW i \in 1..Len(ch[b]), NEW x, x = ch[b][i]
  PROVE  /\ DeleteFate(heap[x]) \in {"ok", "wild write", "assert bucket"}
         /\ DeleteFate(heap[x]) = "ok" <=> x \notin suspect
<1>1. x \in Live /\ Linked1(heap, ch[b], b, i, suspect) /\ Len(ch[b]) \in Nat /\ i \in Nat
  BY ChainOf
<1>2. NULL # Junk /\ b # NULL /\ b # Junk
  BY CoreIs, SlotsAre, HashAssumption
<1>3. CASE x \in suspect
  <2>1. {heap[x].prev, heap[x].bucket} \subseteq {NULL, Junk}
    BY <1>1, <1>3 DEF Linked1
  <2> QED  BY <1>2, <1>3, <2>1 DEF DeleteFate
<1>4. CASE x \notin suspect
  <2>1. CASE i = 1
    BY <1>1, <1>2, <1>4, <2>1 DEF DeleteFate, Linked1
  <2>2. CASE i # 1
    <3>1. i - 1 \in 1..Len(ch[b])
      BY <1>1, <2>2
    <3>2. ch[b][i - 1] # NULL /\ ch[b][i - 1] # Junk
      BY <3>1, ChainOf
    <3>3. heap[x].prev = ch[b][i - 1]
      BY <1>1, <2>2 DEF Linked1
    <3> QED  BY <1>4, <3>2, <3>3 DEF DeleteFate
  <2> QED  BY <2>1, <2>2
<1> QED
  BY <1>3, <1>4

LEMMA DeletePairKeeps ==
  ASSUME NEW ch, Known(ch), NEW hit \in Items, DeletePair(hit)
  PROVE  \E c : Known(c)'
<1>1. /\ st = "ok" /\ leaked' = leaked /\ Core(ch) /\ hit \in On(table, ch)
      /\ Slots \in SUBSET Nat /\ ch \in [Slots -> Seq(Items)] /\ DOMAIN ch = Slots
      /\ NULL \notin Items
  BY KnownChains, ReachableIs, HashAssumption DEF DeletePair, Known
<1>2. trav # NULL => trav.kind = "traverse" /\ hit = trav.cur
  BY DEF DeletePair
<1>3. \E b \in Slots : \E i \in 1..Len(ch[b]) :
        ch[b][i] = hit /\ (trav # NULL => b = trav.b /\ Stands(ch, trav, i))
  <2>1. CASE trav = NULL
    BY <1>1, <2>1 DEF On, Slots
  <2>2. CASE trav # NULL
    <3>1. trav \in TravsOf(ch)
      BY <2>2 DEF Known, Visits
    <3>2. PICK i \in 0..Len(ch[trav.b]) : Stands(ch, trav, i)
      BY <2>2 DEF Known, Visits
    <3>3. trav.b \in Slots
      BY <1>1, <3>1 DEF TravsOf
    <3>4. i # 0 /\ ch[trav.b][i] = hit
      BY <1>1, <1>2, <2>2, <3>2 DEF Stands
    <3>5. Len(ch[trav.b]) \in Nat
      BY <1>1, <3>3
    <3>6. i \in 1..Len(ch[trav.b])
      BY <3>4, <3>5
    <3> QED  BY <3>2, <3>3, <3>4, <3>6
  <2> QED  BY <2>1, <2>2
<1>4. PICK b \in Slots : \E i \in 1..Len(ch[b]) :
        ch[b][i] = hit /\ (trav # NULL => b = trav.b /\ Stands(ch, trav, i))
  BY <1>3
<1>5. PICK i \in 1..Len(ch[b]) :
        ch[b][i] = hit /\ (trav # NULL => b = trav.b /\ Stands(ch, trav, i))
  BY <1>4
<1>6. trav' # NULL =>
        /\ trav # NULL /\ trav \in TravsOf(ch) /\ b = trav.b /\ Stands(ch, trav, i)
        /\ trav.kind = "traverse"
        /\ trav' \in Travs /\ trav'.kind = trav.kind /\ trav'.b = trav.b
        /\ trav'.cur = NULL /\ trav'.next = trav.next
        /\ trav'.seen = trav.seen /\ trav'.owed = trav.owed
  <2> HAVE trav' # NULL
  <2>1. trav # NULL /\ trav' = [trav EXCEPT !.cur = NULL]
    BY DEF DeletePair
  <2>2. trav \in TravsOf(ch) /\ trav \in Travs
    BY <2>1 DEF Known, Visits, TravsOf
  <2>3. /\ trav' \in Travs /\ trav'.kind = trav.kind /\ trav'.b = trav.b
        /\ trav'.cur = NULL /\ trav'.next = trav.next
        /\ trav'.seen = trav.seen /\ trav'.owed = trav.owed
    BY <2>1, <2>2 DEF Travs
  <2> QED  BY <1>2, <1>5, <2>1, <2>2, <2>3
<1>7. st' = DeleteFate(heap[hit])
  BY DEF DeletePair
<1>8. /\ st' \in {"ok", "wild write", "assert bucket"}
      /\ st' = "ok" <=> hit \notin suspect
  BY <1>1, <1>5, <1>7, FateIs
<1>9. st' \in Sts
  BY <1>8 DEF Sts
<1>10. CASE st' = "ok"
  <2>1. Unlink(hit) /\ hit \notin suspect
    BY <1>8, <1>10 DEF DeletePair
  <2>2. Core(Drop(ch, b, i))'
    BY <1>1, <1>5, <1>9, <2>1, UnlinkCore
  <2>3. trav' # NULL => Visits(Drop(ch, b, i), trav')
    <3> HAVE trav' # NULL
    <3> QED  BY <1>1, <1>6, DropVisits
  <2>4. DeathsExplained'
    BY <1>10 DEF DeathsExplained
  <2> QED  BY <1>10, <2>2, <2>3, <2>4 DEF Known
<1>11. CASE st' # "ok"
  <2>1. UNCHANGED <<table, elnum, heap, suspect>> /\ hit \in suspect
    BY <1>8, <1>11 DEF DeletePair
  <2>2. Live' = Live /\ Slots' = Slots /\ Buckets' = Buckets
    BY <2>1 DEF Live, Slots, Buckets
  <2>3. Chained(ch)'
    BY <1>1, <2>1, <2>2 DEF Core, Chained
  <2>4. Core(ch)'
    BY <1>1, <1>9, <2>1, <2>2, <2>3 DEF Core
  <2>5. trav' # NULL => Visits(ch, trav')
    <3> HAVE trav' # NULL
    <3>1. trav' \in TravsOf(ch) /\ trav'.b = b
      BY <1>1, <1>6 DEF TravsOf
    <3>2. NULL \notin trav'.seen
      BY <1>1, <1>6 DEF Travs
    <3>3. Stands(ch, trav', i)
      BY <1>6, <3>1, <3>2 DEF Stands
    <3>4. i \in 0..Len(ch[trav'.b])
      <4>1. Len(ch[b]) \in Nat
        BY <1>1
      <4> QED  BY <3>1, <4>1
    <3> QED  BY <3>1, <3>3, <3>4 DEF Visits
  <2>6. DeathsExplained'
    BY <1>8, <1>11, <2>1 DEF DeathsExplained
  <2>7. st' # "fini"
    BY <1>8
  <2> QED  BY <2>4, <2>5, <2>6, <2>7 DEF Known
<1> QED
  BY <1>10, <1>11

LEMMA RehashKeeps ==
  ASSUME NEW ch, Known(ch), NEW sz \in Sizes, Rehash(sz)
  PROVE  \E c : Known(c)'
<1>1. Core(ch) /\ st = "ok" /\ trav' = NULL
  BY DEF Known, Rehash, Idle
<1>2. PICK c : Core(c)'
  BY <1>1, RehashCore
<1>3. (st' = "assert rehash" => leaked' # {}) /\ st' \in {"ok", "assert rehash"}
  BY <1>1, RehashCore
<1> QED
  BY <1>1, <1>2, <1>3 DEF Known, DeathsExplained

LEMMA CleanupKeeps ==
  ASSUME NEW ch, Known(ch), Cleanup \/ Fini
  PROVE  \E c : Known(c)'
<1>1. /\ Core(ch) /\ trav' = NULL /\ st' \in {"ok", "fini"}
      /\ \E veto : CleanupBody(veto)
  BY DEF Known, Cleanup, Fini, Idle
<1>2. PICK veto : CleanupBody(veto)
  BY <1>1
<1>3. PICK e : e = Empty(Slots)
  OBVIOUS
<1>4. st' \in Sts
  BY <1>1 DEF Sts
<1>5. Core(e)' /\ \A b \in Slots' : table'[b] = NULL
  BY <1>1, <1>2, <1>3, <1>4, CleanupCore
<1> QED
  BY <1>1, <1>5 DEF Known, DeathsExplained

LEMMA HashInitKeeps ==
  ASSUME NEW ch, Known(ch), NEW sz \in Sizes, HashInit(sz)
  PROVE  \E c : Known(c)'
<1>1. /\ Core(ch) /\ trav = NULL /\ \A b \in Slots : table[b] = NULL
      /\ st' = "ok" /\ table' = EmptyTable(sz) /\ elnum' = 0
      /\ heap' = Without(heap, leaked) /\ leaked' = {}
      /\ trav' = NULL /\ suspect' = suspect
  BY DEF Known, HashInit
<1>2. On(table, ch) = {}
  <2>1. ASSUME NEW b \in Slots PROVE Len(ch[b]) = 0
    <3>1. ch[b] = <<>> \/ (table[b] = ch[b][1] /\ Len(ch[b]) # 0 /\ Len(ch[b]) \in Nat)
      BY <1>1, ChainOf
    <3>2. CASE table[b] = ch[b][1] /\ Len(ch[b]) # 0 /\ Len(ch[b]) \in Nat
      <4>1. 1 \in 1..Len(ch[b])
        BY <3>2
      <4>2. ch[b][1] # NULL
        BY <1>1, <4>1, ChainOf
      <4> QED  BY <1>1, <3>2, <4>2
    <3> QED  BY <3>1, <3>2
  <2> QED  BY <2>1 DEF On, Slots
<1>3. suspect = {} /\ Live = leaked
  BY <1>1, <1>2 DEF Core, Chained
<1>4. DOMAIN heap' = {} /\ heap' = [y \in DOMAIN heap' |-> heap'[y]]
  BY <1>1, <1>3 DEF Without, Live
<1>5. PICK e : e = Empty(0..sz - 1)
  OBVIOUS
<1>6. DOMAIN table' = 0..sz - 1 /\ \A b \in 0..sz - 1 : table'[b] = NULL
  BY <1>1 DEF EmptyTable
<1>7. Shape(table', heap', e) /\ Linked(table', heap', e, {}) /\ On(table', e) = {}
  BY <1>5, <1>6, EmptyIs
<1>8. Live' = {}
  BY <1>4 DEF Live
<1>9. Chained(e)'
  BY <1>1, <1>3, <1>7, <1>8 DEF Chained
<1>10. table' \in [0..sz - 1 -> X]
  BY <1>1 DEF EmptyTable, X
<1>11. elnum' = Cardinality(Live')
  BY <1>1, <1>8, FS_EmptySet
<1>12. heap' \in [Live' -> Cells(Buckets')]
  BY <1>4, <1>8
<1>13. Core(e)'
  BY <1>1, <1>8, <1>9, <1>10, <1>11, <1>12 DEF Core, Sts
<1> QED
  BY <1>1, <1>13 DEF Known, DeathsExplained

LEMMA TraverseKeeps ==
  ASSUME NEW ch, Known(ch),
         \/ \E kind \in {"traverse", "iterate"} : TraverseStart(kind)
         \/ TraverseNext \/ TraverseStop
  PROVE  \E c : Known(c)'
<1>1. UNCHANGED <<table, elnum, heap, st, suspect, leaked>> /\ Core(ch)
  BY DEF TraverseStart, TraverseNext, TraverseStop, Known
<1>2. trav' # NULL => Visits(ch, trav')
  <2>1. CASE \E kind \in {"traverse", "iterate"} : TraverseStart(kind)
    BY <1>1, <2>1, StartVisits
  <2>2. CASE TraverseNext
    <3>1. Visits(ch, trav)
      BY <2>2 DEF TraverseNext, InCallback, Known
    <3> QED  BY <1>1, <2>2, <3>1, NextVisits
  <2>3. CASE TraverseStop
    BY <2>3 DEF TraverseStop
  <2> QED  BY <2>1, <2>2, <2>3
<1>3. st = "ok"
  BY DEF TraverseStart, TraverseNext, TraverseStop, Idle, InCallback
<1>4. Live' = Live /\ Slots' = Slots /\ Buckets' = Buckets
  BY <1>1 DEF Live, Slots, Buckets
<1>5. Chained(ch)'
  BY <1>1, <1>4 DEF Core, Chained
<1>6. Core(ch)'
  BY <1>1, <1>4, <1>5 DEF Core
<1> QED
  BY <1>1, <1>2, <1>3, <1>6 DEF Known, DeathsExplained

-----------------------------------------------------------------------------
(* The theorems *)

LEMMA Initially ==
  ASSUME Init
  PROVE  IInv
<1>1. PICK sz \in Sizes : table = EmptyTable(sz)
  BY DEF Init
<1>2. /\ elnum = 0 /\ heap = [x \in {} |-> NULL] /\ trav = NULL /\ st = "ok"
      /\ suspect = {} /\ leaked = {}
  BY DEF Init
<1>3. DOMAIN heap = {} /\ heap = [y \in DOMAIN heap |-> heap[y]]
  BY <1>2
<1>4. PICK e : e = Empty(0..sz - 1)
  OBVIOUS
<1>5. st \in Sts
  BY <1>2 DEF Sts
<1>6. Core(e)
  BY <1>1, <1>2, <1>3, <1>4, <1>5, EmptyCore
<1>7. Known(e)
  BY <1>2, <1>6 DEF Known, DeathsExplained
<1> QED
  BY <1>7, KnownIs

LEMMA Unchanged ==
  ASSUME NEW ch, Known(ch), UNCHANGED vars
  PROVE  Known(ch)'
<1>1. Live' = Live /\ Slots' = Slots /\ Buckets' = Buckets
  BY DEF vars, Live, Slots, Buckets
<1>2. Chained(ch)'
  BY <1>1 DEF vars, Known, Core, Chained
<1>3. Core(ch)'
  BY <1>1, <1>2 DEF vars, Known, Core
<1> QED
  BY <1>1, <1>3 DEF vars, Known, DeathsExplained

LEMMA Steps ==
  ASSUME IInv, [Next]_vars
  PROVE  IInv'
<1>1. PICK ch : Known(ch)
  BY KnownIf
<1>2. \E c : Known(c)'
  <2>1. ASSUME NEW k \in Keys, NEW v \in Values, SetItem(k, v) PROVE \E c : Known(c)'
    <3>1. v \in Values \cup {NoValue}
      OBVIOUS
    <3> QED  BY <1>1, <2>1, <3>1, SetItemKeeps
  <2>2. ASSUME NEW k \in Keys, SetAdd(k) PROVE \E c : Known(c)'
    <3>1. SetItem(k, NoValue) /\ NoValue \in Values \cup {NoValue}
      BY <2>2 DEF SetAdd
    <3> QED  BY <1>1, <3>1, SetItemKeeps
  <2>3. ASSUME NEW hit \in Items, DeletePair(hit) PROVE \E c : Known(c)'
    BY <1>1, <2>3, DeletePairKeeps
  <2>4. ASSUME NEW sz \in Sizes, Rehash(sz) PROVE \E c : Known(c)'
    BY <1>1, <2>4, RehashKeeps
  <2>5. ASSUME NEW sz \in Sizes, HashInit(sz) PROVE \E c : Known(c)'
    BY <1>1, <2>5, HashInitKeeps
  <2>6. ASSUME Cleanup \/ Fini PROVE \E c : Known(c)'
    BY <1>1, <2>6, CleanupKeeps
  <2>7. ASSUME \/ \E kind \in {"traverse", "iterate"} : TraverseStart(kind)
               \/ TraverseNext \/ TraverseStop
        PROVE \E c : Known(c)'
    BY <1>1, <2>7, TraverseKeeps
  <2>8. ASSUME NEW k \in Keys, NEW v \in Values, SetItemUniq(k, v) PROVE \E c : Known(c)'
    BY <1>1, <2>8, SetItemUniqKeeps
  <2>9. ASSUME NEW k \in Keys, RemoveItem(k) PROVE \E c : Known(c)'
    BY <1>1, <2>9, RemoveItemKeeps
  <2>10. CASE UNCHANGED vars
    BY <1>1, <2>10, Unchanged
  <2> QED
    BY <2>1, <2>2, <2>3, <2>4, <2>5, <2>6, <2>7, <2>8, <2>9, <2>10 DEF Next, CoreNext
<1>3. PICK c : Known(c)'
  BY <1>2
<1> QED
  BY <1>3, KnownNext

LEMMA Always == Spec => []IInv
<1>1. Init => IInv
  BY Initially
<1>2. IInv /\ [Next]_vars => IInv'
  BY Steps
<1> QED
  BY <1>1, <1>2, PTL DEF Spec

LEMMA Implies ==
  ASSUME IInv
  PROVE  Accounted /\ WellLinked /\ DeathsExplained /\ VisitedOnce
<1>1. PICK ch : Known(ch)
  BY KnownIf
<1>2. Core(ch) /\ DeathsExplained
  BY <1>1 DEF Known
<1>3. Accounted
  <2>1. Reachable = On(table, ch) /\ Len(Traversal) = Cardinality(On(table, ch))
    BY <1>2, ReachableIs, TraversalIs
  <2>2. TypeOK
    BY <1>2, CoreIs
  <2>3. /\ elnum = Cardinality(Live) /\ Live = On(table, ch) \cup leaked
        /\ On(table, ch) \cap leaked = {}
    BY <1>2 DEF Core, Chained
  <2> QED  BY <2>1, <2>2, <2>3 DEF Accounted
<1>4. \A b \in Slots : /\ Chain(b) = ch[b] /\ DOMAIN ch[b] = 1..Len(ch[b])
                       /\ \A i \in 1..Len(ch[b]) :
                            /\ Placed1(table, heap, b, ch[b][i])
                            /\ Linked1(heap, ch[b], b, i, suspect)
  <2> TAKE b \in Slots
  <2>1. ch[b] \in Seq(Items)
    BY <1>2, ChainOf
  <2>2. DOMAIN ch[b] = 1..Len(ch[b])
    BY <2>1
  <2> QED  BY <1>2, <2>2, ChainOf
<1>5. Placed
  <2> SUFFICES ASSUME NEW b \in Slots, NEW x \in ToSet(Chain(b)) PROVE Idx(heap[x].key) = b
    BY DEF Placed
  <2>1. PICK i \in 1..Len(ch[b]) : x = ch[b][i]
    BY <1>4 DEF ToSet
  <2> QED  BY <1>4, <2>1 DEF Placed1, Idx, Slots
<1>6. WellLinked
  BY <1>4, <1>5 DEF WellLinked, Linked1
<1>7. VisitedOnce
  BY <1>1 DEF Known, Visits, Stands, VisitedOnce
<1> QED
  BY <1>2, <1>3, <1>6, <1>7

\* No item is lost, shared or freed while it is linked, and dict->elnum, which hash.c
\* keeps by hand, counts the allocated ones.
THEOREM AllAccounted == Spec => []Accounted
  BY Always, Implies, PTL

\* Every item is on the chain where hash_get_item looks for it, and has the links that
\* hash_delete_pair follows, except the heads that hash_remove_item and
\* hash_set_item_uniq leave without them.
THEOREM AllWellLinked == Spec => []WellLinked
  BY Always, Implies, PTL

\* The program dies in hash_delete_pair and hash_rehash only for the reasons given.
THEOREM AllDeathsExplained == Spec => []DeathsExplained
  BY Always, Implies, PTL

\* A traversal that comes to its end leaves no item out.
LEMMA EndOwesNothing ==
  ASSUME IInv, TraverseNext, trav' = NULL
  PROVE  trav.owed = {}
<1>1. PICK ch : Known(ch)
  BY KnownIf
<1>2. Core(ch) /\ Visits(ch, trav)
  BY <1>1 DEF Known, TraverseNext, InCallback
<1> QED
  BY <1>2, NextVisits

\* hash_traverse calls back for no item twice, and for all that were there when it began
\* and have not been deleted, whatever its callback inserts and deletes.
THEOREM TraversalsComplete == Spec => TraversalComplete
<1>1. IInv => (TraverseNext /\ trav' = NULL => trav.owed = {})
  BY EndOwesNothing
<1>2. IInv => VisitedOnce
  BY Implies
<1> QED
  BY <1>1, <1>2, Always, PTL DEF TraversalComplete, Spec

-----------------------------------------------------------------------------
(* The steps, as steps of Dict *)

LEMMA StackValues ==
  ASSUME NEW ch, Core(ch), NEW k \in Keys
  PROVE  /\ DM[k] = St(table, heap, ch, k) /\ DM[k] \in Seq(Vals)
         /\ Idx(k) \in Slots /\ DM[k] = StackOf(heap, ch[Idx(k)], k)
         /\ ch[Idx(k)] \in Seq(Items) /\ Len(ch[Idx(k)]) \in Nat
<1>1. DM = DMap(table, heap, ch) /\ Tidy(table, heap, ch)
  BY MapIs
<1>2. DM[k] = St(table, heap, ch, k)
  BY <1>1 DEF DMap
<1> DEFINE a == HashFn[k] % Cardinality(DOMAIN table)
<1>3. a \in DOMAIN table
  BY <1>1 DEF Tidy
<1>4. St(table, heap, ch, k) = StackOf(heap, ch[a], k) /\ Idx(k) = a
  BY DEF St, At, Idx, Slots
<1> HIDE DEF a
<1>5. StackOf(heap, ch[a], k) \in Seq(Vals) /\ ch[a] \in Seq(Items) /\ Len(ch[a]) \in Nat
  BY <1>1, <1>3, TidyHolds
<1> QED
  BY <1>2, <1>3, <1>4, <1>5 DEF Slots

LEMMA InsertMap ==
  ASSUME NEW ch, Core(ch), NEW k \in Keys, NEW v \in Vals,
         NEW x \in Items \ Live, NEW bk, NEW pv,
         NEW b, b = Idx(k), Insert(x, k, bk, pv, v), st' = st, leaked' = leaked,
         \/ bk = b /\ pv = NULL /\ suspect' = suspect \ {table[b]}
         \/ {bk, pv} \subseteq {NULL, Junk} /\ suspect' = (suspect \ {table[b]}) \cup {x}
  PROVE  DM' = [DM EXCEPT ![k] = <<v>> \o @]
<1> DEFINE ch2 == Pushed(ch, b, x)
<1>0. v \in Values \cup {NoValue}
  BY DEF Vals
<1>1. /\ Core(ch2)' /\ Slots' = Slots
      /\ heap'[x].key = k /\ heap'[x].value = v
      /\ \A y \in Live : heap'[y].key = heap[y].key /\ heap'[y].value = heap[y].value
  BY <1>0, InsertCore
<1> HIDE DEF ch2
<1>2. DM' = DMap(table', heap', ch2)
  BY <1>1, MapNext
<1>3. DM = DMap(table, heap, ch) /\ Tidy(table, heap, ch)
  BY MapIs
<1>4. Keeps(heap, heap', DOMAIN heap) /\ DOMAIN table' = DOMAIN table
  BY <1>1 DEF Keeps, Live, Slots
<1>5. HashFn[heap'[x].key] % Cardinality(DOMAIN table) = b /\ b \in DOMAIN table
  <2>1. Idx(k) = HashFn[k] % Cardinality(DOMAIN table)
    BY DEF Idx, Slots
  <2> QED  BY <1>1, <1>3, <2>1 DEF Tidy
<1>6. ASSUME NEW kk \in Keys
      PROVE  DM'[kk] = IF kk = k THEN <<v>> \o DM[kk] ELSE DM[kk]
  <2>1. St(table', heap', ch2, kk) = One(heap', x, kk) \o St(table, heap, ch, kk)
    BY <1>1, <1>3, <1>4, <1>5, PushStack DEF ch2
  <2>2. DM'[kk] = St(table', heap', ch2, kk)
    BY <1>2 DEF DMap
  <2>3. DM[kk] = St(table, heap, ch, kk) /\ DM[kk] \in Seq(Vals)
    BY StackValues
  <2>4. kk # k => <<>> \o DM[kk] = DM[kk]
    BY <2>3, ConcatEmptySeq
  <2>5. One(heap', x, kk) = IF kk = k THEN <<v>> ELSE <<>>
    BY <1>1 DEF One
  <2> QED  BY <2>1, <2>2, <2>3, <2>4, <2>5
<1>7. DM' = [kk \in Keys |-> DM'[kk]] /\ DM = [kk \in Keys |-> DM[kk]]
  BY <1>2, <1>3 DEF DMap
<1> QED
  BY <1>6, <1>7

LEMMA SetItemMap ==
  ASSUME NEW ch, Core(ch), NEW k \in Keys, NEW v \in Vals, SetItem(k, v)
  PROVE  DM' = [DM EXCEPT ![k] = <<v>> \o @]
<1>1. PICK b : b = Idx(k)
  OBVIOUS
<1>2. PICK x \in Items \ Live :
        Insert(x, k, b, NULL, v) /\ suspect' = suspect \ {table[b]}
  BY <1>1 DEF SetItem
<1>3. st' = st /\ leaked' = leaked
  BY DEF SetItem
<1> QED
  BY <1>1, <1>2, <1>3, InsertMap

Rewritten(a, k, v) == [a EXCEPT !.key = k, !.value = v]

LEMMA RewrittenIs ==
  ASSUME NEW bs, NEW a \in Cells(bs), NEW k \in Keys, NEW v \in Values \cup {NoValue}
  PROVE  LET p == Rewritten(a, k, v) IN
         /\ p \in Cells(bs) /\ p.next = a.next /\ p.key = k /\ p.value = v
  BY DEF Rewritten, Cells

LEMMA SetItemUniqMap ==
  ASSUME NEW ch, Core(ch), NEW k \in Keys, NEW v \in Values, SetItemUniq(k, v)
  PROVE  DM' = [DM EXCEPT ![k] = IF @ = <<>> THEN <<v>> ELSE <<v>> \o Tail(@)]
<1>1. PICK b : b = Idx(k)
  OBVIOUS
<1>2. st = "ok" /\ st' = st /\ leaked' = leaked /\ v \in Vals
  BY DEF SetItemUniq, Idle, Vals
<1>3. /\ DM[k] \in Seq(Vals) /\ b \in Slots /\ DM[k] = StackOf(heap, ch[b], k)
      /\ ch[b] \in Seq(Items) /\ Len(ch[b]) \in Nat
  BY <1>1, StackValues
<1>4. ASSUME DM[k] = <<>>, DM' = [DM EXCEPT ![k] = <<v>> \o @]
      PROVE  DM' = [DM EXCEPT ![k] = IF @ = <<>> THEN <<v>> ELSE <<v>> \o Tail(@)]
  <2>1. <<v>> \in Seq(Vals)
    BY <1>2
  <2>2. <<v>> \o <<>> = <<v>>
    BY <2>1, ConcatEmptySeq
  <2> QED  BY <1>4, <2>2
<1>5. CASE /\ table[b] = NULL
           /\ \E x \in Items \ Live : Insert(x, k, b, NULL, v)
           /\ UNCHANGED suspect
  <2>1. PICK x \in Items \ Live : Insert(x, k, b, NULL, v)
    BY <1>5
  <2>2. suspect' = suspect \ {table[b]}
    <3>1. suspect \subseteq Items /\ NULL \notin Items
      BY CoreIs, HashAssumption DEF On
    <3> QED  BY <1>5, <3>1
  <2>3. DM' = [DM EXCEPT ![k] = <<v>> \o @]
    BY <1>1, <1>2, <2>1, <2>2, InsertMap
  <2>4. ch[b] = <<>>
    <3>1. /\ table[b] = IF ch[b] = <<>> THEN NULL ELSE ch[b][1]
          /\ ch[b] = <<>> <=> Len(ch[b]) = 0
          /\ \A i \in 1..Len(ch[b]) : ch[b][i] # NULL
      BY <1>3, ChainOf
    <3>2. ch[b] # <<>> => 1 \in 1..Len(ch[b])
      BY <1>3, <3>1
    <3> QED  BY <1>5, <3>1, <3>2
  <2>5. DM[k] = <<>>
    BY <1>3, <2>4, StackEmpty
  <2> QED  BY <1>4, <2>3, <2>5
<1>6. CASE /\ table[b] # NULL /\ Search(k) # NULL
           /\ heap' = [heap EXCEPT ![Search(k)].key = k, ![Search(k)].value = v]
           /\ UNCHANGED <<table, elnum, suspect>>
  <2>1. PICK i \in 1..Len(ch[b]) : /\ ch[b][i] = Search(k) /\ heap[ch[b][i]].key = k
                                   /\ \A j \in 1..i - 1 : heap[ch[b][j]].key # k
    BY <1>1, <1>6, SearchIs
  <2>2. PICK x : x = Search(k)
    OBVIOUS
  <2>3. x \in Live /\ heap[x].key = k /\ x = ch[b][i]
    BY <1>3, <2>1, <2>2, ChainOf
  <2>4. heap \in [Live -> Cells(Buckets)]
    BY DEF Core
  <2>5. heap' = [heap EXCEPT ![x].key = k, ![x].value = v]
    BY <1>6, <2>2
  <2>6. /\ heap' \in [Live -> Cells(Buckets)] /\ DOMAIN heap' = DOMAIN heap
        /\ heap'[x].key = k /\ heap'[x].value = v
        /\ \A y \in Live \ {x} : heap'[y].key = heap[y].key /\ heap'[y].value = heap[y].value
        /\ \A y \in Live : heap'[y].next = heap[y].next
    <3> DEFINE d == Rewritten(heap[x], k, v)
    <3>1. heap[x] \in Cells(Buckets) /\ v \in Values \cup {NoValue}
      BY <2>3, <2>4
    <3>2. d \in Cells(Buckets) /\ d.next = heap[x].next /\ d.key = k /\ d.value = v
      BY <3>1, RewrittenIs
    <3>3. heap' = [heap EXCEPT ![x] = d]
      BY <2>3, <2>4, <2>5 DEF Rewritten
    <3> HIDE DEF d
    <3>4. /\ heap' \in [Live -> Cells(Buckets)] /\ DOMAIN heap' = DOMAIN heap /\ heap'[x] = d
          /\ \A y \in Live \ {x} : heap'[y] = heap[y]
      BY <2>3, <2>4, <3>2, <3>3 DEF Live
    <3> QED  BY <2>3, <3>2, <3>4
  <2>7. Shape(table', heap', ch) /\ DOMAIN table' = DOMAIN table
    <3>1. Shape(table, heap, ch)
      BY MapIs
    <3>2. \A c \in DOMAIN table : \A j \in 1..Len(ch[c]) : ch[c][j] \in Live
      BY <3>1, ChainIs DEF Live
    <3> QED  BY <1>6, <2>6, <3>1, <3>2 DEF Shape, Path, Live
  <2>8. CoreBits(table', heap', ch)
    <3>1. \E sz \in Sizes : table' \in [0..sz - 1 -> X]
      BY <1>6 DEF Core
    <3>2. heap' \in [DOMAIN heap' -> Cells(Buckets)]
      BY <2>6 DEF Live
    <3> QED  BY <2>7, <3>1, <3>2 DEF CoreBits
  <2>9. Tidy(table', heap', ch)
    BY <2>8, TidyIf
  <2>10. DM' = DMap(table', heap', ch)
    <3>1. DM' = [kk \in Keys |->
                   StackOf(heap', Walk(heap', table'[HashFn[kk] % Cardinality(DOMAIN table')]), kk)]
      BY DEF DM, Stack, StackOf, Chain, Idx, Slots
    <3> QED  BY <2>7, <2>9, <3>1, MapOf DEF Tidy
  <2>11. DM = DMap(table, heap, ch) /\ Tidy(table, heap, ch)
    BY MapIs
  <2>12. /\ b \in DOMAIN table /\ HashFn[heap[x].key] % Cardinality(DOMAIN table) = b
         /\ Keeps(heap, heap', DOMAIN heap \ {x}) /\ heap'[x].key = heap[x].key
         /\ heap'[x].value \in Vals
    <3>1. Idx(k) = HashFn[k] % Cardinality(DOMAIN table)
      BY DEF Idx, Slots
    <3> QED  BY <1>1, <1>2, <1>3, <2>3, <2>6, <3>1 DEF Keeps, Slots, Live
  <2>13. \A c \in DOMAIN table : \A j \in 1..Len(ch[c]) : ch[c][j] = x => c = b /\ j = i
    <3>1. \A c \in Slots : \A j \in 1..Len(ch[c]) : ch[b][i] = ch[c][j] => b = c /\ i = j
      BY <1>3, ChainOf
    <3> QED  BY <2>3, <3>1 DEF Slots
  <2>17. ASSUME NEW kk \in Keys
         PROVE  IF kk = heap[x].key
                THEN Swapped(St(table, heap, ch, kk), St(table', heap', ch, kk),
                             StackOf(heap, Pre(ch[b], i), kk), heap'[x].value)
                ELSE St(table', heap', ch, kk) = St(table, heap, ch, kk)
    <3>1. Tidy(table, heap, ch) /\ heap'[x].key = heap[x].key /\ heap'[x].value \in Vals
      BY <2>11, <2>12
    <3>2. Touches(table, heap, ch, table', heap', b, i, x)
      BY <2>3, <2>7, <2>12, <2>13 DEF Touches
    <3> QED  BY ONLY kk \in Keys, <3>1, <3>2, SwapStack
  <2>14. ASSUME NEW kk \in Keys
         PROVE  DM'[kk] = IF kk = k THEN <<v>> \o Tail(DM[kk]) ELSE DM[kk]
    <3>1. IF kk = heap[x].key
          THEN Swapped(St(table, heap, ch, kk), St(table', heap', ch, kk),
                       StackOf(heap, Pre(ch[b], i), kk), heap'[x].value)
          ELSE St(table', heap', ch, kk) = St(table, heap, ch, kk)
      BY <2>17
    <3>2. DM'[kk] = St(table', heap', ch, kk) /\ DM[kk] = St(table, heap, ch, kk)
      BY <2>10, <2>11 DEF DMap
    <3>3. CASE kk = k
      <4>1. StackOf(heap, Pre(ch[b], i), k) = <<>>
        <5>1. \A j \in 1..i - 1 : heap[ch[b][j]].key # k
          BY <2>1
        <5> QED  BY <1>3, <5>1, FirstHit
      <4>2. Swapped(DM[kk], DM'[kk], <<>>, v)
        BY <2>3, <2>6, <3>1, <3>2, <3>3, <4>1
      <4>3. DM'[kk] = <<v>> \o Tail(DM[kk])
        BY <1>2, <4>2, SwappedIs
      <4> QED  BY <3>3, <4>3
    <3>4. CASE kk # k
      BY <2>3, <3>1, <3>2, <3>4
    <3> QED  BY <3>3, <3>4
  <2>15. DM[k] # <<>>
    <3>1. Swapped(St(table, heap, ch, k), St(table', heap', ch, k),
                  StackOf(heap, Pre(ch[b], i), k), heap'[x].value)
      BY <2>3, <2>17
    <3>2. StackOf(heap, Pre(ch[b], i), k) = <<>>
      <4>1. \A j \in 1..i - 1 : heap[ch[b][j]].key # k
        BY <2>1
      <4> QED  BY <1>3, <4>1, FirstHit
    <3>3. DM[k] = St(table, heap, ch, k)
      BY <2>11 DEF DMap
    <3>4. Swapped(DM[k], St(table', heap', ch, k), <<>>, v)
      BY <2>6, <3>1, <3>2, <3>3
    <3> QED  BY <1>2, <3>4, SwappedIs
  <2>16. DM' = [kk \in Keys |-> DM'[kk]] /\ DM = [kk \in Keys |-> DM[kk]]
    BY <2>10, <2>11 DEF DMap
  <2> QED  BY <2>14, <2>15, <2>16
<1>7. CASE /\ table[b] # NULL /\ Search(k) = NULL
           /\ \E x \in Items \ Live, bucket, prev \in {NULL, Junk} :
                /\ Insert(x, k, bucket, prev, v)
                /\ suspect' = (suspect \ {table[b]}) \cup {x}
  <2>1. PICK x \in Items \ Live, bucket \in {NULL, Junk}, prev \in {NULL, Junk} :
          Insert(x, k, bucket, prev, v) /\ suspect' = (suspect \ {table[b]}) \cup {x}
    BY <1>7
  <2>2. {bucket, prev} \subseteq {NULL, Junk}
    OBVIOUS
  <2>3. DM' = [DM EXCEPT ![k] = <<v>> \o @]
    BY <1>1, <1>2, <2>1, <2>2, InsertMap
  <2>4. \A i \in 1..Len(ch[b]) : heap[ch[b][i]].key # k
    BY <1>1, <1>7, SearchIs
  <2>5. DM[k] = <<>>
    <3> DEFINE c == ch[b]
    <3>1. Len(c) \in Nat /\ \A i \in 1..Len(c) : heap[c[i]].key # k
      BY <1>3, <2>4
    <3> HIDE DEF c
    <3>2. StackOf(heap, c, k) = <<>>
      BY <3>1, StackNone
    <3> QED  BY <1>3, <3>2 DEF c
  <2> QED  BY <1>4, <2>3, <2>5
<1> QED
  BY <1>1, <1>5, <1>6, <1>7 DEF SetItemUniq

\* Mapping m becomes n as place j of the stack of k goes, or its top.
Cuts(m, n, k, j) == n = [m EXCEPT ![k] = SubSeq(@, 1, j - 1) \o SubSeq(@, j + 1, Len(@))]
Pops(m, n, k) == n = [m EXCEPT ![k] = Tail(@)]

\* An item that goes takes its value out of its stack.
LEMMA DropMap ==
  ASSUME NEW ch, Core(ch), NEW b \in Slots, NEW i \in 1..Len(ch[b]), NEW x, x = ch[b][i],
         Core(Drop(ch, b, i))', Slots' = Slots, Live' = Live \ {x},
         \A y \in Live' : heap'[y].key = heap[y].key /\ heap'[y].value = heap[y].value,
         NEW k, k = heap[x].key,
         NEW f, f = StackOf(heap, Pre(ch[b], i), k), NEW j, j = Len(f) + 1
  PROVE  /\ k \in Keys /\ j \in DOMAIN DM[k] /\ Cuts(DM, DM', k, j)
         /\ f = <<>> => DM[k] # <<>> /\ Pops(DM, DM', k)
<1> DEFINE ch2 == Drop(ch, b, i)
<1>1. /\ x \in Live /\ Placed1(table, heap, b, x) /\ b \in DOMAIN table
      /\ \A c \in Slots : \A l \in 1..Len(ch[c]) : ch[b][i] = ch[c][l] => b = c /\ i = l
  BY ChainOf DEF Slots
<1>2. k \in Keys
  BY <1>1 DEF Core, Cells
<1>3. HashFn[heap[x].key] % Cardinality(DOMAIN table) = b
  BY <1>1 DEF Placed1
<1>4. Keeps(heap, heap', DOMAIN heap \ {x}) /\ DOMAIN table' = DOMAIN table
  BY DEF Keeps, Live, Slots
<1>5. \A c \in DOMAIN table : \A l \in 1..Len(ch[c]) : ch[c][l] = x => c = b /\ l = i
  BY <1>1 DEF Slots
<1>6. DM = DMap(table, heap, ch) /\ Tidy(table, heap, ch)
  BY MapIs
<1> HIDE DEF ch2
<1>7. DM' = DMap(table', heap', ch2)
  <2>1. Core(ch2)'
    BY DEF ch2
  <2> QED  BY <2>1, MapNext
<1>8. ASSUME NEW kk \in Keys
      PROVE  IF kk = k THEN Taken(DM[kk], DM'[kk], f) ELSE DM'[kk] = DM[kk]
  <2>1. IF kk = heap[x].key
        THEN Taken(St(table, heap, ch, kk), St(table', heap', ch2, kk),
                   StackOf(heap, Pre(ch[b], i), kk))
        ELSE St(table', heap', ch2, kk) = St(table, heap, ch, kk)
    <3>1. Tidy(table, heap, ch) /\ Touches(table, heap, ch, table', heap', b, i, x)
      BY <1>1, <1>3, <1>4, <1>5, <1>6 DEF Touches
    <3>2. IF kk = heap[x].key
          THEN Taken(St(table, heap, ch, kk), St(table', heap', Drop(ch, b, i), kk),
                     StackOf(heap, Pre(ch[b], i), kk))
          ELSE St(table', heap', Drop(ch, b, i), kk) = St(table, heap, ch, kk)
      BY ONLY kk \in Keys, <3>1, DropStack
    <3> QED  BY <3>2 DEF ch2
  <2>2. DM[kk] = St(table, heap, ch, kk) /\ DM'[kk] = St(table', heap', ch2, kk)
    BY <1>6, <1>7 DEF DMap
  <2> QED  BY <2>1, <2>2
<1>9. DM' = [kk \in Keys |-> DM'[kk]] /\ DM = [kk \in Keys |-> DM[kk]]
  BY <1>6, <1>7 DEF DMap
<1> DEFINE m == DM[k]
           m2 == DM'[k]
<1>10. Taken(m, m2, f)
  BY <1>2, <1>8
<1> HIDE DEF m, m2
<1>11. /\ j \in DOMAIN m /\ m2 = SubSeq(m, 1, j - 1) \o SubSeq(m, j + 1, Len(m))
       /\ f = <<>> => m # <<>> /\ m2 = Tail(m)
  BY ONLY <1>10, j = Len(f) + 1, TakenIs
<1>12. \A kk \in Keys : kk # k => DM'[kk] = DM[kk]
  BY <1>8
<1>13. DM' = [kk \in Keys |-> IF kk = k THEN m2 ELSE DM[kk]]
  BY <1>9, <1>12 DEF m2
<1>14. Cuts(DM, DM', k, j)
  BY <1>2, <1>9, <1>11, <1>13 DEF m, Cuts
<1>15. f = <<>> => DM[k] # <<>> /\ Pops(DM, DM', k)
  BY <1>2, <1>9, <1>11, <1>13 DEF m, Pops
<1> QED
  BY <1>2, <1>11, <1>14, <1>15 DEF m

LEMMA RemoveItemMap ==
  ASSUME NEW ch, Core(ch), NEW k \in Keys, RemoveItem(k)
  PROVE  DM[k] # <<>> /\ Pops(DM, DM', k)
<1>1. PICK b, x : b = Idx(k) /\ x = Search(k)
  OBVIOUS
<1>2. b \in Slots /\ x # NULL
  BY <1>1, KnownChains DEF RemoveItem
<1>3. PICK i \in 1..Len(ch[b]) : /\ ch[b][i] = x /\ heap[ch[b][i]].key = k
                                 /\ \A j \in 1..i - 1 : heap[ch[b][j]].key # k
  BY <1>1, <1>2, SearchIs
<1>4. /\ Core(Drop(ch, b, i))' /\ Slots' = Slots /\ Live' = Live \ {x}
      /\ \A y \in Live' : heap'[y].key = heap[y].key /\ heap'[y].value = heap[y].value
  BY <1>1, <1>2, <1>3, RemoveCore
<1>5. StackOf(heap, Pre(ch[b], i), k) = <<>>
  <2>1. ch[b] \in Seq(Items) /\ \A j \in 1..i - 1 : heap[ch[b][j]].key # k
    BY <1>2, <1>3, ChainOf
  <2> QED  BY <2>1, FirstHit
<1> DEFINE f == StackOf(heap, Pre(ch[b], i), k)
           j == Len(f) + 1
<1>6. x = ch[b][i] /\ k = heap[x].key
  BY <1>3
<1>7. f = <<>>
  BY <1>5
<1> HIDE DEF f, j
<1>8. f = <<>> => DM[k] # <<>> /\ Pops(DM, DM', k)
  <2>1. f = StackOf(heap, Pre(ch[b], i), k) /\ j = Len(f) + 1
    BY DEF f, j
  <2>2. k = heap[x].key
    BY <1>6
  <2>3. x = ch[b][i] /\ b \in Slots
    BY <1>2, <1>6
  <2> QED  BY <1>4, <2>1, <2>2, <2>3, DropMap
<1> QED
  BY <1>7, <1>8

LEMMA DeletePairMap ==
  ASSUME NEW ch, Core(ch), NEW hit \in Items, DeletePair(hit)
  PROVE  \/ \E k \in Keys : \E j \in DOMAIN DM[k] : Cuts(DM, DM', k, j)
         \/ DM' = DM
<1>1. leaked' = leaked /\ hit \in On(table, ch)
  BY ReachableIs DEF DeletePair
<1>2. PICK b \in Slots : \E i \in 1..Len(ch[b]) : ch[b][i] = hit
  BY <1>1 DEF On, Slots
<1>3. PICK i \in 1..Len(ch[b]) : ch[b][i] = hit
  BY <1>2
<1>4. st' = DeleteFate(heap[hit])
  BY DEF DeletePair
<1>5. /\ st' \in {"ok", "wild write", "assert bucket"}
      /\ st' = "ok" <=> hit \notin suspect
  BY <1>3, <1>4, FateIs
<1>6. CASE st' = "ok"
  <2>1. Unlink(hit) /\ hit \notin suspect /\ st' \in Sts
    BY <1>5, <1>6 DEF DeletePair, Sts
  <2>2. /\ Core(Drop(ch, b, i))' /\ Slots' = Slots /\ Live' = Live \ {hit}
        /\ \A y \in Live' : heap'[y].key = heap[y].key /\ heap'[y].value = heap[y].value
    BY <1>1, <1>3, <2>1, UnlinkCore
  <2> DEFINE k == heap[hit].key
             f == StackOf(heap, Pre(ch[b], i), k)
             j == Len(f) + 1
  <2>3. hit = ch[b][i]
    BY <1>3
  <2>4. k = heap[hit].key /\ f = StackOf(heap, Pre(ch[b], i), k) /\ j = Len(f) + 1
    OBVIOUS
  <2> HIDE DEF k, f, j
  <2>5. k \in Keys /\ j \in DOMAIN DM[k] /\ Cuts(DM, DM', k, j)
    BY <2>2, <2>3, <2>4, DropMap
  <2> QED  BY <2>5
<1>7. CASE st' # "ok"
  <2>1. UNCHANGED <<table, heap>>
    BY <1>7 DEF DeletePair
  <2>2. DM' = DM
    BY <2>1 DEF DM, Stack, Chain, Idx, Slots
  <2> QED  BY <2>2
<1> QED
  BY <1>6, <1>7

\* With every slot empty there is nothing for any key.
LEMMA EmptyMap ==
  ASSUME NEW ch, Core(ch)', \A b \in Slots' : table'[b] = NULL
  PROVE  DM' = [k \in Keys |-> <<>>]
<1>1. DM' = DMap(table', heap', ch) /\ Tidy(table', heap', ch)
  BY MapNext
<1>2. Shape(table', heap', ch)
  BY DEF Core, Chained
<1>3. ASSUME NEW k \in Keys PROVE St(table', heap', ch, k) = <<>>
  <2> DEFINE a == HashFn[k] % Cardinality(DOMAIN table')
             c == ch[a]
  <2>1. a \in DOMAIN table' /\ table'[a] = NULL
    BY <1>1 DEF Tidy, Slots
  <2>2. /\ c \in Seq(Items) /\ table'[a] = (IF c = <<>> THEN NULL ELSE c[1])
        /\ c = <<>> <=> Len(c) = 0
        /\ \A i \in 1..Len(c) : c[i] # NULL
    BY <1>2, <2>1, ChainIs
  <2>3. St(table', heap', ch, k) = StackOf(heap', c, k)
    BY DEF St, At
  <2> HIDE DEF c
  <2>4. Len(c) \in Nat
    BY <2>2
  <2>5. c # <<>> => 1 \in 1..Len(c)
    BY <2>2, <2>4
  <2>6. c = <<>>
    BY <2>1, <2>2, <2>5
  <2> QED  BY <2>3, <2>6, StackEmpty
<1> QED
  BY <1>1, <1>3 DEF DMap

LEMMA RehashMap ==
  ASSUME NEW ch, Core(ch), NEW sz \in Sizes, Rehash(sz)
  PROVE  DM' = [k \in Keys |-> Turned(DM[k])] \/ DM' = DM
<1>1. PICK c : /\ Core(c)'
               /\ \/ UNCHANGED <<table, heap>>
                  \/ \A k \in Keys :
                       St(table', heap', c, k) = Turned(StackOf(heap, Traversal, k))
  BY RehashCore
<1>2. CASE UNCHANGED <<table, heap>>
  BY <1>2 DEF DM, Stack, Chain, Idx, Slots
<1>3. CASE \A k \in Keys : St(table', heap', c, k) = Turned(StackOf(heap, Traversal, k))
  <2>1. DM' = DMap(table', heap', c)
    BY <1>1, MapNext
  <2>2. ASSUME NEW k \in Keys PROVE St(table', heap', c, k) = Turned(DM[k])
    <3>1. StackOf(heap, Traversal, k) = DM[k]
      BY TraversalStack, StackValues
    <3> QED  BY <1>3, <3>1
  <2> QED  BY <2>1, <2>2 DEF DMap
<1> QED
  BY <1>1, <1>2, <1>3

LEMMA ClearMap ==
  ASSUME NEW ch, Known(ch), Cleanup \/ Fini \/ \E sz \in Sizes : HashInit(sz)
  PROVE  DM' = [k \in Keys |-> <<>>]
<1>1. CASE Cleanup \/ Fini
  <2>1. Core(ch) /\ st' \in {"ok", "fini"} /\ \E veto : CleanupBody(veto)
    BY <1>1 DEF Known, Cleanup, Fini, Idle
  <2>2. PICK veto : CleanupBody(veto)
    BY <2>1
  <2>3. PICK e : e = Empty(Slots)
    OBVIOUS
  <2>4. Core(e)' /\ \A b \in Slots' : table'[b] = NULL
    <3>1. st' \in Sts
      BY <2>1 DEF Sts
    <3> QED  BY <2>1, <2>2, <2>3, <3>1, CleanupCore
  <2> QED  BY <2>4, EmptyMap
<1>2. CASE \E sz \in Sizes : HashInit(sz)
  <2>1. PICK sz \in Sizes : HashInit(sz)
    BY <1>2
  <2>2. PICK e : Known(e)'
    BY <2>1, HashInitKeeps
  <2>3. Core(e)'
    BY <2>2 DEF Known
  <2>4. \A b \in Slots' : table'[b] = NULL
    BY <2>1 DEF HashInit, EmptyTable, Slots
  <2> QED  BY <2>3, <2>4, EmptyMap
<1> QED
  BY <1>1, <1>2

\* At first there is nothing for any key.
LEMMA FirstMap ==
  ASSUME Init
  PROVE  DM = [k \in Keys |-> <<>>]
<1>1. PICK sz \in Sizes : table = EmptyTable(sz)
  BY DEF Init
<1>2. PICK ch : Core(ch)
  BY Initially, KnownIf DEF Known
<1>3. ASSUME NEW k \in Keys PROVE DM[k] = <<>>
  <2>1. table[Idx(k)] = NULL /\ Idx(k) \in Slots /\ DM[k] = StackOf(heap, ch[Idx(k)], k)
    <3>1. Idx(k) \in Slots /\ DM[k] = StackOf(heap, ch[Idx(k)], k)
      BY <1>2, StackValues
    <3> QED  BY <1>1, <3>1 DEF EmptyTable, Slots
  <2>2. Shape(table, heap, ch)
    BY <1>2, MapIs
  <2> DEFINE a == Idx(k)
             c == ch[a]
  <2>3. /\ c \in Seq(Items) /\ table[a] = (IF c = <<>> THEN NULL ELSE c[1])
        /\ c = <<>> <=> Len(c) = 0
        /\ \A i \in 1..Len(c) : c[i] # NULL
    BY <2>1, <2>2, ChainIs DEF Slots
  <2>4. DM[k] = StackOf(heap, c, k) /\ table[a] = NULL
    BY <2>1
  <2> HIDE DEF a, c
  <2>5. c # <<>> => 1 \in 1..Len(c)
    BY <2>3, LenProperties
  <2>6. c = <<>>
    BY <2>3, <2>4, <2>5
  <2> QED  BY <2>4, <2>6, StackEmpty
<1> QED
  BY <1>3 DEF DM

\* D!DNext on m and m2.
DictNext(m, m2) ==
    \/ \E k \in Keys, v \in Vals :
         \/ m2 = [m EXCEPT ![k] = <<v>> \o @]
         \/ m2 = [m EXCEPT ![k] = IF @ = <<>> THEN <<v>> ELSE <<v>> \o Tail(@)]
    \/ \E k \in Keys : (m[k] # <<>> /\ Pops(m, m2, k)) \/ \E j \in DOMAIN m[k] : Cuts(m, m2, k, j)
    \/ m2 = [k \in Keys |-> Turned(m[k])]
    \/ m2 = [k \in Keys |-> <<>>]

\* Every operation is one of Dict, or leaves all the stacks as they are.
LEMMA DictStep ==
  ASSUME IInv, [Next]_vars
  PROVE  DictNext(DM, DM') \/ DM' = DM
<1>1. PICK ch : Known(ch) /\ Core(ch)
  BY KnownIf DEF Known
<1>2. ASSUME NEW k \in Keys, NEW v \in Values, SetItem(k, v) PROVE DictNext(DM, DM')
  <2>1. v \in Vals
    BY DEF Vals
  <2>2. DM' = [DM EXCEPT ![k] = <<v>> \o @]
    BY <1>1, <1>2, <2>1, SetItemMap
  <2> QED  BY <2>1, <2>2 DEF DictNext
<1>3. ASSUME NEW k \in Keys, SetAdd(k) PROVE DictNext(DM, DM')
  <2>1. SetItem(k, NoValue) /\ NoValue \in Vals
    BY <1>3 DEF SetAdd, Vals
  <2>2. DM' = [DM EXCEPT ![k] = <<NoValue>> \o @]
    BY <1>1, <2>1, SetItemMap
  <2> QED  BY <2>1, <2>2 DEF DictNext
<1>4. ASSUME NEW hit \in Items, DeletePair(hit) PROVE DictNext(DM, DM') \/ DM' = DM
  <2>1. \/ \E k \in Keys : \E j \in DOMAIN DM[k] : Cuts(DM, DM', k, j)
        \/ DM' = DM
    BY <1>1, <1>4, DeletePairMap
  <2> QED  BY <2>1 DEF DictNext
<1>5. ASSUME NEW sz \in Sizes, Rehash(sz) PROVE DictNext(DM, DM') \/ DM' = DM
  <2>1. DM' = [k \in Keys |-> Turned(DM[k])] \/ DM' = DM
    BY <1>1, <1>5, RehashMap
  <2> QED  BY <2>1 DEF DictNext
<1>6. ASSUME Cleanup \/ Fini \/ \E sz \in Sizes : HashInit(sz) PROVE DictNext(DM, DM')
  <2>1. DM' = [k \in Keys |-> <<>>]
    BY <1>1, <1>6, ClearMap
  <2> QED  BY <2>1 DEF DictNext
<1>7. ASSUME NEW k \in Keys, NEW v \in Values, SetItemUniq(k, v) PROVE DictNext(DM, DM')
  <2>1. v \in Vals
    BY DEF Vals
  <2>2. DM' = [DM EXCEPT ![k] = IF @ = <<>> THEN <<v>> ELSE <<v>> \o Tail(@)]
    BY <1>1, <1>7, SetItemUniqMap
  <2> QED  BY <2>1, <2>2 DEF DictNext
<1>8. ASSUME NEW k \in Keys, RemoveItem(k) PROVE DictNext(DM, DM')
  <2>1. DM[k] # <<>> /\ Pops(DM, DM', k)
    BY <1>1, <1>8, RemoveItemMap
  <2> QED  BY <2>1 DEF DictNext
<1>9. ASSUME \/ UNCHANGED vars
             \/ \E kind \in {"traverse", "iterate"} : TraverseStart(kind)
             \/ TraverseNext \/ TraverseStop
      PROVE  DM' = DM
  <2>1. UNCHANGED <<table, heap>>
    BY <1>9 DEF vars, TraverseStart, TraverseNext, TraverseStop
  <2> QED  BY <2>1 DEF DM, Stack, Chain, Idx, Slots
<1> QED
  BY <1>2, <1>3, <1>4, <1>5, <1>6, <1>7, <1>8, <1>9 DEF Next, CoreNext

\* The chained table is, for every key, a stack of values: what hash_set_item pushes
\* shadows what was there, hash_set_item_uniq replaces what is on top,
\* hash_remove_item pops it, hash_delete_pair takes any one out and hash_rehash
\* turns every stack round; nothing else changes them, and none of these changes the
\* stack of another key.
THEOREM TableIsADict == Spec => ImplementsDict
<1>1. Init => D!DInit
  BY FirstMap DEF D!DInit, DM
<1>2. IInv /\ [Next]_vars => [D!DNext]_DM
  <2> SUFFICES ASSUME IInv, [Next]_vars PROVE D!DNext \/ DM' = DM
    OBVIOUS
  <2>1. DictNext(DM, DM') \/ DM' = DM
    BY DictStep
  <2>2. DictNext(DM, DM') => D!DNext
    BY DEF DictNext, Cuts, Pops, Turned, Vals, DM, D!DNext, D!DSet, D!DSetUniq, D!DRemove,
           D!DDelete, D!DRehash, D!DClear, D!RemoveAt, D!Reverse
  <2> QED  BY <2>1, <2>2
<1> QED
  BY <1>1, <1>2, Always, PTL DEF Spec, ImplementsDict, D!DSpec, DM
=============================================================================
