----------------------------- MODULE HeapProofs -----------------------------
(***************************************************************************)
(* What the runs of MCHeap and of MPool check of the array, of the heap,   *)
(* of the popularity set and of the arena.                                 *)
(*                                                                         *)
(* The growing array keeps its promises for every element size, every      *)
(* growth policy of ARRAY_ENSURE_SET_DATASZ and arrays of any length: the  *)
(* block has room for what is counted, and the client's initialiser and    *)
(* finaliser are called in turn.  The lemmas follow the code: what the     *)
(* computed size is good for, what realloc and the calls do to the slots,  *)
(* what the ensure bodies do; then one step for each operation.            *)
(*                                                                         *)
(* The heap over it is a priority queue, for any values and any length.    *)
(* The argument is about the one node out of order while an element sinks; *)
(* that the bag of the elements stays what it was is counted value by      *)
(* value, and the recursive functions of siftdown and heap_get_at are      *)
(* shown to exist before they are used, by the least index they fail at.   *)
(*                                                                         *)
(* The popularity set of cm.c keeps the most popular keys, for any sketch, *)
(* any room and any threshold, and however fasthash spreads the keys.  The *)
(* argument is about fast_pop_thresh: it lies between the keys that are    *)
(* outside and those that are inside, and a set with room left has it at   *)
(* minthresh.                                                              *)
(*                                                                         *)
(* The arena of mpool.c keeps its blocks apart, for every chunk size and   *)
(* every set of requests.                                                  *)
(***************************************************************************)
EXTENDS MCHeap, MPool, FiniteSetTheorems, WellFoundedInduction, TLAPS

-----------------------------------------------------------------------------
(* The array *)

LEMMA LeastNatural ==
  ASSUME NEW T \in SUBSET Nat, T # {}
  PROVE  Min(T) \in T /\ \A y \in T : Min(T) =< y
<1> DEFINE R == {ss \in Nat \X Nat : ss[1] < ss[2]}
<1>1. IsWellFoundedOn(R, Nat)
  BY NatLessThanWellFounded DEF OpToRel
<1> HIDE DEF R
<1>2. PICK x \in T : \A y \in T : <<y, x>> \notin R
  BY <1>1, WFMin
<1>3. \A y \in T : y < x => <<y, x>> \in R
  BY DEF R
<1>4. ASSUME NEW y \in T PROVE x =< y
  <2>1. x \in Nat /\ y \in Nat
    OBVIOUS
  <2>2. ~ (y < x)
    BY <1>2, <1>3
  <2> QED
    BY <2>1, <2>2
<1> QED
  BY <1>4 DEF Min

\* ARRAY_ENSURE_SET_DATASZ computes a size that is enough, whatever the size
\* before: SmallBits doublings take 1 to Small.
LEMMA SizeIsEnough ==
  ASSUME NEW m \in Nat, NEW v \in Nat \ {0}
  PROVE  SetDatasz(m, v) \in Nat /\ v =< SetDatasz(m, v)
<1> DEFINE from == IF m = 0 \/ m > Small THEN 1 ELSE m
           T == {b \in {from * 2 ^ j : j \in 0 .. SmallBits} : b >= v}
<1>1. CASE v >= Small
  BY <1>1 DEF SetDatasz
<1>2. CASE v < Small
  <2>1. from \in Nat /\ from >= 1
    BY ArrayAssumption
  <2>2. SetDatasz(m, v) = Min(T)
    BY <1>2, ArrayAssumption DEF SetDatasz
  <2> HIDE DEF from
  <2>3. T \in SUBSET Nat
    <3>1. \A j \in 0 .. SmallBits : 2 ^ j \in Int
      BY ArrayAssumption
    <3>2. \A j \in 0 .. SmallBits : from * 2 ^ j \in Int
      BY <3>1, <2>1
    <3> QED
      BY <3>2
  <2>4. from * 2 ^ SmallBits \in T
    <3>1. 2 ^ SmallBits = Small /\ SmallBits \in 0 .. SmallBits
      BY ArrayAssumption
    <3>2. from * Small >= Small /\ Small \in Nat
      BY <2>1, ArrayAssumption
    <3>3. from * 2 ^ SmallBits >= v
      BY <1>2, <3>1, <3>2, <2>1, ArrayAssumption
    <3>4. from * 2 ^ SmallBits \in {from * 2 ^ j : j \in 0 .. SmallBits}
      BY <3>1
    <3> QED
      BY <3>3, <3>4
  <2> HIDE DEF T
  <2>5. Min(T) \in T
    BY <2>3, <2>4, LeastNatural
  <2> QED
    BY <2>2, <2>3, <2>5 DEF T
<1> QED
  BY <1>1, <1>2, ArrayAssumption

\* How many slots a block of sz bytes has.
LEMMA SlotsOfBytes ==
  ASSUME NEW n \in Nat, NEW sz \in Nat
  PROVE  /\ sz \div Elsz \in Nat
         /\ Elsz * n \in Nat
         /\ Elsz * n =< sz <=> n =< sz \div Elsz
BY ArrayAssumption

LEMMA MoreBytesMoreSlots ==
  ASSUME NEW s1 \in Nat, NEW s2 \in Nat, s1 =< s2
  PROVE  s1 \div Elsz =< s2 \div Elsz
<1>1. s1 \div Elsz \in Nat /\ Elsz * (s1 \div Elsz) =< s1
  BY ArrayAssumption
<1> QED
  BY <1>1, SlotsOfBytes
-----------------------------------------------------------------------------
Blocks == UNION {[First(n) -> Int] : n \in Nat}
Arrays == [elnum : Nat, datasz : Nat, data : Blocks, set : BOOLEAN]

\* The strengthening of RoomForAll: with the types, and no element is counted
\* outside the time between array_init and array_fini.
Sound(a) ==
    /\ a \in Arrays
    /\ First(a.elnum) \subseteq DOMAIN a.data
    /\ a.set => DOMAIN a.data = First(a.datasz \div Elsz)
    /\ a.set \/ a.elnum = 0

InTurn(a, doubt) == \A i \in DOMAIN a.data \ doubt : Live(a.data[i]) <=> i < a.elnum

ArrayInv == Sound(ar) /\ InTurn(ar, suspect)

\* What a slot of the new block b held in the old one.
Kept(old, i) == IF i \in DOMAIN old THEN old[i] ELSE Raw

LEMMA BlockIntro ==
  ASSUME NEW n \in Nat, NEW b \in [First(n) -> Int]
  PROVE  b \in Blocks
BY DEF Blocks

LEMMA BlockElim ==
  ASSUME NEW b \in Blocks
  PROVE  \E n \in Nat : b \in [First(n) -> Int]
BY DEF Blocks

\* The pointer NULL is a block without slots.
LEMMA NullBlock == Null \in Blocks /\ DOMAIN Null = {}
<1>1. Null \in [First(0) -> Int]
  BY DEF Null, First
<1> QED
  BY <1>1, BlockIntro DEF Null

\* The calls of the initialiser or the finaliser write their slots only.
Called(c, a, slots, outcome) ==
    /\ c \in Arrays
    /\ c.elnum = a.elnum /\ c.datasz = a.datasz /\ c.set = a.set
    /\ DOMAIN c.data = DOMAIN a.data
    /\ \A i \in DOMAIN a.data : c.data[i] = IF i \in slots THEN outcome ELSE a.data[i]

LEMMA SlotsCalled ==
  ASSUME NEW a \in Arrays, NEW slots, NEW outcome \in Int
  PROVE  Called(Call(a, slots, outcome), a, slots, outcome)
<1> DEFINE data == [i \in DOMAIN a.data |-> IF i \in slots THEN outcome ELSE a.data[i]]
<1>1. PICK n \in Nat : a.data \in [First(n) -> Int]
  BY BlockElim DEF Arrays
<1>2. data \in [First(n) -> Int]
  BY <1>1
<1>3. data \in Blocks
  BY <1>2, BlockIntro
<1>4. Call(a, slots, outcome) = [a EXCEPT !.data = data]
  BY DEF Call
<1>5. DOMAIN data = DOMAIN a.data
  OBVIOUS
<1>6. \A i \in DOMAIN a.data : data[i] = IF i \in slots THEN outcome ELSE a.data[i]
  OBVIOUS
<1> HIDE DEF data
<1> QED
  BY <1>3, <1>4, <1>5, <1>6 DEF Arrays, Called

LEMMA Initialised ==
  ASSUME NEW a \in Arrays, NEW slots
  PROVE  Called(InitSlots(a, slots), a, slots, New)
BY SlotsCalled DEF InitSlots, New

LEMMA Finalised ==
  ASSUME NEW a \in Arrays, NEW slots
  PROVE  Called(FiniSlots(a, slots), a, slots, Dead)
BY SlotsCalled DEF FiniSlots, Dead

\* The block after the enlargement has the slots that are asked for, and the old
\* ones hold what they held.
Grown(g, a, n) ==
    /\ g \in Arrays
    /\ g.elnum = a.elnum /\ g.set = a.set
    /\ DOMAIN g.data = First(g.datasz \div Elsz)
    /\ First(n) \subseteq DOMAIN g.data
    /\ DOMAIN a.data \subseteq DOMAIN g.data
    /\ \A i \in DOMAIN g.data : g.data[i] = Kept(a.data, i)

LEMMA Enlarged ==
  ASSUME NEW a \in Arrays, DOMAIN a.data = First(a.datasz \div Elsz), NEW n \in Nat \ {0}
  PROVE  Grown(GrowData(a, n), a, n)
<1> DEFINE sz == SetDatasz(a.datasz, Elsz * n)
           r == Realloc(a.data, sz)
<1>1. Elsz * n \in Nat \ {0} /\ a.datasz \in Nat
  BY ArrayAssumption DEF Arrays
<1>2. CASE ~ a.datasz < Elsz * n
  <2>1. GrowData(a, n) = a
    BY <1>2 DEF GrowData
  <2>2. n =< a.datasz \div Elsz /\ a.datasz \div Elsz \in Nat
    BY <1>1, <1>2, SlotsOfBytes
  <2>3. First(n) \subseteq DOMAIN a.data
    BY <2>2 DEF First
  <2> QED
    BY <2>1, <2>3 DEF Kept, Grown
<1>3. CASE a.datasz < Elsz * n
  <2>1. sz \in Nat /\ Elsz * n =< sz
    BY <1>1, SizeIsEnough
  <2>2. GrowData(a, n) = [a EXCEPT !.datasz = sz, !.data = r]
    BY <1>3 DEF GrowData
  <2> HIDE DEF sz
  <2>3. sz \div Elsz \in Nat /\ n =< sz \div Elsz /\ a.datasz \div Elsz \in Nat
    BY <1>1, <2>1, SlotsOfBytes
  <2>4. a.datasz \div Elsz =< sz \div Elsz
    BY <1>1, <1>3, <2>1, MoreBytesMoreSlots
  <2>5. DOMAIN r = First(sz \div Elsz)
    BY DEF Realloc
  <2>6. \A i \in DOMAIN r : r[i] = Kept(a.data, i)
    BY DEF Realloc, Kept
  <2>7. \A i \in DOMAIN a.data : a.data[i] \in Int
    BY BlockElim DEF Arrays
  <2>8. r \in [First(sz \div Elsz) -> Int]
    BY <2>7 DEF Realloc, Raw
  <2>9. r \in Blocks
    BY <2>3, <2>8, BlockIntro
  <2>10. First(n) \subseteq DOMAIN r /\ DOMAIN a.data \subseteq DOMAIN r
    BY <2>3, <2>4, <2>5 DEF First
  <2> HIDE DEF r
  <2> QED
    BY <2>1, <2>2, <2>5, <2>6, <2>9, <2>10 DEF Arrays, Grown
<1> QED
  BY <1>2, <1>3

NoBlock(e, a) ==
    /\ e \in Arrays
    /\ e.elnum = a.elnum /\ e.set = a.set
    /\ DOMAIN e.data = {} /\ First(e.datasz \div Elsz) = {}

LEMMA Freed ==
  ASSUME NEW a \in Arrays
  PROVE  NoBlock(FreeData(a), a)
<1>1. First(0 \div Elsz) = {}
  BY ArrayAssumption DEF First
<1>2. FreeData(a) = [a EXCEPT !.datasz = 0, !.data = Null]
  BY DEF FreeData
<1>3. Null \in Blocks /\ DOMAIN Null = {}
  BY NullBlock
<1> DEFINE null == Null
           e == FreeData(a)
<1> HIDE DEF null
<1>4. e = [a EXCEPT !.datasz = 0, !.data = null] /\ null \in Blocks /\ DOMAIN null = {}
  BY <1>2, <1>3 DEF null
<1> HIDE DEF e
<1>5. e \in Arrays /\ e.elnum = a.elnum /\ e.set = a.set /\ e.datasz = 0 /\ e.data = null
  BY <1>4 DEF Arrays
<1> QED
  BY <1>1, <1>4, <1>5 DEF NoBlock, e

\* The slots of the block that the body of array_ensure_len leaves.
Left(a, n, save, i) ==
    IF i \in (IF save THEN a.elnum .. n - 1 ELSE First(n)) THEN New
    ELSE IF i \in (IF save THEN n .. a.elnum - 1 ELSE First(a.elnum)) THEN Dead
    ELSE Kept(a.data, i)

Adjusted(e, a, n, save) ==
    /\ e \in Arrays
    /\ e.elnum = a.elnum /\ e.set = a.set
    /\ DOMAIN e.data = First(e.datasz \div Elsz)
    /\ First(n) \subseteq DOMAIN e.data
    /\ \A i \in DOMAIN e.data : e.data[i] = Left(a, n, save, i)

LEMMA Ensured ==
  ASSUME NEW a, Sound(a), a.set, NEW n \in Nat, NEW save \in BOOLEAN
  PROVE  Adjusted(Ensure(a, n, save), a, n, save)
<1> DEFINE old == IF save THEN n .. a.elnum - 1 ELSE First(a.elnum)
           new == IF save THEN a.elnum .. n - 1 ELSE First(n)
           gone == FiniSlots(a, old)
           more == GrowData(gone, n)
           done == InitSlots(more, new)
<1>1. /\ a \in Arrays /\ a.elnum \in Nat
      /\ DOMAIN a.data = First(a.datasz \div Elsz)
      /\ First(a.elnum) \subseteq DOMAIN a.data
  BY DEF Sound, Arrays
<1>2. old \subseteq First(a.elnum)
  BY <1>1 DEF First
<1>3. Ensure(a, n, save) = IF save /\ n = a.elnum THEN a
                           ELSE IF n > 0 THEN done ELSE FreeData(gone)
  BY DEF Ensure
<1>4. \A i : Left(a, n, save, i) = IF i \in new THEN New
                                   ELSE IF i \in old THEN Dead ELSE Kept(a.data, i)
  BY DEF Left
<1>5. save /\ n = a.elnum => new = {} /\ old = {}
  BY <1>1
<1> HIDE DEF old, new
<1>6. Called(gone, a, old, Dead)
  BY <1>1, Finalised
<1> HIDE DEF gone
<1>7. CASE save /\ n = a.elnum
  BY <1>1, <1>3, <1>4, <1>5, <1>7 DEF Adjusted, Kept
<1>8. CASE ~ (save /\ n = a.elnum) /\ n > 0
  <2>1. Grown(more, gone, n)
    <3>1. gone \in Arrays /\ DOMAIN gone.data = First(gone.datasz \div Elsz) /\ n \in Nat \ {0}
      BY <1>1, <1>6, <1>8 DEF Called
    <3> QED
      BY <3>1, Enlarged
  <2> HIDE DEF more
  <2>2. Called(done, more, new, New)
    BY <2>1, Initialised DEF Grown
  <2> HIDE DEF done
  <2>3. ASSUME NEW i \in DOMAIN done.data
        PROVE  done.data[i] = Left(a, n, save, i)
    <3>1. done.data[i] = IF i \in new THEN New ELSE Kept(gone.data, i)
      BY <2>1, <2>2 DEF Called, Grown
    <3>2. Kept(gone.data, i) = IF i \in old THEN Dead ELSE Kept(a.data, i)
      BY <1>1, <1>2, <1>6 DEF Called, Kept
    <3> QED
      BY <3>1, <3>2, <1>4
  <2> QED
    BY <2>1, <2>2, <2>3, <1>3, <1>6, <1>8 DEF Adjusted, Called, Grown
<1>9. CASE ~ (save /\ n = a.elnum) /\ n = 0
  <2>1. First(n) = {}
    BY <1>9 DEF First
  <2>2. NoBlock(FreeData(gone), gone)
    BY <1>6, Freed DEF Called
  <2> DEFINE e == FreeData(gone)
  <2>3. Ensure(a, n, save) = e
    BY <1>3, <1>9
  <2>4. e \in Arrays /\ e.elnum = a.elnum /\ e.set = a.set
    BY <2>2, <1>6 DEF Called, NoBlock
  <2>5. DOMAIN e.data = {} /\ First(e.datasz \div Elsz) = {}
    BY <2>2 DEF NoBlock
  <2> HIDE DEF e
  <2> QED
    BY <2>1, <2>3, <2>4, <2>5 DEF Adjusted
<1> QED
  BY <1>7, <1>8, <1>9

\* array_ensure_len leaves the elements that are counted initialised, and no other.
LEMMA LengthEnsured ==
  ASSUME NEW a, NEW doubt, Sound(a), InTurn(a, doubt), a.set,
         NEW n \in Nat, NEW save \in BOOLEAN
  PROVE  Sound(EnsureLen(a, n, save)) /\ InTurn(EnsureLen(a, n, save), doubt)
<1> DEFINE e == Ensure(a, n, save)
           l == EnsureLen(a, n, save)
<1>1. Adjusted(e, a, n, save)
  BY Ensured
<1>2. l = [e EXCEPT !.elnum = n]
  BY DEF EnsureLen
<1> HIDE DEF e
<1>3. l \in Arrays /\ l.elnum = n /\ l.data = e.data /\ l.datasz = e.datasz /\ l.set = e.set
  BY <1>1, <1>2 DEF Arrays, Adjusted
<1> HIDE DEF l
<1>4. Sound(l)
  BY <1>1, <1>3 DEF Sound, Adjusted
<1>5. InTurn(l, doubt)
  <2> SUFFICES ASSUME NEW i \in DOMAIN e.data, i \notin doubt
               PROVE  Live(e.data[i]) <=> i < n
    BY <1>3 DEF InTurn
  <2>1. e.data[i] = Left(a, n, save, i)
    BY <1>1 DEF Adjusted
  <2>2. a.elnum \in Nat /\ First(a.elnum) \subseteq DOMAIN a.data
    BY DEF Sound, Arrays
  <2>3. i \in Int /\ i >= 0
    <3>1. DOMAIN e.data = First(e.datasz \div Elsz) /\ e.datasz \in Nat
      BY <1>1 DEF Arrays, Adjusted
    <3> QED
      BY <3>1 DEF First
  <2>4. i \in DOMAIN a.data => (Live(a.data[i]) <=> i < a.elnum)
    BY DEF InTurn
  <2>5. i < a.elnum => i \in DOMAIN a.data
    BY <2>2, <2>3 DEF First
  <2>6. Live(New) /\ ~ Live(Dead) /\ ~ Live(Raw)
    BY DEF Live, New, Dead, Raw
  <2>7. Live(Kept(a.data, i)) <=> i < a.elnum
    BY <2>4, <2>5, <2>6 DEF Kept
  <2>8. CASE save
    BY <2>1, <2>2, <2>3, <2>6, <2>7, <2>8 DEF Left
  <2>9. CASE ~ save
    BY <2>1, <2>2, <2>3, <2>6, <2>7, <2>9 DEF Left, First
  <2> QED
    BY <2>8, <2>9
<1> QED
  BY <1>4, <1>5 DEF l

\* array_init: what the initialiser has accepted is initialised, the rest is in doubt.
LEMMA FreshArray ==
  ASSUME NEW n \in Nat, NEW bad \in 0 .. n
  PROVE  /\ Sound(Fresh(n, bad)) /\ Fresh(n, bad).set
         /\ InTurn(Fresh(n, bad), bad .. n - 1)
<1> DEFINE sz == SetDatasz(0, Elsz * n)
           r == Realloc(Null, sz)
           null == Null
           a == [elnum |-> n, datasz |-> sz, data |-> r, set |-> TRUE]
           z == [a EXCEPT !.datasz = 0, !.data = null]
           f == InitSlots(a, First(bad))
<1>1. Fresh(n, bad) = IF n = 0 THEN z ELSE f
  BY DEF Fresh
<1>2. null \in Blocks /\ DOMAIN null = {}
  BY NullBlock
<1> HIDE DEF null
<1>3. CASE n = 0
  <2> HIDE DEF r, sz
  <2>2. z \in Arrays /\ z.elnum = n /\ z.data = null /\ z.set /\ z.datasz = 0
    BY <1>2 DEF Arrays
  <2>3. First(0) = {} /\ First(0 \div Elsz) = {}
    BY ArrayAssumption DEF First
  <2> HIDE DEF z
  <2> QED
    BY <1>1, <1>2, <1>3, <2>2, <2>3 DEF Sound, InTurn
<1>4. CASE n > 0
  <2>1. Elsz * n \in Nat \ {0}
    BY <1>4, ArrayAssumption
  <2>2. sz \in Nat /\ Elsz * n =< sz
    BY <2>1, SizeIsEnough
  <2> HIDE DEF sz
  <2>3. sz \div Elsz \in Nat /\ n =< sz \div Elsz
    BY <2>2, SlotsOfBytes
  <2>4. r = [i \in First(sz \div Elsz) |-> Raw]
    BY <1>2 DEF Realloc, null
  <2>5. r \in Blocks
    <3>1. r \in [First(sz \div Elsz) -> Int]
      BY <2>4 DEF Raw
    <3> QED
      BY <2>3, <3>1, BlockIntro
  <2>6. a \in Arrays
    BY <2>2, <2>5 DEF Arrays
  <2>7. DOMAIN a.data = First(a.datasz \div Elsz) /\ First(n) \subseteq DOMAIN a.data
    BY <2>3, <2>4 DEF First
  <2>8. \A i \in DOMAIN a.data : a.data[i] = Raw /\ i \in Int /\ i >= 0
    BY <2>4 DEF First
  <2>9. a.elnum = n /\ a.set
    OBVIOUS
  <2> HIDE DEF a
  <2>10. Called(f, a, First(bad), New)
    BY <2>6, Initialised
  <2> HIDE DEF f
  <2>11. Sound(f) /\ f.set /\ f.elnum = n
    BY <2>7, <2>9, <2>10 DEF Sound, Called
  <2>12. InTurn(f, bad .. n - 1)
    <3> SUFFICES ASSUME NEW i \in DOMAIN a.data, i \notin bad .. n - 1
                 PROVE  Live(f.data[i]) <=> i < n
      BY <2>10, <2>11 DEF InTurn, Called
    <3>1. f.data[i] = IF i < bad THEN New ELSE Raw
      BY <2>8, <2>10 DEF Called, First
    <3> QED
      BY <3>1, <2>8 DEF Live, New, Raw, Dead
  <2> QED
    BY <1>1, <1>4, <2>11, <2>12
<1> QED
  BY <1>3, <1>4

\* The body of array_ensure_len_dirty leaves a block with room for n elements,
\* which hold what they held.
Dirty(e, a, n) ==
    /\ e \in Arrays
    /\ e.elnum = a.elnum /\ e.set = a.set
    /\ DOMAIN e.data = First(e.datasz \div Elsz)
    /\ First(n) \subseteq DOMAIN e.data
    /\ \A i \in DOMAIN e.data : e.data[i] = Kept(a.data, i)

LEMMA EnsuredDirty ==
  ASSUME NEW a, Sound(a), a.set, NEW n \in Nat, NEW save \in BOOLEAN
  PROVE  Dirty(EnsureDirty(a, n, save), a, n)
<1>1. /\ a \in Arrays /\ a.elnum \in Nat
      /\ DOMAIN a.data = First(a.datasz \div Elsz)
      /\ First(a.elnum) \subseteq DOMAIN a.data
  BY DEF Sound, Arrays
<1>2. CASE n = 0
  <2> DEFINE e == FreeData(a)
  <2>1. EnsureDirty(a, n, save) = e
    BY <1>2 DEF EnsureDirty
  <2>2. NoBlock(e, a)
    BY <1>1, Freed
  <2>3. First(n) = {}
    BY <1>2 DEF First
  <2> HIDE DEF e
  <2> QED
    BY <2>1, <2>2, <2>3 DEF Dirty, NoBlock
<1>3. CASE n > 0 /\ save /\ n =< a.elnum
  <2>1. EnsureDirty(a, n, save) = a
    BY <1>3 DEF EnsureDirty
  <2>2. First(n) \subseteq First(a.elnum)
    BY <1>1, <1>3 DEF First
  <2> QED
    BY <1>1, <2>1, <2>2 DEF Dirty, Kept
<1>4. CASE n > 0 /\ ~ (save /\ n =< a.elnum)
  <2> DEFINE e == GrowData(a, n)
  <2>1. EnsureDirty(a, n, save) = e
    BY <1>4 DEF EnsureDirty
  <2>2. Grown(e, a, n)
    BY <1>1, <1>4, Enlarged
  <2> HIDE DEF e
  <2> QED
    BY <2>1, <2>2 DEF Dirty, Grown
<1> QED
  BY <1>2, <1>3, <1>4
-----------------------------------------------------------------------------
\* A step that becomes an array which is in turn but for the slots in doubt.
LEMMA Became ==
  ASSUME NEW a, NEW doubt, Become(a, doubt), Sound(a), InTurn(a, suspect \cup doubt)
  PROVE  ArrayInv'
<1>1. CASE a.data = Null
  BY <1>1, NullBlock DEF Become, ArrayInv, InTurn
<1>2. CASE a.data # Null
  BY <1>2 DEF Become, ArrayInv
<1> QED
  BY <1>1, <1>2

\* The block's slots, and which of them are live.
LEMMA LiveSlots ==
  ASSUME NEW a, NEW doubt, Sound(a), InTurn(a, doubt), NEW i \in Nat, i \notin doubt
  PROVE  /\ a.elnum \in Nat
         /\ Live(Kept(a.data, i)) <=> i < a.elnum
         /\ i < a.elnum => i \in DOMAIN a.data
<1>1. a.elnum \in Nat /\ First(a.elnum) \subseteq DOMAIN a.data
  BY DEF Sound, Arrays
<1>2. i < a.elnum => i \in DOMAIN a.data
  BY <1>1 DEF First
<1>3. ~ Live(Raw)
  BY DEF Live
<1> QED
  BY <1>1, <1>2, <1>3 DEF InTurn, Kept

LEMMA SlotNumbers ==
  ASSUME NEW a \in Arrays, NEW i \in DOMAIN a.data
  PROVE  i \in Nat
<1>1. PICK n \in Nat : a.data \in [First(n) -> Int]
  BY BlockElim DEF Arrays
<1> QED
  BY <1>1 DEF First

LEMMA InitStep ==
  ASSUME NEW n \in Nat, NEW bad \in Nat, ArrayInit(n, bad)
  PROVE  ArrayInv'
<1>1. bad \in 0 .. n /\ ar' = Fresh(n, bad) /\ suspect' = bad .. n - 1
  BY DEF ArrayInit
<1> QED
  BY <1>1, FreshArray DEF ArrayInv

LEMMA ResetStep ==
  ASSUME NEW n \in Nat, ArrayResetNoFini(n)
  PROVE  ArrayInv'
<1>1. n \in 0 .. n /\ ar' = Fresh(n, n) /\ suspect' = {}
  BY DEF ArrayResetNoFini
<1>2. n .. n - 1 = {}
  OBVIOUS
<1> QED
  BY <1>1, <1>2, FreshArray DEF ArrayInv

LEMMA FiniStep ==
  ASSUME ArrayInv, ArrayFini
  PROVE  ArrayInv'
<1> DEFINE f == FiniSlots(ar, First(ar.elnum))
           null == Null
           e == [f EXCEPT !.data = null, !.elnum = 0, !.set = FALSE]
<1>1. ar \in Arrays /\ Become(e, {})
  BY DEF ArrayInv, Sound, ArrayFini, FiniArray
<1>2. null \in Blocks /\ DOMAIN null = {} /\ First(0) = {}
  BY NullBlock DEF First
<1>3. f \in Arrays
  BY <1>1, Finalised DEF Called
<1> HIDE DEF f, null
<1>4. e \in Arrays /\ e.data = null /\ e.elnum = 0 /\ ~ e.set
  BY <1>2, <1>3 DEF Arrays
<1> HIDE DEF e
<1>5. Sound(e) /\ InTurn(e, suspect \cup {})
  BY <1>2, <1>4 DEF Sound, InTurn
<1> QED
  BY <1>1, <1>5, Became

LEMMA LenStep ==
  ASSUME ArrayInv, ar.set, NEW n \in Nat, NEW save \in BOOLEAN, Become(EnsureLen(ar, n, save), {})
  PROVE  ArrayInv'
<1>1. Sound(ar) /\ InTurn(ar, suspect \cup {})
  BY DEF ArrayInv
<1>2. /\ Sound(EnsureLen(ar, n, save))
      /\ InTurn(EnsureLen(ar, n, save), suspect \cup {})
  BY <1>1, LengthEnsured
<1> QED
  BY <1>2, Became

LEMMA DirtyStep ==
  ASSUME ArrayInv, NEW n \in Nat, NEW save \in BOOLEAN, ArrayEnsureLenDirty(n, save)
  PROVE  ArrayInv'
<1> DEFINE e == EnsureDirty(ar, n, save)
           l == [e EXCEPT !.elnum = n]
           doubt == n .. ar.elnum - 1 \cup ar.elnum .. n - 1
<1>1. ar.set /\ Become(l, doubt) /\ Sound(ar) /\ InTurn(ar, suspect)
  BY DEF ArrayEnsureLenDirty, ArrayInv
<1>2. Dirty(e, ar, n)
  BY <1>1, EnsuredDirty
<1> HIDE DEF e
<1>3. l \in Arrays /\ l.elnum = n /\ l.data = e.data /\ l.datasz = e.datasz /\ l.set = e.set
  BY <1>2 DEF Arrays, Dirty
<1> HIDE DEF l
<1>4. Sound(l)
  BY <1>1, <1>2, <1>3 DEF Sound, Dirty
<1>5. ASSUME NEW i \in DOMAIN e.data, i \notin suspect, i \notin doubt
      PROVE  Live(e.data[i]) <=> i < n
  <2>1. i \in Nat
    BY <1>2, SlotNumbers DEF Dirty
  <2>2. e.data[i] = Kept(ar.data, i)
    BY <1>2 DEF Dirty
  <2>3. ar.elnum \in Nat /\ (Live(Kept(ar.data, i)) <=> i < ar.elnum)
    BY <1>1, <1>5, <2>1, LiveSlots
  <2> QED
    BY <1>5, <2>1, <2>2, <2>3
<1> HIDE DEF doubt
<1>6. InTurn(l, suspect \cup doubt)
  BY <1>3, <1>5 DEF InTurn
<1> QED
  BY <1>1, <1>4, <1>6, Became

LEMMA DataszStep ==
  ASSUME ArrayInv, NEW n \in Nat, NEW save \in BOOLEAN, ArrayEnsureDatasz(n, save)
  PROVE  ArrayInv'
<1> DEFINE e == Ensure(ar, n, save)
           doubt == ar.elnum .. n - 1
<1>1. ar.set /\ ar.elnum =< n /\ Become(e, doubt) /\ Sound(ar) /\ InTurn(ar, suspect)
  BY DEF ArrayEnsureDatasz, ArrayInv
<1>2. ar.elnum \in Nat
  BY <1>1 DEF Sound, Arrays
<1>3. Adjusted(e, ar, n, save)
  BY <1>1, Ensured
<1> HIDE DEF e
<1>4. Sound(e)
  <2>1. First(ar.elnum) \subseteq First(n)
    BY <1>1, <1>2 DEF First
  <2> QED
    BY <1>1, <1>3, <2>1 DEF Sound, Adjusted
<1>5. ASSUME NEW i \in DOMAIN e.data, i \notin suspect, i \notin doubt
      PROVE  Live(e.data[i]) <=> i < ar.elnum
  <2>1. i \in Nat
    BY <1>3, SlotNumbers DEF Adjusted
  <2>2. Live(Kept(ar.data, i)) <=> i < ar.elnum
    BY <1>1, <1>5, <2>1, LiveSlots
  <2>3. e.data[i] = Left(ar, n, save, i)
    BY <1>3 DEF Adjusted
  <2>4. Live(New)
    BY DEF Live, New, Dead, Raw
  <2>5. CASE save
    BY <1>1, <1>2, <1>5, <2>1, <2>2, <2>3, <2>4, <2>5 DEF Left
  <2>6. CASE ~ save
    BY <1>1, <1>2, <1>5, <2>1, <2>2, <2>3, <2>4, <2>6 DEF Left, First
  <2> QED
    BY <2>5, <2>6
<1> HIDE DEF doubt
<1>6. InTurn(e, suspect \cup doubt)
  BY <1>3, <1>5 DEF InTurn, Adjusted
<1> QED
  BY <1>1, <1>4, <1>6, Became

LEMMA ClearStep ==
  ASSUME ArrayInv, NEW bad \in Nat, ArrayClear(bad)
  PROVE  ArrayInv'
<1>1. ar.set /\ Sound(ar) /\ InTurn(ar, suspect) /\ ar \in Arrays /\ ar.elnum \in Nat
  BY DEF ArrayClear, ArrayInv, Sound, Arrays
<1>2. CASE bad = ar.elnum
  <2> DEFINE f == FiniSlots(ar, First(ar.elnum))
             e == [f EXCEPT !.elnum = 0]
  <2>1. Become(e, {})
    BY <1>2 DEF ArrayClear
  <2>2. Called(f, ar, First(ar.elnum), Dead)
    BY <1>1, Finalised
  <2> HIDE DEF f
  <2>3. e \in Arrays /\ e.elnum = 0 /\ e.data = f.data /\ e.datasz = f.datasz /\ e.set = f.set
    BY <2>2 DEF Arrays, Called
  <2> HIDE DEF e
  <2>4. Sound(e)
    <3>1. First(0) = {}
      BY DEF First
    <3> QED
      BY <1>1, <2>2, <2>3, <3>1 DEF Sound, Called
  <2>5. ASSUME NEW i \in DOMAIN f.data, i \notin suspect
        PROVE  ~ Live(f.data[i])
    <3>1. i \in DOMAIN ar.data /\ i \in Nat
      BY <1>1, <2>2, SlotNumbers DEF Called
    <3>2. f.data[i] = IF i < ar.elnum THEN Dead ELSE ar.data[i]
      BY <1>1, <2>2, <3>1 DEF Called, First
    <3>3. ~ (i < ar.elnum) => ~ Live(ar.data[i])
      BY <1>1, <2>5, <3>1 DEF InTurn
    <3> QED
      BY <3>2, <3>3 DEF Live
  <2>6. \A i \in DOMAIN f.data : ~ (i < 0)
    BY <2>2, SlotNumbers DEF Called
  <2>7. InTurn(e, suspect \cup {})
    BY <2>3, <2>5, <2>6 DEF InTurn
  <2> QED
    BY <2>1, <2>4, <2>7, Became
<1>3. CASE bad # ar.elnum
  <2> DEFINE e == FiniSlots(ar, 0 .. bad)
  <2>1. Become(e, 0 .. bad)
    BY <1>3 DEF ArrayClear
  <2>2. Called(e, ar, 0 .. bad, Dead)
    BY <1>1, Finalised
  <2> HIDE DEF e
  <2>3. Sound(e) /\ InTurn(e, suspect \cup 0 .. bad)
    BY <1>1, <2>2 DEF Sound, InTurn, Called
  <2> QED
    BY <2>1, <2>3, Became
<1> QED
  BY <1>2, <1>3

LEMMA RenewStep ==
  ASSUME ArrayInv, NEW i \in Nat, ArrayRenewItem(i)
  PROVE  ArrayInv'
<1> DEFINE f == FiniSlots(ar, {i})
           e == InitSlots(f, {i})
<1>1. /\ i < ar.elnum /\ Become(e, {})
      /\ Sound(ar) /\ InTurn(ar, suspect) /\ ar \in Arrays /\ ar.elnum \in Nat
  BY DEF ArrayRenewItem, ArrayInv, Sound, Arrays
<1>2. Called(f, ar, {i}, Dead)
  BY <1>1, Finalised
<1> HIDE DEF f
<1>3. Called(e, f, {i}, New)
  BY <1>2, Initialised DEF Called
<1> HIDE DEF e
<1>4. Sound(e)
  BY <1>1, <1>2, <1>3 DEF Sound, Called
<1>5. ASSUME NEW j \in DOMAIN e.data, j \notin suspect
      PROVE  Live(e.data[j]) <=> j < ar.elnum
  <2>1. j \in DOMAIN ar.data /\ e.data[j] = IF j = i THEN New ELSE ar.data[j]
    BY <1>2, <1>3 DEF Called
  <2>2. Live(New)
    BY DEF Live, New, Dead, Raw
  <2> QED
    BY <1>1, <1>5, <2>1, <2>2 DEF InTurn
<1>6. InTurn(e, suspect \cup {})
  BY <1>2, <1>3, <1>5 DEF InTurn, Called
<1> QED
  BY <1>1, <1>4, <1>6, Became

LEMMA DecrFastStep ==
  ASSUME ArrayInv, ArrayDecrFast
  PROVE  ArrayInv'
<1> DEFINE top == ar.elnum - 1
           f == FiniSlots(ar, {top})
           e == [f EXCEPT !.elnum = top]
<1>1. /\ ar.elnum > 0 /\ Become(e, {})
      /\ Sound(ar) /\ InTurn(ar, suspect) /\ ar \in Arrays /\ ar.elnum \in Nat
  BY DEF ArrayDecrFast, DecrFast, ArrayInv, Sound, Arrays
<1>2. Called(f, ar, {top}, Dead)
  BY <1>1, Finalised
<1> HIDE DEF f
<1>3. e \in Arrays /\ e.elnum = top /\ e.data = f.data /\ e.datasz = f.datasz /\ e.set = f.set
  BY <1>1, <1>2 DEF Arrays, Called
<1> HIDE DEF e
<1>4. Sound(e)
  <2>1. First(top) \subseteq First(ar.elnum)
    BY <1>1 DEF First
  <2> QED
    BY <1>1, <1>2, <1>3, <2>1 DEF Sound, Called
<1>5. ASSUME NEW j \in DOMAIN e.data, j \notin suspect
      PROVE  Live(e.data[j]) <=> j < top
  <2>1. j \in DOMAIN ar.data /\ e.data[j] = IF j = top THEN Dead ELSE ar.data[j]
    BY <1>2, <1>3 DEF Called
  <2>2. j \in Nat
    BY <1>1, <2>1, SlotNumbers
  <2>3. ~ Live(Dead)
    BY DEF Live
  <2> QED
    BY <1>1, <1>5, <2>1, <2>2, <2>3 DEF InTurn
<1>6. InTurn(e, suspect \cup {})
  BY <1>3, <1>5 DEF InTurn
<1> QED
  BY <1>1, <1>4, <1>6, Became

LEMMA GetSafeStep ==
  ASSUME ArrayInv, NEW i \in Nat, ArrayGetSafe(i)
  PROVE  ArrayInv'
<1>1. /\ ar.set /\ ar.elnum =< i
      /\ Sound(ar) /\ InTurn(ar, suspect) /\ ar \in Arrays /\ ar.elnum \in Nat /\ ar.datasz \in Nat
  BY DEF ArrayGetSafe, ArrayInv, Sound, Arrays
<1>2. CASE Elsz * (i + 1) > ar.datasz
  <2> DEFINE n == 2 * (i + 1)
             f == Ensure(ar, n, TRUE)
             e == [f EXCEPT !.elnum = i + 1]
             doubt == i + 1 .. n - 1
  <2>1. Become(e, doubt)
    BY <1>2 DEF ArrayGetSafe
  <2>2. Adjusted(f, ar, n, TRUE) /\ n \in Nat
    <3>1. n \in Nat
      OBVIOUS
    <3> HIDE DEF n
    <3> QED
      BY <1>1, <3>1, Ensured
  <2> HIDE DEF f
  <2>3. e \in Arrays /\ e.elnum = i + 1 /\ e.data = f.data /\ e.datasz = f.datasz /\ e.set = f.set
    BY <2>2 DEF Arrays, Adjusted
  <2> HIDE DEF e
  <2>4. Sound(e)
    <3>1. First(i + 1) \subseteq First(n)
      BY DEF First
    <3> QED
      BY <1>1, <2>2, <2>3, <3>1 DEF Sound, Adjusted
  <2>5. ASSUME NEW j \in DOMAIN e.data, j \notin suspect, j \notin doubt
        PROVE  Live(e.data[j]) <=> j < i + 1
    <3>1. j \in Nat
      BY <2>3, SlotNumbers
    <3>2. e.data[j] = Left(ar, n, TRUE, j)
      BY <2>2, <2>3 DEF Adjusted
    <3>3. Live(Kept(ar.data, j)) <=> j < ar.elnum
      BY <1>1, <2>5, <3>1, LiveSlots
    <3>4. Live(New)
      BY DEF Live, New, Dead, Raw
    <3> QED
      BY <1>1, <2>5, <3>1, <3>2, <3>3, <3>4 DEF Left
  <2> HIDE DEF doubt
  <2>6. InTurn(e, suspect \cup doubt)
    BY <2>3, <2>5 DEF InTurn
  <2> QED
    BY <2>1, <2>4, <2>6, Became
<1>3. CASE ~ (Elsz * (i + 1) > ar.datasz)
  <2> DEFINE e == [ar EXCEPT !.elnum = i + 1]
             doubt == ar.elnum .. i
  <2>1. Become(e, doubt)
    BY <1>3 DEF ArrayGetSafe
  <2>2. e \in Arrays /\ e.elnum = i + 1 /\ e.data = ar.data /\ e.datasz = ar.datasz /\ e.set = ar.set
    <3> DEFINE l == i + 1
    <3>1. l \in Nat
      OBVIOUS
    <3> HIDE DEF l
    <3>2. LET b == [ar EXCEPT !.elnum = l]
          IN  /\ b \in Arrays /\ b.elnum = l
              /\ b.data = ar.data /\ b.datasz = ar.datasz /\ b.set = ar.set
      BY <1>1, <3>1 DEF Arrays
    <3> QED
      BY <3>2 DEF l
  <2> HIDE DEF e
  <2>3. Sound(e)
    <3>1. i + 1 =< ar.datasz \div Elsz /\ ar.datasz \div Elsz \in Nat
      <4>1. i + 1 \in Nat /\ Elsz * (i + 1) =< ar.datasz
        BY <1>1, <1>3, ArrayAssumption
      <4> QED
        BY <4>1, <1>1, SlotsOfBytes
    <3>2. First(i + 1) \subseteq DOMAIN ar.data
      BY <1>1, <3>1 DEF Sound, First
    <3> QED
      BY <1>1, <2>2, <3>2 DEF Sound
  <2>4. ASSUME NEW j \in DOMAIN e.data, j \notin suspect, j \notin doubt
        PROVE  Live(e.data[j]) <=> j < i + 1
    <3>1. j \in DOMAIN ar.data /\ j \in Nat
      BY <1>1, <2>2, SlotNumbers
    <3>2. Live(ar.data[j]) <=> j < ar.elnum
      BY <1>1, <2>4, <3>1 DEF InTurn
    <3> QED
      BY <1>1, <2>2, <2>4, <3>1, <3>2
  <2> HIDE DEF doubt
  <2>5. InTurn(e, suspect \cup doubt)
    BY <2>2, <2>4 DEF InTurn
  <2> QED
    BY <2>1, <2>3, <2>5, Became
<1> QED
  BY <1>2, <1>3
-----------------------------------------------------------------------------
LEMMA StartsSound == ArrayStart => ArrayInv
<1> SUFFICES ASSUME ArrayStart PROVE ArrayInv
  OBVIOUS
<1> DEFINE null == Null
<1>1. null \in Blocks /\ DOMAIN null = {} /\ First(0) = {}
  BY NullBlock DEF First
<1>2. ar = [elnum |-> 0, datasz |-> 0, data |-> null, set |-> FALSE]
  BY DEF ArrayStart, Empty
<1> HIDE DEF null
<1>3. ar \in Arrays /\ ar.elnum = 0 /\ ar.data = null /\ ~ ar.set
  BY <1>1, <1>2 DEF Arrays
<1> QED
  BY <1>1, <1>3 DEF ArrayInv, Sound, InTurn

LEMMA StaysSound ==
  ASSUME NEW max \in Nat, ArrayInv, [ArrayNext(max)]_avars
  PROVE  ArrayInv'
<1>1. ASSUME NEW n \in 0 .. max, NEW bad \in 0 .. max, ArrayInit(n, bad) PROVE ArrayInv'
  BY <1>1, InitStep
<1>2. ASSUME NEW n \in 0 .. max, NEW save \in BOOLEAN, ArrayEnsureLen(n, save) PROVE ArrayInv'
  BY <1>2, LenStep DEF ArrayEnsureLen
<1>3. ASSUME NEW n \in 0 .. max, NEW save \in BOOLEAN, ArrayEnsureLenDirty(n, save) PROVE ArrayInv'
  BY <1>3, DirtyStep
<1>4. ASSUME NEW n \in 0 .. max, NEW save \in BOOLEAN, ArrayEnsureDatasz(n, save) PROVE ArrayInv'
  BY <1>4, DataszStep
<1>5. ASSUME NEW n \in 0 .. max, ArrayClear(n) PROVE ArrayInv'
  BY <1>5, ClearStep
<1>6. ASSUME NEW n \in 0 .. max, ArrayResetNoFini(n) PROVE ArrayInv'
  BY <1>6, ResetStep
<1>7. ASSUME NEW i \in First(max), ArrayRenewItem(i) PROVE ArrayInv'
  BY <1>7, RenewStep DEF First
<1>8. ASSUME NEW i \in First(max), ArrayGetSafe(i) PROVE ArrayInv'
  BY <1>8, GetSafeStep DEF First
<1>9. ar.elnum \in Nat
  BY DEF ArrayInv, Sound, Arrays
<1>10. CASE ArrayIncr
  <2> DEFINE n == ar.elnum + 1
  <2>1. ar.set /\ Become(EnsureLen(ar, n, TRUE), {})
    BY <1>10 DEF ArrayIncr, Incr
  <2>2. n \in Nat
    BY <1>9
  <2> HIDE DEF n
  <2> QED
    BY <2>1, <2>2, LenStep
<1>11. CASE ArrayDecrFast
  BY <1>11, DecrFastStep
<1>12. CASE ArrayDecr
  <2> DEFINE n == ar.elnum - 1
  <2>1. ar.elnum > 0 /\ Become(EnsureLen(ar, n, TRUE), {})
    BY <1>12 DEF ArrayDecr
  <2>2. n \in Nat /\ ar.set
    BY <1>9, <2>1 DEF ArrayInv, Sound
  <2> HIDE DEF n
  <2> QED
    BY <2>1, <2>2, LenStep
<1>13. CASE ArrayFini
  BY <1>13, FiniStep
<1>14. CASE UNCHANGED avars
  BY <1>14 DEF avars, ArrayInv
<1> QED
  BY <1>1, <1>2, <1>3, <1>4, <1>5, <1>6, <1>7, <1>8, <1>10, <1>11, <1>12, <1>13, <1>14
     DEF ArrayNext

\* The invariant of every array, of whatever length.
THEOREM ArraySound ==
  ASSUME NEW CONSTANT max \in Nat
  PROVE  ArraySpec(max) => []ArrayInv
BY StartsSound, StaysSound, PTL DEF ArraySpec

\* The block of an array has room for the elements it counts, through any
\* sequence of operations, growth policies, failing callbacks and re-uses.
THEOREM ArrayHasRoom ==
  ASSUME NEW CONSTANT max \in Nat
  PROVE  ArraySpec(max) => []RoomForAll
<1>1. ArrayInv => RoomForAll
  BY DEF ArrayInv, Sound, RoomForAll
<1> QED
  BY <1>1, ArraySound, PTL

\* Outside the slots that an operation has left in doubt, an element is live
\* exactly if it is counted: the client's initialiser and finaliser are called
\* in turn by array_ensure_len, array_incr, array_decr and the others.
THEOREM ArrayInTurn ==
  ASSUME NEW CONSTANT max \in Nat
  PROVE  ArraySpec(max) => []CalledInTurn
<1>1. ArrayInv => CalledInTurn
  BY DEF ArrayInv, InTurn, CalledInTurn
<1> QED
  BY <1>1, ArraySound, PTL

-----------------------------------------------------------------------------
(* The heap *)

\* Each node but the first has a parent before it.
LEMMA ParentIs ==
  ASSUME NEW k \in Nat \ {0}
  PROVE  /\ Parent(k) \in Nat /\ Parent(k) < k
         /\ k = 2 * Parent(k) + 1 \/ k = 2 * Parent(k) + 2
BY DEF Parent, HEAP_D

\* The children of a node are those of which it is the parent.
LEMMA KidsAre ==
  ASSUME NEW i \in Nat, NEW n \in Nat
  PROVE  /\ Kids(i, n) \subseteq First(n) \ {0}
         /\ \A k \in First(n) \ {0} : k \in Kids(i, n) <=> Parent(k) = i
         /\ \A k \in Kids(i, n) : k \in Nat /\ k > i /\ k < n /\ Parent(k) = i
<1>1. ASSUME NEW k \in First(n) \ {0}
      PROVE  k \in Kids(i, n) <=> Parent(k) = i
  <2>1. k \in Nat \ {0} /\ k < n
    BY DEF First
  <2>2. k \in Kids(i, n) <=> k = 2 * i + 1 \/ k = 2 * i + 2
    BY <2>1 DEF Kids, HEAP_D
  <2>3. PICK p \in Nat : p = Parent(k) /\ (k = 2 * p + 1 \/ k = 2 * p + 2)
    BY <2>1, ParentIs
  <2> QED
    BY <2>2, <2>3
<1>2. \A k \in Kids(i, n) : k \in Nat /\ k > i /\ k < n /\ k \in First(n) \ {0}
  BY DEF Kids, HEAP_D, First
<1> QED
  BY <1>1, <1>2

\* The least child is a child, and no child is less.
LEMMA LeastKidIs ==
  ASSUME NEW b, NEW i \in Nat, NEW n \in Nat, \A k \in Kids(i, n) : b[k] \in Int,
         Kids(i, n) # {}
  PROVE  /\ LeastKid(b, i, n) \in Kids(i, n)
         /\ \A l \in Kids(i, n) : b[LeastKid(b, i, n)] =< b[l]
<1> DEFINE ks == Kids(i, n)
           T == {k \in ks : \A l \in ks : b[k] =< b[l]}
<1>1. ks \subseteq {2 * i + 1, 2 * i + 2} /\ ks \subseteq Nat
  BY DEF Kids, HEAP_D
<1>2. ks # {} /\ \A k \in ks : b[k] \in Int
  OBVIOUS
<1>3. LeastKid(b, i, n) = Min(T)
  BY DEF LeastKid
<1> HIDE DEF ks
<1>4. T # {} /\ T \in SUBSET Nat
  <2>1. PICK k \in ks : TRUE
    BY <1>2
  <2>2. CASE \A l \in ks : b[k] =< b[l]
    BY <1>1, <2>2
  <2>3. CASE ~ \A l \in ks : b[k] =< b[l]
    <3>1. PICK l \in ks : ~ (b[k] =< b[l])
      BY <2>3
    <3>2. l # k /\ b[l] =< b[k] /\ b[l] =< b[l]
      BY <1>2, <3>1
    <3>3. \A m \in ks : m = k \/ m = l
      BY <1>1, <3>1, <3>2
    <3>4. l \in T
      BY <3>2, <3>3
    <3> QED
      BY <1>1, <3>4
  <2> QED
    BY <2>2, <2>3
<1>5. Min(T) \in T
  BY <1>4, LeastNatural
<1> QED
  BY <1>3, <1>5 DEF ks

-----------------------------------------------------------------------------
(* How often a value is among the elements *)

Places(b, n, v) == {i \in First(n) : b[i] = v}
Times(b, n, v) == Cardinality(Places(b, n, v))

LEMMA PlacesFinite ==
  ASSUME NEW b, NEW n \in Nat, NEW v
  PROVE  /\ IsFiniteSet(Places(b, n, v)) /\ Times(b, n, v) \in Nat
         /\ Times(b, n, v) = 0 <=> \A i \in First(n) : b[i] # v
<1>1. IsFiniteSet(First(n))
  BY FS_Interval DEF First
<1>2. Places(b, n, v) \subseteq First(n)
  BY DEF Places
<1>3. IsFiniteSet(Places(b, n, v))
  BY <1>1, <1>2, FS_Subset
<1>4. Times(b, n, v) \in Nat
  BY <1>3, FS_CardinalityType DEF Times
<1>5. Times(b, n, v) = 0 <=> Places(b, n, v) = {}
  BY <1>3, FS_EmptySet DEF Times
<1> QED
  BY <1>3, <1>4, <1>5 DEF Places

\* One element more.
LEMMA TimesPut ==
  ASSUME NEW b, NEW e, NEW n \in Nat, \A i \in First(n) : e[i] = b[i]
  PROVE  \A v : Times(e, n + 1, v) = Times(b, n, v) + IF e[n] = v THEN 1 ELSE 0
<1> TAKE v
<1>1. IsFiniteSet(Places(b, n, v)) /\ Times(b, n, v) \in Nat
  BY PlacesFinite
<1>2. First(n + 1) = First(n) \cup {n} /\ n \notin First(n)
  BY DEF First
<1>3. CASE e[n] = v
  <2>1. Places(e, n + 1, v) = Places(b, n, v) \cup {n}
    BY <1>2, <1>3 DEF Places
  <2>2. n \notin Places(b, n, v)
    BY <1>2 DEF Places
  <2> QED
    BY <1>1, <1>2, <1>3, <2>1, <2>2, FS_AddElement DEF Times
<1>4. CASE e[n] # v
  <2>1. Places(e, n + 1, v) = Places(b, n, v)
    BY <1>2, <1>4 DEF Places
  <2> QED
    BY <1>1, <1>4, <2>1 DEF Times
<1> QED
  BY <1>3, <1>4

\* The same elements in another order, and nothing else touched.
Shuffled(b, e, n) ==
    /\ DOMAIN e = DOMAIN b
    /\ \A i \in DOMAIN b \ First(n) : e[i] = b[i]
    /\ \A v : Times(e, n, v) = Times(b, n, v)

LEMMA ShuffledAgain ==
  ASSUME NEW b, NEW e, NEW f, NEW n, Shuffled(b, e, n), Shuffled(e, f, n)
  PROVE  Shuffled(b, f, n)
BY DEF Shuffled

\* An exchange of two elements is a shuffle.
LEMMA ExchangeShuffles ==
  ASSUME NEW D, NEW b \in [D -> Int], NEW n \in Nat, First(n) \subseteq D,
         NEW i \in First(n), NEW j \in First(n), i # j, NEW e, e = Exchanged(b, i, j)
  PROVE  /\ e \in [D -> Int] /\ Shuffled(b, e, n) /\ e[i] = b[j] /\ e[j] = b[i]
         /\ \A k \in D \ {i, j} : e[k] = b[k]
<1> DEFINE s(k) == IF k = i THEN j ELSE IF k = j THEN i ELSE k
<1>1. /\ e \in [D -> Int] /\ e[i] = b[j] /\ e[j] = b[i]
      /\ \A k \in D \ {i, j} : e[k] = b[k]
  BY DEF Exchanged
<1>2. \A k \in First(n) : s(k) \in First(n) /\ s(s(k)) = k /\ e[s(k)] = b[k] /\ e[k] = b[s(k)]
  BY <1>1
<1>3. ASSUME NEW v PROVE Times(e, n, v) = Times(b, n, v)
  <2> DEFINE P == Places(b, n, v)
             Q == Places(e, n, v)
             f == [k \in P |-> s(k)]
  <2>1. \A k \in P : k \in First(n) /\ s(k) \in Q
    BY <1>2 DEF Places
  <2>2. \A k \in Q : k \in First(n) /\ s(k) \in P
    BY <1>2 DEF Places
  <2> HIDE DEF P, Q
  <2>3. f \in [P -> Q] /\ \A k \in P : f[k] = s(k)
    BY <2>1
  <2> HIDE DEF f, s
  <2>4. \A k, l \in P : f[k] = f[l] => k = l
    BY <1>2, <2>1, <2>3
  <2>5. \A q \in Q : \E k \in P : f[k] = q
    BY <1>2, <2>2, <2>3
  <2>6. ExistsBijection(P, Q)
    BY <2>3, <2>4, <2>5
       DEF ExistsBijection, Bijection, Injection, Surjection, IsInjective
  <2> QED
    BY <2>6, PlacesFinite, FS_Bijection DEF P, Q, Times
<1> QED
  BY <1>1, <1>3 DEF Shuffled

-----------------------------------------------------------------------------
(* siftdown *)

Siftings(D) == [data : [D -> Int], at : Nat]

Rests(x, n) ==
    Kids(x.at, n) = {} \/ x.data[x.at] =< x.data[LeastKid(x.data, x.at, n)]

Lower(x, n) ==
    [data |-> Exchanged(x.data, x.at, LeastKid(x.data, x.at, n)),
     at |-> LeastKid(x.data, x.at, n)]

\* One turn of siftdown goes to a greater index.
LEMMA LowerIs ==
  ASSUME NEW D, NEW n \in Nat, First(n) \subseteq D, NEW x \in Siftings(D), ~ Rests(x, n),
         NEW y, y = Lower(x, n)
  PROVE  /\ y \in Siftings(D) /\ y.at \in Kids(x.at, n) /\ y.at > x.at /\ y.at < n
         /\ x.at \in First(n) /\ y.at \in First(n)
         /\ y.data = Exchanged(x.data, x.at, y.at)
         /\ x.data[x.at] > x.data[y.at]
         /\ \A k \in Kids(x.at, n) : x.data[y.at] =< x.data[k]
<1> DEFINE i == x.at
           b == x.data
           l == LeastKid(b, i, n)
<1>1. i \in Nat /\ b \in [D -> Int]
  BY DEF Siftings
<1>2. Kids(i, n) # {} /\ ~ (b[i] =< b[l])
  BY DEF Rests
<1>3. \A k \in Kids(i, n) : k \in First(n) /\ b[k] \in Int /\ k \in Nat /\ k > i /\ k < n
  BY <1>1, KidsAre
<1> HIDE DEF i, b
<1>4. l \in Kids(i, n) /\ \A k \in Kids(i, n) : b[l] =< b[k]
  BY <1>1, <1>2, <1>3, LeastKidIs
<1>5. i \in First(n) /\ l \in First(n) /\ i # l /\ b[i] \in Int /\ b[l] \in Int
  BY <1>1, <1>3, <1>4 DEF First
<1>6. y = [data |-> Exchanged(b, i, l), at |-> l]
  BY DEF Lower, b, i
<1> HIDE DEF l
<1>7. Exchanged(b, i, l) \in [D -> Int]
  BY <1>1, <1>5, ExchangeShuffles
<1>8. y.at = l /\ y.data = Exchanged(b, i, l) /\ y \in Siftings(D)
  BY <1>3, <1>4, <1>6, <1>7 DEF Siftings
<1> QED
  BY <1>2, <1>3, <1>4, <1>5, <1>8 DEF b, i

DownEq(f, D, n, x) == f[x] = IF Rests(x, n) THEN x.data ELSE f[Lower(x, n)]

\* The function that siftdown computes exists.
LEMMA SiftExists ==
  ASSUME NEW D, NEW n \in Nat, First(n) \subseteq D
  PROVE  \E f : f = [x \in Siftings(D) |-> f[x]] /\ \A x \in Siftings(D) : DownEq(f, D, n, x)
<1> DEFINE X == Siftings(D)
           Good(f, m) == f = [x \in X |-> f[x]] /\ \A x \in X : x.at >= m => DownEq(f, D, n, x)
           T == {m \in Nat : \E f : Good(f, m)}
<1>1. n \in T
  <2> DEFINE f == [x \in X |-> x.data]
  <2>1. \A x \in X : x.at >= n => Rests(x, n)
    <3> SUFFICES ASSUME NEW x \in X, x.at >= n PROVE Rests(x, n)
      OBVIOUS
    <3>1. x.at \in Nat
      BY DEF Siftings
    <3>2. Kids(x.at, n) = {}
      BY <3>1, KidsAre
    <3> QED
      BY <3>2 DEF Rests
  <2>2. f = [x \in X |-> f[x]] /\ \A x \in X : f[x] = x.data
    OBVIOUS
  <2> HIDE DEF f, X
  <2>3. Good(f, n)
    BY <2>1, <2>2 DEF DownEq
  <2> HIDE DEF Good
  <2> QED
    BY <2>3
<1>2. Min(T) \in T /\ (\A m \in T : Min(T) =< m) /\ T \subseteq Nat
  <2>1. T \in SUBSET Nat /\ T # {}
    BY <1>1
  <2> QED
    BY <2>1, LeastNatural
<1>3. Min(T) = 0
  <2> SUFFICES ASSUME Min(T) # 0 PROVE FALSE
    OBVIOUS
  <2> DEFINE m == Min(T)
  <2>1. m \in Nat \ {0} /\ m - 1 \in Nat /\ ~ (m =< m - 1)
    BY <1>2
  <2>2. PICK f : Good(f, m)
    BY <1>2
  <2> HIDE DEF T, m, X
  <2> DEFINE g == [x \in X |-> IF x.at >= m THEN f[x]
                               ELSE IF Rests(x, n) THEN x.data ELSE f[Lower(x, n)]]
  <2>3. \A x \in X : g[x] = IF x.at >= m THEN f[x]
                               ELSE IF Rests(x, n) THEN x.data ELSE f[Lower(x, n)]
    OBVIOUS
  <2>4. g = [x \in X |-> g[x]]
    OBVIOUS
  <2> HIDE DEF g
  <2>5. ASSUME NEW x \in X, x.at >= m - 1 PROVE DownEq(g, D, n, x)
    <3>1. CASE Rests(x, n)
      BY <2>2, <2>3, <3>1 DEF DownEq
    <3>2. CASE ~ Rests(x, n)
      <4>1. Lower(x, n) \in X /\ Lower(x, n).at > x.at /\ x.at \in Nat /\ Lower(x, n).at \in Nat
        BY <3>2, LowerIs DEF X, Siftings
      <4>2. Lower(x, n).at >= m
        BY <2>1, <2>5, <4>1
      <4>3. g[Lower(x, n)] = f[Lower(x, n)]
        BY <2>3, <4>1, <4>2
      <4> QED
        BY <2>2, <2>3, <3>2, <4>3 DEF DownEq
    <3> QED
      BY <3>1, <3>2
  <2>6. Good(g, m - 1)
    BY <2>4, <2>5
  <2> HIDE DEF Good
  <2>7. m - 1 \in T
    BY <2>1, <2>6 DEF T
  <2> QED
    BY <1>2, <2>1, <2>7 DEF m
<1>4. PICK f : Good(f, 0)
  BY <1>2, <1>3
<1>5. \A x \in X : DownEq(f, D, n, x)
  <2> SUFFICES ASSUME NEW x \in X PROVE DownEq(f, D, n, x)
    OBVIOUS
  <2>1. x.at >= 0
    BY DEF Siftings
  <2> QED
    BY <1>4, <2>1
<1>6. f = [x \in X |-> f[x]]
  BY <1>4
<1> HIDE DEF X, Good, T
<1> QED
  BY <1>5, <1>6 DEF X

LEMMA SiftIs ==
  ASSUME NEW D, NEW b \in [D -> Int], NEW n \in Nat, First(n) \subseteq D, NEW i \in Nat
  PROVE  \E f : /\ Sift(b, n, i) = f[[data |-> b, at |-> i]]
                /\ \A x \in Siftings(D) : DownEq(f, D, n, x)
<1> DEFINE Eq(f) == f = [x \in [data : [DOMAIN b -> Int], at : Nat] |->
                      IF \/ Kids(x.at, n) = {}
                         \/ x.data[x.at] =< x.data[LeastKid(x.data, x.at, n)]
                      THEN x.data
                      ELSE f[[data |-> Exchanged(x.data, x.at, LeastKid(x.data, x.at, n)),
                              at |-> LeastKid(x.data, x.at, n)]]]
           down == CHOOSE f : Eq(f)
<1>1. DOMAIN b = D
  OBVIOUS
<1>2. \E f : Eq(f)
  <2>1. PICK f : f = [x \in Siftings(D) |-> f[x]] /\ \A x \in Siftings(D) : DownEq(f, D, n, x)
    BY SiftExists
  <2> DEFINE body(x) == IF \/ Kids(x.at, n) = {}
                           \/ x.data[x.at] =< x.data[LeastKid(x.data, x.at, n)]
                        THEN x.data
                        ELSE f[[data |-> Exchanged(x.data, x.at, LeastKid(x.data, x.at, n)),
                                at |-> LeastKid(x.data, x.at, n)]]
  <2>2. \A x \in Siftings(D) : f[x] = body(x)
    BY <2>1 DEF DownEq, Rests, Lower
  <2>3. f = [x \in Siftings(D) |-> body(x)]
    <3> HIDE DEF body
    <3> QED
      BY <2>1, <2>2
  <2>4. Siftings(D) = [data : [DOMAIN b -> Int], at : Nat]
    BY <1>1 DEF Siftings
  <2> QED
    BY <2>3, <2>4, Zenon
<1>3. Sift(b, n, i) = down[[data |-> b, at |-> i]]
  BY DEF Sift
<1>4. Eq(down)
  <2> HIDE DEF Eq
  <2> QED
    BY <1>2
<1>5. \A x \in Siftings(D) : DownEq(down, D, n, x)
  <2> HIDE DEF down
  <2> QED
    BY <1>1, <1>4 DEF DownEq, Siftings, Rests, Lower
<1> HIDE DEF down
<1> QED
  BY <1>3, <1>5

\* No element is less than its parent, where the parent is the node m or later.
Heaped(b, n, m) == \A c \in First(n) \ {0} : Parent(c) >= m => b[Parent(c)] =< b[c]

\* What holds while an element goes down and is at i: i is the only node that may
\* be greater than its children, and its parent is not.
Sinking(b, n, m, i) ==
    /\ \A c \in First(n) \ {0} : Parent(c) >= m /\ Parent(c) # i => b[Parent(c)] =< b[c]
    /\ i \in First(n) \ {0} /\ Parent(i) >= m =>
           \A c \in First(n) \ {0} : Parent(c) = i => b[Parent(i)] =< b[c]

LEMMA SinkingEnds ==
  ASSUME NEW D, NEW n \in Nat, First(n) \subseteq D, NEW m \in Nat, NEW x \in Siftings(D),
         Sinking(x.data, n, m, x.at), Rests(x, n)
  PROVE  Heaped(x.data, n, m)
<1> DEFINE i == x.at
           b == x.data
<1>1. i \in Nat /\ b \in [D -> Int]
  BY DEF Siftings
<1> SUFFICES ASSUME NEW c \in First(n) \ {0}, Parent(c) >= m PROVE b[Parent(c)] =< b[c]
  BY DEF Heaped
<1>2. CASE Parent(c) # i
  BY <1>2 DEF Sinking
<1>3. CASE Parent(c) = i
  <2>1. c \in Kids(i, n) /\ \A k \in Kids(i, n) : k \in First(n)
    BY <1>1, <1>3, KidsAre
  <2>2. \A k \in Kids(i, n) : b[k] \in Int
    BY <1>1, <2>1
  <2> DEFINE l == LeastKid(b, i, n)
  <2>3. l \in Kids(i, n) /\ b[l] =< b[c]
    BY <1>1, <2>1, <2>2, LeastKidIs
  <2>4. b[i] =< b[l]
    BY <2>1 DEF Rests
  <2>5. i < c /\ i \in First(n)
    BY <1>1, <2>1, KidsAre DEF First
  <2>6. b[i] \in Int /\ b[l] \in Int /\ b[c] \in Int
    BY <1>1, <2>1, <2>2, <2>3, <2>5
  <2> HIDE DEF l, b, i
  <2> QED
    BY <1>3, <2>3, <2>4, <2>6
<1> QED
  BY <1>2, <1>3

LEMMA SinkingGoesOn ==
  ASSUME NEW D, NEW n \in Nat, First(n) \subseteq D, NEW m \in Nat, NEW x \in Siftings(D),
         Sinking(x.data, n, m, x.at), x.at >= m, ~ Rests(x, n), NEW y, y = Lower(x, n)
  PROVE  Sinking(y.data, n, m, y.at) /\ y.at >= m /\ Shuffled(x.data, y.data, n)
<1> DEFINE i == x.at
           b == x.data
           k == y.at
           e == y.data
<1>1. /\ i \in Nat /\ b \in [D -> Int] /\ i \in First(n) /\ k \in First(n) /\ k > i /\ k \in Nat
      /\ k \in Kids(i, n) /\ b[i] > b[k] /\ (\A l \in Kids(i, n) : b[k] =< b[l])
      /\ e = Exchanged(b, i, k)
  <2>1. i \in Nat /\ b \in [D -> Int]
    BY DEF Siftings
  <2>2. /\ i \in First(n) /\ k \in First(n) /\ k > i
        /\ k \in Kids(i, n) /\ b[i] > b[k] /\ (\A l \in Kids(i, n) : b[k] =< b[l])
        /\ e = Exchanged(b, i, k)
    BY LowerIs
  <2> QED
    BY <2>1, <2>2 DEF First
<1>2. Sinking(b, n, m, i) /\ i >= m
  OBVIOUS
<1> HIDE DEF i, b, k, e
<1>3. /\ e \in [D -> Int] /\ Shuffled(b, e, n) /\ e[i] = b[k] /\ e[k] = b[i]
      /\ \A l \in D \ {i, k} : e[l] = b[l]
  BY <1>1, ExchangeShuffles
<1>4. k # 0 /\ Parent(k) = i /\ \A c \in First(n) \ {0} : c \in Kids(i, n) <=> Parent(c) = i
  BY <1>1, KidsAre
<1>5. ASSUME NEW c \in First(n) \ {0}
      PROVE  /\ Parent(c) \in Nat /\ Parent(c) < c /\ Parent(c) \in First(n) /\ c \in Nat
             /\ b[c] \in Int /\ b[Parent(c)] \in Int /\ c \in D /\ Parent(c) \in D
  <2>1. c \in Nat \ {0} /\ c < n
    BY DEF First
  <2>2. Parent(c) \in Nat /\ Parent(c) < c
    BY <2>1, ParentIs
  <2>3. Parent(c) \in First(n)
    BY <2>1, <2>2 DEF First
  <2> QED
    BY <1>1, <2>1, <2>2, <2>3
<1>6. b[i] \in Int /\ b[k] \in Int
  BY <1>1
<1>7. ASSUME NEW c \in First(n) \ {0}, Parent(c) >= m, Parent(c) # k
      PROVE  e[Parent(c)] =< e[c]
  <2>1. CASE Parent(c) = i
    <3>1. b[k] =< b[c] /\ b[c] \in Int
      BY <1>1, <1>4, <1>5, <2>1
    <3>2. c # i
      BY <1>5, <2>1
    <3>3. e[c] = IF c = k THEN b[i] ELSE b[c]
      BY <1>3, <1>5, <3>2
    <3> QED
      BY <1>1, <1>3, <1>6, <2>1, <3>1, <3>3
  <2>2. CASE Parent(c) # i
    <3>1. e[Parent(c)] = b[Parent(c)]
      BY <1>3, <1>5, <1>7, <2>2
    <3>2. c # k
      BY <1>4, <2>2
    <3>3. b[Parent(c)] =< b[c]
      BY <1>2, <1>7, <2>2 DEF Sinking
    <3>4. CASE c = i
      <4>1. b[Parent(i)] =< b[k]
        BY <1>1, <1>2, <1>4, <1>7, <3>4 DEF Sinking
      <4> QED
        BY <1>3, <3>1, <3>4, <4>1
    <3>5. CASE c # i
      BY <1>3, <1>5, <3>1, <3>2, <3>3, <3>5
    <3> QED
      BY <3>4, <3>5
  <2> QED
    BY <2>1, <2>2
<1>8. ASSUME NEW c \in First(n) \ {0}, Parent(c) = k PROVE e[Parent(k)] =< e[c]
  <2>1. b[k] =< b[c]
    BY <1>1, <1>2, <1>8 DEF Sinking
  <2>2. c # k /\ c # i
    BY <1>1, <1>5, <1>8
  <2> QED
    BY <1>3, <1>4, <1>5, <2>1, <2>2
<1>9. Sinking(e, n, m, k) /\ k >= m
  BY <1>1, <1>2, <1>7, <1>8 DEF Sinking
<1> QED
  BY <1>3, <1>9 DEF b, k, e

\* siftdown of an element that may be greater than its children makes a heap of the
\* nodes from m on, with the same elements.
Heapified(b, r, D, n, m) == r \in [D -> Int] /\ Shuffled(b, r, n) /\ Heaped(r, n, m)

LEMMA SiftHeaps ==
  ASSUME NEW D, NEW b \in [D -> Int], NEW n \in Nat, First(n) \subseteq D, NEW m \in Nat,
         NEW i \in Nat, i >= m, Sinking(b, n, m, i)
  PROVE  Heapified(b, Sift(b, n, i), D, n, m)
<1>1. PICK f : /\ Sift(b, n, i) = f[[data |-> b, at |-> i]]
               /\ \A x \in Siftings(D) : DownEq(f, D, n, x)
  BY SiftIs
<1> DEFINE Bad(x) == /\ x.at >= m /\ Sinking(x.data, n, m, x.at)
                     /\ ~ Heapified(x.data, f[x], D, n, m)
           T == {j \in Nat : \E x \in Siftings(D) : Bad(x) /\ x.at < n /\ j = n - x.at}
<1>2. ASSUME NEW x \in Siftings(D), Bad(x)
      PROVE  /\ Lower(x, n) \in Siftings(D) /\ Bad(Lower(x, n))
             /\ Lower(x, n).at > x.at /\ Lower(x, n).at < n /\ x.at \in Nat /\ x.at < n
             /\ Lower(x, n).at \in Nat
  <2>1. x.data \in [D -> Int] /\ x.at \in Nat
    BY DEF Siftings
  <2>2. DownEq(f, D, n, x)
    BY <1>1
  <2>3. ~ Rests(x, n)
    <3> SUFFICES ASSUME Rests(x, n) PROVE FALSE
      OBVIOUS
    <3>1. f[x] = x.data
      BY <2>2 DEF DownEq
    <3>2. Heaped(x.data, n, m)
      BY <1>2, SinkingEnds
    <3> QED
      BY <1>2, <2>1, <3>1, <3>2 DEF Heapified, Shuffled
  <2> DEFINE y == Lower(x, n)
  <2>4. /\ y \in Siftings(D) /\ y.at > x.at /\ y.at < n /\ x.at \in First(n)
        /\ y.at \in First(n)
    BY <2>3, LowerIs
  <2>5. Sinking(y.data, n, m, y.at) /\ y.at >= m /\ Shuffled(x.data, y.data, n)
    BY <1>2, <2>3, SinkingGoesOn
  <2>6. f[x] = f[y]
    BY <2>2, <2>3 DEF DownEq
  <2> HIDE DEF y
  <2>7. ~ Heapified(y.data, f[y], D, n, m)
    BY <1>2, <2>5, <2>6, ShuffledAgain DEF Heapified
  <2>8. y.at \in Nat
    BY <2>4 DEF Siftings
  <2> QED
    BY <2>1, <2>4, <2>5, <2>7, <2>8 DEF First, y
<1>3. ASSUME NEW x \in Siftings(D), Bad(x) PROVE FALSE
  <2> HIDE DEF Bad
  <2>1. T \in SUBSET Nat /\ T # {}
    <3>1. x.at \in Nat /\ x.at < n
      BY <1>2, <1>3
    <3>2. n - x.at \in T
      BY <1>3, <3>1
    <3> QED
      BY <3>2
  <2> HIDE DEF T
  <2>2. Min(T) \in T /\ \A j \in T : Min(T) =< j
    BY <2>1, LeastNatural
  <2>3. PICK z \in Siftings(D) : Bad(z) /\ z.at < n /\ Min(T) = n - z.at
    BY <2>2 DEF T
  <2> DEFINE y == Lower(z, n)
  <2>4. y \in Siftings(D) /\ Bad(y) /\ y.at > z.at /\ y.at < n /\ z.at \in Nat /\ y.at \in Nat
    BY <1>2, <2>3
  <2> HIDE DEF y
  <2>5. n - y.at \in T
    BY <2>4 DEF T
  <2> QED
    BY <2>2, <2>3, <2>4, <2>5
<1>4. [data |-> b, at |-> i] \in Siftings(D)
  BY DEF Siftings
<1> DEFINE x == [data |-> b, at |-> i]
<1>5. x.data = b /\ x.at = i /\ x \in Siftings(D) /\ Sift(b, n, i) = f[x]
  BY <1>1, <1>4
<1> HIDE DEF x
<1> QED
  BY <1>3, <1>5

\* The loops that sift from node i down to the first make a heap of elements in any
\* order, if there are no nodes behind i that have children.
LEMMA SiftFromHeaps ==
  ASSUME NEW D, NEW b \in [D -> Int], NEW n \in Nat, First(n) \subseteq D,
         NEW i \in Nat, Heaped(b, n, i + 1)
  PROVE  Heapified(b, SiftFrom(b, n, i), D, n, 0)
<1> DEFINE J == 0 .. i + 1
           Eq(f) == f = [j \in J |-> IF j > i THEN b ELSE Sift(f[j + 1], n, j)]
           Turn(f, j) == f[j] = IF j > i THEN b ELSE Sift(f[j + 1], n, j)
           From(f, m) == f = [j \in J |-> f[j]] /\ \A j \in J : j >= m => Turn(f, j)
           T == {m \in J : \E f : From(f, m)}
           after == CHOOSE f : Eq(f)
<1>1. SiftFrom(b, n, i) = after[0]
  BY DEF SiftFrom
<1>2. \E f : Eq(f)
  <2>1. T \in SUBSET Nat /\ i + 1 \in T
    <3> DEFINE f == [j \in J |-> b]
    <3>1. From(f, i + 1)
      OBVIOUS
    <3> HIDE DEF From
    <3> QED
      BY <3>1
  <2>2. Min(T) \in T /\ \A m \in T : Min(T) =< m
    BY <2>1, LeastNatural
  <2>3. ASSUME NEW m \in T, m # 0 PROVE m - 1 \in T
    <3>1. PICK f : From(f, m)
      OBVIOUS
    <3>2. m \in J /\ m - 1 \in J /\ m - 1 =< i
      BY <2>3
    <3> DEFINE g == [j \in J |-> IF j >= m THEN f[j] ELSE Sift(f[j + 1], n, j)]
    <3>3. g = [j \in J |-> g[j]]
      OBVIOUS
    <3>6. \A j \in J : g[j] = IF j >= m THEN f[j] ELSE Sift(f[j + 1], n, j)
      OBVIOUS
    <3>7. \A j \in J : j >= m => f[j] = IF j > i THEN b ELSE Sift(f[j + 1], n, j)
      BY <3>1
    <3> HIDE DEF g
    <3>4. ASSUME NEW j \in J, j >= m - 1 PROVE Turn(g, j)
      <4>1. CASE j > i
        BY <3>2, <3>6, <3>7, <4>1
      <4>2. CASE j =< i
        <5>1. j + 1 \in J /\ j + 1 >= m
          BY <3>2, <3>4, <4>2
        <5>2. g[j + 1] = f[j + 1]
          BY <3>6, <5>1
        <5>3. g[j] = Sift(f[j + 1], n, j)
          BY <3>6, <3>7, <4>2
        <5> QED
          BY <4>2, <5>2, <5>3
      <4> QED
        BY <4>1, <4>2
    <3> HIDE DEF Turn
    <3>5. From(g, m - 1)
      BY <3>3, <3>4
    <3> HIDE DEF From
    <3> QED
      BY <3>2, <3>5
  <2> HIDE DEF T
  <2>4. Min(T) = 0
    <3>1. Min(T) # 0 => Min(T) - 1 \in T
      BY <2>2, <2>3
    <3>2. Min(T) \in Nat
      BY <2>1, <2>2
    <3> QED
      BY <2>2, <3>1, <3>2
  <2>5. PICK f : From(f, 0)
    BY <2>2, <2>4 DEF T
  <2>6. \A j \in J : f[j] = IF j > i THEN b ELSE Sift(f[j + 1], n, j)
    <3>1. \A j \in J : j >= 0 => Turn(f, j)
      BY <2>5
    <3> QED
      BY <3>1
  <2>7. f = [j \in J |-> f[j]]
    BY <2>5
  <2> HIDE DEF From
  <2> QED
    BY <2>6, <2>7
<1>3. Eq(after)
  <2> HIDE DEF Eq
  <2> QED
    BY <1>2
<1>4. \A j \in J : Turn(after, j)
  <2> HIDE DEF after
  <2> QED
    BY <1>3
<1> HIDE DEF after
<1> DEFINE Good(j) == Heapified(b, after[j], D, n, j)
           G == {j \in J : Good(j)}
<1>5. i + 1 \in G
  <2>1. after[i + 1] = b
    BY <1>4
  <2>2. Heapified(b, b, D, n, i + 1)
    BY DEF Heapified, Shuffled
  <2> QED
    BY <2>1, <2>2
<1>6. ASSUME NEW k \in G, k # 0 PROVE k - 1 \in G
  <2> DEFINE j == k - 1
             e == after[k]
  <2>1. j \in J /\ k = j + 1 /\ j =< i /\ j \in Nat
    BY <1>6
  <2>2. e \in [D -> Int] /\ Shuffled(b, e, n) /\ Heaped(e, n, j + 1)
    BY <2>1 DEF Heapified
  <2>3. after[j] = Sift(e, n, j)
    BY <1>4, <2>1
  <2> HIDE DEF j, e
  <2>4. Sinking(e, n, j, j)
    <3>1. \A c \in First(n) \ {0} : Parent(c) \in Nat
      BY ParentIs DEF First
    <3>2. ASSUME NEW c \in First(n) \ {0}, Parent(c) >= j, Parent(c) # j
          PROVE  e[Parent(c)] =< e[c]
      BY <2>1, <2>2, <3>1, <3>2 DEF Heaped
    <3>3. j \in First(n) \ {0} => ~ (Parent(j) >= j)
      <4>1. j # 0 => Parent(j) \in Nat /\ Parent(j) < j
        BY <2>1, ParentIs
      <4> QED
        BY <2>1, <4>1
    <3> QED
      BY <3>2, <3>3 DEF Sinking
  <2>5. Heapified(e, Sift(e, n, j), D, n, j)
    BY <2>1, <2>2, <2>4, SiftHeaps
  <2>6. Heapified(b, after[j], D, n, j)
    BY <2>2, <2>3, <2>5, ShuffledAgain DEF Heapified
  <2> QED
    BY <2>1, <2>6 DEF j
<1>7. 0 \in G
  <2>1. G \in SUBSET Nat /\ G # {}
    BY <1>5
  <2> HIDE DEF G
  <2>2. Min(G) \in G /\ \A j \in G : Min(G) =< j
    BY <2>1, LeastNatural
  <2>3. Min(G) # 0 => Min(G) - 1 \in G
    BY <1>6, <2>2
  <2>4. Min(G) \in Nat
    BY <2>1, <2>2
  <2>5. Min(G) = 0
    BY <2>2, <2>3, <2>4
  <2> QED
    BY <2>2, <2>5
<1> QED
  BY <1>1, <1>7

-----------------------------------------------------------------------------
(* What a heap is good for *)

\* The first element is a least one.
LEMMA RootIsLeast ==
  ASSUME NEW b, NEW n \in Nat, \A i \in First(n) : b[i] \in Int, Heaped(b, n, 0)
  PROVE  \A i \in First(n) : b[0] =< b[i]
<1> DEFINE T == {i \in First(n) : ~ (b[0] =< b[i])}
<1> SUFFICES ASSUME T # {} PROVE FALSE
  OBVIOUS
<1>1. T \in SUBSET Nat
  BY DEF First
<1>2. Min(T) \in T /\ \A j \in T : Min(T) =< j
  BY <1>1, LeastNatural
<1> DEFINE i == Min(T)
<1>3. i \in First(n) /\ ~ (b[0] =< b[i]) /\ \A j \in First(n) : ~ (b[0] =< b[j]) => i =< j
  BY <1>2
<1> HIDE DEF T, i
<1>4. b[i] \in Int /\ i \in Nat /\ i < n /\ 0 \in First(n)
  BY <1>3 DEF First
<1>5. b[0] \in Int
  BY <1>4
<1>6. i # 0
  BY <1>3, <1>5
<1>7. Parent(i) \in Nat /\ Parent(i) < i
  BY <1>4, <1>6, ParentIs
<1>8. Parent(i) \in First(n)
  BY <1>4, <1>7 DEF First
<1>9. b[Parent(i)] =< b[i] /\ b[Parent(i)] \in Int
  BY <1>3, <1>6, <1>7, <1>8 DEF Heaped
<1>10. b[0] =< b[Parent(i)]
  BY <1>3, <1>4, <1>7, <1>8
<1> QED
  BY <1>3, <1>4, <1>5, <1>9, <1>10

\* heap_get_at below a node, by the results f for the nodes behind it.
Tried(f, v, k) == IF At(k) = v THEN k ELSE IF v > At(k) THEN f[k] ELSE Nothing
Hits(f, v, i) == {k \in Kids(i, ar.elnum) : Tried(f, v, k) # Nothing}
Got(f, v, i) == IF Hits(f, v, i) = {} THEN Nothing ELSE Tried(f, v, Min(Hits(f, v, i)))

LEMMA GotIs ==
  ASSUME ar.elnum \in Nat, NEW f, NEW v, NEW i \in Nat
  PROVE  /\ Got(f, v, i) = Nothing => Hits(f, v, i) = {}
         /\ Got(f, v, i) # Nothing => \E k \in Hits(f, v, i) : Got(f, v, i) = Tried(f, v, k)
<1>1. CASE Hits(f, v, i) # {}
  <2>1. Hits(f, v, i) \in SUBSET Nat
    BY KidsAre DEF Hits
  <2>2. Min(Hits(f, v, i)) \in Hits(f, v, i)
    BY <1>1, <2>1, LeastNatural
  <2>3. Got(f, v, i) = Tried(f, v, Min(Hits(f, v, i)))
    BY <1>1 DEF Got
  <2>4. Tried(f, v, Min(Hits(f, v, i))) # Nothing
    BY <2>2 DEF Hits
  <2> QED
    BY <2>2, <2>3, <2>4
<1>2. CASE Hits(f, v, i) = {}
  BY <1>2 DEF Got
<1> QED
  BY <1>1, <1>2

\* Only the results for the nodes behind i matter.
LEMMA GotSame ==
  ASSUME ar.elnum \in Nat, NEW f, NEW g, NEW v, NEW i \in Nat,
         \A k \in Kids(i, ar.elnum) : g[k] = f[k]
  PROVE  Got(g, v, i) = Got(f, v, i)
<1>1. \A k \in Kids(i, ar.elnum) : Tried(g, v, k) = Tried(f, v, k)
  BY DEF Tried
<1>2. Hits(g, v, i) = Hits(f, v, i)
  BY <1>1 DEF Hits
<1>3. CASE Hits(f, v, i) = {}
  BY <1>2, <1>3 DEF Got
<1>4. CASE Hits(f, v, i) # {}
  <2>1. Hits(f, v, i) \in SUBSET Nat
    BY KidsAre DEF Hits
  <2>2. Min(Hits(f, v, i)) \in Kids(i, ar.elnum)
    BY <1>4, <2>1, LeastNatural DEF Hits
  <2> QED
    BY <1>1, <1>2, <1>4, <2>2 DEF Got
<1> QED
  BY <1>3, <1>4

LEMMA GetExists ==
  ASSUME ar.elnum \in Nat, NEW v
  PROVE  \E f : f = [i \in Nat |-> Got(f, v, i)]
<1> DEFINE n == ar.elnum
           From(f, m) == f = [i \in Nat |-> f[i]] /\ \A i \in Nat : i >= m => f[i] = Got(f, v, i)
           T == {m \in Nat : \E f : From(f, m)}
<1>1. n \in T
  <2> DEFINE f == [i \in Nat |-> Nothing]
  <2>1. f = [i \in Nat |-> f[i]] /\ \A i \in Nat : f[i] = Nothing
    OBVIOUS
  <2> HIDE DEF f
  <2>2. ASSUME NEW i \in Nat, i >= n PROVE f[i] = Got(f, v, i)
    <3>1. Kids(i, n) = {}
      BY <2>2, KidsAre
    <3>2. Got(f, v, i) = Nothing
      BY <3>1 DEF Got, Hits
    <3> QED
      BY <2>1, <3>2
  <2>3. From(f, n)
    BY <2>1, <2>2
  <2> HIDE DEF From
  <2> QED
    BY <2>3
<1>2. Min(T) \in T /\ (\A m \in T : Min(T) =< m) /\ Min(T) \in Nat
  <2>1. T \in SUBSET Nat /\ T # {}
    BY <1>1
  <2> QED
    BY <2>1, LeastNatural
<1>3. ASSUME NEW m \in T, m # 0 PROVE m - 1 \in T
  <2>1. PICK f : From(f, m)
    OBVIOUS
  <2>2. m \in Nat /\ m - 1 \in Nat
    BY <1>3
  <2>3. \A i \in Nat : i >= m => f[i] = Got(f, v, i)
    BY <2>1
  <2> DEFINE g == [i \in Nat |-> IF i >= m THEN f[i] ELSE Got(f, v, i)]
  <2>4. g = [i \in Nat |-> g[i]] /\ \A i \in Nat : g[i] = IF i >= m THEN f[i] ELSE Got(f, v, i)
    OBVIOUS
  <2> HIDE DEF g, T, From
  <2>5. ASSUME NEW i \in Nat, i >= m - 1 PROVE g[i] = Got(g, v, i)
    <3>1. g[i] = Got(f, v, i)
      BY <2>3, <2>4
    <3>2. \A k \in Kids(i, n) : k \in Nat /\ k >= m
      BY <2>2, <2>5, KidsAre
    <3>3. \A k \in Kids(i, n) : g[k] = f[k]
      BY <2>4, <3>2
    <3> QED
      BY <3>1, <3>3, GotSame
  <2>6. From(g, m - 1)
    BY <2>4, <2>5 DEF From
  <2> QED
    BY <2>2, <2>6 DEF T
<1>4. Min(T) = 0
  <2> HIDE DEF T
  <2>1. Min(T) # 0 => Min(T) - 1 \in T
    BY <1>2, <1>3
  <2> QED
    BY <1>2, <2>1
<1>5. PICK f : From(f, 0)
  BY <1>2, <1>4
<1>6. f = [i \in Nat |-> f[i]] /\ \A i \in Nat : i >= 0 => f[i] = Got(f, v, i)
  BY <1>5
<1> HIDE DEF From, T
<1>7. \A i \in Nat : f[i] = Got(f, v, i)
  BY <1>6
<1> QED
  BY <1>6, <1>7

LEMMA GetIs ==
  ASSUME ar.elnum \in Nat, NEW v
  PROVE  \E f : /\ \A i \in Nat : f[i] = Got(f, v, i)
                /\ HeapGet(v) = IF ar.elnum = 0 THEN Nothing ELSE IF At(0) = v THEN 0
                                ELSE IF v < At(0) THEN Nothing ELSE f[0]
<1> DEFINE Eq(f) == f = [i \in Nat |->
                          IF {k \in Kids(i, ar.elnum) :
                                (IF At(k) = v THEN k ELSE IF v > At(k) THEN f[k] ELSE Nothing)
                                # Nothing} = {}
                          THEN Nothing
                          ELSE LET l == Min({k \in Kids(i, ar.elnum) :
                                (IF At(k) = v THEN k ELSE IF v > At(k) THEN f[k] ELSE Nothing)
                                # Nothing})
                               IN  IF At(l) = v THEN l ELSE IF v > At(l) THEN f[l] ELSE Nothing]
           get == CHOOSE f : Eq(f)
<1>1. \E f : Eq(f)
  <2>1. PICK f : f = [i \in Nat |-> Got(f, v, i)]
    BY GetExists
  <2>2. Eq(f)
    BY <2>1, Zenon DEF Got, Hits, Tried
  <2> HIDE DEF Eq
  <2> QED
    BY <2>2
<1>2. Eq(get)
  <2> HIDE DEF Eq
  <2> QED
    BY <1>1
<1>3. HeapGet(v) = IF ar.elnum = 0 THEN Nothing ELSE IF At(0) = v THEN 0
                   ELSE IF v < At(0) THEN Nothing ELSE get[0]
  BY DEF HeapGet
<1>4. get = [i \in Nat |-> Got(get, v, i)]
  <2> HIDE DEF get
  <2> QED
    BY <1>2, Zenon DEF Got, Hits, Tried
<1> HIDE DEF get
<1>5. \A i \in Nat : get[i] = Got(get, v, i)
  <2> DEFINE body(i) == Got(get, v, i)
  <2>1. get = [i \in Nat |-> body(i)]
    BY <1>4
  <2> HIDE DEF body
  <2>2. \A i \in Nat : get[i] = body(i)
    BY <2>1
  <2> QED
    BY <2>2 DEF body
<1> QED
  BY <1>3, <1>5

\* heap_get finds an element exactly if it is there: the branches it leaves out are
\* those below greater elements.
LEMMA GetFinds ==
  ASSUME ar.elnum \in Nat, \A i \in First(ar.elnum) : At(i) \in Int,
         Heaped(ar.data, ar.elnum, 0), NEW v \in Int
  PROVE  IF \E i \in First(ar.elnum) : At(i) = v
         THEN HeapGet(v) # Nothing /\ At(HeapGet(v)) = v
         ELSE HeapGet(v) = Nothing
<1> DEFINE n == ar.elnum
<1>1. PICK f : /\ \A i \in Nat : f[i] = Got(f, v, i)
               /\ HeapGet(v) = IF n = 0 THEN Nothing ELSE IF At(0) = v THEN 0
                               ELSE IF v < At(0) THEN Nothing ELSE f[0]
  BY GetIs
<1>2. n \in Nat /\ Nothing \notin Nat /\ \A i \in First(n) : i \in Nat /\ i < n /\ At(i) \in Int
  BY HeapAssumption DEF First
<1>3. \A c \in First(n) \ {0} : Parent(c) \in First(n) /\ Parent(c) < c /\ At(Parent(c)) =< At(c)
  <2> SUFFICES ASSUME NEW c \in First(n) \ {0}
               PROVE  Parent(c) \in First(n) /\ Parent(c) < c /\ At(Parent(c)) =< At(c)
    OBVIOUS
  <2>1. c \in Nat \ {0} /\ c < n
    BY <1>2
  <2>2. Parent(c) \in Nat /\ Parent(c) < c
    BY <2>1, ParentIs
  <2>3. At(Parent(c)) =< At(c)
    BY <2>2 DEF Heaped, At
  <2> QED
    BY <1>2, <2>1, <2>2, <2>3 DEF First
<1>4. \A i \in First(n), k \in First(n) \ {0} : k \in Kids(i, n) <=> Parent(k) = i
  BY <1>2, KidsAre
<1>5. ASSUME NEW i \in Nat
      PROVE  /\ f[i] = Nothing => Hits(f, v, i) = {}
             /\ f[i] # Nothing => \E k \in Hits(f, v, i) : f[i] = Tried(f, v, k)
  <2>1. f[i] = Got(f, v, i)
    BY <1>1
  <2> QED
    BY <1>2, <2>1, GotIs
<1>6. \A i \in Nat : f[i] # Nothing => f[i] \in First(n) /\ At(f[i]) = v
  <2> DEFINE Bad(i) == f[i] # Nothing /\ ~ (f[i] \in First(n) /\ At(f[i]) = v)
             T == {j \in Nat : \E i \in Nat : Bad(i) /\ i < n /\ j = n - i}
  <2>1. ASSUME NEW i \in Nat, Bad(i)
        PROVE  i < n /\ \E k \in Nat : Bad(k) /\ i < k /\ k < n
    <3>1. PICK k \in Hits(f, v, i) : f[i] = Tried(f, v, k)
      BY <1>5, <2>1
    <3>2. k \in Kids(i, n) /\ f[i] # Nothing
      BY <2>1 DEF Hits
    <3>3. k \in Nat /\ i < k /\ k < n /\ k \in First(n)
      BY <1>2, <3>2, KidsAre
    <3>4. At(k) # v
      BY <2>1, <3>1, <3>3 DEF Tried
    <3>5. f[i] = f[k]
      BY <3>1, <3>2, <3>4 DEF Tried
    <3>6. Bad(k)
      BY <2>1, <3>5
    <3> QED
      BY <1>2, <3>3, <3>6
  <2> SUFFICES ASSUME NEW i \in Nat, Bad(i) PROVE FALSE
    OBVIOUS
  <2> HIDE DEF Bad
  <2>2. T \in SUBSET Nat /\ T # {}
    <3>1. i < n /\ n - i \in Nat
      BY <1>2, <2>1
    <3>2. n - i \in T
      BY <3>1
    <3> QED
      BY <3>2
  <2> HIDE DEF T
  <2>3. Min(T) \in T /\ \A j \in T : Min(T) =< j
    BY <2>2, LeastNatural
  <2>4. PICK z \in Nat : Bad(z) /\ z < n /\ Min(T) = n - z
    BY <2>3 DEF T
  <2>5. PICK k \in Nat : Bad(k) /\ z < k /\ k < n
    BY <2>1, <2>4
  <2>6. n - k \in T
    BY <1>2, <2>5 DEF T
  <2> QED
    BY <1>2, <2>3, <2>4, <2>5, <2>6
<1>7. ASSUME NEW m \in First(n), At(m) = v, At(0) # v PROVE f[0] # Nothing
  <2> DEFINE R == {i \in First(n) : f[i] # Nothing /\ At(i) =< v}
  <2>1. ASSUME NEW k \in First(n) \ {0}, At(k) = v \/ (At(k) =< v /\ f[k] # Nothing)
        PROVE  Parent(k) \in R
    <3>1. Tried(f, v, k) # Nothing
      BY <1>2, <2>1 DEF Tried
    <3>2. Parent(k) \in First(n) /\ At(Parent(k)) =< At(k)
      BY <1>3
    <3>3. k \in Hits(f, v, Parent(k))
      BY <1>4, <3>1, <3>2 DEF Hits
    <3>4. f[Parent(k)] # Nothing
      BY <1>2, <1>5, <3>2, <3>3
    <3>5. At(Parent(k)) =< v
      BY <1>2, <2>1, <3>2
    <3> QED
      BY <3>2, <3>4, <3>5
  <2>2. Parent(m) \in R
    <3>1. m \in First(n) \ {0}
      BY <1>7
    <3> HIDE DEF R
    <3> QED
      BY <1>7, <2>1, <3>1
  <2>3. R \in SUBSET Nat
    BY <1>2
  <2>4. Min(R) \in R /\ \A j \in R : Min(R) =< j
    BY <2>2, <2>3, LeastNatural
  <2>5. Min(R) = 0
    <3> SUFFICES ASSUME Min(R) # 0 PROVE FALSE
      OBVIOUS
    <3> DEFINE k == Min(R)
    <3>1. k \in First(n) \ {0} /\ At(k) =< v /\ f[k] # Nothing
      BY <2>4
    <3> HIDE DEF R, k
    <3>2. Parent(k) \in R /\ Parent(k) < k
      BY <1>3, <2>1, <3>1
    <3>3. Parent(k) \in Nat /\ k \in Nat
      BY <1>2, <1>3, <3>1
    <3> QED
      BY <2>4, <3>2, <3>3 DEF k
  <2> QED
    BY <2>4, <2>5
<1>8. CASE \E i \in First(n) : At(i) = v
  <2>1. PICK m \in First(n) : At(m) = v
    BY <1>8
  <2>2. n # 0 /\ 0 \in First(n)
    BY <1>2, <2>1 DEF First
  <2>3. \A i \in First(n) : At(0) =< At(i)
    BY <1>2, RootIsLeast DEF At
  <2>4. At(0) =< v /\ At(0) \in Int
    BY <1>2, <2>1, <2>2, <2>3
  <2>5. CASE At(0) = v
    <3>1. HeapGet(v) = 0
      BY <1>1, <2>2, <2>5
    <3> QED
      BY <1>2, <1>8, <2>5, <3>1
  <2>6. CASE At(0) # v
    <3>1. HeapGet(v) = f[0] /\ f[0] # Nothing
      BY <1>1, <1>7, <2>1, <2>2, <2>4, <2>6
    <3> QED
      BY <1>6, <1>8, <3>1
  <2> QED
    BY <2>5, <2>6
<1>9. CASE ~ \E i \in First(n) : At(i) = v
  <2>1. n # 0 => At(0) # v
    BY <1>2, <1>9 DEF First
  <2>2. f[0] = Nothing
    BY <1>6, <1>9
  <2>3. HeapGet(v) = Nothing
    BY <1>1, <2>1, <2>2
  <2> QED
    BY <1>9, <2>3
<1> QED
  BY <1>8, <1>9

-----------------------------------------------------------------------------
(* The bag of the elements *)

BagOf(b, n) == [v \in {b[i] : i \in First(n)} |-> Cardinality({i \in First(n) : b[i] = v})]

LEMMA BagIs ==
  ASSUME NEW b, NEW n \in Nat
  PROVE  /\ BagOf(b, n) = [v \in DOMAIN BagOf(b, n) |-> Times(b, n, v)]
         /\ \A v : v \in DOMAIN BagOf(b, n) <=> Times(b, n, v) # 0
         /\ \A v : Times(b, n, v) \in Nat
         /\ DOMAIN BagOf(b, n) = {b[i] : i \in First(n)}
<1>1. DOMAIN BagOf(b, n) = {b[i] : i \in First(n)}
  BY DEF BagOf
<1>2. \A v : Times(b, n, v) \in Nat /\ (Times(b, n, v) = 0 <=> \A i \in First(n) : b[i] # v)
  BY PlacesFinite
<1>3. \A v : Times(b, n, v) = Cardinality({i \in First(n) : b[i] = v})
  BY DEF Times, Places
<1>4. BagOf(b, n) = [v \in {b[i] : i \in First(n)} |-> Times(b, n, v)]
  BY <1>3 DEF BagOf
<1>5. \A v : v \in DOMAIN BagOf(b, n) <=> \E i \in First(n) : b[i] = v
  BY <1>1
<1> QED
  BY <1>1, <1>2, <1>4, <1>5

LEMMA BagSame ==
  ASSUME NEW b, NEW n \in Nat, NEW e, NEW m \in Nat, \A v : Times(e, m, v) = Times(b, n, v)
  PROVE  BagOf(e, m) = BagOf(b, n)
<1> DEFINE B == BagOf(b, n)
           E == BagOf(e, m)
<1>1. B = [v \in DOMAIN B |-> Times(b, n, v)] /\ \A v : v \in DOMAIN B <=> Times(b, n, v) # 0
  BY BagIs
<1>2. E = [v \in DOMAIN E |-> Times(e, m, v)] /\ \A v : v \in DOMAIN E <=> Times(e, m, v) # 0
  BY BagIs
<1> HIDE DEF B, E
<1>3. DOMAIN B = DOMAIN E
  BY <1>1, <1>2
<1> QED
  BY <1>1, <1>2, <1>3 DEF B, E

\* What is added to the elements is added to the bag.
LEMMA BagMore ==
  ASSUME NEW b, NEW n \in Nat, NEW e, NEW m \in Nat, NEW v,
         \A w : Times(e, m, w) = Times(b, n, w) + IF w = v THEN 1 ELSE 0
  PROVE  /\ BagOf(e, m) = Queue!BagAdd(BagOf(b, n), v)
         /\ BagOf(b, n) = Queue!BagRemove(BagOf(e, m), v)
         /\ v \in DOMAIN BagOf(e, m)
<1> DEFINE B == BagOf(b, n)
           E == BagOf(e, m)
<1>1. /\ B = [w \in DOMAIN B |-> Times(b, n, w)] /\ \A w : w \in DOMAIN B <=> Times(b, n, w) # 0
      /\ \A w : Times(b, n, w) \in Nat
  BY BagIs
<1>2. E = [w \in DOMAIN E |-> Times(e, m, w)] /\ \A w : w \in DOMAIN E <=> Times(e, m, w) # 0
  BY BagIs
<1> HIDE DEF B, E
<1>3. v \in DOMAIN E /\ \A w : w # v => (w \in DOMAIN E <=> w \in DOMAIN B)
  BY <1>1, <1>2
<1>4. /\ \A w \in DOMAIN B : B[w] = Times(b, n, w) /\ B[w] \in Nat
      /\ \A w \in DOMAIN E : E[w] = Times(b, n, w) + IF w = v THEN 1 ELSE 0
  BY <1>1, <1>2
<1>5. v \notin DOMAIN B => Times(b, n, v) = 0
  BY <1>1
<1>6. E = [w \in DOMAIN E |-> E[w]] /\ B = [w \in DOMAIN B |-> B[w]]
  BY <1>1, <1>2
<1>7. E = Queue!BagAdd(B, v)
  <2>1. CASE v \in DOMAIN B
    <3>1. DOMAIN E = DOMAIN B
      BY <1>3, <2>1
    <3>2. \A w \in DOMAIN B : E[w] = IF w = v THEN B[w] + 1 ELSE B[w]
      BY <1>4, <3>1
    <3> QED
      BY <1>6, <2>1, <3>1, <3>2 DEF Queue!BagAdd
  <2>2. CASE v \notin DOMAIN B
    <3>1. DOMAIN E = DOMAIN B \cup {v}
      BY <1>3, <2>2
    <3>2. \A w \in DOMAIN E : E[w] = IF w = v THEN 1 ELSE B[w]
      BY <1>3, <1>4, <1>5, <2>2
    <3> QED
      BY <1>6, <2>2, <3>1, <3>2 DEF Queue!BagAdd
  <2> QED
    BY <2>1, <2>2
<1>8. B = Queue!BagRemove(E, v)
  <2>1. CASE v \in DOMAIN B
    <3>1. DOMAIN E = DOMAIN B /\ E[v] # 1
      BY <1>1, <1>3, <1>4, <2>1
    <3>2. \A w \in DOMAIN E : B[w] = IF w = v THEN E[w] - 1 ELSE E[w]
      BY <1>4, <3>1
    <3> QED
      BY <1>3, <1>6, <3>1, <3>2 DEF Queue!BagRemove
  <2>2. CASE v \notin DOMAIN B
    <3>1. DOMAIN B = DOMAIN E \ {v} /\ E[v] = 1
      BY <1>3, <1>4, <1>5, <2>2
    <3>2. \A w \in DOMAIN B : B[w] = E[w]
      BY <1>3, <1>4, <2>2
    <3> QED
      BY <1>3, <1>6, <3>1, <3>2 DEF Queue!BagRemove
  <2> QED
    BY <2>1, <2>2
<1> QED
  BY <1>3, <1>7, <1>8 DEF B, E

\* No element, an empty bag.
LEMMA BagNone ==
  ASSUME NEW b, NEW n \in Nat
  PROVE  n = 0 <=> BagOf(b, n) = Queue!Empty
<1>1. DOMAIN BagOf(b, n) = {b[i] : i \in First(n)}
  BY DEF BagOf
<1>2. n = 0 <=> First(n) = {}
  BY DEF First
<1>3. DOMAIN Queue!Empty = {}
  BY DEF Queue!Empty
<1>4. CASE n = 0
  <2> DEFINE B == BagOf(b, n)
  <2>1. B = [v \in DOMAIN B |-> Times(b, n, v)]
    BY BagIs
  <2>3. DOMAIN B = {}
    BY <1>1, <1>2, <1>4
  <2> HIDE DEF B
  <2>2. B = Queue!Empty
    BY <2>1, <2>3 DEF Queue!Empty
  <2> QED
    BY <1>4, <2>2 DEF B
<1>5. CASE n # 0
  BY <1>1, <1>2, <1>3, <1>5
<1> QED
  BY <1>4, <1>5

-----------------------------------------------------------------------------
(* The operations of the heap *)

\* An array of the heap: sound, with initialised elements, all of them values.
Loaded(a) ==
    /\ Sound(a) /\ InTurn(a, {})
    /\ \A i \in First(a.elnum) : a.data[i] \in Values

LEMMA LoadedIs ==
  ASSUME NEW a, Sound(a)
  PROVE  /\ a \in Arrays /\ a.elnum \in Nat
         /\ a.data \in [DOMAIN a.data -> Int] /\ First(a.elnum) \subseteq DOMAIN a.data
         /\ DOMAIN a.data \subseteq Nat
         /\ Loaded(a) => \A i \in First(a.elnum) : a.data[i] \in Int
<1>1. a \in Arrays /\ a.elnum \in Nat /\ First(a.elnum) \subseteq DOMAIN a.data
  BY DEF Sound, Arrays
<1>2. PICK m \in Nat : a.data \in [First(m) -> Int]
  BY <1>1, BlockElim DEF Arrays
<1>3. DOMAIN a.data = First(m) /\ First(m) \subseteq Nat
  BY <1>2 DEF First
<1> QED
  BY <1>1, <1>2, <1>3

\* Elements that are written stay initialised.
LEMMA Rewritten ==
  ASSUME NEW a, Sound(a), InTurn(a, {}), NEW e \in [DOMAIN a.data -> Int],
         \A i \in DOMAIN a.data \ First(a.elnum) : e[i] = a.data[i],
         \A i \in First(a.elnum) : e[i] \in Values,
         NEW b, b = [a EXCEPT !.data = e]
  PROVE  Loaded(b) /\ b.elnum = a.elnum /\ b.data = e /\ b.set = a.set
<1>1. /\ a \in Arrays /\ a.elnum \in Nat
      /\ a.data \in [DOMAIN a.data -> Int] /\ First(a.elnum) \subseteq DOMAIN a.data
      /\ DOMAIN a.data \subseteq Nat
  BY LoadedIs
<1>2. PICK m \in Nat : a.data \in [First(m) -> Int]
  BY <1>1, BlockElim DEF Arrays
<1>3. DOMAIN a.data = First(m) /\ DOMAIN e = First(m)
  BY <1>2
<1>4. e \in Blocks
  BY <1>2, <1>3, BlockIntro
<1>5. b \in Arrays /\ b.elnum = a.elnum /\ b.data = e /\ b.set = a.set /\ b.datasz = a.datasz
  BY <1>1, <1>4 DEF Arrays
<1>6. Sound(b)
  BY <1>3, <1>5 DEF Sound
<1>7. ASSUME NEW i \in DOMAIN e PROVE Live(e[i]) <=> i < a.elnum
  <2>1. CASE i \in First(a.elnum)
    <3>1. e[i] \in Nat /\ i < a.elnum
      BY <1>1, <2>1, HeapAssumption DEF First
    <3> QED
      BY <3>1 DEF Live, Raw, Dead
  <2>2. CASE i \notin First(a.elnum)
    <3>1. e[i] = a.data[i] /\ i \in DOMAIN a.data
      BY <1>3, <2>2
    <3> QED
      BY <3>1 DEF InTurn
  <2> QED
    BY <2>1, <2>2
<1>8. InTurn(b, {})
  BY <1>5, <1>7 DEF InTurn
<1> QED
  BY <1>5, <1>6, <1>8 DEF Loaded

\* The elements in another order.
LEMMA Reordered ==
  ASSUME NEW a, Loaded(a), NEW e \in [DOMAIN a.data -> Int], Shuffled(a.data, e, a.elnum),
         NEW b, b = [a EXCEPT !.data = e]
  PROVE  Loaded(b) /\ b.elnum = a.elnum /\ b.data = e /\ b.set = a.set
<1>1. Sound(a) /\ InTurn(a, {}) /\ a.elnum \in Nat
  BY LoadedIs DEF Loaded
<1>2. ASSUME NEW i \in First(a.elnum) PROVE e[i] \in Values
  <2>1. Times(e, a.elnum, e[i]) # 0
    BY <1>1, PlacesFinite
  <2>2. Times(a.data, a.elnum, e[i]) # 0
    BY <2>1 DEF Shuffled
  <2>3. PICK j \in First(a.elnum) : a.data[j] = e[i]
    BY <1>1, <2>2, PlacesFinite
  <2> QED
    BY <2>3 DEF Loaded
<1>3. \A i \in DOMAIN a.data \ First(a.elnum) : e[i] = a.data[i]
  BY DEF Shuffled
<1> QED
  BY <1>1, <1>2, <1>3, Rewritten

\* One element is replaced.
LEMMA PutIs ==
  ASSUME NEW a, Loaded(a), NEW i \in First(a.elnum), NEW v \in Values
  PROVE  /\ Loaded(Put(a, i, v)) /\ Put(a, i, v).elnum = a.elnum
         /\ Put(a, i, v).data[i] = v
         /\ \A j \in DOMAIN a.data \ {i} : Put(a, i, v).data[j] = a.data[j]
<1> DEFINE e == [a.data EXCEPT ![i] = v]
<1>1. /\ Sound(a) /\ InTurn(a, {}) /\ a.data \in [DOMAIN a.data -> Int]
      /\ First(a.elnum) \subseteq DOMAIN a.data /\ v \in Int
      /\ \A j \in First(a.elnum) : a.data[j] \in Values
  BY LoadedIs, HeapAssumption DEF Loaded
<1>2. e \in [DOMAIN a.data -> Int] /\ e[i] = v /\ \A j \in DOMAIN a.data \ {i} : e[j] = a.data[j]
  BY <1>1
<1>3. Put(a, i, v) = [a EXCEPT !.data = e]
  BY DEF Put
<1> HIDE DEF e
<1>4. \A j \in First(a.elnum) : e[j] \in Values
  BY <1>1, <1>2
<1>5. \A j \in DOMAIN a.data \ First(a.elnum) : e[j] = a.data[j]
  BY <1>2
<1>6. /\ Loaded(Put(a, i, v)) /\ Put(a, i, v).elnum = a.elnum /\ Put(a, i, v).data = e
  BY <1>1, <1>2, <1>3, <1>4, <1>5, Rewritten
<1> QED
  BY <1>2, <1>6

\* Two elements are exchanged.
LEMMA SwapIs ==
  ASSUME NEW a, Loaded(a), NEW i \in First(a.elnum), NEW j \in First(a.elnum), i # j
  PROVE  /\ Loaded(Swap(a, i, j)) /\ Swap(a, i, j).elnum = a.elnum
         /\ Shuffled(a.data, Swap(a, i, j).data, a.elnum)
         /\ Swap(a, i, j).data[i] = a.data[j] /\ Swap(a, i, j).data[j] = a.data[i]
         /\ \A k \in First(a.elnum) \ {i, j} : Swap(a, i, j).data[k] = a.data[k]
<1> DEFINE e == Exchanged(a.data, i, j)
           D == DOMAIN a.data
<1>1. a.data \in [D -> Int] /\ a.elnum \in Nat /\ First(a.elnum) \subseteq D
  BY LoadedIs DEF Loaded
<1>2. Swap(a, i, j) = [a EXCEPT !.data = e]
  BY DEF Swap
<1>3. /\ e \in [D -> Int] /\ Shuffled(a.data, e, a.elnum) /\ e[i] = a.data[j] /\ e[j] = a.data[i]
      /\ \A k \in D \ {i, j} : e[k] = a.data[k]
  BY <1>1, ExchangeShuffles
<1> HIDE DEF e
<1>4. Loaded(Swap(a, i, j)) /\ Swap(a, i, j).elnum = a.elnum /\ Swap(a, i, j).data = e
  BY <1>2, <1>3, Reordered
<1> QED
  BY <1>1, <1>3, <1>4

\* The loops of siftdown make a heap of an array.
LEMMA SiftedIs ==
  ASSUME NEW a, Loaded(a), NEW i \in Nat, Heaped(a.data, a.elnum, i + 1)
  PROVE  /\ Loaded(Sifted(a, i)) /\ Sifted(a, i).elnum = a.elnum
         /\ Heaped(Sifted(a, i).data, a.elnum, 0)
         /\ \A v : Times(Sifted(a, i).data, a.elnum, v) = Times(a.data, a.elnum, v)
<1> DEFINE e == SiftFrom(a.data, a.elnum, i)
           D == DOMAIN a.data
<1>1. a.data \in [D -> Int] /\ a.elnum \in Nat /\ First(a.elnum) \subseteq D
  BY LoadedIs DEF Loaded
<1>2. Sifted(a, i) = [a EXCEPT !.data = e]
  BY DEF Sifted
<1>3. Heapified(a.data, e, D, a.elnum, 0)
  BY <1>1, SiftFromHeaps
<1> HIDE DEF e
<1>4. e \in [D -> Int] /\ Shuffled(a.data, e, a.elnum) /\ Heaped(e, a.elnum, 0)
  BY <1>3 DEF Heapified
<1>5. Loaded(Sifted(a, i)) /\ Sifted(a, i).elnum = a.elnum /\ Sifted(a, i).data = e
  BY <1>2, <1>4, Reordered
<1> QED
  BY <1>4, <1>5 DEF Shuffled

\* The last element is dropped.
LEMMA DropIs ==
  ASSUME NEW a, Loaded(a), a.elnum # 0
  PROVE  /\ Loaded(DecrFast(a)) /\ DecrFast(a).elnum = a.elnum - 1
         /\ \A i \in First(a.elnum - 1) : DecrFast(a).data[i] = a.data[i]
<1> DEFINE top == a.elnum - 1
           f == FiniSlots(a, {top})
           e == [f EXCEPT !.elnum = top]
<1>1. /\ Sound(a) /\ InTurn(a, {}) /\ a \in Arrays /\ a.elnum \in Nat /\ top \in Nat
      /\ First(a.elnum) \subseteq DOMAIN a.data /\ DOMAIN a.data \subseteq Nat
  BY LoadedIs DEF Loaded
<1>2. Called(f, a, {top}, Dead) /\ DecrFast(a) = e
  BY <1>1, Finalised DEF DecrFast
<1> HIDE DEF f
<1>3. e \in Arrays /\ e.elnum = top /\ e.data = f.data /\ e.datasz = f.datasz /\ e.set = f.set
  BY <1>1, <1>2 DEF Arrays, Called
<1> HIDE DEF e
<1>4. First(top) \subseteq First(a.elnum) /\ top \notin First(top)
  BY <1>1 DEF First
<1>5. Sound(e)
  <2>1. First(top) \subseteq DOMAIN e.data
    BY <1>1, <1>2, <1>3, <1>4 DEF Called
  <2>2. e.set => DOMAIN e.data = First(e.datasz \div Elsz)
    BY <1>1, <1>2, <1>3 DEF Sound, Called
  <2>3. e.set
    BY <1>1, <1>2, <1>3 DEF Sound, Called
  <2> QED
    BY <1>3, <2>1, <2>2, <2>3 DEF Sound
<1>6. ASSUME NEW j \in DOMAIN e.data PROVE Live(e.data[j]) <=> j < top
  <2>1. j \in DOMAIN a.data /\ e.data[j] = IF j = top THEN Dead ELSE a.data[j]
    BY <1>2, <1>3 DEF Called
  <2>2. ~ Live(Dead) /\ j \in Nat
    BY <1>1, <2>1 DEF Live
  <2>3. Live(a.data[j]) <=> j < a.elnum
    BY <1>1, <2>1 DEF InTurn
  <2> QED
    BY <1>1, <2>1, <2>2, <2>3
<1>7. InTurn(e, {})
  BY <1>3, <1>6 DEF InTurn
<1>8. \A i \in First(top) : e.data[i] = a.data[i] /\ e.data[i] \in Values
  BY <1>1, <1>2, <1>3, <1>4 DEF Called, Loaded
<1> QED
  BY <1>2, <1>3, <1>5, <1>7, <1>8 DEF Loaded, top

\* array_incr, and the new element is written.
LEMMA GrownBy ==
  ASSUME NEW a, Loaded(a), a.set, NEW v \in Values, NEW p, p = Put(Incr(a), a.elnum, v)
  PROVE  /\ Loaded(p) /\ p.elnum = a.elnum + 1 /\ p.data[a.elnum] = v
         /\ \A i \in First(a.elnum) : p.data[i] = a.data[i]
<1> DEFINE n == a.elnum
           m == n + 1
           s == Ensure(a, m, TRUE)
           l == EnsureLen(a, m, TRUE)
           e == [l.data EXCEPT ![n] = v]
<1>1. /\ Sound(a) /\ InTurn(a, {}) /\ n \in Nat /\ m \in Nat /\ v \in Int
      /\ First(n) \subseteq DOMAIN a.data /\ \A i \in First(n) : a.data[i] \in Values
  BY LoadedIs, HeapAssumption DEF Loaded
<1>2. Incr(a) = l /\ p = [l EXCEPT !.data = e] /\ l = [s EXCEPT !.elnum = m]
  BY DEF Incr, Put, EnsureLen
<1>3. Sound(l) /\ InTurn(l, {})
  BY <1>1, LengthEnsured
<1>4. Adjusted(s, a, m, TRUE)
  BY <1>1, Ensured
<1> HIDE DEF s
<1>5. l.elnum = m /\ l.data = s.data
  BY <1>2, <1>4 DEF Adjusted, Arrays
<1> HIDE DEF l
<1>6. l.data \in [DOMAIN l.data -> Int] /\ First(m) \subseteq DOMAIN l.data
  BY <1>3, <1>5, LoadedIs
<1>7. ASSUME NEW i \in First(n) PROVE l.data[i] = a.data[i]
  <2>1. i \in First(m) /\ i < n
    BY <1>1 DEF First
  <2>2. l.data[i] = Left(a, m, TRUE, i)
    BY <1>4, <1>5, <1>6, <2>1 DEF Adjusted
  <2> QED
    BY <1>1, <2>1, <2>2 DEF Left, Kept
<1>8. n \in First(m) /\ First(m) \ {n} = First(n)
  BY <1>1 DEF First
<1>9. e \in [DOMAIN l.data -> Int] /\ e[n] = v /\ \A i \in DOMAIN l.data \ {n} : e[i] = l.data[i]
  BY <1>1, <1>6, <1>8
<1> HIDE DEF e, m, n
<1>10. \A i \in First(m) : e[i] \in Values
  BY <1>1, <1>6, <1>7, <1>8, <1>9
<1>11. \A i \in DOMAIN l.data \ First(m) : e[i] = l.data[i]
  BY <1>8, <1>9
<1>12. Loaded(p) /\ p.elnum = m /\ p.data = e
  <2>1. p = [l EXCEPT !.data = e] /\ First(l.elnum) = First(m) /\ l.elnum = m
    BY <1>2, <1>5
  <2>2. \A i \in First(l.elnum) : e[i] \in Values
    BY <1>10, <2>1
  <2>3. \A i \in DOMAIN l.data \ First(l.elnum) : e[i] = l.data[i]
    BY <1>11, <2>1
  <2>4. e \in [DOMAIN l.data -> Int]
    BY <1>9
  <2> QED
    BY ONLY <1>3, <2>1, <2>2, <2>3, <2>4, Rewritten
<1>13. \A i \in First(n) : p.data[i] = a.data[i]
  BY <1>6, <1>7, <1>8, <1>9, <1>12
<1> QED
  BY <1>9, <1>12, <1>13 DEF m, n

\* No node behind the parent of the last has a child.
LEMMA NoKidsBehind ==
  ASSUME NEW b, NEW n \in Nat, NEW i \in Nat, n =< 2 * i + 3
  PROVE  Heaped(b, n, i + 1)
<1> SUFFICES ASSUME NEW c \in First(n) \ {0} PROVE ~ (Parent(c) >= i + 1)
  BY DEF Heaped
<1>1. c \in Nat \ {0} /\ c < n
  BY DEF First
<1>2. Parent(c) \in Nat /\ (c = 2 * Parent(c) + 1 \/ c = 2 * Parent(c) + 2)
  BY <1>1, ParentIs
<1> QED
  BY <1>1, <1>2

LEMMA OneIsHeaped ==
  ASSUME NEW b, NEW n \in Nat, n =< 1
  PROVE  Heaped(b, n, 0)
BY DEF Heaped, First

\* What the operations leave in the array: a heap, in which the elements are those
\* there were, and v.
OneMore(r, v) ==
    /\ Loaded(r) /\ Heaped(r.data, r.elnum, 0)
    /\ \A w : Times(r.data, r.elnum, w) = Times(ar.data, ar.elnum, w) + IF w = v THEN 1 ELSE 0

OneLess(r, v) ==
    /\ Loaded(r) /\ Heaped(r.data, r.elnum, 0)
    /\ \A w : Times(ar.data, ar.elnum, w) = Times(r.data, r.elnum, w) + IF w = v THEN 1 ELSE 0

LEMMA PushedIs ==
  ASSUME Loaded(ar), ar.set, NEW v \in Values
  PROVE  OneMore(Pushed(v), v)
<1> DEFINE a == Put(Incr(ar), ar.elnum, v)
           n == ar.elnum
<1>1. n \in Nat
  BY LoadedIs DEF Loaded
<1>2. Loaded(a) /\ a.elnum = n + 1 /\ a.data[n] = v /\ \A i \in First(n) : a.data[i] = ar.data[i]
  BY GrownBy
<1>3. Pushed(v) = IF a.elnum > 1 THEN Sifted(a, Parent(a.elnum - 1)) ELSE a
  BY DEF Pushed
<1> HIDE DEF a
<1>4. \A w : Times(a.data, n + 1, w) = Times(ar.data, n, w) + IF w = v THEN 1 ELSE 0
  <2>1. \A w : Times(a.data, n + 1, w) = Times(ar.data, n, w) + IF a.data[n] = w THEN 1 ELSE 0
    <3>1. n \in Nat /\ \A i \in First(n) : a.data[i] = ar.data[i]
      BY <1>1, <1>2
    <3> HIDE DEF n
    <3> QED
      BY ONLY <3>1, TimesPut
  <2> QED
    BY <1>2, <2>1
<1>5. CASE n = 0
  <2>1. Pushed(v) = a
    BY <1>2, <1>3, <1>5
  <2>2. Heaped(a.data, n + 1, 0)
    BY <1>5, OneIsHeaped
  <2> QED
    BY <1>2, <1>4, <2>1, <2>2 DEF OneMore
<1>6. CASE n # 0
  <2> DEFINE p == Parent(n)
  <2>1. Pushed(v) = Sifted(a, p)
    BY <1>1, <1>2, <1>3, <1>6
  <2>2. p \in Nat /\ n + 1 =< 2 * p + 3
    BY <1>1, <1>6, ParentIs
  <2> HIDE DEF p
  <2>3. Heaped(a.data, a.elnum, p + 1)
    BY <1>1, <1>2, <2>2, NoKidsBehind
  <2>4. /\ Loaded(Sifted(a, p)) /\ Sifted(a, p).elnum = a.elnum
        /\ Heaped(Sifted(a, p).data, a.elnum, 0)
        /\ \A w : Times(Sifted(a, p).data, a.elnum, w) = Times(a.data, a.elnum, w)
    BY <1>2, <2>2, <2>3, SiftedIs
  <2> QED
    BY <1>2, <1>4, <2>1, <2>4 DEF OneMore
<1> QED
  BY <1>5, <1>6

LEMMA PoppedIs ==
  ASSUME Loaded(ar), ar.elnum # 0, Heaped(ar.data, ar.elnum, 0)
  PROVE  OneLess(Popped, At(0))
<1> DEFINE n == ar.elnum
           m == n - 1
           s == Swap(ar, 0, m)
           a == DecrFast(s)
           e == Sift(a.data, a.elnum, 0)
           r == [a EXCEPT !.data = e]
<1>1. n \in Nat \ {0} /\ m \in Nat /\ n = m + 1 /\ \A i \in First(n) : ar.data[i] \in Int
  BY LoadedIs DEF Loaded
<1>2. Popped = IF m = 0 THEN DecrFast(ar) ELSE r
  BY DEF Popped
<1>3. CASE m = 0
  <2> DEFINE z == DecrFast(ar)
  <2>1. Loaded(z) /\ z.elnum = m /\ \A i \in First(m) : z.data[i] = ar.data[i]
    BY DropIs
  <2> HIDE DEF z
  <2>2. \A w : Times(ar.data, m + 1, w) = Times(z.data, m, w) + IF ar.data[m] = w THEN 1 ELSE 0
    <3>1. m \in Nat /\ \A i \in First(m) : ar.data[i] = z.data[i]
      BY <1>1, <2>1
    <3> HIDE DEF m
    <3> QED
      BY ONLY <3>1, TimesPut
  <2>3. Heaped(z.data, m, 0)
    BY <1>3, OneIsHeaped
  <2>4. Popped = z /\ ar.data[m] = At(0)
    BY <1>2, <1>3 DEF z, At
  <2> HIDE DEF m
  <2> QED
    BY <1>1, <2>1, <2>2, <2>3, <2>4 DEF OneLess
<1>4. CASE m # 0
  <2>1. 0 \in First(n) /\ m \in First(n)
    BY <1>1 DEF First
  <2>2. /\ Loaded(s) /\ s.elnum = n /\ Shuffled(ar.data, s.data, n)
        /\ s.data[m] = At(0) /\ \A k \in First(n) \ {0, m} : s.data[k] = ar.data[k]
    BY <1>4, <2>1, SwapIs DEF At
  <2> HIDE DEF s
  <2>3. Loaded(a) /\ a.elnum = m /\ \A i \in First(m) : a.data[i] = s.data[i]
    BY <1>1, <2>2, DropIs
  <2> HIDE DEF a
  <2>4. \A w : Times(s.data, m + 1, w) = Times(a.data, m, w) + IF s.data[m] = w THEN 1 ELSE 0
    <3>1. m \in Nat /\ \A i \in First(m) : s.data[i] = a.data[i]
      BY <1>1, <2>3
    <3> HIDE DEF m
    <3> QED
      BY ONLY <3>1, TimesPut
  <2>5. \A i \in First(m) \ {0} : a.data[i] = ar.data[i] /\ i \in First(n)
    BY <1>1, <2>2, <2>3 DEF First
  <2>6. Sinking(a.data, m, 0, 0)
    <3>1. ASSUME NEW c \in First(m) \ {0}, Parent(c) # 0
          PROVE  a.data[Parent(c)] =< a.data[c]
      <4>1. c \in Nat \ {0} /\ c < m
        BY <1>1 DEF First
      <4>2. Parent(c) \in Nat /\ Parent(c) < c
        BY <4>1, ParentIs
      <4>3. Parent(c) \in First(m) \ {0}
        BY <1>1, <3>1, <4>1, <4>2 DEF First
      <4>4. ar.data[Parent(c)] =< ar.data[c]
        BY <2>5, <4>2 DEF Heaped
      <4> QED
        BY <2>5, <4>3, <4>4
    <3> QED
      BY <3>1 DEF Sinking
  <2> DEFINE D == DOMAIN a.data
  <2>7. a.data \in [D -> Int] /\ First(m) \subseteq D
    BY <2>3, LoadedIs DEF Loaded
  <2>8. Heapified(a.data, e, D, m, 0)
    BY <1>1, <2>3, <2>6, <2>7, SiftHeaps
  <2> HIDE DEF e
  <2>9. e \in [D -> Int] /\ Shuffled(a.data, e, a.elnum) /\ Heaped(e, m, 0)
    BY <2>3, <2>8 DEF Heapified
  <2>10. Loaded(r) /\ r.elnum = m /\ r.data = e
    BY <2>3, <2>9, Reordered
  <2> HIDE DEF r
  <2>11. Popped = r
    BY <1>2, <1>4
  <2> HIDE DEF m, D
  <2>12. \A w : Times(e, m, w) = Times(a.data, m, w)
    BY <2>3, <2>9 DEF Shuffled
  <2>13. \A w : Times(ar.data, n, w) = Times(s.data, m + 1, w)
    BY <1>1, <2>2 DEF Shuffled
  <2> QED
    BY <2>2, <2>4, <2>9, <2>10, <2>11, <2>12, <2>13 DEF OneLess
<1> QED
  BY <1>3, <1>4

\* The same count with one more element of the same block.
LEMMA TimesNext ==
  ASSUME NEW b, NEW n \in Nat
  PROVE  \A v : Times(b, n + 1, v) = Times(b, n, v) + IF b[n] = v THEN 1 ELSE 0
<1>1. \A i \in First(n) : b[i] = b[i]
  OBVIOUS
<1> QED
  BY <1>1, TimesPut

\* The last element gives way to the new one: the bag of the rest, k elements of
\* the block c, is what a pop leaves and what the new value is pushed on.
LEMMA ReplacedIs ==
  ASSUME Loaded(ar), ar.elnum # 0, NEW v \in Values
  PROVE  \E c : \E k \in Nat :
           /\ Loaded(Replaced(v)) /\ Heaped(Replaced(v).data, Replaced(v).elnum, 0)
           /\ \A w : Times(ar.data, ar.elnum, w) = Times(c, k, w) + IF w = At(0) THEN 1 ELSE 0
           /\ \A w : Times(Replaced(v).data, Replaced(v).elnum, w) =
                     Times(c, k, w) + IF w = v THEN 1 ELSE 0
<1> DEFINE n == ar.elnum
           m == n - 1
           s == IF m = 0 THEN ar ELSE Swap(ar, 0, m)
           p == Put(s, m, v)
           r == IF m = 0 THEN p ELSE Sifted(p, Parent(m))
<1>1. n \in Nat \ {0} /\ m \in Nat /\ n = m + 1 /\ 0 \in First(n) /\ m \in First(n)
  BY LoadedIs DEF Loaded, First
<1>2. Replaced(v) = r
  BY DEF Replaced
<1>3. /\ Loaded(s) /\ s.elnum = n /\ s.data[m] = At(0)
      /\ \A w : Times(s.data, n, w) = Times(ar.data, n, w)
  <2>1. CASE m = 0
    BY <2>1 DEF At
  <2>2. CASE m # 0
    <3>1. s = Swap(ar, 0, m)
      BY <2>2
    <3>2. /\ Loaded(Swap(ar, 0, m)) /\ Swap(ar, 0, m).elnum = n
          /\ Shuffled(ar.data, Swap(ar, 0, m).data, n) /\ Swap(ar, 0, m).data[m] = ar.data[0]
      BY <1>1, <2>2, SwapIs
    <3> HIDE DEF s, m
    <3> QED
      BY <3>1, <3>2 DEF At, Shuffled
  <2> QED
    BY <2>1, <2>2
<1> HIDE DEF s
<1>4. /\ Loaded(p) /\ p.elnum = n /\ p.data[m] = v
      /\ \A j \in DOMAIN s.data \ {m} : p.data[j] = s.data[j]
  BY <1>1, <1>3, PutIs
<1> HIDE DEF p
<1>5. First(m) \subseteq DOMAIN s.data /\ m \notin First(m)
  <2>1. First(n) \subseteq DOMAIN s.data
    BY <1>3, LoadedIs DEF Loaded
  <2> QED
    BY <1>1, <2>1 DEF First
<1>6. \A i \in First(m) : p.data[i] = s.data[i]
  BY <1>4, <1>5
<1>7. \A w : Times(s.data, m + 1, w) = Times(s.data, m, w) + IF s.data[m] = w THEN 1 ELSE 0
  <2>1. m \in Nat
    BY <1>1
  <2> HIDE DEF m
  <2> QED
    BY ONLY <2>1, TimesNext
<1>8. \A w : Times(p.data, m + 1, w) = Times(s.data, m, w) + IF p.data[m] = w THEN 1 ELSE 0
  <2>1. m \in Nat
    BY <1>1
  <2> HIDE DEF m
  <2> QED
    BY ONLY <2>1, <1>6, TimesPut
<1>9. /\ Loaded(r) /\ Heaped(r.data, r.elnum, 0) /\ r.elnum = n
      /\ \A w : Times(r.data, n, w) = Times(p.data, n, w)
  <2>1. CASE m = 0
    <3>1. r = p
      BY <2>1
    <3>2. Heaped(p.data, n, 0)
      BY <1>1, <2>1, OneIsHeaped
    <3> HIDE DEF r
    <3> QED
      BY <1>4, <3>1, <3>2
  <2>2. CASE m # 0
    <3> DEFINE q == Parent(m)
    <3>1. r = Sifted(p, q)
      BY <2>2
    <3>2. q \in Nat /\ n =< 2 * q + 3
      <4>1. m \in Nat \ {0} /\ n = m + 1
        BY <1>1, <2>2
      <4> HIDE DEF m, n
      <4>2. Parent(m) \in Nat /\ (m = 2 * Parent(m) + 1 \/ m = 2 * Parent(m) + 2)
        BY <4>1, ParentIs
      <4> QED
        BY <4>1, <4>2
    <3> HIDE DEF q, r
    <3>3. Heaped(p.data, p.elnum, q + 1)
      BY <1>1, <1>4, <3>2, NoKidsBehind
    <3>4. Loaded(p) /\ p.elnum = n
      BY <1>4
    <3>5. /\ Loaded(Sifted(p, q)) /\ Sifted(p, q).elnum = p.elnum
          /\ Heaped(Sifted(p, q).data, p.elnum, 0)
          /\ \A w : Times(Sifted(p, q).data, p.elnum, w) = Times(p.data, p.elnum, w)
      BY ONLY <3>2, <3>3, <3>4, SiftedIs
    <3> HIDE DEF n
    <3> QED
      BY ONLY <3>1, <3>4, <3>5
  <2> QED
    BY <2>1, <2>2
<1> HIDE DEF r
<1>10. \A w : Times(ar.data, n, w) = Times(s.data, m, w) + IF w = At(0) THEN 1 ELSE 0
  BY <1>1, <1>3, <1>7
<1>11. \A w : Times(r.data, n, w) = Times(s.data, m, w) + IF w = v THEN 1 ELSE 0
  BY <1>1, <1>4, <1>8, <1>9
<1> DEFINE c == s.data
<1>12. m \in Nat
  BY <1>1
<1> HIDE DEF m, c
<1> QED
  <2>1. /\ Loaded(r) /\ Heaped(r.data, r.elnum, 0)
        /\ \A w : Times(ar.data, n, w) = Times(c, m, w) + IF w = At(0) THEN 1 ELSE 0
        /\ \A w : Times(r.data, r.elnum, w) = Times(c, m, w) + IF w = v THEN 1 ELSE 0
    BY ONLY <1>9, <1>10, <1>11 DEF c
  <2>2. Replaced(v) = r
    BY <1>2
  <2> QED
    BY ONLY <1>12, <2>1, <2>2

LEMMA SortedIs ==
  ASSUME Loaded(ar), NEW up \in BOOLEAN, HeapSort(up)
  PROVE  /\ Loaded(ar') /\ (up => Heaped(ar'.data, ar'.elnum, 0))
         /\ \A w : Times(ar'.data, ar'.elnum, w) = Times(ar.data, ar.elnum, w)
<1> DEFINE n == ar.elnum
           D == DOMAIN ar.data
<1>1. PICK b \in [First(n) -> {At(i) : i \in First(n)}] :
           /\ \A i, j \in First(n) : i < j /\ up => b[i] =< b[j]
           /\ \A v \in Values : Times(b, n, v) = Times(ar.data, n, v)
           /\ ar' = [ar EXCEPT !.data = [i \in D |-> IF i < n THEN b[i] ELSE ar.data[i]]]
  BY DEF HeapSort, Times, Places, At
<1>2. /\ n \in Nat /\ ar.data \in [D -> Int] /\ First(n) \subseteq D /\ D \subseteq Nat
      /\ \A i \in First(n) : At(i) \in Values
  BY LoadedIs DEF Loaded, At
<1> DEFINE e == [i \in D |-> IF i < n THEN b[i] ELSE ar.data[i]]
<1>3. \A i \in First(n) : b[i] \in Values /\ b[i] \in Int
  BY <1>1, <1>2, HeapAssumption
<1>4. \A i \in D : e[i] = IF i \in First(n) THEN b[i] ELSE ar.data[i]
  BY <1>2 DEF First
<1>5. e \in [D -> Int]
  BY <1>2, <1>3 DEF First
<1>6. ar' = [ar EXCEPT !.data = e]
  BY <1>1
<1> HIDE DEF e
<1>7. \A w : Times(e, n, w) = Times(b, n, w)
  <2>1. \A w : Places(e, n, w) = Places(b, n, w)
    BY <1>2, <1>4 DEF Places
  <2> QED
    BY <2>1 DEF Times
<1>8. ASSUME NEW w, w \notin Values PROVE Times(b, n, w) = Times(ar.data, n, w)
  <2>1. (\A i \in First(n) : b[i] # w) /\ \A i \in First(n) : ar.data[i] # w
    BY <1>2, <1>3, <1>8 DEF At
  <2>2. Times(b, n, w) = 0 /\ Times(ar.data, n, w) = 0
    BY <1>2, <2>1, PlacesFinite
  <2> QED
    BY <2>2
<1>9. \A w : Times(e, n, w) = Times(ar.data, n, w)
  BY <1>1, <1>7, <1>8
<1>10. Shuffled(ar.data, e, n)
  BY <1>2, <1>4, <1>5, <1>9 DEF Shuffled
<1>11. Loaded(ar') /\ ar'.elnum = n /\ ar'.data = e
  BY <1>5, <1>6, <1>10, Reordered
<1>12. ASSUME up PROVE Heaped(e, n, 0)
  <2> SUFFICES ASSUME NEW c \in First(n) \ {0} PROVE e[Parent(c)] =< e[c]
    BY DEF Heaped
  <2>1. c \in Nat \ {0} /\ c < n
    BY <1>2 DEF First
  <2>2. Parent(c) \in Nat /\ Parent(c) < c
    BY <2>1, ParentIs
  <2>3. Parent(c) \in First(n)
    BY <1>2, <2>1, <2>2 DEF First
  <2>4. b[Parent(c)] =< b[c]
    BY <1>1, <1>12, <2>2, <2>3
  <2> QED
    BY <1>2, <1>4, <2>3, <2>4
<1> QED
  BY <1>9, <1>11, <1>12

LEMMA IfiedIs ==
  ASSUME Loaded(ar), HeapIfy
  PROVE  /\ Loaded(ar') /\ Heaped(ar'.data, ar'.elnum, 0)
         /\ \A w : Times(ar'.data, ar'.elnum, w) = Times(ar.data, ar.elnum, w)
<1> DEFINE h == ar.elnum \div 2
<1>1. ar.elnum \in Nat /\ h \in Nat /\ (ar.elnum = 2 * h \/ ar.elnum = 2 * h + 1)
  BY LoadedIs DEF Loaded
<1>2. ar' = IF h = 0 THEN ar ELSE Sifted(ar, h - 1)
  BY DEF HeapIfy, HEAP_D
<1> HIDE DEF h
<1>3. CASE h = 0
  <2>1. ar' = ar /\ ar.elnum =< 1
    BY <1>1, <1>2, <1>3
  <2> QED
    BY <1>1, <2>1, OneIsHeaped
<1>4. CASE h # 0
  <2> DEFINE i == h - 1
  <2>1. i \in Nat /\ ar.elnum =< 2 * i + 3 /\ ar' = Sifted(ar, i)
    BY <1>1, <1>2, <1>4
  <2> HIDE DEF i
  <2>2. Heaped(ar.data, ar.elnum, i + 1)
    BY <1>1, <2>1, NoKidsBehind
  <2>3. /\ Loaded(Sifted(ar, i)) /\ Sifted(ar, i).elnum = ar.elnum
        /\ Heaped(Sifted(ar, i).data, ar.elnum, 0)
        /\ \A v : Times(Sifted(ar, i).data, ar.elnum, v) = Times(ar.data, ar.elnum, v)
    BY <2>1, <2>2, SiftedIs
  <2> QED
    BY <2>1, <2>3
<1> QED
  BY <1>3, <1>4

\* An array without elements.
Hollow == Loaded(ar) /\ ar.elnum = 0 /\ suspect = {}

LEMMA HollowIs ==
  ASSUME NEW a, Sound(a), InTurn(a, {}), a.elnum = 0
  PROVE  Loaded(a) /\ Heaped(a.data, a.elnum, 0)
BY OneIsHeaped DEF Loaded, First

LEMMA HeapInitIs ==
  ASSUME NEW n \in Nat, HeapInit(n)
  PROVE  Hollow'
<1> DEFINE f == Fresh(0, 0)
           e == EnsureDirty(f, n, FALSE)
<1>1. ar' = e /\ suspect' = {}
  BY DEF HeapInit
<1>2. Sound(f) /\ f.set /\ InTurn(f, 0 .. 0 - 1)
  BY FreshArray
<1>3. f.elnum = 0 /\ DOMAIN f.data = {}
  <2> DEFINE null == Null
             sz == SetDatasz(0, Elsz * 0)
             g == [elnum |-> 0, datasz |-> sz, data |-> Realloc(Null, sz), set |-> TRUE]
  <2>1. f = [g EXCEPT !.datasz = 0, !.data = null]
    BY DEF Fresh
  <2>2. DOMAIN null = {}
    BY NullBlock
  <2> HIDE DEF null, sz, f
  <2>3. f.data = null /\ f.elnum = 0
    BY <2>1
  <2> QED
    BY <2>2, <2>3
<1> HIDE DEF f
<1>4. Dirty(e, f, n)
  BY <1>2, EnsuredDirty
<1> HIDE DEF e
<1>5. e.elnum = 0 /\ e \in Arrays /\ e.set /\ DOMAIN e.data = First(e.datasz \div Elsz)
  BY <1>2, <1>3, <1>4 DEF Dirty
<1>6. \A i \in DOMAIN e.data : e.data[i] = Raw
  BY <1>3, <1>4 DEF Dirty, Kept
<1>7. First(0) = {}
  BY DEF First
<1>8. Sound(e)
  BY <1>5, <1>7 DEF Sound
<1>9. \A i \in DOMAIN e.data : i \in Nat
  BY <1>5, SlotNumbers
<1>10. InTurn(e, {})
  BY <1>5, <1>6, <1>9 DEF InTurn, Live
<1> QED
  BY <1>1, <1>5, <1>8, <1>10, HollowIs DEF Hollow

\* array_clear and array_fini leave no element.
LEMMA HeapClearIs ==
  ASSUME Loaded(ar), suspect = {}, ArrayClear(ar.elnum) \/ ArrayFini
  PROVE  Hollow'
<1>1. ArrayInv /\ ar.elnum \in Nat /\ ar \in Arrays
  BY LoadedIs DEF Loaded, ArrayInv
<1>2. CASE ArrayClear(ar.elnum)
  <2> DEFINE f == FiniSlots(ar, First(ar.elnum))
             e == [f EXCEPT !.elnum = 0]
  <2>1. ArrayInv'
    BY <1>1, <1>2, ClearStep
  <2>2. Become(e, {})
    BY <1>2 DEF ArrayClear
  <2>3. f \in Arrays
    BY <1>1, Finalised DEF Called
  <2> HIDE DEF f
  <2>4. ar'.elnum = 0 /\ suspect' = {}
    BY <2>2, <2>3 DEF Become, Arrays
  <2> QED
    BY <2>1, <2>4, HollowIs DEF Hollow, ArrayInv
<1>3. CASE ArrayFini
  <2> DEFINE f == FiniSlots(ar, First(ar.elnum))
             null == Null
             e == [f EXCEPT !.data = null, !.elnum = 0, !.set = FALSE]
  <2>1. ArrayInv'
    BY <1>1, <1>3, FiniStep
  <2>2. Become(e, {})
    BY <1>3 DEF ArrayFini, FiniArray
  <2>3. f \in Arrays
    BY <1>1, Finalised DEF Called
  <2> HIDE DEF f, null
  <2>4. ar'.elnum = 0 /\ suspect' = {}
    BY <2>2, <2>3 DEF Become, Arrays
  <2> QED
    BY <2>1, <2>4, HollowIs DEF Hollow, ArrayInv
<1> QED
  BY <1>2, <1>3

-----------------------------------------------------------------------------
(* The heap is a priority queue *)

\* The inductive invariant: the elements are initialised, and after the operations
\* that promise so they are in heap order.
HeapInv ==
    /\ Loaded(ar) /\ suspect = {}
    /\ ordered => Heaped(ar.data, ar.elnum, 0)

LEMMA BagIsBagOf == Bag = BagOf(ar.data, ar.elnum) /\ Bag' = BagOf(ar'.data, ar'.elnum)
BY DEF Bag, BagOf, At

LEMMA HeapStarts == HeapStart => HeapInv /\ Queue!QInit
<1> SUFFICES ASSUME HeapStart PROVE HeapInv /\ Queue!QInit
  OBVIOUS
<1>1. ArrayStart /\ suspect = {} /\ out = Nothing
  BY DEF HeapStart, ArrayStart
<1>2. Sound(ar) /\ InTurn(ar, {})
  BY <1>1, StartsSound DEF ArrayInv
<1>3. ar.elnum = 0
  BY <1>1 DEF ArrayStart, Empty
<1>4. Loaded(ar) /\ Heaped(ar.data, ar.elnum, 0)
  BY <1>2, <1>3, HollowIs
<1>5. Bag = Queue!Empty
  BY <1>3, BagIsBagOf, BagNone
<1> QED
  BY <1>1, <1>4, <1>5 DEF HeapInv, Queue!QInit

\* What HeapInv says of the elements.
LEMMA HeapElements ==
  ASSUME HeapInv
  PROVE  /\ ar.elnum \in Nat /\ \A i \in First(ar.elnum) : At(i) \in Values /\ At(i) \in Int
         /\ ar.elnum # 0 <=> Bag # Queue!Empty
         /\ ordered /\ ar.elnum # 0 => At(0) \in Values /\ Queue!Least(At(0))
<1>1. /\ ar.elnum \in Nat
      /\ \A i \in First(ar.elnum) : At(i) \in Values /\ At(i) \in Int /\ ar.data[i] = At(i)
  BY LoadedIs DEF HeapInv, Loaded, At
<1>2. ar.elnum # 0 <=> Bag # Queue!Empty
  BY <1>1, BagIsBagOf, BagNone
<1>3. ASSUME ordered, ar.elnum # 0 PROVE At(0) \in Values /\ Queue!Least(At(0))
  <2>1. \A i \in First(ar.elnum) : At(0) =< At(i)
    BY <1>1, <1>3, RootIsLeast DEF HeapInv, At
  <2>2. 0 \in First(ar.elnum)
    BY <1>1, <1>3 DEF First
  <2>3. DOMAIN Bag = {At(i) : i \in First(ar.elnum)}
    BY DEF Bag
  <2> HIDE DEF Bag
  <2> QED
    BY <1>1, <2>1, <2>2, <2>3 DEF Queue!Least
<1> QED
  BY <1>1, <1>2, <1>3

LEMMA PushStep ==
  ASSUME HeapInv, ar.set, NEW v \in Values, Become(Pushed(v), {}), out' = Nothing
  PROVE  /\ Loaded(ar') /\ suspect' = {} /\ Heaped(ar'.data, ar'.elnum, 0)
         /\ Queue!QPush(v)
<1>1. ar' = Pushed(v) /\ suspect' = {}
  BY DEF Become, HeapInv
<1>2. OneMore(ar', v)
  BY <1>1, PushedIs DEF HeapInv
<1>3. ar.elnum \in Nat /\ ar'.elnum \in Nat
  BY <1>2, LoadedIs DEF HeapInv, Loaded, OneMore
<1>4. BagOf(ar'.data, ar'.elnum) = Queue!BagAdd(BagOf(ar.data, ar.elnum), v)
  <2>1. \A w : Times(ar'.data, ar'.elnum, w) =
               Times(ar.data, ar.elnum, w) + IF w = v THEN 1 ELSE 0
    BY <1>2 DEF OneMore
  <2> QED
    BY <1>3, <2>1, BagMore
<1>5. Bag' = Queue!BagAdd(Bag, v)
  BY <1>4, BagIsBagOf
<1> QED
  BY <1>1, <1>2, <1>5 DEF OneMore, Queue!QPush

LEMMA PopStep ==
  ASSUME HeapInv, HeapPop
  PROVE  HeapInv' /\ Queue!QPop
<1>1. CASE ar.elnum = 0
  <2>1. out' = Nothing /\ UNCHANGED <<ar, suspect, ordered>>
    BY <1>1 DEF HeapPop, avars
  <2>2. Bag = Queue!Empty /\ Bag' = Bag
    BY <1>1, <2>1, HeapElements, BagIsBagOf
  <2>3. HeapInv'
    BY <2>1 DEF HeapInv
  <2> QED
    BY <2>1, <2>2, <2>3 DEF Queue!QPop
<1>2. CASE ar.elnum # 0
  <2>1. /\ out' = At(0) /\ ar' = Popped /\ suspect' = {} /\ ordered /\ ordered'
    BY <1>2 DEF HeapPop, Become, HeapInv
  <2>2. OneLess(ar', At(0))
    BY <1>2, <2>1, PoppedIs DEF HeapInv
  <2>3. ar.elnum \in Nat /\ ar'.elnum \in Nat
    BY <2>2, LoadedIs DEF HeapInv, Loaded, OneLess
  <2>4. BagOf(ar'.data, ar'.elnum) = Queue!BagRemove(BagOf(ar.data, ar.elnum), At(0))
    <3>1. \A w : Times(ar.data, ar.elnum, w) =
                 Times(ar'.data, ar'.elnum, w) + IF w = At(0) THEN 1 ELSE 0
      BY <2>2 DEF OneLess
    <3> QED
      BY <2>3, <3>1, BagMore
  <2>5. Bag' = Queue!BagRemove(Bag, At(0))
    BY <2>4, BagIsBagOf
  <2>6. Bag # Queue!Empty /\ At(0) \in Values /\ Queue!Least(At(0))
    BY <1>2, <2>1, HeapElements
  <2>7. Queue!QPop
    BY <2>1, <2>5, <2>6 DEF Queue!QPop
  <2>8. HeapInv'
    BY <2>1, <2>2 DEF HeapInv, OneLess
  <2> QED
    BY <2>7, <2>8
<1> QED
  BY <1>1, <1>2

LEMMA PushpopStep ==
  ASSUME HeapInv, NEW v \in Values, HeapPushpop(v)
  PROVE  HeapInv' /\ (Queue!QPush(v) \/ Queue!QReplace(v))
<1>1. CASE ar.elnum = 0
  <2>1. ar.set /\ Become(Pushed(v), {}) /\ out' = Nothing /\ ordered' = ordered
    BY <1>1 DEF HeapPushpop
  <2> QED
    BY <2>1, PushStep DEF HeapInv
<1>2. CASE ar.elnum # 0
  <2>1. /\ out' = At(0) /\ ar' = Replaced(v) /\ suspect' = {} /\ ordered /\ ordered'
    BY <1>2 DEF HeapPushpop, Become, HeapInv
  <2>2. PICK c : \E k \in Nat :
           /\ Loaded(Replaced(v)) /\ Heaped(Replaced(v).data, Replaced(v).elnum, 0)
           /\ \A w : Times(ar.data, ar.elnum, w) = Times(c, k, w) + IF w = At(0) THEN 1 ELSE 0
           /\ \A w : Times(Replaced(v).data, Replaced(v).elnum, w) =
                     Times(c, k, w) + IF w = v THEN 1 ELSE 0
    BY <1>2, ReplacedIs DEF HeapInv
  <2>3. PICK k \in Nat :
           /\ Loaded(ar') /\ Heaped(ar'.data, ar'.elnum, 0)
           /\ \A w : Times(ar.data, ar.elnum, w) = Times(c, k, w) + IF w = At(0) THEN 1 ELSE 0
           /\ \A w : Times(ar'.data, ar'.elnum, w) = Times(c, k, w) + IF w = v THEN 1 ELSE 0
    BY <2>1, <2>2
  <2>4. ar.elnum \in Nat /\ ar'.elnum \in Nat
    BY <2>3, LoadedIs DEF HeapInv, Loaded
  <2>5. BagOf(c, k) = Queue!BagRemove(BagOf(ar.data, ar.elnum), At(0))
    BY <2>3, <2>4, BagMore
  <2>6. BagOf(ar'.data, ar'.elnum) = Queue!BagAdd(BagOf(c, k), v)
    BY <2>3, <2>4, BagMore
  <2>7. Bag' = Queue!BagAdd(Queue!BagRemove(Bag, At(0)), v)
    BY <2>5, <2>6, BagIsBagOf
  <2>8. Bag # Queue!Empty /\ At(0) \in Values /\ Queue!Least(At(0))
    BY <1>2, <2>1, HeapElements
  <2>9. Queue!QReplace(v)
    BY <2>1, <2>7, <2>8 DEF Queue!QReplace
  <2>10. HeapInv'
    BY <2>1, <2>3 DEF HeapInv
  <2> QED
    BY <2>9, <2>10
<1> QED
  BY <1>1, <1>2

\* Other orders leave the bag as it is.
LEMMA OrderStep ==
  ASSUME HeapInv, (\E up \in BOOLEAN : HeapSort(up)) \/ HeapIfy
  PROVE  HeapInv' /\ UNCHANGED <<Bag, out>>
<1>1. /\ Loaded(ar') /\ (ordered' => Heaped(ar'.data, ar'.elnum, 0))
      /\ \A w : Times(ar'.data, ar'.elnum, w) = Times(ar.data, ar.elnum, w)
      /\ UNCHANGED <<suspect, out>>
  <2>1. ASSUME NEW up \in BOOLEAN, HeapSort(up)
        PROVE  /\ Loaded(ar') /\ (ordered' => Heaped(ar'.data, ar'.elnum, 0))
               /\ \A w : Times(ar'.data, ar'.elnum, w) = Times(ar.data, ar.elnum, w)
               /\ UNCHANGED <<suspect, out>>
    BY <2>1, SortedIs DEF HeapInv, HeapSort
  <2>2. CASE HeapIfy
    BY <2>2, IfiedIs DEF HeapInv, HeapIfy
  <2> QED
    BY <2>1, <2>2
<1>2. ar.elnum \in Nat /\ ar'.elnum \in Nat
  BY <1>1, LoadedIs DEF HeapInv, Loaded
<1>3. BagOf(ar'.data, ar'.elnum) = BagOf(ar.data, ar.elnum)
  BY <1>1, <1>2, BagSame
<1>4. Bag' = Bag
  BY <1>3, BagIsBagOf
<1> QED
  BY <1>1, <1>4 DEF HeapInv

LEMMA ClearedStep ==
  ASSUME HeapInv, (\E n \in 0 .. MaxLen : HeapInit(n)) \/ HeapCleanup \/ HeapFini
  PROVE  HeapInv' /\ Queue!QClear
<1>1. Hollow' /\ out' = Nothing
  <2>1. ASSUME NEW n \in 0 .. MaxLen, HeapInit(n) PROVE Hollow' /\ out' = Nothing
    <3>1. n \in Nat
      BY HeapAssumption
    <3> QED
      BY <2>1, <3>1, HeapInitIs DEF HeapInit
  <2>2. CASE HeapCleanup
    BY <2>2, HeapClearIs DEF HeapCleanup, HeapInv
  <2>3. CASE HeapFini
    BY <2>3, HeapClearIs DEF HeapFini, HeapInv
  <2> QED
    BY <2>1, <2>2, <2>3
<1>2. Loaded(ar') /\ ar'.elnum = 0 /\ suspect' = {}
  BY <1>1 DEF Hollow
<1>3. Heaped(ar'.data, ar'.elnum, 0)
  BY <1>2, OneIsHeaped
<1>4. Bag' = Queue!Empty
  BY <1>2, BagIsBagOf, BagNone
<1> QED
  BY <1>1, <1>2, <1>3, <1>4 DEF HeapInv, Queue!QClear

LEMMA HeapStep ==
  ASSUME HeapInv, [HeapNext]_hvars
  PROVE  HeapInv' /\ [Queue!QNext]_<<Bag, out>>
<1>1. ASSUME NEW v \in Values, HeapPush(v) PROVE HeapInv' /\ Queue!QPush(v)
  <2>1. ar.set /\ Become(Pushed(v), {}) /\ out' = Nothing
    BY <1>1 DEF HeapPush
  <2> QED
    BY <2>1, PushStep DEF HeapInv
<1>2. ASSUME NEW v \in Values, HeapPushpop(v)
      PROVE  HeapInv' /\ (Queue!QPush(v) \/ Queue!QReplace(v))
  BY <1>2, PushpopStep
<1>3. CASE HeapPop
  BY <1>3, PopStep DEF Queue!QNext
<1>4. CASE (\E up \in BOOLEAN : HeapSort(up)) \/ HeapIfy
  BY <1>4, OrderStep
<1>5. CASE (\E n \in 0 .. MaxLen : HeapInit(n)) \/ HeapCleanup \/ HeapFini
  BY <1>5, ClearedStep DEF Queue!QNext
<1>6. CASE UNCHANGED hvars
  <2>1. UNCHANGED <<ar, suspect, out, ordered>>
    BY <1>6 DEF hvars, avars
  <2> QED
    BY <2>1, BagIsBagOf DEF HeapInv
<1>7. CASE \E v \in Values : HeapPush(v) \/ HeapPushpop(v)
  BY <1>1, <1>2, <1>7 DEF Queue!QNext
<1> QED
  BY <1>3, <1>4, <1>5, <1>6, <1>7 DEF HeapNext

\* heap_get and the edges of the tree.
LEMMA HeapInOrder == HeapInv => HeapOrder
<1> SUFFICES ASSUME HeapInv, ordered
             PROVE  /\ \A i \in 1 .. ar.elnum - 1 : At(Parent(i)) =< At(i)
                    /\ \A v \in Values :
                         IF \E i \in First(ar.elnum) : At(i) = v
                         THEN HeapGet(v) # Nothing /\ At(HeapGet(v)) = v
                         ELSE HeapGet(v) = Nothing
  BY DEF HeapOrder
<1>1. ar.elnum \in Nat /\ \A i \in First(ar.elnum) : At(i) \in Int
  BY HeapElements
<1>2. Heaped(ar.data, ar.elnum, 0)
  BY DEF HeapInv
<1>3. ASSUME NEW i \in 1 .. ar.elnum - 1 PROVE At(Parent(i)) =< At(i)
  <2>1. i \in First(ar.elnum) \ {0} /\ i \in Nat \ {0}
    BY <1>1 DEF First
  <2>2. Parent(i) >= 0
    BY <2>1, ParentIs
  <2> QED
    BY <1>2, <2>1, <2>2 DEF Heaped, At
<1>4. ASSUME NEW v \in Values
      PROVE  IF \E i \in First(ar.elnum) : At(i) = v
             THEN HeapGet(v) # Nothing /\ At(HeapGet(v)) = v
             ELSE HeapGet(v) = Nothing
  <2>1. v \in Int
    BY HeapAssumption
  <2> QED
    BY <1>1, <1>2, <2>1, GetFinds
<1> QED
  BY <1>3, <1>4

\* The elements stay in heap order through siftdown, heap_ify and heap_sort,
\* heap_get finds what is there, heap_pop and heap_pushpop hand out a least
\* element, and no exchange loses, repeats or makes up one: for any values, any
\* length and any array below.
THEOREM HeapIsAPriorityQueue == MCSpec => ImplementsPriorityQueue
<1> DEFINE HI == use = "heap" => HeapInv
           QI == use = "heap" => Queue!QInit
           QN == use = "heap" => [Queue!QNext]_<<Bag, out>>
           vs == <<hvars, use, psvars>>
<1>1. MCInit => HI /\ QI
  BY HeapStarts DEF MCInit
<1>2. HI /\ [MCNext]_vs => HI' /\ QN
  <2> SUFFICES ASSUME HI, [MCNext]_vs PROVE HI' /\ QN
    OBVIOUS
  <2>1. use' = use /\ (use = "heap" => [HeapNext]_hvars)
    BY DEF MCNext
  <2>2. CASE use = "heap"
    BY <2>1, <2>2, HeapStep
  <2>3. CASE use # "heap"
    BY <2>1, <2>3
  <2> QED
    BY <2>2, <2>3
<1>3. HI => (use = "heap" => HeapOrder)
  BY HeapInOrder
<1> HIDE DEF HI
<1>4. ImplementsPriorityQueue <=> [](use = "heap" => HeapOrder) /\ QI /\ [][QN]_vs
  BY DEF ImplementsPriorityQueue
<1> HIDE DEF QI, QN, vs
<1> QED
  BY <1>1, <1>2, <1>3, <1>4, PTL DEF MCSpec, vs

\* The heap calls the array as it wants to be called: for the clients of both, the
\* block has room for what is counted, and the callbacks are called in turn.
THEOREM ArrayUnderHeap ==
  ASSUME ArrayLen \in Nat
  PROVE  MCSpec => [](RoomForAll /\ CalledInTurn)
<1> DEFINE I == IF use = "heap" THEN HeapInv ELSE ArrayInv
           vs == <<hvars, use, psvars>>
<1>1. MCInit => I
  BY HeapStarts, StartsSound DEF MCInit, HeapStart
<1>2. I /\ [MCNext]_vs => I'
  <2> SUFFICES ASSUME I, [MCNext]_vs PROVE I'
    OBVIOUS
  <2>1. /\ use' = use
        /\ use = "heap" => [HeapNext]_hvars
        /\ use # "heap" => [ArrayNext(ArrayLen)]_avars
    BY DEF MCNext, hvars
  <2>2. CASE use = "heap"
    BY <2>1, <2>2, HeapStep
  <2>3. CASE use # "heap"
    BY <2>1, <2>3, StaysSound
  <2> QED
    BY <2>2, <2>3
<1>3. I => RoomForAll /\ CalledInTurn
  <2>1. HeapInv => ArrayInv
    BY DEF HeapInv, Loaded, ArrayInv
  <2>2. ArrayInv => RoomForAll /\ CalledInTurn
    BY DEF ArrayInv, Sound, InTurn, RoomForAll, CalledInTurn
  <2> QED
    BY <2>1, <2>2
<1> HIDE DEF I
<1> QED
  BY <1>1, <1>2, <1>3, PTL DEF MCSpec, vs

-----------------------------------------------------------------------------
(* The popularity set of cm.c *)

\* What the client of cm_init and pset_init sees to.
PSetAssumption ==
    /\ Width \in Nat \ {0} /\ Depth \in Nat \ {0}
    /\ Thresh \in Nat /\ MinThresh \in Nat

Cells == 0 .. Width * Depth - 1

PSetTypes ==
    /\ fasthash \in [Rows -> [Keys -> 0 .. Depth - 1]]
    /\ cm \in [Cells -> Nat]
    /\ DOMAIN d \subseteq Keys
    /\ \A k \in DOMAIN d : d[k] \in Nat
    /\ fast_pop_thresh \in Nat
    /\ count \in [Keys -> Nat]
    /\ last \in [Keys -> Nat]
    /\ lent \in [popped : BOOLEAN, vain : Nat]

\* Each row counts a key at least as often as it was read.
CellsCount == \A i \in Rows, k \in Keys : count[k] =< cm[Cell(i, k)]

\* The threshold is not ahead of any member.
Inside ==
    /\ MinThresh =< fast_pop_thresh
    /\ \A k \in DOMAIN d :
          /\ d[k] = last[k]
          /\ fast_pop_thresh =< d[k]
          /\ \A i \in Rows : d[k] =< cm[Cell(i, k)]

\* It is not behind any key that was turned away or pushed out.
Outside ==
    ~lent.popped => \A k \in Keys \ DOMAIN d : last[k] =< fast_pop_thresh

PSetInv == PSetTypes /\ Capacity /\ RoomIsUsed /\ CellsCount /\ Inside /\ Outside

-----------------------------------------------------------------------------
(* The sketch *)

\* A set of numbers has a least one.
LEMMA HasLeast ==
  ASSUME NEW T \in SUBSET Nat, T # {}
  PROVE  \E x \in T : \A y \in T : x =< y
BY LeastNatural

\* The counters of a row stay within the row.
LEMMA CellInside ==
  ASSUME PSetAssumption, fasthash \in [Rows -> [Keys -> 0 .. Depth - 1]],
         NEW i \in Rows, NEW k \in Keys
  PROVE  Cell(i, k) \in Cells
<1>1. fasthash[i][k] \in 0 .. Depth - 1
  OBVIOUS
<1>2. i \in Nat /\ i + 1 =< Width /\ Width \in Nat /\ Depth \in Nat /\ Depth > 0
  BY DEF Rows, PSetAssumption
<1>3. Depth * i \in Nat /\ Depth * (i + 1) =< Depth * Width
  BY <1>2
<1>4. Depth * (i + 1) = Depth * i + Depth /\ Depth * Width = Width * Depth
  BY <1>2
<1>5. ASSUME NEW a \in Nat, NEW b \in Nat, NEW f \in 0 .. Depth - 1, a + Depth =< b
      PROVE  a + f \in 0 .. b - 1
  BY <1>2, <1>5
<1>6. Width * Depth \in Nat /\ Depth * i + Depth =< Width * Depth
  BY <1>2, <1>3, <1>4
<1>7. Depth * i + fasthash[i][k] \in 0 .. Width * Depth - 1
  BY <1>1, <1>3, <1>5, <1>6
<1> QED
  BY <1>7 DEF Cell, Cells

\* cm_get of a sketch is the count of some row, and of no row more than it.
LEMMA GetIsLeastRow ==
  ASSUME PSetAssumption, fasthash \in [Rows -> [Keys -> 0 .. Depth - 1]],
         NEW v \in [Cells -> Nat], NEW k \in Keys
  PROVE  /\ Get(v, k) \in Nat
         /\ \E i \in Rows : Get(v, k) = v[Cell(i, k)]
         /\ \A i \in Rows : Get(v, k) =< v[Cell(i, k)]
<1> DEFINE T == {v[Cell(i, k)] : i \in Rows}
<1>1. T \in SUBSET Nat
  BY CellInside
<1>2. 0 \in Rows
  BY DEF Rows, PSetAssumption
<1>3. T # {}
  BY <1>2
<1>4. \E x \in T : \A y \in T : x =< y
  BY <1>1, <1>3, HasLeast
<1>5. \E x \in T : \A i \in Rows : x =< v[Cell(i, k)]
  BY <1>4
<1>6. Get(v, k) \in T /\ \A i \in Rows : Get(v, k) =< v[Cell(i, k)]
  BY <1>5 DEF Get
<1> QED
  BY <1>1, <1>6

\* cm_add takes no count away, and adds to that of its key in each row.
LEMMA AddedCounts ==
  ASSUME PSetAssumption, PSetTypes, NEW k \in Keys
  PROVE  /\ Added(k) \in [Cells -> Nat]
         /\ \A c \in Cells : cm[c] =< Added(k)[c]
         /\ \A i \in Rows : Added(k)[Cell(i, k)] = cm[Cell(i, k)] + 1
<1>1. fasthash \in [Rows -> [Keys -> 0 .. Depth - 1]] /\ cm \in [Cells -> Nat]
  BY DEF PSetTypes
<1>2. \A c \in Cells : Added(k)[c] \in {cm[c], cm[c] + 1} /\ cm[c] \in Nat
  BY <1>1 DEF Added
<1>3. Added(k) \in [Cells -> Nat]
  BY <1>1 DEF Added
<1>4. \A i \in Rows : Cell(i, k) \in Cells
  BY <1>1, CellInside
<1>5. ASSUME NEW i \in Rows PROVE Added(k)[Cell(i, k)] = cm[Cell(i, k)] + 1
  BY <1>1, <1>4 DEF Added
<1>6. \A c \in Cells : cm[c] =< Added(k)[c]
  BY <1>2
<1> QED
  BY <1>3, <1>5, <1>6

-----------------------------------------------------------------------------
(* The popularity set *)

\* The popped item is a least one; what is left has one key less, and the
\* threshold is not ahead of it, or is minthresh when there is room.
LEMMA PoppedIsLeast ==
  ASSUME PSetAssumption, NEW items, IsFiniteSet(DOMAIN items),
         \A l \in DOMAIN items : items[l] \in Nat,
         NEW n \in Int, PSetPopped(items, n)
  PROVE  \E j \in DOMAIN items :
           /\ DOMAIN d' = DOMAIN items \ {j}
           /\ \A l \in DOMAIN items \ {j} : d'[l] = items[l] /\ items[j] =< items[l]
           /\ IsFiniteSet(DOMAIN d')
           /\ Cardinality(DOMAIN d') = Cardinality(DOMAIN items) - 1
           /\ nleft' = n + 1
           /\ fast_pop_thresh' \in Nat /\ MinThresh =< fast_pop_thresh'
           /\ n + 1 > 0 => fast_pop_thresh' = MinThresh
           /\ n + 1 =< 0 => fast_pop_thresh' \in {items[j], MinThresh} /\ items[j] =< fast_pop_thresh'
<1>1. PICK j \in Least(items) :
        /\ d' = Without(items, j)
        /\ nleft' = n + 1
        /\ fast_pop_thresh' = IF n + 1 <= 0 THEN Larger(items[j], MinThresh) ELSE MinThresh
  BY DEF PSetPopped
<1>2. j \in DOMAIN items /\ \A l \in DOMAIN items : items[j] =< items[l]
  BY DEF Least
<1>3. /\ DOMAIN d' = DOMAIN items \ {j}
      /\ \A l \in DOMAIN items \ {j} : d'[l] = items[l]
  BY <1>1 DEF Without
<1>4. /\ IsFiniteSet(DOMAIN d')
      /\ Cardinality(DOMAIN d') = Cardinality(DOMAIN items) - 1
  BY <1>2, <1>3, FS_RemoveElement
<1>5. items[j] \in Nat /\ MinThresh \in Nat
  BY <1>2 DEF PSetAssumption
<1>6. /\ fast_pop_thresh' \in Nat /\ MinThresh =< fast_pop_thresh'
      /\ n + 1 > 0 => fast_pop_thresh' = MinThresh
      /\ n + 1 =< 0 => fast_pop_thresh' \in {items[j], MinThresh} /\ items[j] =< fast_pop_thresh'
  BY <1>1, <1>5 DEF Larger
<1> QED
  BY <1>1, <1>2, <1>3, <1>4, <1>6

\* What an action leaves of the set, whatever it does to the sketch.
PSetSound ==
    /\ DOMAIN d \subseteq Keys
    /\ \A k \in DOMAIN d : d[k] \in Nat /\ d[k] = last[k] /\ fast_pop_thresh =< d[k]
    /\ fast_pop_thresh \in Nat /\ MinThresh =< fast_pop_thresh
    /\ Capacity /\ RoomIsUsed /\ Outside

\* pset_push of an item whose key is not there: the threshold moves up to the
\* item that is pushed out, if any, and the item is offered with its count.
LEMMA PushKeeps ==
  ASSUME PSetAssumption, PSetSound, last \in [Keys -> Nat], lent \in [popped : BOOLEAN, vain : Nat],
         NEW k \in Keys \ DOMAIN d, NEW p \in Nat, Push(k, p),
         last' = [last EXCEPT ![k] = p], lent' = lent
  PROVE  /\ PSetSound'
         /\ DOMAIN d' \subseteq DOMAIN d \cup {k}
         /\ \A l \in DOMAIN d' : d'[l] = IF l = k THEN p ELSE d[l]
<1> DEFINE items == With(d, k, p)
<1>1. /\ DOMAIN items = DOMAIN d \cup {k}
      /\ \A l \in DOMAIN items : items[l] = IF l = k THEN p ELSE d[l]
  BY DEF With
<1>2. /\ \A l \in DOMAIN d : d[l] \in Nat /\ d[l] = last[l] /\ fast_pop_thresh =< d[l]
      /\ DOMAIN d \subseteq Keys
      /\ fast_pop_thresh \in Nat /\ MinThresh =< fast_pop_thresh /\ MinThresh \in Nat
      /\ IsFiniteSet(DOMAIN d) /\ nleft \in Nat /\ Cardinality(DOMAIN d) \in Nat
      /\ Cardinality(DOMAIN d) + nleft = Thresh + lent.vain
      /\ nleft > 0 => fast_pop_thresh = MinThresh
      /\ ~lent.popped => \A l \in Keys \ DOMAIN d : last[l] =< fast_pop_thresh
  BY FS_CardinalityType DEF PSetSound, Capacity, RoomIsUsed, Outside, PSetAssumption
<1>3. /\ IsFiniteSet(DOMAIN items)
      /\ Cardinality(DOMAIN items) = Cardinality(DOMAIN d) + 1
  BY <1>1, <1>2, FS_AddElement
<1>4. /\ last'[k] = p
      /\ \A l \in Keys : l # k => last'[l] = last[l]
      /\ \A l \in Keys : last'[l] \in Nat
  OBVIOUS
<1> HIDE DEF items
<1>5. CASE p <= fast_pop_thresh
  <2>1. UNCHANGED pset
    BY <1>5 DEF Push
  <2>2. d' = d /\ nleft' = nleft /\ fast_pop_thresh' = fast_pop_thresh
    BY <2>1 DEF pset
  <2>3. Capacity' /\ RoomIsUsed'
    BY <1>2, <2>2 DEF Capacity, RoomIsUsed
  <2>4. Outside'
    BY <1>2, <1>4, <1>5, <2>2 DEF Outside
  <2> QED
    BY <1>2, <1>4, <2>2, <2>3, <2>4 DEF PSetSound
<1>6. CASE ~(p <= fast_pop_thresh) /\ nleft > 0
  <2>1. d' = items /\ nleft' = nleft - 1 /\ fast_pop_thresh' = fast_pop_thresh
    BY <1>2, <1>6 DEF Push, items
  <2>2. nleft' \in Nat /\ Cardinality(DOMAIN d') + nleft' = Thresh + lent'.vain
    <3>1. ASSUME NEW c \in Nat, NEW n \in Nat, n > 0
          PROVE  n - 1 \in Nat /\ (c + 1) + (n - 1) = c + n
      BY <3>1
    <3>2. /\ nleft - 1 \in Nat
          /\ (Cardinality(DOMAIN d) + 1) + (nleft - 1) = Cardinality(DOMAIN d) + nleft
      BY <1>2, <1>6, <3>1
    <3> QED
      BY <1>2, <1>3, <2>1, <3>2
  <2>3. Capacity' /\ RoomIsUsed'
    BY <1>2, <1>3, <1>6, <2>1, <2>2 DEF Capacity, RoomIsUsed
  <2>4. Outside'
    BY <1>1, <1>2, <1>4, <2>1 DEF Outside
  <2>5. \A l \in DOMAIN d' : d'[l] \in Nat /\ d'[l] = last'[l] /\ fast_pop_thresh' =< d'[l]
    BY <1>1, <1>2, <1>4, <1>6, <2>1
  <2>6. DOMAIN d' \subseteq Keys
    BY <1>1, <1>2, <2>1
  <2> QED
    BY <1>1, <1>2, <2>1, <2>3, <2>4, <2>5, <2>6 DEF PSetSound
<1>7. CASE ~(p <= fast_pop_thresh) /\ nleft = 0
  <2>1. PSetPopped(items, -1)
    BY <1>7 DEF Push, items
  <2>2. \A l \in DOMAIN items : items[l] \in Nat
    BY <1>1, <1>2
  <2>3. PICK j \in DOMAIN items :
           /\ DOMAIN d' = DOMAIN items \ {j}
           /\ \A l \in DOMAIN items \ {j} : d'[l] = items[l] /\ items[j] =< items[l]
           /\ IsFiniteSet(DOMAIN d')
           /\ Cardinality(DOMAIN d') = Cardinality(DOMAIN items) - 1
           /\ nleft' = 0
           /\ fast_pop_thresh' \in Nat /\ MinThresh =< fast_pop_thresh'
           /\ fast_pop_thresh' \in {items[j], MinThresh} /\ items[j] =< fast_pop_thresh'
    <3>1. -1 \in Int /\ -1 + 1 = 0
      OBVIOUS
    <3>2. \E j \in DOMAIN items :
           /\ DOMAIN d' = DOMAIN items \ {j}
           /\ \A l \in DOMAIN items \ {j} : d'[l] = items[l] /\ items[j] =< items[l]
           /\ IsFiniteSet(DOMAIN d')
           /\ Cardinality(DOMAIN d') = Cardinality(DOMAIN items) - 1
           /\ nleft' = -1 + 1
           /\ fast_pop_thresh' \in Nat /\ MinThresh =< fast_pop_thresh'
           /\ -1 + 1 > 0 => fast_pop_thresh' = MinThresh
           /\ -1 + 1 =< 0 => fast_pop_thresh' \in {items[j], MinThresh} /\ items[j] =< fast_pop_thresh'
      BY <1>3, <2>1, <2>2, <3>1, PoppedIsLeast, Zenon
    <3> QED
      BY <3>1, <3>2
  <2>4. \A l \in DOMAIN items : items[l] = last'[l] /\ fast_pop_thresh =< items[l]
    BY <1>1, <1>2, <1>4, <1>7
  <2>5. fast_pop_thresh =< fast_pop_thresh'
    BY <1>2, <2>2, <2>3, <2>4
  <2>6. DOMAIN d' \subseteq Keys
    BY <1>1, <1>2, <2>3
  <2>7. \A l \in DOMAIN d' : d'[l] \in Nat /\ d'[l] = last'[l] /\ fast_pop_thresh' =< d'[l]
    BY <1>2, <2>2, <2>3, <2>4
  <2>8. Capacity' /\ RoomIsUsed'
    BY <1>2, <1>3, <1>7, <2>3 DEF Capacity, RoomIsUsed
  <2>9. Outside'
    <3>1. ASSUME ~lent.popped, NEW l \in Keys \ DOMAIN d' PROVE last'[l] =< fast_pop_thresh'
      <4>1. CASE l = j
        BY <2>3, <2>4, <4>1
      <4>2. CASE l # j
        <5>1. l \notin DOMAIN d /\ l # k
          BY <1>1, <2>3, <4>2
        <5>2. last'[l] = last[l] /\ last[l] =< fast_pop_thresh
          BY <1>2, <1>4, <3>1, <5>1
        <5> QED
          BY <1>2, <1>4, <2>3, <2>5, <5>2
      <4> QED
        BY <4>1, <4>2
    <3> QED
      BY <3>1 DEF Outside
  <2> QED
    BY <1>1, <2>3, <2>6, <2>7, <2>8, <2>9 DEF PSetSound
<1> QED
  BY <1>2, <1>5, <1>6, <1>7

-----------------------------------------------------------------------------
(* The invariant *)

\* What the sketch and the history hold besides.
Sketch ==
    /\ fasthash \in [Rows -> [Keys -> 0 .. Depth - 1]]
    /\ cm \in [Cells -> Nat]
    /\ count \in [Keys -> Nat] /\ last \in [Keys -> Nat]
    /\ lent \in [popped : BOOLEAN, vain : Nat]
    /\ CellsCount
    /\ \A k \in DOMAIN d, i \in Rows : d[k] =< cm[Cell(i, k)]

\* The invariant is about the set or about the sketch.
LEMMA PSetInvParts == PSetInv <=> PSetSound /\ Sketch
BY DEF PSetInv, PSetTypes, Inside, PSetSound, Sketch

\* The same of the state after a step.
LEMMA PSetInvPartsNext == PSetInv' <=> PSetSound' /\ Sketch'
BY DEF PSetInv, PSetTypes, Inside, PSetSound, Sketch

\* cm_init and pset_init.
LEMMA StartInv == ASSUME PSetAssumption, Start PROVE PSetInv
<1>1. /\ fasthash \in [Rows -> [Keys -> 0 .. Depth - 1]]
      /\ cm = Cleared /\ DOMAIN d = {} /\ nleft = Thresh /\ fast_pop_thresh = MinThresh
      /\ count = NoCount /\ last = NoCount /\ lent = NotLent
  BY DEF Start
<1>2. /\ \A k \in Keys : count[k] = 0 /\ last[k] = 0
      /\ count \in [Keys -> Nat] /\ last \in [Keys -> Nat]
  BY <1>1 DEF NoCount
<1>3. lent \in [popped : BOOLEAN, vain : Nat] /\ lent.vain = 0
  BY <1>1 DEF NotLent
<1>4. cm \in [Cells -> Nat]
  BY <1>1 DEF Cleared, Cells
<1>5. CellsCount
  BY <1>1, <1>2, <1>4, CellInside DEF CellsCount
<1>6. Sketch
  BY <1>1, <1>2, <1>3, <1>4, <1>5 DEF Sketch
<1>7. Capacity
  BY <1>1, <1>3, FS_EmptySet DEF Capacity, PSetAssumption
<1>8. PSetSound
  BY <1>1, <1>2, <1>7 DEF PSetSound, RoomIsUsed, Outside, PSetAssumption
<1> QED
  BY <1>6, <1>8, PSetInvParts

\* cm_fini and pset_fini, and the beginning again.
LEMMA RestartInv == ASSUME PSetAssumption, PSetInv, Restart PROVE PSetInv'
<1>1. fasthash' \in [Rows -> [Keys -> 0 .. Depth - 1]] /\ fasthash' = fasthash
  BY DEF Restart, PSetInv, PSetTypes
<1>2. /\ cm' = Cleared /\ DOMAIN d' = {} /\ nleft' = Thresh /\ fast_pop_thresh' = MinThresh
      /\ count' = NoCount /\ last' = NoCount /\ lent' = NotLent
  BY DEF Restart
<1>3. /\ \A k \in Keys : count'[k] = 0 /\ last'[k] = 0
      /\ count' \in [Keys -> Nat] /\ last' \in [Keys -> Nat]
  BY <1>2 DEF NoCount
<1>4. lent' \in [popped : BOOLEAN, vain : Nat] /\ lent'.vain = 0
  BY <1>2 DEF NotLent
<1>5. cm' \in [Cells -> Nat]
  BY <1>2 DEF Cleared, Cells
<1>6. CellsCount'
  <2>1. \A i \in Rows, k \in Keys : Cell(i, k) \in Cells
    BY <1>1, CellInside
  <2>2. \A i \in Rows, k \in Keys : Cell(i, k)' = Cell(i, k)
    BY <1>1 DEF Cell
  <2> QED
    BY <1>3, <1>5, <2>1, <2>2 DEF CellsCount
<1>7. Sketch'
  BY <1>1, <1>2, <1>3, <1>4, <1>5, <1>6 DEF Sketch
<1>8. Capacity'
  BY <1>2, <1>4, FS_EmptySet DEF Capacity, PSetAssumption
<1>9. PSetSound'
  BY <1>2, <1>3, <1>8 DEF PSetSound, RoomIsUsed, Outside, PSetAssumption
<1> QED
  BY <1>7, <1>9, PSetInvPartsNext

\* A key is read: each of its counters goes up, and it is as popular as the least
\* of them, so that no member gets ahead of its counters.
LEMMA TellInv ==
  ASSUME PSetAssumption, PSetInv, NEW k \in Keys, Tell(k)
  PROVE  PSetInv'
<1> DEFINE p == Get(cm', k)
<1>1. PSetSound /\ Sketch /\ PSetTypes
  BY PSetInvParts DEF PSetInv
<1>2. /\ cm' = Added(k) /\ count' = [count EXCEPT ![k] = @ + 1]
      /\ last' = [last EXCEPT ![k] = p]
      /\ fasthash' = fasthash /\ lent' = lent
  BY DEF Tell
<1>3. /\ cm' \in [Cells -> Nat]
      /\ \A c \in Cells : cm[c] =< cm'[c]
      /\ \A i \in Rows : cm'[Cell(i, k)] = cm[Cell(i, k)] + 1
  BY <1>1, <1>2, AddedCounts
<1>4. /\ \A i \in Rows, l \in Keys : Cell(i, l) \in Cells
      /\ \A i \in Rows, l \in Keys : Cell(i, l)' = Cell(i, l)
  BY <1>1, <1>2, CellInside DEF Sketch, Cell
<1>5. /\ p \in Nat
      /\ \E i \in Rows : p = cm'[Cell(i, k)]
      /\ \A i \in Rows : p =< cm'[Cell(i, k)]
  BY <1>1, <1>3, GetIsLeastRow DEF Sketch
<1> HIDE DEF p
<1>6. cm \in [Cells -> Nat] /\ count \in [Keys -> Nat] /\ last \in [Keys -> Nat]
  BY <1>1 DEF Sketch
<1>7. count' \in [Keys -> Nat] /\ last' \in [Keys -> Nat]
  BY <1>2, <1>5, <1>6
<1>8. CellsCount'
  <2>1. ASSUME NEW i \in Rows, NEW l \in Keys PROVE count'[l] =< cm'[Cell(i, l)]
    <3>1. count[l] =< cm[Cell(i, l)] /\ cm[Cell(i, l)] \in Nat /\ cm'[Cell(i, l)] \in Nat
      BY <1>1, <1>3, <1>4, <1>6 DEF Sketch, CellsCount
    <3>2. CASE l = k
      BY <1>2, <1>3, <1>6, <3>1, <3>2
    <3>3. CASE l # k
      BY <1>2, <1>3, <1>4, <1>6, <3>1, <3>3
    <3> QED
      BY <3>2, <3>3
  <2> QED
    BY <1>4, <2>1 DEF CellsCount
<1>9. /\ PSetSound'
      /\ DOMAIN d' \subseteq DOMAIN d \cup {k}
      /\ \A l \in DOMAIN d' : d'[l] = IF l = k THEN p ELSE d[l]
  <2>1. CASE k \notin DOMAIN d
    <3>1. Push(k, p)
      BY <2>1 DEF Tell, p
    <3> QED
      BY <1>1, <1>2, <1>5, <2>1, <3>1, PushKeeps DEF Sketch
  <2>2. CASE k \in DOMAIN d
    <3>1. d' = With(d, k, p) /\ nleft' = nleft /\ fast_pop_thresh' = fast_pop_thresh
      BY <2>2 DEF Tell, p
    <3>2. /\ DOMAIN d' = DOMAIN d
          /\ \A l \in DOMAIN d' : d'[l] = IF l = k THEN p ELSE d[l]
      BY <2>2, <3>1 DEF With
    <3>3. d[k] =< p
      <4>1. PICK i \in Rows : p = cm'[Cell(i, k)]
        BY <1>5
      <4>2. d[k] =< cm[Cell(i, k)] /\ d[k] \in Nat /\ cm[Cell(i, k)] \in Nat
        BY <1>1, <1>4, <1>6, <2>2 DEF Sketch, PSetSound
      <4> QED
        BY <1>3, <4>1, <4>2
    <3>4. Capacity' /\ RoomIsUsed'
      BY <1>1, <1>2, <3>1, <3>2 DEF PSetSound, Capacity, RoomIsUsed
    <3>5. Outside'
      BY <1>1, <1>2, <1>6, <2>2, <3>1, <3>2 DEF PSetSound, Outside
    <3>6. \A l \in DOMAIN d' : d'[l] \in Nat /\ d'[l] = last'[l] /\ fast_pop_thresh' =< d'[l]
      BY <1>1, <1>2, <1>5, <1>6, <2>2, <3>1, <3>2, <3>3 DEF PSetSound
    <3> QED
      BY <1>1, <3>1, <3>2, <3>4, <3>5, <3>6 DEF PSetSound
  <2> QED
    BY <2>1, <2>2
<1>10. \A l \in DOMAIN d', i \in Rows : d'[l] =< cm'[Cell(i, l)]
  <2>1. SUFFICES ASSUME NEW l \in DOMAIN d', NEW i \in Rows
                 PROVE  d'[l] =< cm'[Cell(i, l)]
    OBVIOUS
  <2>2. CASE l = k
    BY <1>5, <1>9, <2>2
  <2>3. CASE l # k
    <3>1. l \in DOMAIN d /\ l \in Keys /\ d'[l] = d[l]
      BY <1>1, <1>9, <2>3 DEF PSetSound
    <3>2. d[l] =< cm[Cell(i, l)] /\ d[l] \in Nat
      BY <1>1, <3>1 DEF Sketch, PSetSound
    <3>3. cm[Cell(i, l)] \in Nat /\ cm'[Cell(i, l)] \in Nat /\ cm[Cell(i, l)] =< cm'[Cell(i, l)]
      BY <1>3, <1>4, <1>6, <3>1
    <3> QED
      BY <3>1, <3>2, <3>3
  <2> QED
    BY <2>2, <2>3
<1>11. Sketch'
  <2>1. \A l \in DOMAIN d', i \in Rows : d'[l] =< cm'[Cell(i, l)']
    BY <1>1, <1>4, <1>9, <1>10 DEF PSetSound
  <2> QED
    BY <1>1, <1>2, <1>3, <1>7, <1>8, <2>1 DEF Sketch
<1> QED
  BY <1>9, <1>11, PSetInvPartsNext

\* A push without a look keeps the counts of what is there.
LEMMA PushBlindlyInv ==
  ASSUME PSetAssumption, PSetInv, NEW k \in Keys, PushBlindly(k)
  PROVE  PSetInv'
<1> DEFINE p == Get(cm, k)
<1>1. PSetSound /\ Sketch
  BY PSetInvParts
<1>2. fasthash' = fasthash /\ cm' = cm /\ count' = count /\ lent' = lent
  BY DEF PushBlindly
<1>3. /\ p \in Nat
      /\ \A i \in Rows : p =< cm[Cell(i, k)]
  BY <1>1, GetIsLeastRow DEF Sketch
<1>4. Push(k, p)
  BY DEF PushBlindly
<1> HIDE DEF p
<1>5. CASE k \in DOMAIN d
  <2>1. last' = last
    BY <1>5 DEF PushBlindly
  <2>2. d' = d /\ nleft' = nleft /\ fast_pop_thresh' = fast_pop_thresh
    <3>1. nleft \in Nat
      BY <1>1 DEF PSetSound, Capacity
    <3>2. ~(nleft < 0)
      BY <3>1
    <3> QED
      BY <1>4, <1>5, <3>2 DEF Push, pset
  <2>3. Capacity' /\ RoomIsUsed' /\ Outside'
    BY <1>1, <1>2, <2>1, <2>2 DEF PSetSound, Capacity, RoomIsUsed, Outside
  <2>4. PSetSound'
    BY <1>1, <2>1, <2>2, <2>3 DEF PSetSound
  <2>5. Sketch'
    BY <1>1, <1>2, <2>1, <2>2 DEF Sketch, CellsCount, Cell
  <2> QED
    BY <2>4, <2>5, PSetInvPartsNext
<1>6. CASE k \notin DOMAIN d
  <2>1. last' = [last EXCEPT ![k] = p]
    BY <1>6 DEF PushBlindly, p
  <2>2. /\ PSetSound'
        /\ DOMAIN d' \subseteq DOMAIN d \cup {k}
        /\ \A l \in DOMAIN d' : d'[l] = IF l = k THEN p ELSE d[l]
    BY <1>1, <1>2, <1>3, <1>4, <1>6, <2>1, PushKeeps DEF Sketch
  <2>3. \A l \in DOMAIN d', i \in Rows : d'[l] =< cm[Cell(i, l)]
    BY <1>1, <1>3, <2>2 DEF Sketch
  <2>4. last' \in [Keys -> Nat]
    BY <1>1, <1>3, <2>1 DEF Sketch
  <2>5. CellsCount'
    BY <1>1, <1>2 DEF Sketch, CellsCount, Cell
  <2>6. \A l \in DOMAIN d', i \in Rows : d'[l] =< cm'[Cell(i, l)']
    BY <1>2, <2>3 DEF Cell
  <2>7. Sketch'
    BY <1>1, <1>2, <2>4, <2>5, <2>6 DEF Sketch
  <2> QED
    BY <2>2, <2>7, PSetInvPartsNext
<1> QED
  BY <1>5, <1>6

\* The client pops: there is room again, and the threshold is at minthresh.
LEMMA PopInv ==
  ASSUME PSetAssumption, PSetInv, Pop
  PROVE  PSetInv'
<1>1. PSetSound /\ Sketch
  BY PSetInvParts
<1>2. /\ PSetPopped(d, nleft) /\ lent' = [lent EXCEPT !.popped = TRUE]
      /\ fasthash' = fasthash /\ cm' = cm /\ count' = count /\ last' = last
  BY DEF Pop
<1>3. /\ IsFiniteSet(DOMAIN d) /\ nleft \in Nat /\ Cardinality(DOMAIN d) \in Nat
      /\ Cardinality(DOMAIN d) + nleft = Thresh + lent.vain
  BY <1>1, FS_CardinalityType DEF PSetSound, Capacity
<1>4. nleft \in Int /\ nleft + 1 > 0 /\ nleft + 1 \in Nat
  BY <1>3
<1>5. PICK j \in DOMAIN d :
        /\ DOMAIN d' = DOMAIN d \ {j}
        /\ \A l \in DOMAIN d \ {j} : d'[l] = d[l]
        /\ IsFiniteSet(DOMAIN d')
        /\ Cardinality(DOMAIN d') = Cardinality(DOMAIN d) - 1
        /\ nleft' = nleft + 1
        /\ fast_pop_thresh' = MinThresh
  BY <1>1, <1>2, <1>3, <1>4, PoppedIsLeast DEF PSetSound
<1>6. lent' \in [popped : BOOLEAN, vain : Nat] /\ lent'.vain = lent.vain /\ lent'.popped
  BY <1>1, <1>2 DEF Sketch
<1>7. Capacity'
  <2>1. ASSUME NEW c \in Nat, NEW n \in Nat PROVE (c - 1) + (n + 1) = c + n
    OBVIOUS
  <2>2. (Cardinality(DOMAIN d) - 1) + (nleft + 1) = Cardinality(DOMAIN d) + nleft
    BY <1>3, <2>1
  <2>3. Cardinality(DOMAIN d') + nleft' = Thresh + lent'.vain
    BY <1>3, <1>5, <1>6, <2>2
  <2> QED
    BY <1>4, <1>5, <2>3 DEF Capacity
<1>8. RoomIsUsed' /\ Outside'
  BY <1>5, <1>6 DEF RoomIsUsed, Outside
<1>9. PSetSound'
  <2>1. \A l \in DOMAIN d' :
          d'[l] \in Nat /\ d'[l] = last'[l] /\ fast_pop_thresh' =< d'[l]
    BY <1>1, <1>2, <1>5 DEF PSetSound, PSetAssumption
  <2>2. DOMAIN d' \subseteq Keys /\ fast_pop_thresh' \in Nat /\ MinThresh =< fast_pop_thresh'
    BY <1>1, <1>5 DEF PSetSound, PSetAssumption
  <2> QED
    BY <1>7, <1>8, <2>1, <2>2 DEF PSetSound
<1>10. CellsCount' /\ \A l \in DOMAIN d', i \in Rows : d'[l] =< cm'[Cell(i, l)']
  BY <1>1, <1>2, <1>5 DEF Sketch, CellsCount, Cell
<1>11. Sketch'
  BY <1>1, <1>2, <1>6, <1>10 DEF Sketch
<1> QED
  BY <1>9, <1>11, PSetInvPartsNext

\* A pop in vain makes room for one more.
LEMMA PopInVainInv ==
  ASSUME PSetAssumption, PSetInv, PopInVain
  PROVE  PSetInv'
<1>1. PSetSound /\ Sketch
  BY PSetInvParts
<1>2. /\ DOMAIN d = {} /\ nleft' = nleft + 1 /\ fast_pop_thresh' = MinThresh
      /\ lent' = [popped |-> TRUE, vain |-> lent.vain + 1]
      /\ fasthash' = fasthash /\ cm' = cm /\ d' = d /\ count' = count /\ last' = last
  BY DEF PopInVain
<1>3. nleft \in Nat /\ Cardinality(DOMAIN d) + nleft = Thresh + lent.vain /\ lent.vain \in Nat
  BY <1>1 DEF PSetSound, Capacity, Sketch
<1>4. Cardinality(DOMAIN d) = 0 /\ IsFiniteSet(DOMAIN d)
  BY <1>2, FS_EmptySet
<1>5. Capacity'
  BY <1>2, <1>3, <1>4 DEF Capacity, PSetAssumption
<1>6. PSetSound'
  BY <1>2, <1>5 DEF PSetSound, RoomIsUsed, Outside, PSetAssumption
<1>7. lent' \in [popped : BOOLEAN, vain : Nat]
  BY <1>2, <1>3
<1>8. Sketch'
  BY <1>1, <1>2, <1>7 DEF Sketch, CellsCount, Cell
<1> QED
  BY <1>6, <1>8, PSetInvPartsNext

\* Every step keeps the invariant.
LEMMA StepInv == ASSUME PSetAssumption, PSetInv, [PSetNext]_psvars PROVE PSetInv'
<1>1. CASE UNCHANGED psvars
  BY <1>1 DEF psvars, pset, PSetInv, PSetTypes, Capacity, RoomIsUsed, CellsCount, Inside,
     Outside, Cell
<1>2. ASSUME NEW k \in Keys, Tell(k) PROVE PSetInv'
  BY <1>2, TellInv
<1>3. ASSUME NEW k \in Keys, PushBlindly(k) PROVE PSetInv'
  BY <1>3, PushBlindlyInv
<1> QED
  BY <1>1, <1>2, <1>3, PopInv, PopInVainInv, RestartInv DEF PSetNext

\* What the client counts on follows: the threshold parts the keys.
LEMMA InvSuffices == ASSUME PSetAssumption, PSetInv PROVE PopularKept
<1>1. PSetSound /\ Sketch
  BY PSetInvParts
<1>2. NeverUndercounts
  <2>1. SUFFICES ASSUME NEW k \in Keys PROVE count[k] =< Get(cm, k)
    BY DEF NeverUndercounts
  <2>2. \E i \in Rows : Get(cm, k) = cm[Cell(i, k)]
    BY <1>1, GetIsLeastRow DEF Sketch
  <2> QED
    BY <1>1, <2>2 DEF Sketch, CellsCount
<1>3. MostPopular
  <2>1. SUFFICES ASSUME NEW k \in Keys \ DOMAIN d, ~lent.popped, last[k] > MinThresh
                 PROVE  nleft = 0 /\ \A l \in DOMAIN d : last[k] =< d[l]
    BY DEF MostPopular
  <2>2. last[k] \in Nat /\ fast_pop_thresh \in Nat /\ MinThresh \in Nat /\ nleft \in Nat
    BY <1>1 DEF Sketch, PSetSound, Capacity, PSetAssumption
  <2>3. last[k] =< fast_pop_thresh
    BY <1>1, <2>1 DEF PSetSound, Outside
  <2>4. nleft = 0
    BY <1>1, <2>1, <2>2, <2>3 DEF PSetSound, RoomIsUsed
  <2>5. \A l \in DOMAIN d : d[l] \in Nat /\ fast_pop_thresh =< d[l]
    BY <1>1 DEF PSetSound
  <2> QED
    BY <2>2, <2>3, <2>4, <2>5
<1> QED
  BY <1>1, <1>2, <1>3 DEF PSetSound, PopularKept

\* The popularity set counts its room, uses it, and holds no key less popular than
\* one it turned away or pushed out, by counts that are never too small: for any
\* number of keys, rows and counters, any threshold and any room.
THEOREM MostPopularKept == PSetAssumption => (PSetSpec => []PopularKept)
<1> SUFFICES ASSUME PSetAssumption PROVE PSetSpec => []PopularKept
  OBVIOUS
<1>1. Start => PSetInv
  BY StartInv
<1>2. PSetInv /\ [PSetNext]_psvars => PSetInv'
  BY StepInv
<1>3. PSetInv => PopularKept
  BY InvSuffices
<1> QED
  BY <1>1, <1>2, <1>3, PTL DEF PSetSpec

-----------------------------------------------------------------------------
(* The arena *)

\* A well-formed context: one entry of the array per chunk, room in the array
\* for the next one, and no chunk smaller than chunksz.
Context(p) ==
    /\ p \in [arenasz : Nat, current_chunk : Nat, last_chunk : Nat,
              current_pos : 0..ChunkSz, arena : {p.arena}]
    /\ p.arenasz % Word = 0
    /\ (LastChunk(p) + 1) * Word <= p.arenasz
    /\ p.arena \in [0..LastChunk(p) -> Nat]
    /\ \A i \in 0..LastChunk(p) : p.arena[i] >= ChunkSz

\* The blocks of a round fill the chunks in order: none lies beyond the
\* position in the current chunk.
Filled ==
    \A b \in blocks :
        /\ b \in [chunk : Nat, off : Nat, len : Nat]
        /\ b.chunk <= mpool.current_chunk
        /\ b.chunk = mpool.current_chunk => End(b) <= mpool.current_pos

IInv ==
    \/ st = "ok" /\ Context(mpool) /\ Filled /\ Disjoint /\ InBounds
    \/ st = "fini" /\ blocks = {} /\ TypeOK /\ ArenaExact

\* The rounding of mpool_malloc never gives less than was asked for.
LEMMA RoundUpLarger == \A sz \in Nat : RoundUp(sz) \in Nat /\ RoundUp(sz) >= sz
  BY DEF RoundUp

\* Doubling the array when entry c is the first it lacks makes room for it.
LEMMA Doubling ==
    ASSUME NEW n \in Nat, NEW c \in Nat, c > 0, n % 8 = 0, c * 8 <= n
    PROVE  /\ (n * 2) % 8 = 0
           /\ c * 8 = n => (c + 1) * 8 <= n * 2
           /\ c * 8 # n => (c + 1) * 8 <= n
  <1>1. PICK k \in Nat : n = 8 * k
    <2>1. n = 8 * (n \div 8) + (n % 8) /\ n \div 8 \in Nat
      OBVIOUS
    <2> QED  BY <2>1
  <1>2. (n * 2) % 8 = 0
    <2>1. n * 2 = 8 * (2 * k)
      BY <1>1
    <2>2. \A j \in Nat : (8 * j) % 8 = 0
      OBVIOUS
    <2> QED  BY <2>1, <2>2
  <1> QED
    BY <1>1, <1>2

\* new_chunk moves on by one chunk, at its start, and keeps the context well
\* formed; a chunk it gets from malloc has the size asked for.
LEMMA NewChunkContext ==
    ASSUME NEW p, Context(p), NEW sz \in Nat, sz >= ChunkSz
    PROVE  LET q == NewChunk(p, sz) IN
           /\ Context(q)
           /\ q.current_chunk = p.current_chunk + 1
           /\ q.current_pos = 0
           /\ q.last_chunk = p.last_chunk
           /\ DOMAIN p.arena \subseteq DOMAIN q.arena
           /\ \A i \in DOMAIN p.arena : q.arena[i] = p.arena[i]
           /\ p.current_chunk >= p.last_chunk => q.arena[q.current_chunk] = sz
  <1> DEFINE q == NewChunk(p, sz)
             cur == p.current_chunk + 1
  <1> USE MPoolAssumption
  <1>1. CASE p.current_chunk >= p.last_chunk
    <2>1. /\ q.current_chunk = cur /\ q.current_pos = 0 /\ q.last_chunk = p.last_chunk
          /\ q.arenasz = IF cur * Word = p.arenasz THEN p.arenasz * 2 ELSE p.arenasz
          /\ q.arena = [i \in 0..cur |-> IF i = cur THEN sz ELSE p.arena[i]]
      BY <1>1 DEF NewChunk
    <2>2. LastChunk(p) = p.current_chunk /\ LastChunk(q) = cur
      BY <1>1, <2>1 DEF Context, LastChunk
    <2>3. /\ q.arenasz \in Nat /\ q.arenasz % Word = 0
          /\ (LastChunk(q) + 1) * Word <= q.arenasz
      <3>1. /\ p.arenasz \in Nat /\ p.arenasz % 8 = 0 /\ cur \in Nat /\ cur > 0
            /\ cur * 8 <= p.arenasz
        BY <2>2 DEF Context, Word
      <3>2. /\ (p.arenasz * 2) % 8 = 0
            /\ cur * 8 = p.arenasz => (cur + 1) * 8 <= p.arenasz * 2
            /\ cur * 8 # p.arenasz => (cur + 1) * 8 <= p.arenasz
        BY <3>1, Doubling
      <3>3. CASE cur * Word = p.arenasz
        BY <2>1, <2>2, <3>1, <3>2, <3>3 DEF Word
      <3>4. CASE cur * Word # p.arenasz
        BY <2>1, <2>2, <3>1, <3>2, <3>4 DEF Word
      <3> QED  BY <3>3, <3>4
    <2>4. /\ q.arena \in [0..LastChunk(q) -> Nat]
          /\ \A i \in 0..LastChunk(q) : q.arena[i] >= ChunkSz
      BY <2>1, <2>2 DEF Context
    <2>5. q \in [arenasz : Nat, current_chunk : Nat, last_chunk : Nat,
                 current_pos : 0..ChunkSz, arena : {q.arena}]
      <3> HIDE DEF q
      <3>1. q = [arenasz |-> q.arenasz, current_chunk |-> q.current_chunk,
                 last_chunk |-> q.last_chunk, current_pos |-> q.current_pos,
                 arena |-> q.arena]
        BY DEF NewChunk, q
      <3>2. cur \in Nat /\ p.last_chunk \in Nat /\ 0 \in 0..ChunkSz
        BY DEF Context
      <3> QED  BY <2>1, <2>3, <3>1, <3>2
    <2>6. Context(q)
      <3> HIDE DEF q
      <3> QED  BY <2>3, <2>4, <2>5 DEF Context
    <2> QED
      <3>1. Context(q) /\ q.current_chunk = cur /\ q.current_pos = 0
        BY <2>1, <2>6
      <3>2. q.arena[cur] = sz /\ DOMAIN q.arena = 0..cur /\ DOMAIN p.arena = 0..p.current_chunk
        BY <2>1, <2>2 DEF Context
      <3>3. \A i \in DOMAIN p.arena : i \in 0..cur /\ i # cur
        BY <2>1, <3>2 DEF Context
      <3> QED
        BY <1>1, <2>1, <3>1, <3>2, <3>3, SMTT(30)
  <1>2. CASE ~(p.current_chunk >= p.last_chunk)
    <2>1. /\ q.current_chunk = cur /\ q.current_pos = 0 /\ q.last_chunk = p.last_chunk
          /\ q.arenasz = p.arenasz
          /\ q.arena = p.arena
      BY <1>2 DEF NewChunk
    <2>2. LastChunk(q) = LastChunk(p)
      BY <1>2, <2>1 DEF Context, LastChunk
    <2>3. q \in [arenasz : Nat, current_chunk : Nat, last_chunk : Nat,
                 current_pos : 0..ChunkSz, arena : {q.arena}]
      <3> HIDE DEF q
      <3>1. q = [arenasz |-> q.arenasz, current_chunk |-> q.current_chunk,
                 last_chunk |-> q.last_chunk, current_pos |-> q.current_pos,
                 arena |-> q.arena]
        BY DEF NewChunk, q
      <3>2. cur \in Nat /\ p.last_chunk \in Nat /\ p.arenasz \in Nat /\ 0 \in 0..ChunkSz
        BY DEF Context
      <3> QED  BY <2>1, <3>1, <3>2
    <2>4. Context(q)
      <3> HIDE DEF q
      <3> QED  BY <2>1, <2>2, <2>3 DEF Context
    <2> QED
      BY <1>2, <2>1, <2>4
  <1> QED
    BY <1>1, <1>2

\* A block placed past all blocks of the round overlaps none of them.
LEMMA FreshBlock ==
    ASSUME Filled, Disjoint, NEW c \in Nat, NEW off \in Nat, NEW len \in Nat,
           c > mpool.current_chunk \/ (c = mpool.current_chunk /\ off >= mpool.current_pos),
           mpool.current_chunk \in Nat, mpool.current_pos \in Nat,
           blocks' = blocks \cup {Block(c, off, len)}
    PROVE  Disjoint'
  <1> SUFFICES ASSUME NEW a \in blocks', NEW b \in blocks', a # b, a.chunk = b.chunk
               PROVE  End(a) <= b.off \/ End(b) <= a.off
    BY DEF Disjoint
  <1> DEFINE new == Block(c, off, len)
  <1>1. CASE a \in blocks /\ b \in blocks
    BY <1>1 DEF Disjoint
  <1>2. CASE a \in blocks /\ b = new
    BY <1>2 DEF Filled, Block, End, Header
  <1>3. CASE b \in blocks /\ a = new
    BY <1>3 DEF Filled, Block, End, Header
  <1> QED
    BY <1>1, <1>2, <1>3

LEMMA MallocBigInv ==
    ASSUME IInv, st = "ok", NEW sz \in Requests, MallocBig(sz), UNCHANGED st
    PROVE  IInv'
  <1> USE MPoolAssumption
  <1> DEFINE len == RoundUp(sz)
             p == NewChunk(mpool, len + Header)
             q == NewChunk(p, ChunkSz)
             new == Block(p.current_chunk, 0, len)
  <1>1. len \in Nat /\ len + Header > ChunkSz /\ len + Header \in Nat
    BY RoundUpLarger DEF MallocBig, Header
  <1>2. Context(mpool) /\ Filled /\ Disjoint /\ InBounds
    BY DEF IInv
  <1>3. mpool' = q /\ blocks' = blocks \cup {new}
    BY DEF MallocBig
  <1>4. /\ Context(p) /\ p.current_chunk = mpool.current_chunk + 1
        /\ p.last_chunk = mpool.last_chunk
        /\ DOMAIN mpool.arena \subseteq DOMAIN p.arena
        /\ \A i \in DOMAIN mpool.arena : p.arena[i] = mpool.arena[i]
        /\ mpool.current_chunk >= mpool.last_chunk =>
              p.arena[p.current_chunk] = len + Header
    BY <1>1, <1>2, NewChunkContext
  <1>5. /\ Context(q) /\ q.current_chunk = p.current_chunk + 1
        /\ q.last_chunk = p.last_chunk
        /\ DOMAIN p.arena \subseteq DOMAIN q.arena
        /\ \A i \in DOMAIN p.arena : q.arena[i] = p.arena[i]
    BY <1>4, NewChunkContext
  <1>6. /\ mpool.current_chunk \in Nat /\ mpool.last_chunk \in Nat
        /\ mpool.current_pos \in Nat
        /\ p.current_chunk \in Nat /\ p.current_chunk \in DOMAIN p.arena
        /\ 0..mpool.current_chunk \subseteq DOMAIN mpool.arena
    BY <1>2, <1>4, SMTT(30) DEF Context, LastChunk
  <1>7. Filled'
    BY <1>1, <1>2, <1>3, <1>4, <1>5, <1>6 DEF Filled, Block
  <1>8. Disjoint'
    BY <1>1, <1>2, <1>3, <1>4, <1>6, FreshBlock
  <1>9. InBounds'
    <2> SUFFICES ASSUME NEW b \in blocks'
                 PROVE  \/ End(b) <= q.arena[b.chunk]
                        \/ b.len + Header > ChunkSz /\ b.chunk <= q.last_chunk
      BY <1>3 DEF InBounds
    <2>1. CASE b \in blocks
      <3>1. b.chunk \in DOMAIN mpool.arena
        BY <1>2, <1>6, <2>1 DEF Filled
      <3>2. q.arena[b.chunk] = mpool.arena[b.chunk]
        BY <1>4, <1>5, <3>1
      <3> QED
        BY <1>2, <1>4, <1>5, <2>1, <3>2 DEF InBounds
    <2>2. CASE b = new
      <3>1. b.chunk = p.current_chunk /\ End(b) = len + Header /\ b.len = len
        BY <1>1, <2>2 DEF Block, End, Header
      <3>2. CASE mpool.current_chunk >= mpool.last_chunk
        BY <1>1, <1>4, <1>5, <1>6, <3>1, <3>2
      <3>3. CASE ~(mpool.current_chunk >= mpool.last_chunk)
        BY <1>1, <1>4, <1>5, <1>6, <3>1, <3>3
      <3> QED
        BY <3>2, <3>3
    <2> QED
      BY <1>3, <2>1, <2>2
  <1> QED
    BY <1>3, <1>5, <1>7, <1>8, <1>9 DEF IInv

LEMMA MallocSmallInv ==
    ASSUME IInv, st = "ok", NEW sz \in Requests, MallocSmall(sz), UNCHANGED st
    PROVE  IInv'
  <1> USE MPoolAssumption
  <1> DEFINE len == RoundUp(sz)
             fits == ChunkSz - mpool.current_pos >= len + Header
             p == IF fits THEN mpool ELSE NewChunk(mpool, ChunkSz)
             q == [p EXCEPT !.current_pos = @ + len + Header]
             new == Block(p.current_chunk, p.current_pos, len)
  <1>1. len \in Nat /\ len + Header <= ChunkSz
    BY RoundUpLarger DEF MallocSmall
  <1>2. Context(mpool) /\ Filled /\ Disjoint /\ InBounds
    BY DEF IInv
  <1>3. mpool' = q /\ blocks' = blocks \cup {new}
    BY DEF MallocSmall
  <1>4. /\ Context(p)
        /\ p.last_chunk = mpool.last_chunk
        /\ DOMAIN mpool.arena \subseteq DOMAIN p.arena
        /\ \A i \in DOMAIN mpool.arena : p.arena[i] = mpool.arena[i]
        /\ p.current_pos + len + Header <= ChunkSz
        /\ \/ p.current_chunk = mpool.current_chunk /\ p.current_pos = mpool.current_pos
           \/ p.current_chunk = mpool.current_chunk + 1 /\ p.current_pos = 0
    <2>1. CASE fits
      BY <1>1, <1>2, <2>1 DEF Context, Header
    <2>2. CASE ~fits
      <3>1. p = NewChunk(mpool, ChunkSz)
        BY <2>2
      <3>2. /\ Context(p) /\ p.current_chunk = mpool.current_chunk + 1
            /\ p.current_pos = 0 /\ p.last_chunk = mpool.last_chunk
            /\ DOMAIN mpool.arena \subseteq DOMAIN p.arena
            /\ \A i \in DOMAIN mpool.arena : p.arena[i] = mpool.arena[i]
        BY <1>2, <3>1, NewChunkContext
      <3> QED
        BY <1>1, <3>2 DEF Header
    <2> QED
      BY <2>1, <2>2
  <1>5. /\ q.arenasz = p.arenasz /\ q.current_chunk = p.current_chunk
        /\ q.last_chunk = p.last_chunk /\ q.arena = p.arena
        /\ q.current_pos = p.current_pos + len + Header
        /\ q.current_pos \in 0..ChunkSz
        /\ LastChunk(q) = LastChunk(p)
    <2>1. /\ q.arenasz = p.arenasz /\ q.current_chunk = p.current_chunk
          /\ q.last_chunk = p.last_chunk /\ q.arena = p.arena
          /\ q.current_pos = p.current_pos + len + Header
      BY <1>4 DEF Context
    <2>2. p.current_pos \in Nat
      BY <1>4 DEF Context
    <2>3. q.current_pos \in 0..ChunkSz
      BY <1>1, <1>4, <2>1, <2>2 DEF Header
    <2> QED  BY <2>1, <2>3 DEF LastChunk
  <1>6. Context(q)
    BY <1>4, <1>5 DEF Context
  <1>7. /\ mpool.current_chunk \in Nat /\ mpool.last_chunk \in Nat
        /\ mpool.current_pos \in Nat
        /\ p.current_chunk \in Nat /\ p.current_pos \in Nat
        /\ p.current_chunk \in DOMAIN p.arena
        /\ 0..mpool.current_chunk \subseteq DOMAIN mpool.arena
    BY <1>2, <1>4, SMTT(30) DEF Context, LastChunk
  <1>8. Filled'
    <2> SUFFICES ASSUME NEW b \in blocks'
                 PROVE  /\ b \in [chunk : Nat, off : Nat, len : Nat]
                        /\ b.chunk <= q.current_chunk
                        /\ b.chunk = q.current_chunk => End(b) <= q.current_pos
      BY <1>3 DEF Filled
    <2>1. CASE b \in blocks
      BY <1>1, <1>2, <1>4, <1>5, <1>7, <2>1 DEF Filled, End, Header
    <2>2. CASE b = new
      BY <1>1, <1>5, <1>7, <2>2 DEF Block, End, Header
    <2> QED
      BY <1>3, <2>1, <2>2
  <1>9. Disjoint'
    BY <1>1, <1>2, <1>3, <1>4, <1>7, FreshBlock
  <1>10. InBounds'
    <2> SUFFICES ASSUME NEW b \in blocks'
                 PROVE  \/ End(b) <= q.arena[b.chunk]
                        \/ b.len + Header > ChunkSz /\ b.chunk <= q.last_chunk
      BY <1>3 DEF InBounds
    <2>1. CASE b \in blocks
      <3>1. b.chunk \in DOMAIN mpool.arena
        BY <1>2, <1>7, <2>1 DEF Filled
      <3> QED
        BY <1>2, <1>4, <1>5, <2>1, <3>1 DEF InBounds
    <2>2. CASE b = new
      <3>1. b.chunk = p.current_chunk /\ End(b) = p.current_pos + Header + len
        BY <2>2 DEF Block, End
      <3>2. p.arena[p.current_chunk] >= ChunkSz /\ p.arena[p.current_chunk] \in Nat
        BY <1>4, <1>7 DEF Context
      <3> QED
        BY <1>1, <1>4, <1>5, <1>7, <3>1, <3>2 DEF Header
    <2> QED
      BY <1>3, <2>1, <2>2
  <1> QED
    BY <1>3, <1>6, <1>8, <1>9, <1>10 DEF IInv

LEMMA ResetInv == ASSUME IInv, Reset PROVE IInv'
  <1>1. Context(mpool) /\ st' = "ok" /\ blocks' = {}
    BY DEF IInv, Reset
  <1>2. /\ mpool'.arenasz = mpool.arenasz /\ mpool'.arena = mpool.arena
        /\ mpool'.last_chunk = LastChunk(mpool)
        /\ mpool'.current_chunk = 0 /\ mpool'.current_pos = 0
    BY <1>1 DEF Reset, Context
  <1>3. LastChunk(mpool) \in Nat /\ LastChunk(mpool') = LastChunk(mpool)
    BY <1>1, <1>2 DEF Context, LastChunk
  <1>4. mpool' \in [arenasz : Nat, current_chunk : Nat, last_chunk : Nat,
                    current_pos : 0..ChunkSz, arena : {mpool'.arena}]
    <2>1. mpool' = [mpool EXCEPT !.last_chunk = LastChunk(mpool),
                                 !.current_chunk = 0, !.current_pos = 0]
      BY DEF Reset
    <2>2. mpool \in [arenasz : Nat, current_chunk : Nat, last_chunk : Nat,
                     current_pos : 0..ChunkSz, arena : {mpool.arena}]
      BY <1>1 DEF Context
    <2>3. 0 \in 0..ChunkSz
      BY MPoolAssumption
    <2> QED  BY <1>2, <1>3, <2>1, <2>2, <2>3
  <1>5. Context(mpool')
    BY <1>1, <1>2, <1>3, <1>4 DEF Context
  <1> QED
    BY <1>1, <1>5 DEF IInv, Filled, Disjoint, InBounds

LEMMA FiniInv == ASSUME IInv, Fini PROVE IInv'
  <1>1. Context(mpool) /\ st' = "fini" /\ blocks' = {}
    BY DEF IInv, Fini
  <1>2. /\ mpool'.arenasz = mpool.arenasz
        /\ mpool'.last_chunk = LastChunk(mpool)
        /\ mpool'.current_chunk = mpool.current_chunk
        /\ mpool'.current_pos = mpool.current_pos
        /\ DOMAIN mpool'.arena = {}
    BY <1>1 DEF Fini, Context
  <1>3. LastChunk(mpool) \in Nat /\ LastChunk(mpool') = LastChunk(mpool)
    BY <1>1, <1>2 DEF Context, LastChunk
  <1>4. mpool'.arena \in [DOMAIN mpool'.arena -> Nat]
    BY <1>1, <1>2 DEF Fini, Context
  <1>5. TypeOK'
    BY <1>1, <1>2, <1>3, <1>4 DEF TypeOK, Context, Fini
  <1>6. ArenaExact'
    BY <1>1, <1>2, <1>3 DEF ArenaExact, Context
  <1> QED
    BY <1>1, <1>5, <1>6 DEF IInv

LEMMA NewContextInv ==
    ASSUME mpool = NewContext, blocks = {}, st = "ok" PROVE IInv
  <1>1. Context(NewContext)
    BY MPoolAssumption DEF NewContext, Context, LastChunk, Word
  <1> QED
    BY <1>1 DEF IInv, Filled, Disjoint, InBounds

\* The strengthened invariant is inductive.
LEMMA Inductive == IInv /\ [Next]_vars => IInv'
  <1> SUFFICES ASSUME IInv, [Next]_vars PROVE IInv'
    OBVIOUS
  <1>1. ASSUME NEW sz \in Requests, Malloc(sz) PROVE IInv'
    BY <1>1, MallocBigInv, MallocSmallInv DEF Malloc
  <1>2. ASSUME NEW b \in blocks, NEW sz \in Requests, Reallocate(b, sz) PROVE IInv'
    BY <1>1, <1>2 DEF Reallocate
  <1>3. CASE Reset
    BY <1>3, ResetInv
  <1>4. CASE Fini
    BY <1>4, FiniInv
  <1>5. CASE CtxInit
    <2>1. mpool' = NewContext /\ blocks' = {} /\ st' = "ok"
      BY <1>5 DEF CtxInit
    <2>2. Context(NewContext)
      BY MPoolAssumption DEF NewContext, Context, LastChunk, Word
    <2> QED
      BY <2>1, <2>2 DEF IInv, Filled, Disjoint, InBounds
  <1>6. CASE UNCHANGED vars
    BY <1>6 DEF vars, IInv, Context, Filled, Disjoint, InBounds, TypeOK, ArenaExact
  <1> QED
    BY <1>1, <1>2, <1>3, <1>4, <1>5, <1>6 DEF Next

\* It implies what the runs check.
LEMMA Implied == IInv => TypeOK /\ ArenaExact /\ Disjoint /\ InBounds
  <1> SUFFICES ASSUME IInv PROVE TypeOK /\ ArenaExact /\ Disjoint /\ InBounds
    OBVIOUS
  <1>1. CASE st = "ok" /\ Context(mpool) /\ Filled /\ Disjoint /\ InBounds
    <2>1. TypeOK
      BY <1>1 DEF TypeOK, Context, Filled
    <2>2. ArenaExact
      BY <1>1 DEF ArenaExact, Context
    <2> QED
      BY <1>1, <2>1, <2>2
  <1>2. CASE st = "fini" /\ blocks = {} /\ TypeOK /\ ArenaExact
    BY <1>2 DEF Disjoint, InBounds
  <1> QED
    BY <1>1, <1>2 DEF IInv

LEMMA Invariance == Spec => []IInv
  <1>1. Init => IInv
    BY NewContextInv DEF Init
  <1> QED
    BY <1>1, Inductive, PTL DEF Spec

\* mpool.c keeps its counters in range for every chunk size: the room left in
\* a chunk never wraps around.
THEOREM TypeCorrect == Spec => []TypeOK
  BY Invariance, Implied, PTL

\* mpool_ctx_fini frees every chunk once, and the array never overflows.
THEOREM ArenaIsExact == Spec => []ArenaExact
  BY Invariance, Implied, PTL

\* mpool_malloc never hands out memory that overlaps what it has handed out
\* since the last reset, nor memory past the end of its chunk, big items in recycled
\* chunks apart; and the position stays in the chunk, so that the room left in it
\* never wraps.
THEOREM BlocksAreSound == Spec => []BlocksSound
  <1>1. IInv => BlocksSound
    BY Implied DEF BlocksSound
  <1> QED
    BY <1>1, Invariance, PTL

\* What a malloc'd chunk adds to the array: nothing while a recycled chunk is
\* left, otherwise an entry behind the ones that were there.
LEMMA ChunkAdded ==
    ASSUME NEW p, Context(p), NEW sz \in Nat, sz >= ChunkSz
    PROVE  LET q == NewChunk(p, sz) IN
           q.arena # p.arena => q.current_chunk > p.last_chunk
  <1> DEFINE q == NewChunk(p, sz)
  <1>1. q.current_chunk = p.current_chunk + 1
    BY NewChunkContext
  <1>2. q.arena # p.arena => p.current_chunk + 1 > p.last_chunk
    BY DEF NewChunk, Context
  <1> HIDE DEF q
  <1> QED
    BY ONLY <1>1, <1>2 DEF q

LEMMA RecycledFirstStep ==
    ASSUME IInv, [Next]_vars, st = "ok", st' = "ok", mpool'.arena # mpool.arena
    PROVE  /\ mpool'.current_chunk > mpool.last_chunk
           /\ \A i \in DOMAIN mpool.arena : mpool'.arena[i] = mpool.arena[i]
  <1> USE MPoolAssumption
  <1> DEFINE Goal == /\ mpool'.current_chunk > mpool.last_chunk
                     /\ \A i \in DOMAIN mpool.arena : mpool'.arena[i] = mpool.arena[i]
  <1>1. Context(mpool)
    BY DEF IInv
  <1>2. ASSUME NEW sz \in Requests, MallocBig(sz) PROVE Goal
    <2> DEFINE len == RoundUp(sz)
               p == NewChunk(mpool, len + Header)
               q == NewChunk(p, ChunkSz)
    <2>1. len + Header \in Nat /\ len + Header >= ChunkSz /\ mpool' = q
      BY <1>2, RoundUpLarger DEF MallocBig, Header
    <2>2. /\ Context(p) /\ p.last_chunk = mpool.last_chunk
          /\ p.current_chunk = mpool.current_chunk + 1
          /\ DOMAIN mpool.arena \subseteq DOMAIN p.arena
          /\ \A i \in DOMAIN mpool.arena : p.arena[i] = mpool.arena[i]
          /\ p.arena # mpool.arena => p.current_chunk > mpool.last_chunk
      BY <1>1, <2>1, NewChunkContext, ChunkAdded
    <2>3. /\ q.current_chunk = p.current_chunk + 1
          /\ \A i \in DOMAIN p.arena : q.arena[i] = p.arena[i]
          /\ q.arena # p.arena => q.current_chunk > p.last_chunk
      BY <2>2, NewChunkContext, ChunkAdded
    <2> HIDE DEF p, q
    <2>4. p.current_chunk \in Nat /\ mpool.last_chunk \in Nat
      BY <1>1, <2>2 DEF Context
    <2> QED  BY <2>1, <2>2, <2>3, <2>4
  <1>3. ASSUME NEW sz \in Requests, MallocSmall(sz) PROVE Goal
    <2> DEFINE len == RoundUp(sz)
               q == NewChunk(mpool, ChunkSz)
    <2>1. CASE ChunkSz - mpool.current_pos >= len + Header
      <3>1. mpool' = [mpool EXCEPT !.current_pos = @ + len + Header]
        BY <1>3, <2>1 DEF MallocSmall
      <3>2. mpool'.arena = mpool.arena
        BY <1>1, <3>1 DEF Context
      <3> QED  BY <3>2
    <2>2. CASE ~(ChunkSz - mpool.current_pos >= len + Header)
      <3>1. mpool' = [q EXCEPT !.current_pos = @ + len + Header]
        BY <1>3, <2>2 DEF MallocSmall
      <3>2. /\ Context(q)
            /\ \A i \in DOMAIN mpool.arena : q.arena[i] = mpool.arena[i]
            /\ q.arena # mpool.arena => q.current_chunk > mpool.last_chunk
        BY <1>1, NewChunkContext, ChunkAdded
      <3>3. mpool'.arena = q.arena /\ mpool'.current_chunk = q.current_chunk
        BY <3>1, <3>2 DEF Context
      <3> QED  BY <3>2, <3>3
    <2> QED  BY <2>1, <2>2
  <1>4. ASSUME NEW sz \in Requests, Malloc(sz) PROVE Goal
    BY <1>2, <1>3, <1>4 DEF Malloc
  <1>5. ASSUME NEW b \in blocks, NEW sz \in Requests, Reallocate(b, sz) PROVE Goal
    BY <1>4, <1>5 DEF Reallocate
  <1>6. CASE Reset
    BY <1>1, <1>6 DEF Reset, Context
  <1>7. ~Fini /\ ~CtxInit
    BY DEF Fini, CtxInit
  <1>8. CASE UNCHANGED vars
    BY <1>8 DEF vars
  <1> QED
    BY <1>4, <1>5, <1>6, <1>7, <1>8 DEF Next

\* mpool_malloc takes memory from malloc only behind the last recycled chunk,
\* and no step but mpool_ctx_fini and mpool_ctx_init gives a chunk up.
THEOREM RecyclesFirst == Spec => RecycledFirst
  <1>1. IInv /\ [Next]_vars =>
          [st = "ok" /\ st' = "ok" /\ mpool'.arena # mpool.arena =>
             /\ mpool'.current_chunk > mpool.last_chunk
             /\ \A i \in DOMAIN mpool.arena : mpool'.arena[i] = mpool.arena[i]]_vars
    BY RecycledFirstStep
  <1> QED
    BY <1>1, Invariance, PTL DEF Spec, RecycledFirst
=============================================================================
