----------------------------- MODULE QueueProofs -----------------------------
(***************************************************************************)
(* Proofs about the queues of dtqueue.h and of stqueue.h, for any number   *)
(* of queues and entries, about the ring of ring.c, of any size, and about *)
(* the lists of list.c, for any number of lists and of cells.              *)
(***************************************************************************)
EXTENDS MCQueues, SequenceTheorems, FiniteSetTheorems, TLAPS

-----------------------------------------------------------------------------
(* The doubly-linked queues *)

\* WellLinked and Counted for one queue.
Linked(q) ==
    LET s == order[q]
    IN  /\ s # <<>> => dtq_head[q] = s[1] /\ dtq_tail[q] = s[Len(s)]
        /\ \A i \in 1..Len(s) :
             /\ dtq_next[s[i]] = IF i = Len(s) THEN Null ELSE s[i + 1]
             /\ dtq_prev[s[i]] = IF i = 1 THEN Null ELSE s[i - 1]
        /\ nelems[q] = Len(s)
        /\ ~Drained(q) => (Empty(q) <=> s = <<>>)
        /\ Drained(q) => s = <<>>

\* The variables have their types, and no two places hold the same entry.
Typed ==
    /\ dtq_head \in [Queues -> Entries \cup {Null}]
    /\ dtq_tail \in [Queues -> Entries \cup {Null}]
    /\ nelems \in [Queues -> Nat]
    /\ dtq_next \in [Entries -> Entries \cup {Null}]
    /\ dtq_prev \in [Entries -> Entries \cup {Null}]
    /\ order \in [Queues -> Seq(Entries)]
Unique ==
    \A p, q \in Queues : \A i \in 1..Len(order[p]), j \in 1..Len(order[q]) :
      order[p][i] = order[q][j] => p = q /\ i = j

IInv == Typed /\ Unique /\ \A q \in Queues : Linked(q)

-----------------------------------------------------------------------------
(* Sequences *)

LEMMA TailIs ==
    ASSUME NEW U, NEW s \in Seq(U), s # <<>>
    PROVE  /\ Tail(s) \in Seq(U) /\ Len(Tail(s)) = Len(s) - 1
           /\ \A i \in 1..Len(s) - 1 : Tail(s)[i] = s[i + 1]
  OBVIOUS

LEMMA SubSeqIs ==
    ASSUME NEW U, NEW s \in Seq(U), NEW m \in 1..Len(s) + 1, NEW n \in m - 1..Len(s)
    PROVE  /\ SubSeq(s, m, n) \in Seq(U)
           /\ Len(SubSeq(s, m, n)) = n - m + 1
           /\ \A i \in 1..n - m + 1 : SubSeq(s, m, n)[i] = s[m + i - 1]
  <1>1. \A i \in m..n : s[i] \in U
    OBVIOUS
  <1> QED
    BY <1>1, SubSeqProperties

LEMMA FrontIs ==
    ASSUME NEW U, NEW s \in Seq(U), s # <<>>
    PROVE  /\ Front(s) \in Seq(U) /\ Len(Front(s)) = Len(s) - 1
           /\ \A i \in 1..Len(s) - 1 : Front(s)[i] = s[i]
  <1>1. 1 \in 1..Len(s) + 1 /\ Len(s) - 1 \in 1 - 1..Len(s) /\ Len(s) \in Nat \ {0}
    OBVIOUS
  <1> DEFINE f == SubSeq(s, 1, Len(s) - 1)
  <1>2. /\ f \in Seq(U)
        /\ Len(f) = Len(s) - 1 - 1 + 1
        /\ \A i \in 1..Len(s) - 1 - 1 + 1 : f[i] = s[1 + i - 1]
    BY <1>1, SubSeqIs
  <1> HIDE DEF f
  <1>3. f \in Seq(U) /\ Len(f) = Len(s) - 1
    BY <1>1, <1>2
  <1>4. ASSUME NEW i \in 1..Len(s) - 1 PROVE f[i] = s[i]
    <2>1. i \in 1..Len(s) - 1 - 1 + 1 /\ 1 + i - 1 = i
      BY <1>1
    <2> QED  BY <1>2, <2>1
  <1> QED
    BY <1>3, <1>4 DEF Front, f

LEMMA RemoveAtIs ==
    ASSUME NEW U, NEW s \in Seq(U), NEW k \in 1..Len(s)
    PROVE  /\ RemoveAt(s, k) \in Seq(U) /\ Len(RemoveAt(s, k)) = Len(s) - 1
           /\ \A i \in 1..Len(s) - 1 :
                RemoveAt(s, k)[i] = IF i < k THEN s[i] ELSE s[i + 1]
  <1> DEFINE a == SubSeq(s, 1, k - 1)
             b == SubSeq(s, k + 1, Len(s))
  <1>1. /\ a \in Seq(U) /\ Len(a) = k - 1
        /\ \A i \in 1..k - 1 : a[i] = s[i]
    BY SubSeqIs
  <1>2. /\ b \in Seq(U) /\ Len(b) = Len(s) - k
        /\ \A i \in 1..Len(s) - k : b[i] = s[k + i]
    BY SubSeqIs
  <1> HIDE DEF a, b
  <1>3. /\ a \o b \in Seq(U) /\ Len(a \o b) = Len(s) - 1
        /\ \A i \in 1..Len(s) - 1 :
             (a \o b)[i] = IF i <= k - 1 THEN a[i] ELSE b[i - (k - 1)]
    BY <1>1, <1>2, ConcatProperties
  <1>4. \A i \in 1..Len(s) - 1 : (a \o b)[i] = IF i < k THEN s[i] ELSE s[i + 1]
    BY <1>1, <1>2, <1>3
  <1> QED
    BY <1>3, <1>4 DEF RemoveAt, a, b

LEMMA InsertAtIs ==
    ASSUME NEW U, NEW s \in Seq(U), NEW k \in 1..Len(s), NEW e \in U
    PROVE  /\ InsertAt(s, k, e) \in Seq(U) /\ Len(InsertAt(s, k, e)) = Len(s) + 1
           /\ \A i \in 1..Len(s) + 1 :
                InsertAt(s, k, e)[i] = IF i < k THEN s[i] ELSE IF i = k THEN e ELSE s[i - 1]
  <1> DEFINE a == SubSeq(s, 1, k - 1)
             b == SubSeq(s, k, Len(s))
             c == a \o <<e>>
  <1>1. /\ a \in Seq(U) /\ Len(a) = k - 1
        /\ \A i \in 1..k - 1 : a[i] = s[i]
    BY SubSeqIs
  <1>2. /\ b \in Seq(U) /\ Len(b) = Len(s) - k + 1
        /\ \A i \in 1..Len(s) - k + 1 : b[i] = s[k + i - 1]
    BY SubSeqIs
  <1> HIDE DEF a, b
  <1>3. /\ c \in Seq(U) /\ Len(c) = k
        /\ \A i \in 1..k : c[i] = IF i < k THEN a[i] ELSE e
    <2>1. <<e>> \in Seq(U) /\ Len(<<e>>) = 1 /\ <<e>>[1] = e
      OBVIOUS
    <2>2. /\ c \in Seq(U) /\ Len(c) = Len(a) + 1
          /\ \A i \in 1..Len(a) + 1 : c[i] = IF i <= Len(a) THEN a[i] ELSE <<e>>[i - Len(a)]
      BY <1>1, <2>1, ConcatProperties
    <2> HIDE DEF c
    <2>3. Len(a) + 1 = k /\ Len(a) \in Nat
      BY <1>1
    <2>4. ASSUME NEW i \in 1..k PROVE c[i] = IF i < k THEN a[i] ELSE e
      <3>1. i >= k => i - Len(a) = 1
        BY <2>3
      <3> QED  BY <2>1, <2>2, <2>3, <3>1
    <2> QED  BY <2>2, <2>3, <2>4
  <1> HIDE DEF c
  <1>4. /\ c \o b \in Seq(U) /\ Len(c \o b) = Len(s) + 1
        /\ \A i \in 1..Len(s) + 1 : (c \o b)[i] = IF i <= k THEN c[i] ELSE b[i - k]
    <2>1. /\ c \o b \in Seq(U) /\ Len(c \o b) = Len(c) + Len(b)
          /\ \A i \in 1..Len(c) + Len(b) :
               (c \o b)[i] = IF i <= Len(c) THEN c[i] ELSE b[i - Len(c)]
      BY <1>2, <1>3, ConcatProperties
    <2>2. Len(c) + Len(b) = Len(s) + 1 /\ Len(c) = k
      BY <1>2, <1>3
    <2> QED  BY <2>1, <2>2
  <1>5. \A i \in 1..Len(s) + 1 :
          (c \o b)[i] = IF i < k THEN s[i] ELSE IF i = k THEN e ELSE s[i - 1]
    BY <1>1, <1>2, <1>3, <1>4, SMTT(30)
  <1> QED
    BY <1>4, <1>5 DEF InsertAt, a, b, c

\* The place of an entry is one where it stands.
LEMMA PlaceIs ==
    ASSUME Typed, NEW q \in Queues, NEW e \in Range(order[q])
    PROVE  Place(q, e) \in 1..Len(order[q]) /\ order[q][Place(q, e)] = e
  BY DEF Place, Range, Typed

-----------------------------------------------------------------------------
\* A step that changes queue q and the links of entries that no other queue
\* holds keeps the invariant, if q ends up linked.
LEMMA StepInv ==
    ASSUME IInv, NEW q \in Queues, NEW t \in Seq(Entries),
           order' = [order EXCEPT ![q] = t],
           \A i, j \in 1..Len(t) : t[i] = t[j] => i = j,
           \A i \in 1..Len(t) : t[i] \in Range(order[q]) \/ ~Member(t[i]),
           dtq_head' \in [Queues -> Entries \cup {Null}],
           dtq_tail' \in [Queues -> Entries \cup {Null}],
           nelems' \in [Queues -> Nat],
           dtq_next' \in [Entries -> Entries \cup {Null}],
           dtq_prev' \in [Entries -> Entries \cup {Null}],
           \A p \in Queues \ {q} : /\ dtq_head'[p] = dtq_head[p]
                                   /\ dtq_tail'[p] = dtq_tail[p]
                                   /\ nelems'[p] = nelems[p],
           \A p \in Queues \ {q} : \A x \in Range(order[p]) :
              dtq_next'[x] = dtq_next[x] /\ dtq_prev'[x] = dtq_prev[x],
           Linked(q)'
    PROVE  IInv'
  <1>1. order \in [Queues -> Seq(Entries)] /\ Unique /\ \A p \in Queues : Linked(p)
    BY DEF IInv, Typed
  <1>2. order' \in [Queues -> Seq(Entries)] /\ order'[q] = t
        /\ \A p \in Queues \ {q} : order'[p] = order[p]
    BY <1>1
  <1>3. Typed'
    BY <1>2 DEF Typed
  <1>4. \A p \in Queues \ {q} : \A i \in 1..Len(t), j \in 1..Len(order[p]) : t[i] # order[p][j]
    <2> SUFFICES ASSUME NEW p \in Queues \ {q}, NEW i \in 1..Len(t), NEW j \in 1..Len(order[p]),
                        t[i] = order[p][j]
                 PROVE  FALSE
      OBVIOUS
    <2>1. t[i] \in Range(order[p])
      BY <1>1 DEF Range
    <2>2. t[i] \in Range(order[q])
      BY <2>1 DEF Member
    <2>3. PICK k \in 1..Len(order[q]) : order[q][k] = order[p][j]
      <3>1. DOMAIN order[q] = 1..Len(order[q])
        BY <1>1
      <3>2. order[p][j] \in { order[q][x] : x \in 1..Len(order[q]) }
        BY <2>2, <3>1 DEF Range
      <3> QED  BY <3>2
    <2> QED  BY <1>1, <2>3 DEF Unique
  <1>5. Unique'
    <2> SUFFICES ASSUME NEW p \in Queues, NEW r \in Queues,
                        NEW i \in 1..Len(order'[p]), NEW j \in 1..Len(order'[r]),
                        order'[p][i] = order'[r][j]
                 PROVE  p = r /\ i = j
      BY DEF Unique
    <2>1. CASE p = q /\ r = q
      BY <1>2, <2>1
    <2>2. CASE p # q /\ r # q
      BY <1>1, <1>2, <2>2 DEF Unique
    <2>3. CASE p = q /\ r # q
      BY <1>2, <1>4, <2>3
    <2>4. CASE p # q /\ r = q
      BY <1>2, <1>4, <2>4
    <2> QED  BY <2>1, <2>2, <2>3, <2>4
  <1>6. ASSUME NEW p \in Queues \ {q} PROVE Linked(p)'
    <2>1. \A i \in 1..Len(order[p]) : order[p][i] \in Range(order[p])
      BY <1>1 DEF Range
    <2>2. /\ order'[p] = order[p] /\ dtq_head'[p] = dtq_head[p]
          /\ dtq_tail'[p] = dtq_tail[p] /\ nelems'[p] = nelems[p]
      BY <1>2
    <2>3. \A i \in 1..Len(order[p]) : /\ dtq_next'[order[p][i]] = dtq_next[order[p][i]]
                                      /\ dtq_prev'[order[p][i]] = dtq_prev[order[p][i]]
      BY <2>1
    <2>4. Linked(p)
      BY <1>1
    <2> QED  BY <2>2, <2>3, <2>4 DEF Linked, Drained, Empty
  <1> QED
    BY <1>3, <1>5, <1>6 DEF IInv

\* Entries of two queues differ, and so does one that is in no queue.
LEMMA Apart ==
    ASSUME IInv, NEW q \in Queues, NEW p \in Queues \ {q}, NEW x \in Range(order[p])
    PROVE  x \notin Range(order[q]) /\ Member(x) /\ x \in Entries
  <1>1. order \in [Queues -> Seq(Entries)] /\ Unique
    BY DEF IInv, Typed
  <1>2. PICK j \in 1..Len(order[p]) : order[p][j] = x
    BY <1>1 DEF Range
  <1>3. x \notin Range(order[q])
    BY <1>1, <1>2 DEF Range, Unique
  <1>4. x \in Entries
    BY <1>1, <1>2
  <1> QED
    BY <1>3, <1>4 DEF Member

\* What the invariant says of the queue at hand.
LEMMA AtHand ==
    ASSUME IInv, NEW q \in Queues
    PROVE  LET s == order[q] IN
           /\ s \in Seq(Entries) /\ Len(s) \in Nat
           /\ \A i \in 1..Len(s) : s[i] \in Range(s) /\ s[i] \in Entries /\ s[i] # Null
           /\ \A i, j \in 1..Len(s) : s[i] = s[j] => i = j
           /\ Typed /\ Linked(q)
           /\ ~Drained(q) => (dtq_head[q] = Null <=> s = <<>>) /\ (dtq_tail[q] = Null <=> s = <<>>)
  <1> DEFINE s == order[q]
  <1>1. Typed /\ Linked(q) /\ Unique
    BY DEF IInv
  <1>2. s \in Seq(Entries) /\ Len(s) \in Nat
    BY <1>1 DEF Typed
  <1>3. \A i \in 1..Len(s) : s[i] \in Range(s) /\ s[i] \in Entries /\ s[i] # Null
    BY <1>2, DTQueueAssumption DEF Range
  <1>4. \A i, j \in 1..Len(s) : s[i] = s[j] => i = j
    BY <1>1 DEF Unique
  <1>5. ~Drained(q) => (dtq_head[q] = Null <=> s = <<>>) /\ (dtq_tail[q] = Null <=> s = <<>>)
    BY <1>1 DEF Linked, Drained, Empty
  <1> QED
    BY <1>1, <1>2, <1>3, <1>4, <1>5

\* How a queue is shown to be linked after a step.
LEMMA LinkedIntro ==
    ASSUME NEW q \in Queues, NEW t \in Seq(Entries), order'[q] = t, t # <<>>,
           dtq_head'[q] = t[1], dtq_tail'[q] = t[Len(t)], nelems'[q] = Len(t),
           \A i \in 1..Len(t) :
             /\ dtq_next'[t[i]] = IF i = Len(t) THEN Null ELSE t[i + 1]
             /\ dtq_prev'[t[i]] = IF i = 1 THEN Null ELSE t[i - 1]
    PROVE  Linked(q)'
  <1>1. Len(t) \in Nat /\ Len(t) >= 1
    OBVIOUS
  <1>2. t[1] # Null /\ t[Len(t)] # Null
    BY <1>1, DTQueueAssumption
  <1>3. ~Drained(q)' /\ ~Empty(q)'
    BY <1>2 DEF Drained, Empty
  <1> QED
    BY <1>3 DEF Linked

LEMMA EmptyIntro ==
    ASSUME NEW q \in Queues, order'[q] = <<>>, nelems'[q] = 0, Drained(q)' \/ Empty(q)'
    PROVE  Linked(q)'
  <1>1. Len(<<>>) = 0
    OBVIOUS
  <1>2. Empty(q)' => ~Drained(q)'
    BY DEF Drained, Empty
  <1> QED
    BY <1>1, <1>2 DEF Linked

-----------------------------------------------------------------------------
(* One lemma per action *)

LEMMA EntryInitInv == ASSUME IInv, NEW e \in Entries, EntryInit(e) PROVE IInv'
  <1>1. Typed /\ Unique /\ \A q \in Queues : Linked(q)
    BY DEF IInv
  <1>2. /\ order' = order /\ dtq_head' = dtq_head /\ dtq_tail' = dtq_tail /\ nelems' = nelems
        /\ \A x \in Entries \ {e} : dtq_next'[x] = dtq_next[x] /\ dtq_prev'[x] = dtq_prev[x]
    BY <1>1 DEF EntryInit, Typed
  <1>3. Typed'
    BY <1>1 DEF EntryInit, Typed
  <1>4. Unique'
    BY <1>1, <1>2 DEF Unique
  <1>5. ASSUME NEW q \in Queues PROVE Linked(q)'
    <2>1. \A i \in 1..Len(order[q]) : order[q][i] \in Entries \ {e}
      BY AtHand DEF EntryInit, Member
    <2>2. \A i \in 1..Len(order[q]) : /\ dtq_next'[order[q][i]] = dtq_next[order[q][i]]
                                      /\ dtq_prev'[order[q][i]] = dtq_prev[order[q][i]]
      BY <1>2, <2>1
    <2>3. Linked(q)
      BY <1>1
    <2> QED  BY <1>2, <2>2, <2>3 DEF Linked, Drained, Empty
  <1> QED
    BY <1>3, <1>4, <1>5 DEF IInv

LEMMA QueueInitInv == ASSUME IInv, NEW q \in Queues, QueueInit(q) PROVE IInv'
  <1>1. Typed
    BY DEF IInv
  <1> DEFINE t == <<>>
  <1>2. t \in Seq(Entries) /\ Len(t) = 0
    OBVIOUS
  <1>3. Linked(q)'
    <2>1. /\ order'[q] = <<>> /\ nelems'[q] = 0
          /\ dtq_head'[q] = Null /\ dtq_tail'[q] = Null
      BY <1>1 DEF QueueInit, Typed
    <2> QED  BY <2>1, EmptyIntro DEF Empty
  <1>4. /\ order' = [order EXCEPT ![q] = t]
        /\ dtq_head' \in [Queues -> Entries \cup {Null}]
        /\ dtq_tail' \in [Queues -> Entries \cup {Null}]
        /\ nelems' \in [Queues -> Nat]
        /\ dtq_next' = dtq_next /\ dtq_prev' = dtq_prev
        /\ \A p \in Queues \ {q} : /\ dtq_head'[p] = dtq_head[p]
                                   /\ dtq_tail'[p] = dtq_tail[p]
                                   /\ nelems'[p] = nelems[p]
    BY <1>1 DEF QueueInit, Typed, links
  <1>5. /\ dtq_next' \in [Entries -> Entries \cup {Null}]
        /\ dtq_prev' \in [Entries -> Entries \cup {Null}]
    BY <1>1, <1>4 DEF Typed
  <1> HIDE DEF t
  <1>6. /\ \A i, j \in 1..Len(t) : t[i] = t[j] => i = j
        /\ \A i \in 1..Len(t) : t[i] \in Range(order[q]) \/ ~Member(t[i])
    BY <1>2
  <1> QED
    BY <1>2, <1>3, <1>4, <1>5, <1>6, StepInv

LEMMA EnqueueInv == ASSUME IInv, NEW q \in Queues, NEW e \in Entries, Enqueue(q, e) PROVE IInv'
  <1> DEFINE s == order[q]
             t == Append(s, e)
             n == Len(s)
  <1>1. /\ s \in Seq(Entries) /\ n \in Nat
        /\ \A i \in 1..n : s[i] \in Range(s) /\ s[i] \in Entries /\ s[i] # Null
        /\ \A i, j \in 1..n : s[i] = s[j] => i = j
        /\ Typed /\ Linked(q)
        /\ dtq_tail[q] = Null <=> s = <<>>
    BY AtHand DEF Enqueue
  <1>2. e \notin Range(s) /\ ~Member(e) /\ e # Null
    BY DTQueueAssumption DEF Enqueue, Member
  <1>3. /\ t \in Seq(Entries) /\ Len(t) = n + 1 /\ t # <<>>
        /\ \A i \in 1..n : t[i] = s[i]
        /\ t[n + 1] = e
    BY <1>1, AppendProperties
  <1>4. /\ order' = [order EXCEPT ![q] = t] /\ order'[q] = t
        /\ dtq_tail' = [dtq_tail EXCEPT ![q] = e]
        /\ nelems' = [nelems EXCEPT ![q] = @ + 1]
    BY <1>1 DEF Enqueue, Typed
  <1>5. CASE s = <<>>
    <2>1. /\ n = 0 /\ dtq_next[e] = Null /\ dtq_prev[e] = Null
          /\ dtq_head' = [dtq_head EXCEPT ![q] = e]
          /\ dtq_next' = dtq_next /\ dtq_prev' = dtq_prev
      BY <1>1, <1>5 DEF Enqueue, links
    <2> HIDE DEF t, n
    <2>2. Len(t) = 1 /\ t[1] = e
      BY <1>3, <2>1
    <2>3. Linked(q)'
      <3>1. /\ dtq_head'[q] = e /\ dtq_tail'[q] = e /\ nelems'[q] = 1
            /\ dtq_next'[e] = Null /\ dtq_prev'[e] = Null
        BY <1>1, <1>4, <2>1 DEF Typed, Linked, n
      <3> QED  BY <1>3, <1>4, <2>2, <3>1, LinkedIntro
    <2>4. /\ dtq_head' \in [Queues -> Entries \cup {Null}]
          /\ dtq_tail' \in [Queues -> Entries \cup {Null}]
          /\ nelems' \in [Queues -> Nat]
          /\ dtq_next' \in [Entries -> Entries \cup {Null}]
          /\ dtq_prev' \in [Entries -> Entries \cup {Null}]
          /\ \A p \in Queues \ {q} : /\ dtq_head'[p] = dtq_head[p]
                                     /\ dtq_tail'[p] = dtq_tail[p]
                                     /\ nelems'[p] = nelems[p]
      BY <1>1, <1>4, <2>1 DEF Typed
    <2>5. /\ \A i, j \in 1..Len(t) : t[i] = t[j] => i = j
          /\ \A i \in 1..Len(t) : t[i] \in Range(order[q]) \/ ~Member(t[i])
      BY <1>2, <2>2
    <2> QED  BY <1>3, <1>4, <2>1, <2>3, <2>4, <2>5, StepInv
  <1>6. CASE s # <<>>
    <2> DEFINE l == s[n]
    <2>1. n >= 1 /\ dtq_tail[q] = l /\ l # Null /\ l \in Entries /\ l # e /\ l \in Range(s)
          /\ dtq_head[q] = s[1]
      BY <1>1, <1>2, <1>6 DEF Linked
    <2>2. /\ dtq_head' = dtq_head
          /\ dtq_next' = [dtq_next EXCEPT ![l] = e, ![e] = Null]
          /\ dtq_prev' = [dtq_prev EXCEPT ![e] = l]
      BY <2>1 DEF Enqueue
    <2>3. /\ dtq_next'[l] = e /\ dtq_next'[e] = Null /\ dtq_prev'[e] = l
          /\ \A x \in Entries : x # e /\ x # l => dtq_next'[x] = dtq_next[x]
          /\ \A x \in Entries : x # e => dtq_prev'[x] = dtq_prev[x]
      BY <1>1, <2>1, <2>2 DEF Typed
    <2>4. Linked(q)'
      <3>1. dtq_head'[q] = s[1] /\ dtq_tail'[q] = e /\ nelems'[q] = n + 1
        BY <1>1, <1>4, <2>1, <2>2 DEF Typed, Linked
      <3>2. ASSUME NEW i \in 1..n + 1
            PROVE  /\ dtq_next'[t[i]] = IF i = n + 1 THEN Null ELSE t[i + 1]
                   /\ dtq_prev'[t[i]] = IF i = 1 THEN Null ELSE t[i - 1]
        <4>1. CASE i = n + 1
          BY <1>1, <1>3, <2>1, <2>3, <4>1
        <4>2. CASE i \in 1..n
          <5>1. t[i] = s[i] /\ s[i] # e /\ s[i] \in Entries /\ (i # 1 => t[i - 1] = s[i - 1])
            BY <1>1, <1>2, <1>3, <4>2
          <5>2. /\ dtq_next[s[i]] = IF i = n THEN Null ELSE s[i + 1]
                /\ dtq_prev[s[i]] = IF i = 1 THEN Null ELSE s[i - 1]
            BY <1>1, <4>2 DEF Linked
          <5>3. dtq_prev'[t[i]] = IF i = 1 THEN Null ELSE t[i - 1]
            BY <2>3, <5>1, <5>2
          <5>4. CASE i = n
            BY <1>1, <1>3, <2>3, <5>1, <5>3, <5>4
          <5>5. CASE i # n
            <6>1. s[i] # l /\ t[i + 1] = s[i + 1] /\ i # n + 1
              BY <1>1, <1>3, <2>1, <4>2, <5>5
            <6> QED  BY <2>3, <5>1, <5>2, <5>3, <5>5, <6>1
          <5> QED  BY <5>4, <5>5
        <4> QED  BY <1>1, <4>1, <4>2
      <3>3. t[1] = s[1] /\ t[Len(t)] = e
        BY <1>1, <1>3, <2>1
      <3> HIDE DEF t, n, l
      <3> QED  BY <1>3, <1>4, <3>1, <3>2, <3>3, LinkedIntro
    <2>5. /\ dtq_head' \in [Queues -> Entries \cup {Null}]
          /\ dtq_tail' \in [Queues -> Entries \cup {Null}]
          /\ nelems' \in [Queues -> Nat]
          /\ dtq_next' \in [Entries -> Entries \cup {Null}]
          /\ dtq_prev' \in [Entries -> Entries \cup {Null}]
          /\ \A p \in Queues \ {q} : /\ dtq_head'[p] = dtq_head[p]
                                     /\ dtq_tail'[p] = dtq_tail[p]
                                     /\ nelems'[p] = nelems[p]
      <3>1. dtq_head \in [Queues -> Entries \cup {Null}] /\ dtq_tail \in [Queues -> Entries \cup {Null}]
            /\ nelems \in [Queues -> Nat] /\ dtq_next \in [Entries -> Entries \cup {Null}]
            /\ dtq_prev \in [Entries -> Entries \cup {Null}]
        BY <1>1 DEF Typed
      <3> HIDE DEF t, n, l
      <3> QED  BY <1>4, <2>1, <2>2, <3>1
    <2>6. \A i \in 1..n : t[i] # e
      BY <1>1, <1>2, <1>3
    <2>7. /\ \A i, j \in 1..Len(t) : t[i] = t[j] => i = j
          /\ \A i \in 1..Len(t) : t[i] \in Range(order[q]) \/ ~Member(t[i])
      BY <1>1, <1>2, <1>3, <2>6
    <2>8. \A p \in Queues \ {q} : \A x \in Range(order[p]) :
             dtq_next'[x] = dtq_next[x] /\ dtq_prev'[x] = dtq_prev[x]
      BY <1>2, <2>1, <2>3, Apart
    <2> HIDE DEF t, n, l
    <2> QED  BY <1>3, <1>4, <2>4, <2>5, <2>7, <2>8, StepInv
  <1> QED
    BY <1>5, <1>6

\* The ends of a queue that is not empty, and what is next to them.
LEMMA AtEnds ==
    ASSUME IInv, NEW q \in Queues, ~Drained(q), dtq_head[q] # Null \/ dtq_tail[q] # Null
    PROVE  LET s == order[q]
               n == Len(s)
           IN  /\ s \in Seq(Entries) /\ n \in Nat /\ n >= 1 /\ s # <<>>
               /\ \A i \in 1..n : s[i] \in Range(s) /\ s[i] \in Entries /\ s[i] # Null
               /\ \A i, j \in 1..n : s[i] = s[j] => i = j
               /\ dtq_head[q] = s[1] /\ dtq_tail[q] = s[n] /\ nelems[q] = n
               /\ dtq_next[s[1]] = IF n = 1 THEN Null ELSE s[2]
               /\ dtq_prev[s[n]] = IF n = 1 THEN Null ELSE s[n - 1]
               /\ \A i \in 1..n : /\ dtq_next[s[i]] = IF i = n THEN Null ELSE s[i + 1]
                                  /\ dtq_prev[s[i]] = IF i = 1 THEN Null ELSE s[i - 1]
  <1> DEFINE s == order[q]
             n == Len(s)
  <1>1. /\ s \in Seq(Entries) /\ n \in Nat /\ s # <<>>
        /\ \A i \in 1..n : s[i] \in Range(s) /\ s[i] \in Entries /\ s[i] # Null
        /\ \A i, j \in 1..n : s[i] = s[j] => i = j
        /\ Linked(q)
    BY AtHand
  <1>2. n >= 1
    BY <1>1
  <1>3. /\ dtq_head[q] = s[1] /\ dtq_tail[q] = s[n] /\ nelems[q] = n
        /\ \A i \in 1..n : /\ dtq_next[s[i]] = IF i = n THEN Null ELSE s[i + 1]
                           /\ dtq_prev[s[i]] = IF i = 1 THEN Null ELSE s[i - 1]
    BY <1>1 DEF Linked
  <1> HIDE DEF n
  <1>4. 1 \in 1..n /\ n \in 1..n /\ 1 + 1 = 2
    BY <1>1, <1>2
  <1>5. /\ dtq_next[s[1]] = IF n = 1 THEN Null ELSE s[2]
        /\ dtq_prev[s[n]] = IF n = 1 THEN Null ELSE s[n - 1]
    BY <1>3, <1>4
  <1> QED
    BY <1>1, <1>2, <1>3, <1>5 DEF n

\* The head leaves; the tail of an emptied queue is reset or not.
HeadGone(q) ==
    LET h == dtq_next[dtq_head[q]]
    IN  /\ ~Drained(q) /\ dtq_head[q] # Null
        /\ dtq_head' = [dtq_head EXCEPT ![q] = h]
        /\ dtq_prev' = IF h = Null THEN dtq_prev ELSE [dtq_prev EXCEPT ![h] = Null]
        /\ dtq_next' = dtq_next
        /\ \/ dtq_tail' = dtq_tail
           \/ h = Null /\ dtq_tail' = [dtq_tail EXCEPT ![q] = Null]
        /\ nelems' = [nelems EXCEPT ![q] = @ - 1]
        /\ order' = [order EXCEPT ![q] = Tail(@)]

LEMMA HeadGoneInv == ASSUME IInv, NEW q \in Queues, HeadGone(q) PROVE IInv'
  <1> DEFINE s == order[q]
             t == Tail(s)
             n == Len(s)
             h == dtq_next[dtq_head[q]]
  <1>1. /\ s \in Seq(Entries) /\ n \in Nat /\ n >= 1 /\ s # <<>>
        /\ \A i \in 1..n : s[i] \in Range(s) /\ s[i] \in Entries /\ s[i] # Null
        /\ \A i, j \in 1..n : s[i] = s[j] => i = j
        /\ dtq_head[q] = s[1] /\ dtq_tail[q] = s[n] /\ nelems[q] = n
        /\ dtq_next[s[1]] = IF n = 1 THEN Null ELSE s[2]
        /\ \A i \in 1..n : /\ dtq_next[s[i]] = IF i = n THEN Null ELSE s[i + 1]
                           /\ dtq_prev[s[i]] = IF i = 1 THEN Null ELSE s[i - 1]
    BY AtEnds DEF HeadGone
  <1>2. /\ t \in Seq(Entries) /\ Len(t) = n - 1
        /\ \A i \in 1..n - 1 : t[i] = s[i + 1]
    BY <1>1, TailIs
  <1>3. Typed
    BY DEF IInv
  <1>4. h = IF n = 1 THEN Null ELSE s[2]
    BY <1>1
  <1> HIDE DEF n
  <1>5. h \in Entries \cup {Null} /\ (h # Null => h \in Range(s) /\ h \in Entries /\ n # 1)
    BY <1>1, <1>4
  <1>6. /\ dtq_head' = [dtq_head EXCEPT ![q] = h]
        /\ dtq_prev' = IF h = Null THEN dtq_prev ELSE [dtq_prev EXCEPT ![h] = Null]
        /\ dtq_next' = dtq_next
        /\ \/ dtq_tail' = dtq_tail
           \/ h = Null /\ dtq_tail' = [dtq_tail EXCEPT ![q] = Null]
        /\ nelems' = [nelems EXCEPT ![q] = @ - 1]
        /\ order' = [order EXCEPT ![q] = t]
    BY DEF HeadGone
  <1> HIDE DEF t, h
  <1>7. /\ dtq_head' \in [Queues -> Entries \cup {Null}]
        /\ dtq_tail' \in [Queues -> Entries \cup {Null}]
        /\ dtq_head'[q] = h /\ (h # Null => dtq_tail'[q] = dtq_tail[q])
        /\ \A p \in Queues \ {q} : dtq_head'[p] = dtq_head[p] /\ dtq_tail'[p] = dtq_tail[p]
    BY <1>3, <1>5, <1>6 DEF Typed
  <1>8. /\ nelems' \in [Queues -> Nat] /\ nelems'[q] = n - 1
        /\ \A p \in Queues \ {q} : nelems'[p] = nelems[p]
        /\ order'[q] = t
    BY <1>1, <1>3, <1>6 DEF Typed
  <1>9. /\ dtq_next' \in [Entries -> Entries \cup {Null}]
        /\ dtq_prev' \in [Entries -> Entries \cup {Null}]
        /\ \A x \in Entries : x # h => dtq_prev'[x] = dtq_prev[x]
        /\ h # Null => dtq_prev'[h] = Null
    BY <1>3, <1>5, <1>6 DEF Typed
  <1>10. CASE n = 1
    <2>1. t = <<>> /\ h = Null /\ n - 1 = 0
      BY <1>2, <1>4, <1>10
    <2>2. Drained(q)' \/ Empty(q)'
      BY <1>7, <2>1 DEF Drained, Empty
    <2>3. Linked(q)'
      BY <1>8, <2>1, <2>2, EmptyIntro
    <2>4. \A p \in Queues \ {q} : \A x \in Range(order[p]) :
             dtq_next'[x] = dtq_next[x] /\ dtq_prev'[x] = dtq_prev[x]
      BY <1>6, <2>1
    <2>5. /\ \A i, j \in 1..Len(t) : t[i] = t[j] => i = j
          /\ \A i \in 1..Len(t) : t[i] \in Range(order[q]) \/ ~Member(t[i])
      BY <1>2, <2>1
    <2> QED  BY <1>2, <1>6, <1>7, <1>8, <1>9, <2>3, <2>4, <2>5, StepInv
  <1>11. CASE n # 1
    <2>7. n \in Nat /\ n >= 1 /\ n # 1
      BY <1>1, <1>11
    <2>1. h = s[2] /\ h # Null /\ dtq_prev'[h] = Null
      BY <1>1, <1>4, <1>9, <1>11
    <2>2. ASSUME NEW i \in 1..n - 1
          PROVE  /\ dtq_next'[t[i]] = IF i = n - 1 THEN Null ELSE t[i + 1]
                 /\ dtq_prev'[t[i]] = IF i = 1 THEN Null ELSE t[i - 1]
      <3>1. t[i] = s[i + 1] /\ i + 1 \in 1..n /\ s[i + 1] \in Entries
        BY <1>1, <1>2
      <3>2. dtq_next[s[i + 1]] = IF i + 1 = n THEN Null ELSE s[i + 1 + 1]
        BY <1>1, <3>1
      <3>3. i # n - 1 => t[i + 1] = s[i + 1 + 1]
        BY <1>1, <1>2
      <3>7. i + 1 = n <=> i = n - 1
        BY <1>1
      <3>8. dtq_next'[t[i]] = dtq_next[s[i + 1]]
        BY <1>6, <3>1
      <3>4. dtq_next'[t[i]] = IF i = n - 1 THEN Null ELSE t[i + 1]
        BY <3>2, <3>3, <3>7, <3>8
      <3>5. CASE i = 1
        BY <2>1, <3>1, <3>4, <3>5
      <3>6. CASE i # 1
        <4>1. s[i + 1] # h /\ t[i - 1] = s[i]
          <5>1. i - 1 \in 1..n - 1 /\ (i - 1) + 1 = i /\ i + 1 # 2 /\ i + 1 \in 1..n /\ 2 \in 1..n
            BY <2>7, <3>6
          <5>2. s[i + 1] # s[2]
            BY <1>1, <5>1
          <5>3. t[i - 1] = s[(i - 1) + 1]
            BY <1>2, <5>1
          <5> QED  BY <2>1, <5>1, <5>2, <5>3
        <4>2. dtq_prev[s[i + 1]] = s[i]
          <5>1. i + 1 # 1 /\ (i + 1) - 1 = i
            OBVIOUS
          <5> QED  BY <1>1, <3>1, <5>1
        <4> QED  BY <1>9, <3>1, <3>4, <3>6, <4>1, <4>2
      <3> QED  BY <3>5, <3>6
    <2>3. /\ t # <<>> /\ Len(t) = n - 1 /\ t[1] = s[2] /\ t[n - 1] = s[n]
          /\ dtq_tail'[q] = s[n]
      <3>1. 1 \in 1..n - 1 /\ n - 1 \in 1..n - 1 /\ n - 1 + 1 = n /\ 1 + 1 = 2
        BY <2>7
      <3>2. t[1] = s[1 + 1] /\ t[n - 1] = s[n - 1 + 1]
        BY <1>2, <3>1
      <3> QED  BY <1>1, <1>2, <1>7, <2>1, <3>1, <3>2
    <2>4. Linked(q)'
      <3>1. nelems'[q] = Len(t) /\ order'[q] = t /\ t \in Seq(Entries)
        BY <1>2, <1>8, <2>3
      <3>2. \A i \in 1..Len(t) :
              /\ dtq_next'[t[i]] = IF i = Len(t) THEN Null ELSE t[i + 1]
              /\ dtq_prev'[t[i]] = IF i = 1 THEN Null ELSE t[i - 1]
        BY <2>2, <2>3
      <3>3. dtq_head'[q] = t[1] /\ dtq_tail'[q] = t[Len(t)]
        BY <1>7, <2>1, <2>3
      <3> QED  BY <2>3, <3>1, <3>2, <3>3, LinkedIntro
    <2>5. \A p \in Queues \ {q} : \A x \in Range(order[p]) :
             dtq_next'[x] = dtq_next[x] /\ dtq_prev'[x] = dtq_prev[x]
      BY <1>5, <1>6, <1>9, <2>1, Apart
    <2>6. /\ \A i, j \in 1..Len(t) : t[i] = t[j] => i = j
          /\ \A i \in 1..Len(t) : t[i] \in Range(order[q]) \/ ~Member(t[i])
      <3>1. ASSUME NEW i \in 1..n - 1, NEW j \in 1..n - 1, t[i] = t[j] PROVE i = j
        <4>1. i + 1 \in 1..n /\ j + 1 \in 1..n /\ s[i + 1] = s[j + 1]
          BY <1>1, <1>2, <3>1
        <4>2. i + 1 = j + 1
          BY <1>1, <4>1
        <4> QED  BY <4>2
      <3>2. ASSUME NEW i \in 1..n - 1 PROVE t[i] \in Range(s)
        <4>1. i + 1 \in 1..n /\ t[i] = s[i + 1]
          BY <1>1, <1>2
        <4> QED  BY <1>1, <4>1
      <3> QED  BY <1>2, <3>1, <3>2
    <2> QED  BY <1>2, <1>6, <1>7, <1>8, <1>9, <2>4, <2>5, <2>6, StepInv
  <1> QED
    BY <1>10, <1>11

LEMMA DequeueInv ==
    ASSUME IInv, NEW q \in Queues, Dequeue(q) \/ DequeueFast(q)
    PROVE  IInv'
  <1>1. CASE Dequeue(q) /\ dtq_head[q] = Null
    BY <1>1 DEF Dequeue, vars, IInv, Typed, Unique, Linked, Drained, Empty
  <1>2. CASE (Dequeue(q) /\ dtq_head[q] # Null) \/ DequeueFast(q)
    <2>1. HeadGone(q)
      BY <1>2 DEF Dequeue, DequeueFast, HeadGone
    <2> QED  BY <2>1, HeadGoneInv
  <1> QED
    BY <1>1, <1>2

\* The tail leaves; the head of an emptied queue is reset or not.
TailGone(q) ==
    LET l == dtq_prev[dtq_tail[q]]
    IN  /\ ~Drained(q) /\ dtq_tail[q] # Null
        /\ dtq_tail' = [dtq_tail EXCEPT ![q] = l]
        /\ dtq_next' = IF l = Null THEN dtq_next ELSE [dtq_next EXCEPT ![l] = Null]
        /\ dtq_prev' = dtq_prev
        /\ \/ dtq_head' = dtq_head
           \/ l = Null /\ dtq_head' = [dtq_head EXCEPT ![q] = Null]
        /\ nelems' = [nelems EXCEPT ![q] = @ - 1]
        /\ order' = [order EXCEPT ![q] = Front(@)]

LEMMA TailGoneInv == ASSUME IInv, NEW q \in Queues, TailGone(q) PROVE IInv'
  <1> DEFINE s == order[q]
             t == Front(s)
             n == Len(s)
             l == dtq_prev[dtq_tail[q]]
  <1>1. /\ s \in Seq(Entries) /\ n \in Nat /\ n >= 1 /\ s # <<>>
        /\ \A i \in 1..n : s[i] \in Range(s) /\ s[i] \in Entries /\ s[i] # Null
        /\ \A i, j \in 1..n : s[i] = s[j] => i = j
        /\ dtq_head[q] = s[1] /\ dtq_tail[q] = s[n] /\ nelems[q] = n
        /\ dtq_prev[s[n]] = IF n = 1 THEN Null ELSE s[n - 1]
        /\ \A i \in 1..n : /\ dtq_next[s[i]] = IF i = n THEN Null ELSE s[i + 1]
                           /\ dtq_prev[s[i]] = IF i = 1 THEN Null ELSE s[i - 1]
    BY AtEnds DEF TailGone
  <1>2. /\ t \in Seq(Entries) /\ Len(t) = n - 1
        /\ \A i \in 1..n - 1 : t[i] = s[i]
    BY <1>1, FrontIs
  <1>3. Typed
    BY DEF IInv
  <1>4. l = IF n = 1 THEN Null ELSE s[n - 1]
    BY <1>1
  <1> HIDE DEF n
  <1>5. l \in Entries \cup {Null} /\ (l # Null => l \in Range(s) /\ l \in Entries /\ n # 1)
    <2>1. n # 1 => n - 1 \in 1..n
      BY <1>1
    <2> QED  BY <1>1, <1>4, <2>1
  <1>6. /\ dtq_tail' = [dtq_tail EXCEPT ![q] = l]
        /\ dtq_next' = IF l = Null THEN dtq_next ELSE [dtq_next EXCEPT ![l] = Null]
        /\ dtq_prev' = dtq_prev
        /\ \/ dtq_head' = dtq_head
           \/ l = Null /\ dtq_head' = [dtq_head EXCEPT ![q] = Null]
        /\ nelems' = [nelems EXCEPT ![q] = @ - 1]
        /\ order' = [order EXCEPT ![q] = t]
    BY DEF TailGone
  <1> HIDE DEF t, l
  <1>7. /\ dtq_head' \in [Queues -> Entries \cup {Null}]
        /\ dtq_tail' \in [Queues -> Entries \cup {Null}]
        /\ dtq_tail'[q] = l /\ (l # Null => dtq_head'[q] = dtq_head[q])
        /\ \A p \in Queues \ {q} : dtq_head'[p] = dtq_head[p] /\ dtq_tail'[p] = dtq_tail[p]
    BY <1>3, <1>5, <1>6 DEF Typed
  <1>8. /\ nelems' \in [Queues -> Nat] /\ nelems'[q] = n - 1
        /\ \A p \in Queues \ {q} : nelems'[p] = nelems[p]
        /\ order'[q] = t
    BY <1>1, <1>3, <1>6 DEF Typed
  <1>9. /\ dtq_next' \in [Entries -> Entries \cup {Null}]
        /\ dtq_prev' \in [Entries -> Entries \cup {Null}]
        /\ \A x \in Entries : x # l => dtq_next'[x] = dtq_next[x]
        /\ l # Null => dtq_next'[l] = Null
    BY <1>3, <1>5, <1>6 DEF Typed
  <1>10. CASE n = 1
    <2>1. t = <<>> /\ l = Null /\ n - 1 = 0
      BY <1>2, <1>4, <1>10
    <2>2. Drained(q)' \/ Empty(q)'
      BY <1>7, <2>1 DEF Drained, Empty
    <2>3. Linked(q)'
      BY <1>8, <2>1, <2>2, EmptyIntro
    <2>4. \A p \in Queues \ {q} : \A x \in Range(order[p]) :
             dtq_next'[x] = dtq_next[x] /\ dtq_prev'[x] = dtq_prev[x]
      BY <1>6, <2>1
    <2>5. /\ \A i, j \in 1..Len(t) : t[i] = t[j] => i = j
          /\ \A i \in 1..Len(t) : t[i] \in Range(order[q]) \/ ~Member(t[i])
      BY <1>2, <2>1
    <2> QED  BY <1>2, <1>6, <1>7, <1>8, <1>9, <2>3, <2>4, <2>5, StepInv
  <1>11. CASE n # 1
    <2>1. l = s[n - 1] /\ l # Null /\ dtq_next'[l] = Null
      <3>1. n - 1 \in 1..n
        BY <1>1, <1>11
      <3> QED  BY <1>1, <1>4, <1>9, <1>11, <3>1
    <2>2. ASSUME NEW i \in 1..n - 1
          PROVE  /\ dtq_next'[t[i]] = IF i = n - 1 THEN Null ELSE t[i + 1]
                 /\ dtq_prev'[t[i]] = IF i = 1 THEN Null ELSE t[i - 1]
      <3>1. t[i] = s[i] /\ i \in 1..n /\ s[i] \in Entries
        BY <1>1, <1>2
      <3>2. dtq_prev[s[i]] = IF i = 1 THEN Null ELSE s[i - 1]
        BY <1>1, <3>1
      <3>3. i # 1 => t[i - 1] = s[i - 1]
        <4>1. n \in Int /\ i \in Int /\ i >= 1 /\ i <= n - 1
          BY <1>1
        <4>2. i # 1 => i - 1 \in 1..n - 1
          BY <4>1
        <4> QED  BY <1>2, <4>2
      <3>4. dtq_prev'[t[i]] = IF i = 1 THEN Null ELSE t[i - 1]
        BY <1>6, <3>1, <3>2, <3>3
      <3>5. CASE i = n - 1
        BY <2>1, <3>1, <3>4, <3>5
      <3>6. CASE i # n - 1
        <4>1. s[i] # l /\ t[i + 1] = s[i + 1] /\ i # n
          BY <1>1, <1>2, <2>1, <3>1, <3>6
        <4>2. dtq_next[s[i]] = s[i + 1]
          BY <1>1, <3>1, <4>1
        <4> QED  BY <1>9, <3>1, <3>4, <3>6, <4>1, <4>2
      <3> QED  BY <3>5, <3>6
    <2>3. /\ t # <<>> /\ Len(t) = n - 1 /\ t[1] = s[1] /\ t[n - 1] = s[n - 1]
          /\ dtq_head'[q] = s[1]
      <3>1. 1 \in 1..n - 1 /\ n - 1 \in 1..n - 1
        BY <1>1, <1>11
      <3> QED  BY <1>1, <1>2, <1>7, <2>1, <3>1
    <2>4. Linked(q)'
      <3>1. dtq_head'[q] = t[1] /\ dtq_tail'[q] = t[Len(t)] /\ nelems'[q] = Len(t)
        BY <1>7, <1>8, <2>1, <2>3
      <3>2. \A i \in 1..Len(t) :
              /\ dtq_next'[t[i]] = IF i = Len(t) THEN Null ELSE t[i + 1]
              /\ dtq_prev'[t[i]] = IF i = 1 THEN Null ELSE t[i - 1]
        BY <2>2, <2>3
      <3> QED  BY <1>2, <1>8, <2>3, <3>1, <3>2, LinkedIntro
    <2>5. \A p \in Queues \ {q} : \A x \in Range(order[p]) :
             dtq_next'[x] = dtq_next[x] /\ dtq_prev'[x] = dtq_prev[x]
      BY <1>5, <1>6, <1>9, <2>1, Apart
    <2>6. /\ \A i, j \in 1..Len(t) : t[i] = t[j] => i = j
          /\ \A i \in 1..Len(t) : t[i] \in Range(order[q]) \/ ~Member(t[i])
      <3>1. \A i \in 1..n - 1 : i \in 1..n /\ t[i] = s[i]
        BY <1>1, <1>2
      <3>2. \A i, j \in 1..n - 1 : t[i] = t[j] => i = j
        BY <1>1, <3>1
      <3>3. \A i \in 1..n - 1 : t[i] \in Range(order[q])
        BY <1>1, <3>1
      <3> QED  BY <1>2, <3>2, <3>3
    <2> QED  BY <1>2, <1>6, <1>7, <1>8, <1>9, <2>4, <2>5, <2>6, StepInv
  <1> QED
    BY <1>10, <1>11

LEMMA PopInv ==
    ASSUME IInv, NEW q \in Queues, Pop(q) \/ PopFast(q)
    PROVE  IInv'
  <1>1. CASE Pop(q) /\ dtq_tail[q] = Null
    BY <1>1 DEF Pop, vars, IInv, Typed, Unique, Linked, Drained, Empty
  <1>2. CASE (Pop(q) /\ dtq_tail[q] # Null) \/ PopFast(q)
    <2>1. TailGone(q)
      BY <1>2 DEF Pop, PopFast, TailGone
    <2> QED  BY <2>1, TailGoneInv
  <1> QED
    BY <1>1, <1>2

\* Entry e, at place k, is cut out; its own link may end up as anything.
CutOut(q, e) ==
    LET p == dtq_prev[e]
        n == dtq_next[e]
    IN  /\ ~Drained(q) /\ e \in Range(order[q])
        /\ dtq_head' = IF p = Null THEN [dtq_head EXCEPT ![q] = n] ELSE dtq_head
        /\ dtq_tail' = IF n = Null THEN [dtq_tail EXCEPT ![q] = p] ELSE dtq_tail
        /\ dtq_next' \in [Entries -> Entries \cup {Null}]
        /\ dtq_prev' \in [Entries -> Entries \cup {Null}]
        /\ \A x \in Entries : x # e => dtq_next'[x] = IF x = p THEN n ELSE dtq_next[x]
        /\ \A x \in Entries : x # e => dtq_prev'[x] = IF x = n THEN p ELSE dtq_prev[x]
        /\ nelems' = [nelems EXCEPT ![q] = @ - 1]
        /\ order' = [order EXCEPT ![q] = RemoveAt(@, Place(q, e))]

LEMMA CutOutInv == ASSUME IInv, NEW q \in Queues, NEW e \in Entries, CutOut(q, e) PROVE IInv'
  <1> DEFINE s == order[q]
             k == Place(q, e)
             t == RemoveAt(s, k)
             m == Len(s)
             p == dtq_prev[e]
             n == dtq_next[e]
  <1>1. Typed /\ ~Drained(q) /\ e \in Range(s)
    BY DEF IInv, CutOut
  <1>2. k \in 1..m /\ s[k] = e
    BY <1>1, PlaceIs
  <1>3. /\ s \in Seq(Entries) /\ m \in Nat /\ m >= 1 /\ s # <<>>
        /\ \A i \in 1..m : s[i] \in Range(s) /\ s[i] \in Entries /\ s[i] # Null
        /\ \A i, j \in 1..m : s[i] = s[j] => i = j
        /\ dtq_head[q] = s[1] /\ dtq_tail[q] = s[m] /\ nelems[q] = m
        /\ \A i \in 1..m : /\ dtq_next[s[i]] = IF i = m THEN Null ELSE s[i + 1]
                           /\ dtq_prev[s[i]] = IF i = 1 THEN Null ELSE s[i - 1]
    <2>1. s # <<>>
      BY <1>2, <1>1 DEF Typed
    <2>2. dtq_head[q] # Null
      BY <1>1, <2>1, AtHand
    <2> QED  BY <1>1, <2>2, AtEnds
  <1> HIDE DEF k
  <1>14. /\ t \in Seq(Entries) /\ Len(t) = m - 1
         /\ \A i \in 1..m - 1 : t[i] = IF i < k THEN s[i] ELSE s[i + 1]
    <2>1. s \in Seq(Entries) /\ k \in 1..Len(s)
      BY <1>2, <1>3
    <2> QED  BY <2>1, RemoveAtIs
  <1>4. /\ t \in Seq(Entries) /\ Len(t) = m - 1
        /\ \A i \in 1..m - 1 : i < k => t[i] = s[i]
        /\ \A i \in 1..m - 1 : ~(i < k) => t[i] = s[i + 1]
    BY <1>14
  <1>5. p = (IF k = 1 THEN Null ELSE s[k - 1]) /\ n = (IF k = m THEN Null ELSE s[k + 1])
    BY <1>2, <1>3
  <1>6. /\ dtq_head' = IF p = Null THEN [dtq_head EXCEPT ![q] = n] ELSE dtq_head
        /\ dtq_tail' = IF n = Null THEN [dtq_tail EXCEPT ![q] = p] ELSE dtq_tail
        /\ dtq_next' \in [Entries -> Entries \cup {Null}]
        /\ dtq_prev' \in [Entries -> Entries \cup {Null}]
        /\ \A x \in Entries : x # e => dtq_next'[x] = IF x = p THEN n ELSE dtq_next[x]
        /\ \A x \in Entries : x # e => dtq_prev'[x] = IF x = n THEN p ELSE dtq_prev[x]
        /\ nelems' = [nelems EXCEPT ![q] = @ - 1]
        /\ order' = [order EXCEPT ![q] = t]
    BY DEF CutOut, k
  <1> HIDE DEF t, m, p, n
  <1>7. /\ p \in Entries \cup {Null} /\ (p # Null => p \in Range(s))
        /\ n \in Entries \cup {Null} /\ (n # Null => n \in Range(s))
    <2>1. (k # 1 => k - 1 \in 1..m) /\ (k # m => k + 1 \in 1..m)
      BY <1>2, <1>3
    <2> QED  BY <1>3, <1>5, <2>1
  <1>8. /\ dtq_head' \in [Queues -> Entries \cup {Null}]
        /\ dtq_tail' \in [Queues -> Entries \cup {Null}]
        /\ dtq_head'[q] = IF p = Null THEN n ELSE s[1]
        /\ dtq_tail'[q] = IF n = Null THEN p ELSE s[m]
        /\ \A r \in Queues \ {q} : dtq_head'[r] = dtq_head[r] /\ dtq_tail'[r] = dtq_tail[r]
    BY <1>1, <1>3, <1>6, <1>7 DEF Typed
  <1>9. /\ nelems' \in [Queues -> Nat] /\ nelems'[q] = m - 1
        /\ \A r \in Queues \ {q} : nelems'[r] = nelems[r]
        /\ order'[q] = t
    BY <1>1, <1>3, <1>6 DEF Typed
  <1>10. \A r \in Queues \ {q} : \A x \in Range(order[r]) :
           dtq_next'[x] = dtq_next[x] /\ dtq_prev'[x] = dtq_prev[x]
    BY <1>1, <1>6, <1>7, Apart, DTQueueAssumption
  <1>11. /\ \A i, j \in 1..Len(t) : t[i] = t[j] => i = j
         /\ \A i \in 1..Len(t) : t[i] \in Range(order[q]) \/ ~Member(t[i])
    <2> DEFINE g(i) == IF i < k THEN i ELSE i + 1
    <2>1. ASSUME NEW i \in 1..m - 1 PROVE g(i) \in 1..m /\ t[i] = s[g(i)]
      <3>1. k \in Int /\ i \in Int /\ m \in Int
        BY <1>2, <1>3
      <3>2. CASE i < k
        BY <1>4, <3>1, <3>2
      <3>3. CASE ~(i < k)
        BY <1>4, <3>1, <3>3
      <3> QED  BY <3>2, <3>3
    <2>2. \A i, j \in 1..m - 1 : g(i) = g(j) => i = j
      BY <1>2, <1>3
    <2> HIDE DEF g
    <2>3. ASSUME NEW i \in 1..m - 1, NEW j \in 1..m - 1, t[i] = t[j] PROVE i = j
      <3>1. s[g(i)] = s[g(j)] /\ g(i) \in 1..m /\ g(j) \in 1..m
        BY <2>1, <2>3
      <3>2. g(i) = g(j)
        BY <1>3, <3>1
      <3> QED  BY <2>2, <3>2
    <2>4. \A i \in 1..m - 1 : t[i] \in Range(s)
      <3>1. \A i \in 1..m : s[i] \in Range(s)
        BY <1>3
      <3> QED  BY <2>1, <3>1, SMTT(30)
    <2> QED  BY <1>4, <2>3, <2>4
  <1>12. Linked(q)'
    <2>1. CASE m = 1
      <3>1. k = 1 /\ t = <<>> /\ p = Null /\ n = Null
        BY <1>2, <1>4, <1>5, <2>1
      <3>2. Drained(q)' \/ Empty(q)'
        BY <1>8, <3>1 DEF Empty
      <3>3. nelems'[q] = 0
        BY <1>9, <2>1
      <3> QED  BY <1>9, <3>1, <3>2, <3>3, EmptyIntro
    <2>2. CASE m # 1
      <3>1. dtq_head'[q] = t[1] /\ dtq_tail'[q] = t[Len(t)] /\ t # <<>>
        <4>1. 1 \in 1..m - 1 /\ m - 1 \in 1..m - 1 /\ m - 1 + 1 = m /\ 1 + 1 = 2
          BY <1>3, <2>2
        <4>2. t[1] = IF k = 1 THEN s[2] ELSE s[1]
          BY <1>2, <1>14, <4>1
        <4>3. t[m - 1] = IF k = m THEN s[m - 1] ELSE s[m]
          BY <1>2, <1>14, <4>1
        <4>4. /\ k = 1 => p = Null /\ n = s[2] /\ n # Null
              /\ k # 1 => p # Null
              /\ k = m => n = Null /\ p = s[m - 1] /\ p # Null
              /\ k # m => n # Null
          <5>1. /\ m \in Int /\ k \in Int /\ (k # 1 => k - 1 \in 1..m) /\ (k # m => k + 1 \in 1..m)
                /\ 1 + 1 = 2
            BY <1>2, <1>3
          <5>2. (k # 1 => s[k - 1] # Null) /\ (k # m => s[k + 1] # Null)
            BY <1>3, <5>1
          <5>3. k = 1 => k + 1 = 2 /\ k # m
            BY <2>2, <5>1
          <5>4. k = m => k # 1
            BY <2>2
          <5> QED  BY <1>5, <5>2, <5>3, <5>4
        <4> QED  BY <1>4, <1>8, <2>2, <4>1, <4>2, <4>3, <4>4
      <3>2. ASSUME NEW i \in 1..m - 1
            PROVE  /\ dtq_next'[t[i]] = IF i = m - 1 THEN Null ELSE t[i + 1]
                   /\ dtq_prev'[t[i]] = IF i = 1 THEN Null ELSE t[i - 1]
        <4>1. CASE i < k
          <5>1. /\ t[i] = s[i] /\ i \in 1..m /\ s[i] \in Entries /\ s[i] # e
                /\ (i # 1 => t[i - 1] = s[i - 1])
            <6>1. i \in 1..m /\ i # k /\ i # m /\ (i # 1 => i - 1 \in 1..m - 1 /\ i - 1 < k)
              <7>1. k \in 1..m /\ m \in Nat
                BY <1>2, <1>3
              <7> QED  BY ONLY i \in 1..m - 1, <4>1, <7>1
            <6>2. s[i] # s[k]
              BY <1>2, <1>3, <6>1
            <6> QED  BY <1>2, <1>3, <1>4, <4>1, <6>1, <6>2
          <5>2. /\ dtq_next[s[i]] = s[i + 1]
                /\ dtq_prev[s[i]] = IF i = 1 THEN Null ELSE s[i - 1]
            <6>1. i \in 1..m /\ i # m
              BY <1>2, <1>3, <4>1
            <6> QED  BY <1>3, <6>1
          <5>3. s[i] # n
            <6>1. k # m => s[k + 1] # s[i]
              BY <1>2, <1>3, <4>1, <5>1
            <6> QED  BY <1>3, <1>5, <5>1, <6>1
          <5>4. dtq_prev'[t[i]] = IF i = 1 THEN Null ELSE t[i - 1]
            BY <1>6, <5>1, <5>2, <5>3
          <5>5. CASE i = k - 1
            <6>1. s[i] = p
              BY <1>2, <1>5, <5>5
            <6>2. n = IF i = m - 1 THEN Null ELSE t[i + 1]
              BY <1>2, <1>3, <1>4, <1>5, <5>5
            <6> QED  BY <1>6, <5>1, <5>4, <6>1, <6>2
          <5>6. CASE i # k - 1
            <6>1. s[i] # p
              <7>1. k # 1 => s[k - 1] # s[i]
                BY <1>2, <1>3, <4>1, <5>1, <5>6
              <7> QED  BY <1>3, <1>5, <5>1, <7>1
            <6>2. i # m - 1 /\ t[i + 1] = s[i + 1]
              <7>1. i # m - 1 /\ i + 1 \in 1..m - 1 /\ i + 1 < k
                BY <1>2, <1>3, <4>1, <5>6
              <7> QED  BY <1>4, <7>1
            <6> QED  BY <1>6, <5>1, <5>2, <5>4, <6>1, <6>2
          <5> QED  BY <5>5, <5>6
        <4>2. CASE i >= k
          <5>1. /\ t[i] = s[i + 1] /\ i + 1 \in 1..m /\ s[i + 1] \in Entries /\ s[i + 1] # e
                /\ (i # m - 1 => t[i + 1] = s[i + 2])
            <6>1. /\ ~(i < k) /\ i + 1 \in 1..m /\ i + 1 # k
                  /\ (i # m - 1 => i + 1 \in 1..m - 1 /\ ~(i + 1 < k) /\ (i + 1) + 1 = i + 2)
              BY <1>2, <1>3, <4>2
            <6>2. s[i + 1] # s[k]
              BY <1>2, <1>3, <6>1
            <6>3. t[i] = s[i + 1] /\ (i # m - 1 => t[i + 1] = s[i + 2])
              BY <1>4, <6>1
            <6> QED  BY <1>2, <1>3, <6>1, <6>2, <6>3
          <5>2. /\ dtq_next[s[i + 1]] = IF i = m - 1 THEN Null ELSE s[i + 2]
                /\ dtq_prev[s[i + 1]] = s[i]
            <6>1. (i + 1) + 1 = i + 2 /\ (i + 1) - 1 = i /\ i + 1 # 1 /\ (i + 1 = m <=> i = m - 1)
              BY <1>3
            <6> QED  BY <1>3, <5>1, <6>1
          <5>3. s[i + 1] # p
            <6>1. k # 1 => s[k - 1] # s[i + 1]
              BY <1>2, <1>3, <4>2, <5>1
            <6> QED  BY <1>3, <1>5, <5>1, <6>1
          <5>4. dtq_next'[t[i]] = IF i = m - 1 THEN Null ELSE t[i + 1]
            BY <1>6, <5>1, <5>2, <5>3
          <5>5. CASE i = k
            <6>1. s[i + 1] = n
              BY <1>2, <1>5, <5>1, <5>5
            <6>2. p = IF i = 1 THEN Null ELSE t[i - 1]
              BY <1>2, <1>3, <1>4, <1>5, <5>5
            <6> QED  BY <1>6, <5>1, <5>4, <6>1, <6>2
          <5>6. CASE i # k
            <6>1. s[i + 1] # n
              <7>1. k # m => s[k + 1] # s[i + 1]
                BY <1>2, <1>3, <4>2, <5>1, <5>6
              <7> QED  BY <1>3, <1>5, <5>1, <7>1
            <6>2. i # 1 /\ t[i - 1] = s[i]
              <7>1. i # 1 /\ i - 1 \in 1..m - 1 /\ ~(i - 1 < k) /\ (i - 1) + 1 = i
                BY <1>2, <1>3, <4>2, <5>6
              <7> QED  BY <1>4, <7>1
            <6> QED  BY <1>6, <5>1, <5>2, <5>4, <6>1, <6>2
          <5> QED  BY <5>5, <5>6
        <4> QED  BY <1>2, <4>1, <4>2
      <3>3. \A i \in 1..Len(t) :
              /\ dtq_next'[t[i]] = IF i = Len(t) THEN Null ELSE t[i + 1]
              /\ dtq_prev'[t[i]] = IF i = 1 THEN Null ELSE t[i - 1]
        BY <1>4, <3>2
      <3>4. nelems'[q] = Len(t)
        BY <1>4, <1>9
      <3> QED  BY <1>4, <1>9, <3>1, <3>3, <3>4, LinkedIntro
    <2> QED  BY <2>1, <2>2
  <1> QED
    BY <1>4, <1>6, <1>8, <1>9, <1>10, <1>11, <1>12, StepInv

LEMMA RemoveInv ==
    ASSUME IInv, NEW q \in Queues, NEW e \in Entries, RemoveDirty(q, e) \/ RemoveEntry(q, e)
    PROVE  IInv'
  <1>1. /\ dtq_next \in [Entries -> Entries \cup {Null}]
        /\ dtq_prev \in [Entries -> Entries \cup {Null}]
    BY DEF IInv, Typed
  <1>2. /\ CutNext(e) \in [Entries -> Entries \cup {Null}]
        /\ CutPrev(e) \in [Entries -> Entries \cup {Null}]
        /\ \A x \in Entries : CutNext(e)[x] = IF x = dtq_prev[e] THEN dtq_next[e] ELSE dtq_next[x]
        /\ \A x \in Entries : CutPrev(e)[x] = IF x = dtq_next[e] THEN dtq_prev[e] ELSE dtq_prev[x]
    BY <1>1, DTQueueAssumption DEF CutNext, CutPrev
  <1>3. CASE RemoveDirty(q, e)
    <2>1. CutOut(q, e)
      BY <1>2, <1>3 DEF RemoveDirty, CutEnds, CutOut
    <2> QED  BY <2>1, CutOutInv
  <1>4. CASE RemoveEntry(q, e)
    <2>1. dtq_next' = [CutNext(e) EXCEPT ![e] = Null] /\ dtq_prev' = [CutPrev(e) EXCEPT ![e] = Null]
      BY <1>4 DEF RemoveEntry
    <2>2. /\ dtq_next' \in [Entries -> Entries \cup {Null}]
          /\ dtq_prev' \in [Entries -> Entries \cup {Null}]
          /\ \A x \in Entries : x # e => dtq_next'[x] = CutNext(e)[x]
          /\ \A x \in Entries : x # e => dtq_prev'[x] = CutPrev(e)[x]
      BY <1>2, <2>1
    <2>3. CutOut(q, e)
      BY <1>2, <1>4, <2>2 DEF RemoveEntry, CutEnds, CutOut
    <2> QED  BY <2>3, CutOutInv
  <1> QED
    BY <1>3, <1>4

LEMMA InsertBeforeInv ==
    ASSUME IInv, NEW q \in Queues, NEW b \in Entries, NEW e \in Entries, InsertBefore(q, b, e)
    PROVE  IInv'
  <1> DEFINE s == order[q]
             k == Place(q, b)
             t == InsertAt(s, k, e)
             m == Len(s)
             p == dtq_prev[b]
  <1>1. /\ Typed /\ ~Drained(q) /\ b \in Range(s)
        /\ ~Member(e) /\ e \notin Range(s) /\ e # b /\ e # Null
    BY DTQueueAssumption DEF IInv, InsertBefore, Member
  <1>2. k \in 1..m /\ s[k] = b
    BY <1>1, PlaceIs
  <1>3. /\ s \in Seq(Entries) /\ m \in Nat /\ m >= 1 /\ s # <<>>
        /\ \A i \in 1..m : s[i] \in Range(s) /\ s[i] \in Entries /\ s[i] # Null
        /\ \A i, j \in 1..m : s[i] = s[j] => i = j
        /\ dtq_head[q] = s[1] /\ dtq_tail[q] = s[m] /\ nelems[q] = m
        /\ \A i \in 1..m : /\ dtq_next[s[i]] = IF i = m THEN Null ELSE s[i + 1]
                           /\ dtq_prev[s[i]] = IF i = 1 THEN Null ELSE s[i - 1]
    <2>1. s # <<>>
      BY <1>2, <1>1 DEF Typed
    <2>2. dtq_head[q] # Null
      BY <1>1, <2>1, AtHand
    <2> QED  BY <1>1, <2>2, AtEnds
  <1>4. p = IF k = 1 THEN Null ELSE s[k - 1]
    BY <1>2, <1>3
  <1>5. /\ dtq_head' = IF p = Null THEN [dtq_head EXCEPT ![q] = e] ELSE dtq_head
        /\ dtq_prev' = [dtq_prev EXCEPT ![e] = p, ![b] = e]
        /\ dtq_next' = IF p = Null THEN [dtq_next EXCEPT ![e] = b]
                                   ELSE [dtq_next EXCEPT ![e] = b, ![p] = e]
        /\ nelems' = [nelems EXCEPT ![q] = @ + 1]
        /\ order' = [order EXCEPT ![q] = t]
        /\ dtq_tail' = dtq_tail
    BY DEF InsertBefore
  <1> HIDE DEF k
  <1>6. /\ t \in Seq(Entries) /\ Len(t) = m + 1
        /\ \A i \in 1..m + 1 :
             t[i] = IF i < k THEN s[i] ELSE IF i = k THEN e ELSE s[i - 1]
    <2>1. s \in Seq(Entries) /\ k \in 1..Len(s)
      BY <1>2, <1>3
    <2> QED  BY <2>1, InsertAtIs, SMTT(30)
  <1> HIDE DEF t, m, p
  <1>7. p \in Entries \cup {Null} /\ (p # Null => p \in Range(s)) /\ p # e /\ p # b
    <2>1. k # 1 => k - 1 \in 1..m /\ k - 1 # k
      BY <1>2, <1>3
    <2>2. k # 1 => s[k - 1] # s[k] /\ s[k - 1] \in Range(s) /\ s[k - 1] \in Entries
      BY <1>2, <1>3, <2>1
    <2> QED  BY <1>1, <1>2, <1>4, <2>2, DTQueueAssumption
  <1>8. /\ dtq_head' \in [Queues -> Entries \cup {Null}]
        /\ dtq_tail' \in [Queues -> Entries \cup {Null}]
        /\ dtq_head'[q] = (IF p = Null THEN e ELSE s[1]) /\ dtq_tail'[q] = s[m]
        /\ \A r \in Queues \ {q} : dtq_head'[r] = dtq_head[r] /\ dtq_tail'[r] = dtq_tail[r]
    BY <1>1, <1>3, <1>5 DEF Typed
  <1>9. /\ nelems' \in [Queues -> Nat] /\ nelems'[q] = m + 1
        /\ \A r \in Queues \ {q} : nelems'[r] = nelems[r]
        /\ order'[q] = t
    BY <1>1, <1>3, <1>5 DEF Typed
  <1>10. /\ dtq_next' \in [Entries -> Entries \cup {Null}]
         /\ dtq_next'[e] = b /\ (p # Null => dtq_next'[p] = e)
         /\ \A x \in Entries : x # e /\ x # p => dtq_next'[x] = dtq_next[x]
    BY <1>1, <1>5, <1>7 DEF Typed
  <1>11. /\ dtq_prev' \in [Entries -> Entries \cup {Null}]
         /\ dtq_prev'[e] = p /\ dtq_prev'[b] = e
         /\ \A x \in Entries : x # e /\ x # b => dtq_prev'[x] = dtq_prev[x]
    BY <1>1, <1>5, <1>7 DEF Typed
  <1>12. \A r \in Queues \ {q} : \A x \in Range(order[r]) :
           dtq_next'[x] = dtq_next[x] /\ dtq_prev'[x] = dtq_prev[x]
    BY <1>1, <1>7, <1>10, <1>11, Apart, DTQueueAssumption
  <1>13. /\ k \in Int /\ m \in Int /\ 1 <= k /\ k <= m
         /\ t[k] = e
         /\ \A i \in 1..m + 1 : i < k => t[i] = s[i]
         /\ \A i \in 1..m + 1 : i > k => t[i] = s[i - 1]
         /\ \A i \in 1..m + 1 : i < k => i \in 1..m
         /\ \A i \in 1..m + 1 : i > k => i - 1 \in 1..m
    <2>1. k \in Int /\ m \in Int /\ 1 <= k /\ k <= m
      BY <1>2, <1>3
    <2>2. t[k] = e
      BY <1>6, <2>1
    <2>3. \A i \in 1..m + 1 : i < k => t[i] = s[i]
      BY <1>6, <2>1
    <2>4. \A i \in 1..m + 1 : i > k => t[i] = s[i - 1]
      BY <1>6, <2>1
    <2>5. /\ \A i \in 1..m + 1 : i < k => i \in 1..m
          /\ \A i \in 1..m + 1 : i > k => i - 1 \in 1..m
      BY <2>1
    <2> QED  BY <2>1, <2>2, <2>3, <2>4, <2>5
  <1>14. /\ \A i, j \in 1..Len(t) : t[i] = t[j] => i = j
         /\ \A i \in 1..Len(t) : t[i] \in Range(order[q]) \/ ~Member(t[i])
    <2> DEFINE g(i) == IF i < k THEN i ELSE i - 1
    <2>1. ASSUME NEW i \in 1..m + 1, i # k PROVE g(i) \in 1..m /\ t[i] = s[g(i)]
      <3>1. k \in Int /\ i \in Int
        BY <1>2
      <3>2. CASE i < k
        BY <1>13, <3>2
      <3>3. CASE i > k
        BY <1>13, <3>1, <3>3
      <3> QED  BY <2>1, <3>1, <3>2, <3>3
    <2>2. \A i, j \in 1..m + 1 : i # k /\ j # k /\ g(i) = g(j) => i = j
      BY <1>2, <1>3
    <2> HIDE DEF g
    <2>3. \A i \in 1..m + 1 : i # k => t[i] \in Range(s)
      <3>1. \A j \in 1..m : s[j] \in Range(s)
        BY <1>3
      <3> QED  BY ONLY <2>1, <3>1
    <2>4. ASSUME NEW i \in 1..m + 1, NEW j \in 1..m + 1, t[i] = t[j] PROVE i = j
      <3>1. i = k <=> j = k
        BY <1>1, <1>13, <2>3, <2>4
      <3>2. CASE i # k
        <4>1. s[g(i)] = s[g(j)] /\ g(i) \in 1..m /\ g(j) \in 1..m
          BY <2>1, <2>4, <3>1, <3>2
        <4>2. g(i) = g(j)
          BY <1>3, <4>1
        <4> QED  BY <2>2, <3>1, <3>2, <4>2
      <3> QED  BY <3>1, <3>2
    <2> QED  BY <1>1, <1>6, <1>13, <2>3, <2>4
  <1>15. Linked(q)'
    <2>1. dtq_head'[q] = t[1] /\ dtq_tail'[q] = t[m + 1] /\ t # <<>>
      <3>1. k \in Int /\ 1 \in 1..m + 1 /\ m + 1 \in 1..m + 1 /\ m + 1 > k /\ (m + 1) - 1 = m
        BY <1>2, <1>3
      <3>2. t[m + 1] = s[m]
        BY <1>13, <3>1
      <3>3. k = 1 => p = Null /\ t[1] = e
        BY <1>4, <1>13
      <3>4. k # 1 => p # Null /\ t[1] = s[1]
        <4>1. k # 1 => 1 < k /\ k - 1 \in 1..m
          BY <1>2, <3>1
        <4> QED  BY <1>3, <1>4, <1>13, <3>1, <4>1
      <3> QED  BY <1>3, <1>6, <1>8, <3>2, <3>3, <3>4
    <2>2. ASSUME NEW i \in 1..m + 1
          PROVE  /\ dtq_next'[t[i]] = IF i = m + 1 THEN Null ELSE t[i + 1]
                 /\ dtq_prev'[t[i]] = IF i = 1 THEN Null ELSE t[i - 1]
      <3>0. k \in Int /\ m \in Int /\ i \in Int /\ k >= 1 /\ k <= m
        BY <1>2, <1>3
      <3>1. CASE i = k
        <4>1. i # m + 1 /\ i + 1 \in 1..m + 1 /\ i + 1 > k /\ (i + 1) - 1 = i
          BY <3>0, <3>1
        <4>2. t[i] = e /\ t[i + 1] = b
          BY <1>2, <1>13, <3>1, <4>1
        <4>3. p = IF i = 1 THEN Null ELSE t[i - 1]
          <5>1. i # 1 => i - 1 \in 1..m + 1 /\ i - 1 < k
            BY <3>0, <3>1
          <5> QED  BY <1>4, <1>13, <3>1, <5>1
        <4> QED  BY <1>10, <1>11, <4>1, <4>2, <4>3
      <3>2. CASE i < k
        <4>1. /\ t[i] = s[i] /\ i \in 1..m /\ s[i] \in Entries /\ s[i] # e
              /\ i # m + 1 /\ i # k /\ i # m
          <5>1. i \in 1..m /\ i # m + 1 /\ i # k /\ i # m
            BY <3>0, <3>2
          <5>2. t[i] = s[i]
            BY <1>13, <3>2
          <5> QED  BY <1>1, <1>3, <5>1, <5>2
        <4>2. s[i] # b
          BY <1>2, <1>3, <4>1
        <4>3. i # 1 => t[i - 1] = s[i - 1]
          <5>1. i # 1 => i - 1 \in 1..m + 1 /\ i - 1 < k
            BY <3>0, <3>2
          <5> QED  BY <1>13, <5>1
        <4>4. dtq_prev'[t[i]] = IF i = 1 THEN Null ELSE t[i - 1]
          BY <1>3, <1>11, <4>1, <4>2, <4>3
        <4>5. CASE i = k - 1
          <5>1. k # 1 /\ p = s[i] /\ p # Null /\ i + 1 = k
            <6>1. k # 1 /\ i + 1 = k
              BY <3>0, <4>5
            <6>2. s[i] # Null
              BY <4>1, DTQueueAssumption
            <6> QED  BY <1>4, <4>5, <6>1, <6>2
          <5> QED  BY <1>10, <1>13, <4>1, <4>4, <5>1
        <4>6. CASE i # k - 1
          <5>1. i + 1 \in 1..m + 1 /\ i + 1 < k
            BY <3>0, <3>2, <4>6
          <5>2. s[i] # p
            <6>1. k # 1 => k - 1 \in 1..m /\ s[k - 1] # s[i]
              BY <1>3, <3>0, <4>1, <4>6
            <6> QED  BY <1>3, <1>4, <4>1, <6>1
          <5>3. dtq_next[s[i]] = s[i + 1] /\ t[i + 1] = s[i + 1]
            BY <1>3, <1>13, <4>1, <5>1
          <5> QED  BY <1>10, <4>1, <4>4, <5>2, <5>3
        <4> QED  BY <4>5, <4>6
      <3>3. CASE i > k
        <4>1. t[i] = s[i - 1] /\ i - 1 \in 1..m /\ s[i - 1] \in Entries /\ s[i - 1] # e /\ i # 1
          BY <1>1, <1>3, <1>13, <3>0, <3>3
        <4>2. s[i - 1] # p
          <5>1. k # 1 => k - 1 \in 1..m /\ k - 1 # i - 1
            BY <3>0, <3>3
          <5>2. k # 1 => s[k - 1] # s[i - 1]
            BY <1>3, <4>1, <5>1
          <5> QED  BY <1>3, <1>4, <4>1, <5>2
        <4>3. dtq_next[s[i - 1]] = IF i = m + 1 THEN Null ELSE s[i]
          <5>1. (i - 1) + 1 = i /\ (i - 1 = m <=> i = m + 1)
            BY <3>0
          <5> QED  BY <1>3, <4>1, <5>1
        <4>4. i # m + 1 => t[i + 1] = s[i]
          <5>1. i # m + 1 => i + 1 \in 1..m + 1 /\ i + 1 > k /\ (i + 1) - 1 = i
            BY <3>0, <3>3
          <5> QED  BY <1>13, <5>1
        <4>5. dtq_next'[t[i]] = IF i = m + 1 THEN Null ELSE t[i + 1]
          BY <1>10, <4>1, <4>2, <4>3, <4>4
        <4>6. CASE i = k + 1
          <5>1. i - 1 = k
            BY <3>0, <4>6
          <5> QED  BY <1>2, <1>11, <1>13, <4>1, <4>5, <5>1
        <4>7. CASE i # k + 1
          <5>1. /\ i - 1 \in 1..m + 1 /\ i - 1 > k /\ i - 1 # k /\ i - 1 # 1
            BY <3>0, <3>3, <4>7
          <5>2. s[i - 1] # b
            BY <1>2, <1>3, <4>1, <5>1
          <5>3. dtq_prev[s[i - 1]] = s[i - 1 - 1] /\ t[i - 1] = s[i - 1 - 1]
            BY <1>3, <1>13, <4>1, <5>1
          <5> QED  BY <1>11, <4>1, <4>5, <5>2, <5>3
        <4> QED  BY <4>6, <4>7
      <3> QED  BY <3>0, <3>1, <3>2, <3>3
    <2>3. \A i \in 1..Len(t) :
            /\ dtq_next'[t[i]] = IF i = Len(t) THEN Null ELSE t[i + 1]
            /\ dtq_prev'[t[i]] = IF i = 1 THEN Null ELSE t[i - 1]
      BY <1>6, <2>2
    <2>4. dtq_tail'[q] = t[Len(t)] /\ nelems'[q] = Len(t)
      BY <1>6, <1>9, <2>1
    <2> QED  BY <1>6, <1>9, <2>1, <2>3, <2>4, LinkedIntro
  <1> QED
    BY <1>5, <1>6, <1>8, <1>9, <1>10, <1>11, <1>12, <1>14, <1>15, StepInv

-----------------------------------------------------------------------------
\* Every operation of every queue keeps the invariant.
LEMMA Inductive == IInv /\ [Next]_vars => IInv'
  <1> SUFFICES ASSUME IInv, [Next]_vars PROVE IInv'
    OBVIOUS
  <1>1. CASE UNCHANGED vars
    BY <1>1 DEF IInv, Typed, Unique, Linked, Drained, Empty, vars
  <1>2. ASSUME NEW e \in Entries, EntryInit(e) PROVE IInv'
    BY <1>2, EntryInitInv
  <1>3. ASSUME NEW q \in Queues, QueueInit(q) PROVE IInv'
    BY <1>3, QueueInitInv
  <1>4. ASSUME NEW q \in Queues, Dequeue(q) \/ DequeueFast(q) PROVE IInv'
    BY <1>4, DequeueInv
  <1>5. ASSUME NEW q \in Queues, Pop(q) \/ PopFast(q) PROVE IInv'
    BY <1>5, PopInv
  <1>6. ASSUME NEW q \in Queues, NEW e \in Entries, Enqueue(q, e) PROVE IInv'
    BY <1>6, EnqueueInv
  <1>7. ASSUME NEW q \in Queues, NEW e \in Entries, RemoveDirty(q, e) \/ RemoveEntry(q, e)
        PROVE  IInv'
    BY <1>7, RemoveInv
  <1>8. ASSUME NEW q \in Queues, NEW b \in Entries, NEW e \in Entries, InsertBefore(q, b, e)
        PROVE  IInv'
    BY <1>8, InsertBeforeInv
  <1> QED
    BY <1>1, <1>2, <1>3, <1>4, <1>5, <1>6, <1>7, <1>8 DEF Next

\* The inductive invariant says all that the runs check.
LEMMA Implied == IInv => TypeOK /\ WellLinked /\ Counted /\ NoFalseOrphan
  <1> SUFFICES ASSUME IInv PROVE TypeOK /\ WellLinked /\ Counted /\ NoFalseOrphan
    OBVIOUS
  <1>1. \A q \in Queues : order[q] \in Seq(Entries) /\ DOMAIN order[q] = 1..Len(order[q])
    BY DEF IInv, Typed
  <1>2. TypeOK
    BY <1>1 DEF IInv, Typed, Unique, TypeOK
  <1>3. WellLinked
    <2>1. ASSUME NEW q \in Queues PROVE Linked(q) /\ DOMAIN order[q] = 1..Len(order[q])
      BY <1>1 DEF IInv
    <2> QED  BY <2>1 DEF Linked, WellLinked
  <1>4. Counted
    BY DEF IInv, Linked, Counted
  <1>5. ASSUME NEW q \in Queues, NEW e \in Range(order[q]) PROVE ~Orphan(q, e)
    <2> DEFINE s == order[q]
    <2>1. PICK i \in 1..Len(s) : s[i] = e
      BY <1>1 DEF Range
    <2>2. Linked(q) /\ s # <<>> /\ s \in Seq(Entries)
      BY <1>1, <2>1 DEF IInv
    <2> HIDE DEF s
    <2>3. CASE i = 1
      BY <2>1, <2>2, <2>3 DEF Linked, Orphan, s
    <2>4. CASE i # 1
      <3>1. i - 1 \in 1..Len(s)
        BY <2>1, <2>4
      <3>2. s[i - 1] # Null
        BY <2>2, <3>1, DTQueueAssumption
      <3>3. dtq_prev[s[i]] = s[i - 1]
        BY <2>1, <2>2, <2>4 DEF Linked, s
      <3> QED  BY <2>1, <3>2, <3>3 DEF Orphan
    <2> QED  BY <2>3, <2>4
  <1> QED
    BY <1>2, <1>3, <1>4, <1>5 DEF NoFalseOrphan

LEMMA Invariance == Spec => []IInv
  <1>1. Init => IInv
    BY DTQueueAssumption DEF Init, IInv, Typed, Unique, Linked, Drained, Empty
  <1> QED
    BY <1>1, Inductive, PTL DEF Spec

\* The pointers are entries or NULL, and no entry stands in two places of the
\* queues, whatever sequence of macros the clients expand.
THEOREM TypeCorrect == Spec => []TypeOK
  BY Invariance, Implied, PTL

\* Walking a queue either way meets its entries in order and nothing else.
THEOREM QueuesWellLinked == Spec => []WellLinked
  BY Invariance, Implied, PTL

\* DTQUEUE_LENGTH and DTQUEUE_EMPTY agree with what the queue holds, and
\* DTQUEUE_ORPHAN answers no for an entry of the queue it is asked about.
THEOREM ReadersTellTruth == Spec => []ReadersTruthful
  <1>1. IInv => ReadersTruthful
    BY Implied DEF ReadersTruthful
  <1> QED
    BY <1>1, Invariance, PTL

-----------------------------------------------------------------------------
(* The singly-linked queues.  The invariant needs more than the property:   *)
(* that no entry stands in two places, of the queues that have gone astray  *)
(* too, and that a queue is marked as drained only while it is empty.  Then *)
(* the entry behind which STQUEUE_ENQUEUE links the new one is either the   *)
(* last of that very queue, or one that a drained queue has let go.         *)

\* The variables have their types, and no two places hold the same entry.
STTyped ==
    /\ stq_head \in [Queues -> Entries \cup {Null}]
    /\ stq_tail \in [Queues -> Entries \cup {Null}]
    /\ stq_nelems \in [Queues -> Int]
    /\ stq_next \in [Entries -> Entries \cup {Null}]
    /\ stq_order \in [Queues -> Seq(Entries)]
    /\ mark \in [Queues -> {"sound", "loose", "drained", "astray"}]
STUnique ==
    \A p, q \in Queues : \A i \in 1..Len(stq_order[p]), j \in 1..Len(stq_order[q]) :
      stq_order[p][i] = stq_order[q][j] => p = q /\ i = j

\* The links of a queue that has not gone astray.
STChain(q) ==
    LET s == stq_order[q]
    IN  mark[q] # "astray" =>
          /\ stq_nelems[q] = Len(s)
          /\ s = <<>> => stq_head[q] = Null /\ (mark[q] # "drained" => stq_tail[q] = Null)
          /\ s # <<>> => /\ mark[q] # "drained"
                         /\ stq_head[q] = s[1] /\ stq_tail[q] = s[Len(s)]
                         /\ stq_next[s[Len(s)]] = Null <=> mark[q] # "loose"
          /\ \A i \in 1..Len(s) - 1 : stq_next[s[i]] = s[i + 1]
          /\ mark[q] = "loose" => Len(s) = 1

STIInv == STTyped /\ STUnique /\ \A q \in Queues : STChain(q)

-----------------------------------------------------------------------------
(* Sequences *)

LEMMA STAppendIs ==
    ASSUME NEW U, NEW s \in Seq(U), NEW e \in U
    PROVE  /\ Append(s, e) \in Seq(U) /\ Len(Append(s, e)) = Len(s) + 1 /\ Len(s) \in Nat
           /\ Append(s, e) # <<>> /\ Append(s, e)[Len(s) + 1] = e
           /\ \A i \in 1..Len(s) : Append(s, e)[i] = s[i]
  OBVIOUS

-----------------------------------------------------------------------------
(* What the invariant says, and how it is kept *)

LEMMA STAtHand ==
    ASSUME STIInv, NEW q \in Queues
    PROVE  LET s == stq_order[q] IN
           /\ s \in Seq(Entries) /\ Len(s) \in Nat
           /\ \A i \in 1..Len(s) : s[i] \in S!Range(s) /\ s[i] \in Entries /\ s[i] # Null
           /\ \A i, j \in 1..Len(s) : s[i] = s[j] => i = j
           /\ STTyped /\ STChain(q)
  <1> DEFINE s == stq_order[q]
  <1>1. STTyped /\ STChain(q) /\ STUnique
    BY DEF STIInv
  <1>2. s \in Seq(Entries) /\ Len(s) \in Nat
    BY <1>1 DEF STTyped
  <1>3. \A i \in 1..Len(s) : s[i] \in S!Range(s) /\ s[i] \in Entries /\ s[i] # Null
    BY <1>2, DTQueueAssumption DEF S!Range
  <1>4. \A i, j \in 1..Len(s) : s[i] = s[j] => i = j
    BY <1>1 DEF STUnique
  <1> QED
    BY <1>1, <1>2, <1>3, <1>4

\* Entries of two queues differ, and so does one that is in no queue.
LEMMA STApart ==
    ASSUME STIInv, NEW q \in Queues, NEW p \in Queues \ {q}, NEW x \in S!Range(stq_order[p])
    PROVE  x \notin S!Range(stq_order[q]) /\ S!Member(x) /\ x \in Entries
  <1>1. stq_order \in [Queues -> Seq(Entries)] /\ STUnique
    BY DEF STIInv, STTyped
  <1>2. PICK j \in 1..Len(stq_order[p]) : stq_order[p][j] = x
    BY <1>1 DEF S!Range
  <1>3. x \notin S!Range(stq_order[q])
    BY <1>1, <1>2 DEF S!Range, STUnique
  <1>4. x \in Entries
    BY <1>1, <1>2
  <1> QED
    BY <1>3, <1>4 DEF S!Member

\* A step that changes queue q, and the links of no entry of another queue unless
\* it leads that queue astray, keeps the invariant if the links of q are right.
LEMMA STStepKeeps ==
    ASSUME STIInv, NEW q \in Queues, NEW t \in Seq(Entries), STTyped',
           stq_order' = [stq_order EXCEPT ![q] = t],
           \A i, j \in 1..Len(t) : t[i] = t[j] => i = j,
           \A i \in 1..Len(t) : t[i] \in S!Range(stq_order[q]) \/ ~S!Member(t[i]),
           \A p \in Queues \ {q} :
              mark'[p] # "astray" =>
                /\ stq_head'[p] = stq_head[p] /\ stq_tail'[p] = stq_tail[p]
                /\ stq_nelems'[p] = stq_nelems[p] /\ mark'[p] = mark[p]
                /\ \A x \in S!Range(stq_order[p]) : stq_next'[x] = stq_next[x],
           STChain(q)'
    PROVE  STIInv'
  <1>1. stq_order \in [Queues -> Seq(Entries)] /\ STUnique /\ \A p \in Queues : STChain(p)
    BY DEF STIInv, STTyped
  <1>2. stq_order' \in [Queues -> Seq(Entries)] /\ stq_order'[q] = t
        /\ \A p \in Queues \ {q} : stq_order'[p] = stq_order[p]
    BY <1>1
  <1>3. \A p \in Queues \ {q} : \A i \in 1..Len(t), j \in 1..Len(stq_order[p]) : t[i] # stq_order[p][j]
    <2> SUFFICES ASSUME NEW p \in Queues \ {q}, NEW i \in 1..Len(t), NEW j \in 1..Len(stq_order[p]),
                        t[i] = stq_order[p][j]
                 PROVE  FALSE
      OBVIOUS
    <2>1. t[i] \in S!Range(stq_order[p])
      BY <1>1 DEF S!Range
    <2> QED
      BY <2>1, STApart
  <1>4. STUnique'
    <2> SUFFICES ASSUME NEW p \in Queues, NEW r \in Queues,
                        NEW i \in 1..Len(stq_order'[p]), NEW j \in 1..Len(stq_order'[r]),
                        stq_order'[p][i] = stq_order'[r][j]
                 PROVE  p = r /\ i = j
      BY DEF STUnique
    <2>1. CASE p = q /\ r = q
      BY <1>2, <2>1
    <2>2. CASE p # q /\ r # q
      BY <1>1, <1>2, <2>2 DEF STUnique
    <2>3. CASE p = q /\ r # q
      BY <1>2, <1>3, <2>3
    <2>4. CASE p # q /\ r = q
      BY <1>2, <1>3, <2>4
    <2> QED  BY <2>1, <2>2, <2>3, <2>4
  <1>5. ASSUME NEW p \in Queues \ {q}, mark'[p] # "astray" PROVE STChain(p)'
    <2>1. \A i \in 1..Len(stq_order[p]) : stq_order[p][i] \in S!Range(stq_order[p])
      BY <1>1 DEF S!Range
    <2>2. /\ stq_order'[p] = stq_order[p] /\ stq_head'[p] = stq_head[p] /\ stq_tail'[p] = stq_tail[p]
          /\ stq_nelems'[p] = stq_nelems[p] /\ mark'[p] = mark[p]
      BY <1>2, <1>5
    <2>3. \A i \in 1..Len(stq_order[p]) : stq_next'[stq_order[p][i]] = stq_next[stq_order[p][i]]
      BY <1>5, <2>1
    <2>4. STChain(p)
      BY <1>1
    <2>5. stq_order[p] # <<>> => Len(stq_order[p]) \in 1..Len(stq_order[p])
      BY <1>1
    <2>6. \A i \in 1..Len(stq_order[p]) - 1 : i \in 1..Len(stq_order[p])
      BY <1>1
    <2> QED  BY <2>2, <2>3, <2>4, <2>5, <2>6 DEF STChain
  <1>6. ASSUME NEW p \in Queues \ {q}, mark'[p] = "astray" PROVE STChain(p)'
    BY <1>6 DEF STChain
  <1> QED
    BY <1>4, <1>5, <1>6 DEF STIInv

-----------------------------------------------------------------------------
(* One lemma per action *)

LEMMA STEntryInitInv ==
    ASSUME STIInv, NEW e \in Entries, S!EntryInit(e)
    PROVE  STIInv'
  <1>1. STTyped /\ STUnique /\ \A q \in Queues : STChain(q)
    BY DEF STIInv
  <1>2. /\ stq_order' = stq_order /\ stq_head' = stq_head /\ stq_tail' = stq_tail
        /\ stq_nelems' = stq_nelems /\ mark' = mark
        /\ \A x \in Entries \ {e} : stq_next'[x] = stq_next[x]
    BY <1>1 DEF S!EntryInit, STTyped
  <1>3. STTyped'
    BY <1>1 DEF S!EntryInit, STTyped
  <1>4. STUnique'
    BY <1>1, <1>2 DEF STUnique
  <1>5. ASSUME NEW q \in Queues PROVE STChain(q)'
    <2>1. \A i \in 1..Len(stq_order[q]) : stq_order[q][i] \in Entries \ {e}
      BY STAtHand DEF S!EntryInit, S!Member
    <2>2. \A i \in 1..Len(stq_order[q]) : stq_next'[stq_order[q][i]] = stq_next[stq_order[q][i]]
      BY <1>2, <2>1
    <2>3. /\ stq_order[q] # <<>> => Len(stq_order[q]) \in 1..Len(stq_order[q])
          /\ \A i \in 1..Len(stq_order[q]) - 1 : i \in 1..Len(stq_order[q])
      BY <1>1 DEF STTyped
    <2>4. STChain(q)
      BY <1>1
    <2> QED  BY <1>2, <2>2, <2>3, <2>4 DEF STChain
  <1> QED
    BY <1>3, <1>4, <1>5 DEF STIInv

LEMMA STQueueInitInv ==
    ASSUME STIInv, NEW q \in Queues, S!QueueInit(q)
    PROVE  STIInv'
  <1>1. STTyped
    BY DEF STIInv
  <1> DEFINE t == <<>>
  <1>2. t \in Seq(Entries) /\ Len(t) = 0
    OBVIOUS
  <1>3. STChain(q)'
    <2>1. /\ stq_order'[q] = <<>> /\ stq_nelems'[q] = 0 /\ mark'[q] = "sound"
          /\ stq_head'[q] = Null /\ stq_tail'[q] = Null
      BY <1>1 DEF S!QueueInit, STTyped
    <2> QED  BY <1>2, <2>1 DEF STChain
  <1>4. STTyped'
    BY <1>1 DEF S!QueueInit, STTyped
  <1>5. \A p \in Queues \ {q} :
           /\ stq_head'[p] = stq_head[p] /\ stq_tail'[p] = stq_tail[p]
           /\ stq_nelems'[p] = stq_nelems[p] /\ mark'[p] = mark[p] /\ stq_next' = stq_next
    BY <1>1 DEF S!QueueInit, STTyped
  <1>6. stq_order' = [stq_order EXCEPT ![q] = t]
    BY DEF S!QueueInit
  <1> HIDE DEF t
  <1>7. /\ \A i, j \in 1..Len(t) : t[i] = t[j] => i = j
        /\ \A i \in 1..Len(t) : t[i] \in S!Range(stq_order[q]) \/ ~S!Member(t[i])
    BY <1>2
  <1> QED
    BY <1>2, <1>3, <1>4, <1>5, <1>6, <1>7, STStepKeeps

\* An entry goes behind the last one of its queue.
LEMMA STEnqueueInv ==
    ASSUME STIInv, NEW q \in Queues, NEW e \in Entries, S!Enqueue(q, e)
    PROVE  STIInv'
  <1> DEFINE s == stq_order[q]
             n == Len(s)
             t == Append(s, e)
             b == stq_tail[q]
             harmed == { p \in Queues : mark[q] = "drained"
                                       /\ (p = q \/ b \in S!Range(stq_order[p])) }
  <1>1. /\ s \in Seq(Entries) /\ n \in Nat
        /\ \A i \in 1..n : s[i] \in S!Range(s) /\ s[i] \in Entries /\ s[i] # Null
        /\ \A i, j \in 1..n : s[i] = s[j] => i = j
        /\ STTyped /\ STChain(q)
    BY STAtHand
  <1>2. /\ t \in Seq(Entries) /\ Len(t) = n + 1
        /\ t # <<>> /\ t[n + 1] = e
        /\ \A i \in 1..n : t[i] = s[i]
    BY <1>1, STAppendIs
  <1>3. mark[q] # "astray" /\ ~S!Member(e)
    BY DEF S!Enqueue
  <1>4. \A i \in 1..n : s[i] # e
    BY <1>1, <1>3 DEF S!Member
  <1>5. /\ stq_order' = [stq_order EXCEPT ![q] = t]
        /\ stq_tail' = [stq_tail EXCEPT ![q] = e]
        /\ stq_nelems' = [stq_nelems EXCEPT ![q] = @ + 1]
        /\ b = Null => stq_head' = [stq_head EXCEPT ![q] = e] /\ stq_next' = stq_next
        /\ b # Null => stq_head' = stq_head
                      /\ stq_next' = [stq_next EXCEPT ![b] = e, ![e] = Null]
        /\ mark' = [p \in Queues |->
              IF p \in harmed THEN "astray"
              ELSE IF p # q THEN mark[p]
              ELSE IF b = Null /\ stq_next[e] # Null THEN "loose" ELSE "sound"]
    BY DEF S!Enqueue
  <1>6. b \in Entries \cup {Null} /\ stq_nelems[q] \in Int /\ stq_order[q] = s
    BY <1>1 DEF STTyped
  <1>7. STTyped'
    <2>1. stq_next' \in [Entries -> Entries \cup {Null}] /\ stq_head' \in [Queues -> Entries \cup {Null}]
      <3>1. /\ stq_head \in [Queues -> Entries \cup {Null}]
            /\ stq_next \in [Entries -> Entries \cup {Null}]
        BY <1>1 DEF STTyped
      <3>2. CASE b = Null
        BY <1>5, <3>1, <3>2
      <3>3. CASE b # Null
        BY <1>5, <1>6, <3>1, <3>3
      <3> QED  BY <3>2, <3>3
    <2>2. /\ stq_tail' \in [Queues -> Entries \cup {Null}]
          /\ stq_nelems' \in [Queues -> Int]
          /\ stq_order' \in [Queues -> Seq(Entries)]
      BY <1>1, <1>2, <1>5, <1>6 DEF STTyped
    <2>3. mark' \in [Queues -> {"sound", "loose", "drained", "astray"}]
      BY <1>1, <1>5 DEF STTyped
    <2> QED  BY <2>1, <2>2, <2>3 DEF STTyped
  <1>8. /\ stq_order'[q] = t /\ stq_tail'[q] = e /\ stq_nelems'[q] = stq_nelems[q] + 1
        /\ b = Null => stq_head'[q] = e
        /\ b # Null => stq_head'[q] = stq_head[q]
        /\ b # Null => stq_next'[e] = Null /\ (b # e => stq_next'[b] = e)
        /\ \A x \in Entries : x # b /\ x # e => stq_next'[x] = stq_next[x]
        /\ b = Null => stq_next'[e] = stq_next[e]
    <2>1. /\ stq_head \in [Queues -> Entries \cup {Null}] /\ stq_order \in [Queues -> Seq(Entries)]
          /\ stq_tail \in [Queues -> Entries \cup {Null}] /\ stq_nelems \in [Queues -> Int]
          /\ stq_next \in [Entries -> Entries \cup {Null}]
      BY <1>1 DEF STTyped
    <2>2. stq_order'[q] = t /\ stq_tail'[q] = e /\ stq_nelems'[q] = stq_nelems[q] + 1
      BY <1>5, <2>1
    <2>3. CASE b = Null
      BY <1>5, <2>1, <2>2, <2>3
    <2>4. CASE b # Null
      BY <1>5, <1>6, <2>1, <2>2, <2>4
    <2> QED  BY <2>3, <2>4
  <1>9. mark'[q] = IF mark[q] = "drained" THEN "astray"
                   ELSE IF b = Null /\ stq_next[e] # Null THEN "loose" ELSE "sound"
    BY <1>5
  <1> HIDE DEF s, n, t, b, harmed
  <1>10. STChain(q)'
    <2>1. CASE mark[q] = "drained"
      BY <1>9, <2>1 DEF STChain
    <2>2. CASE mark[q] # "drained" /\ b = Null
      <3>1. s = <<>> /\ n = 0 /\ stq_nelems[q] = 0
        BY <1>1, <1>3, <2>2 DEF STChain, s, n, b
      <3>2. stq_head'[q] = t[1] /\ stq_tail'[q] = t[Len(t)] /\ stq_nelems'[q] = Len(t)
            /\ Len(t) = 1 /\ t[Len(t)] = e
        BY <1>2, <1>8, <2>2, <3>1
      <3>3. mark'[q] = IF stq_next'[e] # Null THEN "loose" ELSE "sound"
        BY <1>8, <1>9, <2>2
      <3>4. 1..Len(t) - 1 = {}
        BY <3>2
      <3>5. mark'[q] # "drained" /\ (stq_next'[t[Len(t)]] = Null <=> mark'[q] # "loose")
        BY <3>2, <3>3
      <3> QED  BY <1>2, <1>8, <3>2, <3>4, <3>5 DEF STChain
    <2>3. CASE mark[q] # "drained" /\ b # Null
      <3>1. s # <<>> /\ n >= 1 /\ stq_nelems[q] = n /\ b = s[n] /\ stq_head[q] = s[1]
            /\ \A i \in 1..n - 1 : stq_next[s[i]] = s[i + 1]
        BY <1>1, <1>3, <2>3 DEF STChain, s, n, b
      <3>2. stq_head'[q] = t[1] /\ stq_tail'[q] = t[Len(t)] /\ stq_nelems'[q] = Len(t)
            /\ t[Len(t)] = e
        BY <1>1, <1>2, <1>8, <2>3, <3>1
      <3>3. mark'[q] = "sound" /\ stq_next'[e] = Null /\ stq_next'[b] = e
        BY <1>1, <1>4, <1>8, <1>9, <2>3, <3>1
      <3>4. ASSUME NEW i \in 1..n PROVE stq_next'[t[i]] = t[i + 1]
        <4>1. CASE i = n
          BY <1>2, <3>1, <3>3, <4>1
        <4>2. CASE i # n
          <5>1. i \in 1..n - 1 /\ i + 1 \in 1..n /\ n \in 1..n /\ t[i] = s[i] /\ t[i + 1] = s[i + 1]
            BY <1>1, <1>2, <4>2
          <5>2. s[i] # b /\ s[i] # e /\ s[i] \in Entries
            BY <1>1, <1>4, <3>1, <4>2, <5>1
          <5> QED  BY <1>8, <3>1, <5>1, <5>2
        <4> QED  BY <4>1, <4>2
      <3>5. \A i \in 1..Len(t) - 1 : stq_next'[t[i]] = t[i + 1]
        BY <1>1, <1>2, <3>4
      <3> QED  BY <1>2, <1>8, <3>2, <3>3, <3>5 DEF STChain
    <2> QED  BY <2>1, <2>2, <2>3
  <1>11. ASSUME NEW p \in Queues \ {q}, mark'[p] # "astray"
         PROVE  /\ stq_head'[p] = stq_head[p] /\ stq_tail'[p] = stq_tail[p]
                /\ stq_nelems'[p] = stq_nelems[p] /\ mark'[p] = mark[p]
                /\ \A x \in S!Range(stq_order[p]) : stq_next'[x] = stq_next[x]
    <2>1. mark'[p] = mark[p] /\ p \notin harmed
      BY <1>5, <1>11
    <2>2. /\ stq_head'[p] = stq_head[p] /\ stq_tail'[p] = stq_tail[p] /\ stq_nelems'[p] = stq_nelems[p]
      BY <1>1, <1>5 DEF STTyped
    <2>3. ASSUME NEW x \in S!Range(stq_order[p]) PROVE stq_next'[x] = stq_next[x]
      <3>1. x \notin S!Range(stq_order[q]) /\ S!Member(x) /\ x \in Entries
        BY STApart
      <3>2. x # e
        BY <1>3, <3>1
      <3>3. x # b
        <4>1. CASE mark[q] = "drained"
          BY <2>1, <4>1 DEF harmed
        <4>2. CASE mark[q] # "drained" /\ s = <<>>
          <5>1. b = Null
            BY <1>3, <1>1, <4>2 DEF STChain, b, s
          <5> QED  BY <3>1, <5>1, DTQueueAssumption
        <4>3. CASE s # <<>>
          <5>1. b = s[n] /\ n \in 1..n
            BY <1>1, <1>3, <4>3 DEF STChain, b, s, n
          <5>2. b \in S!Range(s)
            BY <1>1, <5>1
          <5> QED  BY <3>1, <5>2 DEF s
        <4> QED  BY <4>1, <4>2, <4>3
      <3> QED  BY <1>8, <3>1, <3>2, <3>3
    <2> QED  BY <2>1, <2>2, <2>3
  <1>12. \A i, j \in 1..Len(t) : t[i] = t[j] => i = j
    BY <1>1, <1>2, <1>4
  <1>13. ASSUME NEW i \in 1..Len(t) PROVE t[i] \in S!Range(stq_order[q]) \/ ~S!Member(t[i])
    <2>1. i \in 1..n \/ i = n + 1
      BY <1>1, <1>2
    <2> QED  BY <1>1, <1>2, <1>3, <1>6, <2>1
  <1> QED
    BY <1>2, <1>5, <1>7, <1>10, <1>11, <1>12, <1>13, STStepKeeps

\* The links of a queue whose first entry has left.
LEMMA STRestChain ==
    ASSUME STIInv, NEW q \in Queues,
           mark[q] # "astray", stq_head[q] # Null,
           stq_order' = [stq_order EXCEPT ![q] = Tail(@)],
           stq_nelems' = [stq_nelems EXCEPT ![q] = @ - 1],
           stq_head' = [stq_head EXCEPT ![q] = stq_next[stq_head[q]]],
           stq_next' = stq_next, STTyped',
           \A p \in Queues \ {q} : stq_tail'[p] = stq_tail[p] /\ mark'[p] = mark[p],
           mark[q] = "loose" => mark'[q] = "astray",
           mark[q] # "loose" /\ Len(stq_order[q]) = 1 =>
              mark'[q] = "drained" \/ (mark'[q] = "sound" /\ stq_tail'[q] = Null),
           mark[q] # "loose" /\ Len(stq_order[q]) # 1 =>
              mark'[q] = mark[q] /\ stq_tail'[q] = stq_tail[q]
    PROVE  STIInv'
  <1> DEFINE s == stq_order[q]
             n == Len(s)
             t == Tail(s)
  <1>1. /\ s \in Seq(Entries) /\ n \in Nat
        /\ \A i \in 1..n : s[i] \in S!Range(s) /\ s[i] \in Entries /\ s[i] # Null
        /\ \A i, j \in 1..n : s[i] = s[j] => i = j
        /\ STTyped /\ STChain(q)
    BY STAtHand
  <1>2. s # <<>> /\ mark[q] # "drained" /\ stq_nelems[q] = n
        /\ stq_head[q] = s[1] /\ stq_tail[q] = s[n]
        /\ (stq_next[s[n]] = Null <=> mark[q] # "loose")
        /\ \A i \in 1..n - 1 : stq_next[s[i]] = s[i + 1]
    BY <1>1 DEF STChain
  <1>3. /\ t \in Seq(Entries) /\ Len(t) = n - 1 /\ n \in Nat \ {0}
        /\ \A i \in 1..n - 1 : t[i] = s[i + 1]
    BY <1>1, <1>2, TailIs
  <1>4. /\ stq_order' = [stq_order EXCEPT ![q] = t] /\ stq_order'[q] = t /\ stq_nelems'[q] = n - 1
        /\ stq_head'[q] = stq_next[s[1]]
        /\ \A p \in Queues \ {q} : stq_head'[p] = stq_head[p] /\ stq_nelems'[p] = stq_nelems[p]
    BY <1>1, <1>2 DEF STTyped
  <1> HIDE DEF s, n, t
  <1>5. STChain(q)'
    <2>1. CASE mark[q] = "loose"
      BY <2>1 DEF STChain
    <2>2. CASE mark[q] # "loose" /\ n = 1
      <3>1. t = <<>> /\ Len(t) = 0 /\ stq_head'[q] = Null
        BY <1>2, <1>3, <1>4, <2>2
      <3>2. mark'[q] = "drained" \/ (mark'[q] = "sound" /\ stq_tail'[q] = Null)
        BY <2>2 DEF n, s
      <3> QED  BY <1>3, <1>4, <3>1, <3>2 DEF STChain
    <2>3. CASE mark[q] # "loose" /\ n # 1
      <3>1. mark'[q] = mark[q] /\ stq_tail'[q] = stq_tail[q] /\ mark[q] # "drained"
        BY <1>2, <2>3 DEF n, s
      <3>2. Len(t) \in Nat /\ Len(t) >= 1 /\ t # <<>>
        BY <1>3, <2>3
      <3>3. t[1] = s[2] /\ t[Len(t)] = s[n]
        BY <1>3, <2>3
      <3>4. stq_head'[q] = t[1] /\ stq_tail'[q] = t[Len(t)]
        BY <1>2, <1>3, <1>4, <2>3, <3>1, <3>3
      <3>5. ASSUME NEW i \in 1..Len(t) - 1 PROVE stq_next'[t[i]] = t[i + 1]
        <4>1. i \in 1..n - 1 /\ i + 1 \in 1..n - 1
          BY <1>3
        <4> QED  BY <1>2, <1>3, <4>1
      <3>6. stq_next'[t[Len(t)]] = Null /\ mark'[q] # "loose"
        BY <1>2, <2>3, <3>1, <3>3
      <3> QED  BY <1>3, <1>4, <3>1, <3>2, <3>4, <3>5, <3>6 DEF STChain
    <2> QED  BY <2>1, <2>2, <2>3
  <1>6. \A i, j \in 1..Len(t) : t[i] = t[j] => i = j
    <2>1. \A i \in 1..Len(t) : t[i] = s[i + 1] /\ i + 1 \in 1..n /\ i \in Int
      BY <1>3
    <2> SUFFICES ASSUME NEW i \in 1..Len(t), NEW j \in 1..Len(t), t[i] = t[j]
                 PROVE  i = j
      OBVIOUS
    <2>2. i + 1 = j + 1
      BY <1>1, <2>1
    <2> QED  BY <2>2
  <1>7. \A i \in 1..Len(t) : t[i] \in S!Range(stq_order[q])
    <2>1. \A i \in 1..Len(t) : t[i] = s[i + 1] /\ i + 1 \in 1..n
      BY <1>3
    <2> QED  BY <1>1, <2>1 DEF s
  <1> QED
    BY <1>3, <1>4, <1>5, <1>6, <1>7, STStepKeeps

LEMMA STDequeueInv ==
    ASSUME STIInv, NEW q \in Queues, S!Dequeue(q)
    PROVE  STIInv'
  <1>1. STTyped /\ STChain(q) /\ stq_order[q] \in Seq(Entries)
    BY DEF STIInv, STTyped
  <1>2. CASE stq_head[q] = Null
    <2>1. stq_order[q] = <<>> /\ stq_nelems[q] = 0
      <3>1. stq_order[q] # <<>> => stq_order[q][1] \in Entries
        BY <1>1
      <3>2. Len(<<>>) = 0
        OBVIOUS
      <3> QED  BY <1>1, <1>2, <3>1, <3>2, DTQueueAssumption DEF STChain, S!Dequeue
    <2>2. /\ stq_head' = stq_head /\ stq_nelems' = stq_nelems /\ stq_order' = stq_order /\ stq_next' = stq_next
          /\ stq_tail'[q] = Null /\ mark'[q] = "sound"
          /\ \A p \in Queues \ {q} : stq_tail'[p] = stq_tail[p] /\ mark'[p] = mark[p]
      BY <1>1, <1>2 DEF S!Dequeue, STTyped
    <2>3. STTyped'
      BY <1>1, <1>2 DEF S!Dequeue, STTyped
    <2>4. STChain(q)'
      BY <1>2, <2>1, <2>2 DEF STChain
    <2> DEFINE t == stq_order[q]
    <2>5. t \in Seq(Entries) /\ Len(t) = 0 /\ stq_order' = [stq_order EXCEPT ![q] = t]
      BY <1>1, <2>1, <2>2 DEF STTyped
    <2> HIDE DEF t
    <2>6. /\ \A i, j \in 1..Len(t) : t[i] = t[j] => i = j
          /\ \A i \in 1..Len(t) : t[i] \in S!Range(stq_order[q]) \/ ~S!Member(t[i])
      BY <2>5
    <2> QED
      BY <2>2, <2>3, <2>4, <2>5, <2>6, STStepKeeps
  <1>3. CASE stq_head[q] # Null
    <2>1. /\ mark[q] # "astray"
          /\ stq_head' = [stq_head EXCEPT ![q] = stq_next[stq_head[q]]]
          /\ stq_tail' = IF stq_next[stq_head[q]] = Null THEN [stq_tail EXCEPT ![q] = Null]
                         ELSE stq_tail
          /\ stq_nelems' = [stq_nelems EXCEPT ![q] = @ - 1]
          /\ stq_order' = [stq_order EXCEPT ![q] = Tail(@)]
          /\ mark' = [mark EXCEPT ![q] = IF @ = "loose" THEN "astray" ELSE @]
          /\ stq_next' = stq_next
      BY <1>3 DEF S!Dequeue
    <2>2. stq_order[q] # <<>> /\ mark[q] # "drained" /\ stq_head[q] = stq_order[q][1]
      BY <1>1, <1>3, <2>1 DEF STChain
    <2>3. Len(stq_order[q]) \in Nat \ {0} /\ Tail(stq_order[q]) \in Seq(Entries)
          /\ stq_head[q] \in Entries
      BY <1>1, <2>2
    <2>4. STTyped'
      BY <1>1, <2>1, <2>3 DEF STTyped
    <2>5. /\ mark[q] = "loose" => mark'[q] = "astray"
          /\ mark[q] # "loose" => mark'[q] = mark[q]
          /\ \A p \in Queues \ {q} : stq_tail'[p] = stq_tail[p] /\ mark'[p] = mark[p]
      BY <1>1, <2>1 DEF STTyped
    <2>6. ASSUME mark[q] # "loose", Len(stq_order[q]) = 1
          PROVE  mark'[q] = "sound" /\ stq_tail'[q] = Null
      <3>1. stq_next[stq_head[q]] = Null
        BY <1>1, <2>1, <2>2, <2>6 DEF STChain
      <3>2. mark[q] = "sound"
        BY <1>1, <2>1, <2>2, <2>6 DEF STTyped
      <3> QED  BY <1>1, <2>1, <2>5, <2>6, <3>1, <3>2 DEF STTyped
    <2>7. ASSUME mark[q] # "loose", Len(stq_order[q]) # 1
          PROVE  mark'[q] = mark[q] /\ stq_tail'[q] = stq_tail[q]
      <3> DEFINE k == Len(stq_order[q])
      <3>1. k \in Nat \ {0} /\ k # 1
        BY <2>3, <2>7
      <3> HIDE DEF k
      <3>2. 1 \in 1..k - 1 /\ 2 \in 1..k
        BY <3>1
      <3> USE DEF k
      <3>3. stq_next[stq_order[q][1]] = stq_order[q][1 + 1]
        BY <1>1, <2>1, <3>2 DEF STChain
      <3>4. stq_order[q][1 + 1] # Null
        BY <1>1, <3>2, DTQueueAssumption
      <3> QED  BY <2>1, <2>2, <2>5, <2>7, <3>3, <3>4
    <2> QED
      BY <1>3, <2>1, <2>4, <2>5, <2>6, <2>7, STRestChain
  <1> QED
    BY <1>2, <1>3

LEMMA STDequeueFastInv ==
    ASSUME STIInv, NEW q \in Queues, S!DequeueFast(q)
    PROVE  STIInv'
  <1>1. STTyped /\ STChain(q) /\ stq_order[q] \in Seq(Entries)
    BY DEF STIInv, STTyped
  <1>2. /\ mark[q] # "astray" /\ stq_head[q] # Null
        /\ stq_head' = [stq_head EXCEPT ![q] = stq_next[stq_head[q]]]
        /\ stq_nelems' = [stq_nelems EXCEPT ![q] = @ - 1]
        /\ stq_order' = [stq_order EXCEPT ![q] = Tail(@)]
        /\ mark' = [mark EXCEPT ![q] = IF @ = "loose" THEN "astray"
                                       ELSE IF Len(stq_order[q]) = 1 THEN "drained" ELSE @]
        /\ stq_tail' = stq_tail /\ stq_next' = stq_next
    BY DEF S!DequeueFast
  <1>3. stq_order[q] # <<>> /\ stq_head[q] = stq_order[q][1]
    BY <1>1, <1>2 DEF STChain
  <1>4. Tail(stq_order[q]) \in Seq(Entries) /\ stq_head[q] \in Entries
    BY <1>1, <1>3
  <1>5. STTyped'
    BY <1>1, <1>2, <1>4 DEF STTyped
  <1>6. /\ mark[q] = "loose" => mark'[q] = "astray"
        /\ mark[q] # "loose" /\ Len(stq_order[q]) = 1 => mark'[q] = "drained"
        /\ mark[q] # "loose" /\ Len(stq_order[q]) # 1 => mark'[q] = mark[q]
        /\ \A p \in Queues \ {q} : mark'[p] = mark[p]
    BY <1>1, <1>2 DEF STTyped
  <1> QED
    BY <1>2, <1>5, <1>6, STRestChain

-----------------------------------------------------------------------------
\* Links of fresh entries are whatever they are, but no queue holds one.
LEMMA STInitInv == ASSUME S!SInit PROVE STIInv
  <1>1. STTyped
    BY DEF S!SInit, STTyped
  <1>2. \A q \in Queues : stq_order[q] = <<>> /\ Len(stq_order[q]) = 0
    BY DEF S!SInit
  <1>3. STUnique
    BY <1>2 DEF STUnique
  <1>4. \A q \in Queues : STChain(q)
    BY <1>2 DEF STChain, S!SInit
  <1> QED
    BY <1>1, <1>3, <1>4 DEF STIInv

LEMMA STNextInv == ASSUME STIInv, [S!SNext]_S!svars PROVE STIInv'
  <1>1. CASE UNCHANGED S!svars
    BY <1>1 DEF S!svars, STIInv, STTyped, STUnique, STChain
  <1>2. ASSUME NEW e \in Entries, S!EntryInit(e) PROVE STIInv'
    BY <1>2, STEntryInitInv
  <1>3. ASSUME NEW q \in Queues, NEW e \in Entries, S!Enqueue(q, e) PROVE STIInv'
    BY <1>3, STEnqueueInv
  <1>4. ASSUME NEW q \in Queues, S!QueueInit(q) \/ S!Dequeue(q) \/ S!DequeueFast(q) PROVE STIInv'
    BY <1>4, STQueueInitInv, STDequeueInv, STDequeueFastInv
  <1> QED
    BY <1>1, <1>2, <1>3, <1>4 DEF S!SNext

\* The links are what the reading macros need: no entry of a queue that has not gone
\* astray is taken for an orphan.
LEMMA STInvSuffices == ASSUME STIInv PROVE SinglyLinked
  <1> SUFFICES ASSUME NEW q \in Queues, mark[q] # "astray" PROVE S!Linked(q)
    BY DEF SinglyLinked, S!SinglyLinked, S!Linked
  <1> DEFINE s == stq_order[q]
             n == Len(s)
  <1>1. /\ s \in Seq(Entries) /\ n \in Nat
        /\ \A i \in 1..n : s[i] \in Entries /\ s[i] # Null
        /\ STChain(q)
    BY STAtHand
  <1>2. s # <<>> => 1 \in 1..n /\ n \in 1..n
    BY <1>1
  <1>3. /\ stq_head[q] = IF s = <<>> THEN Null ELSE s[1]
        /\ mark[q] # "drained" => stq_tail[q] = IF s = <<>> THEN Null ELSE S!Last(s)
        /\ s # <<>> => (stq_next[S!Last(s)] = Null <=> mark[q] # "loose")
        /\ stq_nelems[q] = n
        /\ \A i \in 1..n - 1 : stq_next[s[i]] = s[i + 1]
        /\ mark[q] = "loose" => n = 1
    BY <1>1 DEF STChain, S!Last
  <1>4. mark[q] # "drained" => (S!Empty(q) <=> s = <<>>)
    BY <1>1, <1>2, <1>3 DEF S!Empty
  <1>5. ASSUME NEW e \in S!Range(s) PROVE ~S!Orphan(q, e)
    <2>1. PICK i \in 1..n : s[i] = e
      BY <1>1 DEF S!Range
    <2>2. s # <<>> /\ mark[q] # "drained"
      BY <1>1, <2>1 DEF STChain
    <2>3. CASE i = n
      BY <1>3, <2>1, <2>2, <2>3 DEF S!Orphan, S!Last
    <2>4. CASE i # n
      <3>1. i \in 1..n - 1 /\ i + 1 \in 1..n
        BY <1>1, <2>4
      <3> QED  BY <1>1, <1>3, <2>1, <3>1 DEF S!Orphan
    <2> QED  BY <2>3, <2>4
  <1> QED
    BY <1>3, <1>4, <1>5 DEF S!Linked

\* A queue of stqueue.h holds its entries in order, and its macros tell the truth of
\* it, unless the only entry of a queue came with an old link or the client goes on
\* with a queue that the fast macro has emptied.
THEOREM SinglyLinkedKept == MCSpec => []SinglyLinked
  <1>1. MCInit => STIInv
    BY STInitInv DEF MCInit
  <1>2. STIInv /\ [MCNext]_<<use, vars, svars, lvars, rvars>> => STIInv'
    <2>1. [MCNext]_<<use, vars, svars, lvars, rvars>> => [S!SNext]_S!svars
      BY DEF MCNext, svars, S!svars
    <2> QED  BY <2>1, STNextInv
  <1>3. STIInv => SinglyLinked
    BY STInvSuffices
  <1> QED
    BY <1>1, <1>2, <1>3, PTL DEF MCSpec

-----------------------------------------------------------------------------
(* The ring.  A walk in one direction is known by where it has come to: the *)
(* element it has met as its i-th is the i-th from the cursor.              *)

LEMMA ModSmall ==
    ASSUME NEW n \in Nat \ {0}, NEW a \in 0..n - 1
    PROVE  a % n = a
  OBVIOUS

LEMMA ModOnce ==
    ASSUME NEW n \in Nat \ {0}, NEW a \in n..2 * n - 1
    PROVE  a % n = a - n
  OBVIOUS

LEMMA ModRange ==
    ASSUME NEW n \in Nat \ {0}, NEW a \in Int
    PROVE  a % n \in 0..n - 1
  OBVIOUS

\* The % of C, made good, for the steps of the iterator ...
LEMMA RoundIs ==
    ASSUME num \in Nat \ {0}, NEW a \in -1..num
    PROVE  R!Round(a) = IF a = -1 THEN num - 1 ELSE IF a = num THEN 0 ELSE a
  <1>1. CASE a \in 0..num - 1
    <2>1. R!Rem(a, num) = a
      BY <1>1, ModSmall DEF R!Rem
    <2>2. R!Rem(a + num, num) = a
      <3>1. a + num \in num..2 * num - 1 /\ (a + num) - num = a /\ a + num >= 0
        BY <1>1
      <3>2. (a + num) % num = (a + num) - num
        BY <3>1, ModOnce
      <3> QED  BY <3>1, <3>2 DEF R!Rem
    <2> QED  BY <1>1, <2>1, <2>2 DEF R!Round
  <1>2. CASE a = num
    <2>1. num \in num..2 * num - 1 /\ num - num = 0 /\ num >= 0 /\ 0 + num = num
      OBVIOUS
    <2>2. num % num = 0
      BY <2>1, ModOnce
    <2>3. R!Rem(num, num) = 0
      BY <2>1, <2>2 DEF R!Rem
    <2> QED  BY <1>2, <2>1, <2>3 DEF R!Round
  <1>3. CASE a = -1 /\ num = 1
    <2>1. 1 % num = 0
      <3>1. 1 \in num..2 * num - 1 /\ 1 - num = 0
        BY <1>3
      <3> QED  BY <3>1, ModOnce
    <2>2. R!Rem(a, num) = 0 /\ R!Rem(0 + num, num) = 0
      BY <1>3, <2>1 DEF R!Rem
    <2> QED  BY <1>3, <2>2 DEF R!Round
  <1>4. CASE a = -1 /\ num # 1
    <2>1. 1 \in 0..num - 1 /\ num - 1 \in 0..num - 1
      BY <1>4
    <2>2. 1 % num = 1 /\ (num - 1) % num = num - 1
      BY <2>1, ModSmall
    <2>3. R!Rem(a, num) = -1
      BY <1>4, <2>2 DEF R!Rem
    <2>4. R!Rem(-1 + num, num) = num - 1
      BY <2>1, <2>2 DEF R!Rem
    <2> QED  BY <1>4, <2>3, <2>4 DEF R!Round
  <1> QED
    BY <1>1, <1>2, <1>3, <1>4

\* ... and for a cursor advanced by any number.
LEMMA AdvancedIs ==
    ASSUME num \in Nat \ {0}, NEW c \in 0..num - 1, NEW incr \in Int
    PROVE  R!Rem(c + R!Round(incr), num) \in 0..num - 1
  <1>1. R!Rem(incr, num) \in Int /\ R!Rem(incr, num) > -num
    <2>1. CASE incr >= 0
      BY <2>1, ModRange DEF R!Rem
    <2>2. CASE ~(incr >= 0)
      <3>1. -incr \in Int
        OBVIOUS
      <3>2. (-incr) % num \in 0..num - 1
        BY <3>1, ModRange
      <3> QED  BY <2>2, <3>2 DEF R!Rem
    <2> QED  BY <2>1, <2>2
  <1>2. R!Rem(incr, num) + num \in Nat
    BY <1>1
  <1>3. \A a \in Nat : R!Rem(a, num) \in 0..num - 1
    BY ModRange DEF R!Rem
  <1>4. R!Round(incr) \in 0..num - 1
    BY <1>2, <1>3 DEF R!Round
  <1> QED
    BY <1>3, <1>4

\* The i-th element of a walk from the cursor c around n elements.
Nth(c, n, dir, i) ==
    IF dir = 1 THEN IF c + i <= n THEN c + i - 1 ELSE c + i - 1 - n
               ELSE IF i <= c THEN c - i ELSE c - i + n

\* A walk in direction dir that has come to the iterator.
Walked(dir) ==
    /\ Len(seen) \in 1..num
    /\ \A i \in 1..Len(seen) : seen[i] = Nth(cursor, num, dir, i)
    /\ it = Nth(cursor, num, dir, Len(seen))

RingInv ==
    /\ num \in Nat \ {0} /\ cursor \in 0..num - 1 /\ it \in 0..num - 1
    /\ walk \in {"none", "next", "prev", "over", "free"}
    /\ seen \in Seq(Int)
    /\ walk \in {"none", "free"} => seen = <<>>
    /\ walk = "next" => Walked(1)
    /\ walk = "prev" => Walked(-1)
    /\ walk = "over" => Len(seen) = num /\ \E dir \in {1, -1} : Walked(dir)

LEMMA NthIs ==
    ASSUME NEW n \in Nat \ {0}, NEW c \in 0..n - 1, NEW dir \in {1, -1}
    PROVE  /\ \A i \in 1..n : Nth(c, n, dir, i) \in 0..n - 1
           /\ \A i, j \in 1..n : Nth(c, n, dir, i) = Nth(c, n, dir, j) => i = j
           /\ \A v \in 0..n - 1 : \E i \in 1..n : Nth(c, n, dir, i) = v
  <1>1. CASE dir = 1
    <2>1. ASSUME NEW v \in 0..n - 1 PROVE \E i \in 1..n : Nth(c, n, dir, i) = v
      <3>1. CASE v >= c
        <4>1. v - c + 1 \in 1..n /\ Nth(c, n, dir, v - c + 1) = v
          BY <1>1, <3>1 DEF Nth
        <4> QED  BY <4>1
      <3>2. CASE v < c
        <4>1. v - c + 1 + n \in 1..n /\ Nth(c, n, dir, v - c + 1 + n) = v
          BY <1>1, <3>2 DEF Nth
        <4> QED  BY <4>1
      <3> QED  BY <3>1, <3>2
    <2> QED  BY <1>1, <2>1 DEF Nth
  <1>2. CASE dir = -1
    <2>1. ASSUME NEW v \in 0..n - 1 PROVE \E i \in 1..n : Nth(c, n, dir, i) = v
      <3>1. CASE v < c
        <4>1. c - v \in 1..n /\ Nth(c, n, dir, c - v) = v
          BY <1>2, <3>1 DEF Nth
        <4> QED  BY <4>1
      <3>2. CASE v >= c
        <4>1. c - v + n \in 1..n /\ Nth(c, n, dir, c - v + n) = v
          BY <1>2, <3>2 DEF Nth
        <4> QED  BY <4>1
      <3> QED  BY <3>1, <3>2
    <2> QED  BY <1>2, <2>1 DEF Nth
  <1> QED
    BY <1>1, <1>2

LEMMA BeginInv ==
    ASSUME RingInv, NEW dir \in {1, -1}, R!Begin(dir)
    PROVE  RingInv'
  <1>1. /\ num \in Nat \ {0} /\ cursor \in 0..num - 1 /\ num' = num /\ cursor' = cursor
        /\ it' = IF dir = 1 THEN cursor ELSE R!Round(cursor - 1)
        /\ walk' = IF dir = 1 THEN "next" ELSE "prev"
        /\ seen' = <<it'>>
    BY DEF RingInv, R!Begin, R!Way
  <1>2. it' = Nth(cursor, num, dir, 1)
    <2>1. cursor - 1 \in -1..num
      BY <1>1
    <2>2. R!Round(cursor - 1) = IF cursor - 1 = -1 THEN num - 1 ELSE cursor - 1
      BY <1>1, <2>1, RoundIs
    <2> QED  BY <1>1, <2>2 DEF Nth
  <1>3. it' \in 0..num - 1
    BY <1>1, <1>2 DEF Nth
  <1>4. /\ seen' \in Seq(Int) /\ Len(seen') = 1 /\ seen'[1] = it'
    BY <1>1, <1>3
  <1>5. Walked(dir)'
    BY <1>1, <1>2, <1>4 DEF Walked
  <1> QED
    BY <1>1, <1>3, <1>4, <1>5 DEF RingInv

LEMMA StepStopInv ==
    ASSUME RingInv, NEW dir \in {1, -1}, R!StepStop(dir)
    PROVE  RingInv'
  <1> DEFINE i == R!Round(it + dir)
  <1>1. /\ num \in Nat \ {0} /\ cursor \in 0..num - 1 /\ it \in 0..num - 1
        /\ num' = num /\ cursor' = cursor /\ seen \in Seq(Int)
    BY DEF RingInv, R!StepStop
  <1>2. i = IF it + dir = -1 THEN num - 1 ELSE IF it + dir = num THEN 0 ELSE it + dir
    <2>1. it + dir \in -1..num
      BY <1>1
    <2> QED  BY <1>1, <2>1, RoundIs
  <1>3. i \in 0..num - 1
    BY <1>1, <1>2
  <1>4. R!EndOfWalk(dir) = Nth(cursor, num, dir, 1)
    <2>1. cursor - 1 \in -1..num
      BY <1>1
    <2>2. R!Round(cursor - 1) = IF cursor - 1 = -1 THEN num - 1 ELSE cursor - 1
      BY <1>1, <2>1, RoundIs
    <2> QED  BY <1>1, <2>2 DEF Nth, R!EndOfWalk
  <1>5. R!Way(dir) = (IF dir = 1 THEN "next" ELSE "prev")
    BY DEF R!Way
  <1>6. \/ i = R!EndOfWalk(dir) /\ walk' = (IF walk = R!Way(dir) THEN "over" ELSE walk)
             /\ UNCHANGED <<it, seen>>
        \/ i # R!EndOfWalk(dir) /\ it' = i /\ walk = R!Way(dir) /\ seen' = Append(seen, i)
             /\ walk' = walk
        \/ i # R!EndOfWalk(dir) /\ it' = i /\ seen' = <<>> /\ walk' = "free"
    BY DEF R!StepStop
  <1> HIDE DEF i
  <1>7. walk = R!Way(dir) => Walked(dir)
    BY <1>5 DEF RingInv
  \* The next element is the one after the last of the walk, and the first one only
  \* when all have been met.
  <1>8. ASSUME walk = R!Way(dir)
        PROVE  /\ i = R!EndOfWalk(dir) => Len(seen) = num
               /\ i # R!EndOfWalk(dir) => Len(seen) < num /\ i = Nth(cursor, num, dir, Len(seen) + 1)
    <2>1. Len(seen) \in 1..num /\ it = Nth(cursor, num, dir, Len(seen))
      BY <1>7, <1>8 DEF Walked
    <2>2. CASE dir = 1
      BY <1>1, <1>2, <1>4, <2>1, <2>2, SMTT(40) DEF Nth
    <2>3. CASE dir = -1
      BY <1>1, <1>2, <1>4, <2>1, <2>3, SMTT(40) DEF Nth
    <2> QED  BY <2>2, <2>3
  <1>9. CASE i = R!EndOfWalk(dir) /\ walk' = (IF walk = R!Way(dir) THEN "over" ELSE walk)
             /\ UNCHANGED <<it, seen>>
    <2>1. CASE walk = R!Way(dir)
      <3>1. walk' = "over" /\ Walked(dir)' /\ Len(seen') = num'
        BY <1>1, <1>7, <1>8, <1>9, <2>1 DEF Walked
      <3> QED  BY <1>1, <1>9, <3>1 DEF RingInv
    <2>2. CASE walk # R!Way(dir)
      <3>1. walk' = walk /\ it' = it /\ seen' = seen
        BY <1>9, <2>2
      <3> QED  BY <1>1, <3>1 DEF RingInv, Walked
    <2> QED  BY <2>1, <2>2
  <1>10. CASE i # R!EndOfWalk(dir) /\ it' = i /\ walk = R!Way(dir) /\ seen' = Append(seen, i)
              /\ walk' = walk
    <2>1. /\ seen' \in Seq(Int) /\ Len(seen') = Len(seen) + 1 /\ Len(seen) \in Nat
          /\ seen'[Len(seen) + 1] = i /\ \A j \in 1..Len(seen) : seen'[j] = seen[j]
      BY <1>1, <1>3, <1>10
    <2>2. Len(seen') \in 1..num
      BY <1>1, <1>8, <1>10, <2>1
    <2>3. ASSUME NEW j \in 1..Len(seen') PROVE seen'[j] = Nth(cursor, num, dir, j)
      <3>1. CASE j = Len(seen) + 1
        BY <1>8, <1>10, <2>1, <3>1
      <3>2. CASE j # Len(seen) + 1
        <4>1. j \in 1..Len(seen)
          BY <2>1, <3>2
        <4> QED  BY <1>7, <1>10, <2>1, <4>1 DEF Walked
      <3> QED  BY <3>1, <3>2
    <2>4. it' = Nth(cursor, num, dir, Len(seen'))
      BY <1>8, <1>10, <2>1
    <2>5. Walked(dir)'
      BY <1>1, <2>2, <2>3, <2>4 DEF Walked
    <2>6. walk' = (IF dir = 1 THEN "next" ELSE "prev") /\ it' \in 0..num' - 1
      BY <1>1, <1>3, <1>5, <1>10
    <2> QED  BY <1>1, <2>1, <2>5, <2>6 DEF RingInv
  <1>11. CASE i # R!EndOfWalk(dir) /\ it' = i /\ seen' = <<>> /\ walk' = "free"
    BY <1>1, <1>3, <1>11 DEF RingInv
  <1> QED
    BY <1>6, <1>9, <1>10, <1>11

LEMMA RingStep ==
    ASSUME RingInv, [R!Next]_rvars
    PROVE  RingInv'
  <1>1. ASSUME NEW dir \in {1, -1}, R!Begin(dir) PROVE RingInv'
    BY <1>1, BeginInv
  <1>2. ASSUME NEW dir \in {1, -1}, R!Step(dir) PROVE RingInv'
    <2>1. /\ num \in Nat \ {0} /\ cursor \in 0..num - 1 /\ it \in 0..num - 1
          /\ num' = num /\ cursor' = cursor /\ it' = R!Round(it + dir)
          /\ walk' = "free" /\ seen' = <<>>
      BY <1>2 DEF RingInv, R!Step
    <2>2. it + dir \in -1..num
      BY <2>1
    <2>3. it' \in 0..num - 1
      BY <2>1, <2>2, RoundIs
    <2> QED  BY <2>1, <2>3 DEF RingInv
  <1>3. ASSUME NEW dir \in {1, -1}, R!StepStop(dir) PROVE RingInv'
    BY <1>3, StepStopInv
  <1>4. ASSUME NEW incr \in -2 * MaxRing..2 * MaxRing, R!Advance(incr) PROVE RingInv'
    <2>1. incr \in Int
      OBVIOUS
    <2>2. /\ num \in Nat \ {0} /\ cursor \in 0..num - 1 /\ it \in 0..num - 1
          /\ num' = num /\ it' = it /\ cursor' = R!Rem(cursor + R!Round(incr), num)
          /\ seen' = <<>> /\ walk' \in {"none", "free"}
      BY <1>4 DEF RingInv, R!Advance
    <2>3. cursor' \in 0..num - 1
      BY <2>1, <2>2, AdvancedIs
    <2> QED  BY <2>2, <2>3 DEF RingInv
  <1>5. CASE UNCHANGED rvars
    BY <1>5 DEF RingInv, Walked, rvars
  <1> QED
    BY <1>1, <1>2, <1>3, <1>4, <1>5 DEF R!Next

LEMMA RingGood ==
    ASSUME RingInv
    PROVE  WalksRound
  <1>1. /\ num \in Nat \ {0} /\ cursor \in 0..num - 1 /\ it \in 0..num - 1
        /\ seen \in Seq(Int) /\ DOMAIN seen = 1..Len(seen) /\ Len(seen) \in Nat
    BY DEF RingInv
  <1>2. seen = <<>> \/ \E dir \in {1, -1} : Walked(dir) /\ (walk = "over" => Len(seen) = num)
    BY DEF RingInv
  <1>3. CASE seen = <<>>
    <2>1. DOMAIN seen = {}
      BY <1>1, <1>3
    <2> QED  BY <1>1, <1>3, <2>1 DEF WalksRound, R!WalksRound, R!IsInjective
  <1>4. CASE \E dir \in {1, -1} : Walked(dir) /\ (walk = "over" => Len(seen) = num)
    <2>1. PICK dir \in {1, -1} : Walked(dir) /\ (walk = "over" => Len(seen) = num)
      BY <1>4
    <2>2. /\ Len(seen) \in 1..num /\ num \in Nat
          /\ \A i \in 1..Len(seen) : seen[i] = Nth(cursor, num, dir, i)
      BY <1>1, <2>1 DEF Walked
    <2>5. /\ \A i \in 1..num : Nth(cursor, num, dir, i) \in 0..num - 1
          /\ \A i, j \in 1..num : Nth(cursor, num, dir, i) = Nth(cursor, num, dir, j) => i = j
          /\ \A v \in 0..num - 1 : \E i \in 1..num : Nth(cursor, num, dir, i) = v
      BY <1>1, NthIs
    <2>6. 1..Len(seen) \subseteq 1..num
      BY <2>2
    <2>3. R!IsInjective(seen)
      <3>1. \A i, j \in 1..Len(seen) : seen[i] = seen[j] => i = j
        BY <2>2, <2>5, <2>6
      <3> QED  BY <1>1, <3>1 DEF R!IsInjective
    <2>4. walk = "over" => R!Range(seen) = 0..num - 1
      <3> HAVE walk = "over"
      <3>1. DOMAIN seen = 1..num
        BY <1>1, <2>1
      <3>2. \A v \in 0..num - 1 : \E i \in 1..num : seen[i] = v
        BY <1>1, <2>2, <2>5, <3>1
      <3>3. \A i \in 1..num : seen[i] \in 0..num - 1
        BY <1>1, <2>2, <2>5, <3>1
      <3> QED  BY <3>1, <3>2, <3>3 DEF R!Range
    <2> QED  BY <1>1, <2>3, <2>4 DEF WalksRound, R!WalksRound
  <1> QED
    BY <1>2, <1>3, <1>4

\* mnring_next_stop and mnring_prev_stop meet each element of the ring once and then
\* stop, and no advance of the cursor takes the iterator out of it.
THEOREM RingWalksRound == MCSpec => []WalksRound
  <1>1. MCInit => RingInv
    BY DEF MCInit, R!Init, RingInv
  <1>2. RingInv /\ [MCNext]_<<use, vars, svars, lvars, rvars>> => RingInv'
    <2>1. [MCNext]_<<use, vars, svars, lvars, rvars>> => [R!Next]_rvars
      BY DEF MCNext
    <2> QED  BY <2>1, RingStep
  <1>3. RingInv => WalksRound
    BY RingGood
  <1> QED
    BY <1>1, <1>2, <1>3, PTL DEF MCSpec

-----------------------------------------------------------------------------
(* The lists.  Each has a chain, found by going along next from its head.    *)

LEMMA Induction ==
    ASSUME NEW T \in SUBSET Nat, 0 \in T, \A n \in T : n + 1 \in T
    PROVE  T = Nat
  <1> DEFINE V == Nat \ T
             Lower == {ss \in Nat \X Nat : ss[1] < ss[2]}
  <1>1. IsWellFoundedOn(Lower, Nat)
    BY NatLessThanWellFounded DEF OpToRel
  <1>2. \A x, y \in Nat : y < x => <<y, x>> \in Lower
    OBVIOUS
  <1> HIDE DEF Lower
  <1>3. ASSUME V # {} PROVE FALSE
    <2>1. V \subseteq Nat
      OBVIOUS
    <2> HIDE DEF V
    <2>2. PICK x \in V : \A y \in V : <<y, x>> \notin Lower
      BY <1>1, <1>3, <2>1, WFMin
    <2>3. x \in Nat /\ x # 0 /\ x - 1 \in Nat /\ x - 1 < x
      BY <2>1, <2>2 DEF V
    <2>4. x - 1 \notin V
      BY <1>2, <2>2, <2>3
    <2>5. x - 1 \in T /\ (x - 1) + 1 = x /\ x \notin T
      BY <2>3, <2>4 DEF V
    <2> QED  BY <2>5
  <1> QED  BY <1>3

\* s begins at c and goes along next to the end.
Leads(m, c, s) ==
    /\ c = IF s = <<>> THEN 0 ELSE s[1]
    /\ \A i \in 1..Len(s) : m[s[i]].next = IF i = Len(s) THEN 0 ELSE s[i + 1]

\* One round of the walk of Run, and all of them.
Ahead(m, c, r) == IF r = <<>> THEN c ELSE m[r[Len(r)]].next
Hop(m, c, w, i) ==
    IF i = 0 THEN <<>>
    ELSE IF Ahead(m, c, w[i - 1]) = 0 THEN w[i - 1]
    ELSE Append(w[i - 1], Ahead(m, c, w[i - 1]))
Hops(m, c, w) == w = [i \in 0..Cells |-> Hop(m, c, w, i)]

LEMMA RunDef ==
    ASSUME NEW m, NEW c
    PROVE  L!Run(m, c) = (CHOOSE w : Hops(m, c, w))[Cells]
  BY DEF L!Run, Hops, Hop, Ahead, L!Last, L!NULL

Part(s, i) == SubSeq(s, 1, IF i <= Len(s) THEN i ELSE Len(s))

LEMMA HopPart ==
    ASSUME NEW m, NEW c, NEW s \in Seq(1..Cells), Leads(m, c, s), NEW i \in Nat,
           NEW w, w[i] = Part(s, i)
    PROVE  Hop(m, c, w, i + 1) = Part(s, i + 1)
  <1>1. Len(s) \in Nat /\ i + 1 # 0 /\ (i + 1) - 1 = i /\ i + 1 \in Nat
    OBVIOUS
  <1>2. CASE i = 0
    <2>1. w[0] = <<>>
      BY <1>2, SubSeqEmpty DEF Part
    <2>2. Ahead(m, c, w[i]) = c
      BY <1>2, <2>1 DEF Ahead
    <2>3. CASE s = <<>>
      <3>1. Part(s, i + 1) = <<>>
        BY <1>1, <2>3, SubSeqEmpty DEF Part
      <3> QED  BY <1>1, <1>2, <2>1, <2>2, <2>3, <3>1 DEF Hop, Leads
    <2>4. CASE s # <<>>
      <3>1. c = s[1] /\ s[1] \in 1..Cells /\ 1 <= Len(s)
        <4>1. Len(s) \in Nat \ {0}
          BY <2>4, EmptySeq
        <4>2. 1 \in 1..Len(s) /\ 1 <= Len(s)
          BY <4>1
        <4>3. s[1] \in 1..Cells
          BY <4>2, ElementOfSeq
        <4>4. c = s[1]
          BY <2>4 DEF Leads
        <4> QED  BY <4>2, <4>3, <4>4
      <3>2. Part(s, i + 1) = SubSeq(s, 1, 1)
        BY <1>2, <3>1 DEF Part
      <3>3. SubSeq(s, 1, 1) = <<s[1]>>
        <4> DEFINE t == SubSeq(s, 1, 1)
        <4>1. t \in Seq(1..Cells) /\ Len(t) = 1 /\ t[1] = s[1]
          <5>1. \A j \in 1..1 : s[j] \in 1..Cells
            BY <3>1
          <5> QED  BY <5>1, SubSeqProperties
        <4> HIDE DEF t
        <4>2. t = <<t[1]>>
          BY <4>1
        <4> QED  BY <4>1, <4>2 DEF t
      <3>4. Hop(m, c, w, i + 1) = Append(<<>>, c)
        <4>1. w[i] = <<>> /\ c # 0
          BY <1>2, <2>1, <3>1
        <4> QED  BY <1>1, <2>2, <4>1 DEF Hop
      <3> QED  BY <3>1, <3>2, <3>3, <3>4
    <2> QED  BY <2>3, <2>4
  <1>3. CASE i # 0 /\ i < Len(s)
    <2>1. Part(s, i) \in Seq(1..Cells) /\ Len(Part(s, i)) = i /\ Part(s, i)[i] = s[i]
      <3>1. \A j \in 1..i : s[j] \in 1..Cells
        <4>1. \A j \in 1..i : j \in 1..Len(s)
          BY <1>1, <1>3
        <4> QED  BY <4>1, ElementOfSeq
      <3>2. 1 \in Int /\ i \in Int /\ 1 <= i /\ i \in 1..i - 1 + 1 /\ 1 + i - 1 = i
        BY <1>3
      <3>3. Part(s, i) = SubSeq(s, 1, i)
        BY <1>1, <1>3 DEF Part
      <3> QED  BY <3>1, <3>2, <3>3, SubSeqProperties
    <2>2. Part(s, i) # <<>> /\ s[i + 1] \in 1..Cells /\ m[s[i]].next = s[i + 1]
      <3>1. i \in 1..Len(s) /\ i # Len(s) /\ i + 1 \in 1..Len(s)
        BY <1>1, <1>3
      <3>2. m[s[i]].next = s[i + 1]
        BY <3>1 DEF Leads
      <3>3. s[i + 1] \in 1..Cells
        BY <3>1, ElementOfSeq
      <3>4. Part(s, i) # <<>>
        BY <1>3, <2>1, EmptySeq
      <3> QED  BY <3>2, <3>3, <3>4
    <2>3. Ahead(m, c, w[i]) = s[i + 1] /\ s[i + 1] # 0
      BY <1>1, <2>1, <2>2 DEF Ahead
    <2>4. Hop(m, c, w, i + 1) = Append(Part(s, i), s[i + 1])
      BY <1>1, <2>3 DEF Hop
    <2>5. Part(s, i) = SubSeq(s, 1, i) /\ Part(s, i + 1) = SubSeq(s, 1, i + 1)
      BY <1>1, <1>3 DEF Part
    <2>6. SubSeq(s, 1, i + 1) = SubSeq(s, 1, i) \o <<s[i + 1]>>
      <3>1. 1 \in 1..Len(s) /\ i + 1 \in 1..Len(s) /\ (i + 1) - 1 = i
        BY <1>1, <1>3
      <3> QED  BY <3>1, SubSeqRecursiveSecond
    <2>7. Append(Part(s, i), s[i + 1]) = Part(s, i) \o <<s[i + 1]>>
      BY <2>1, <2>2
    <2> QED  BY <2>4, <2>5, <2>6, <2>7
  <1>4. CASE i # 0 /\ i >= Len(s)
    <2>1. Part(s, i) = s /\ Part(s, i + 1) = s
      BY <1>1, <1>4, SubSeqFull DEF Part
    <2>2. Ahead(m, c, s) = 0
      BY <1>1 DEF Ahead, Leads
    <2> QED  BY <1>1, <2>1, <2>2 DEF Hop
  <1> QED
    BY <1>1, <1>2, <1>3, <1>4

\* Whoever goes along next has the chain in hand.
LEMMA RunIs ==
    ASSUME NEW m, NEW c, NEW s \in Seq(1..Cells), Leads(m, c, s), Len(s) <= Cells
    PROVE  L!Run(m, c) = s
  <1>1. Cells \in Nat /\ Len(s) \in Nat
    BY CellsAssumption
  <1>2. Part(s, 0) = <<>> /\ Part(s, Cells) = s
    BY <1>1, SubSeqEmpty, SubSeqFull DEF Part
  <1> DEFINE v == [i \in 0..Cells |-> Part(s, i)]
  <1>3. Hops(m, c, v)
    <2>1. ASSUME NEW i \in 0..Cells PROVE Hop(m, c, v, i) = Part(s, i)
      <3>1. CASE i = 0
        BY <1>2, <3>1 DEF Hop
      <3>2. CASE i # 0
        <4>1. i - 1 \in 0..Cells /\ i - 1 \in Nat /\ (i - 1) + 1 = i
          BY <1>1, <3>2
        <4>2. v[i - 1] = Part(s, i - 1)
          BY <4>1
        <4> HIDE DEF v
        <4>3. Hop(m, c, v, (i - 1) + 1) = Part(s, (i - 1) + 1)
          BY <4>1, <4>2, HopPart
        <4> QED  BY <4>1, <4>3
      <3> QED  BY <3>1, <3>2
    <2> QED  BY <2>1 DEF Hops
  <1> DEFINE w == CHOOSE w : Hops(m, c, w)
  <1>4. Hops(m, c, w)
    BY <1>3
  <1> HIDE DEF w
  <1>5. \A i \in 0..Cells : w[i] = Hop(m, c, w, i)
    BY <1>4 DEF Hops
  <1> DEFINE T == {i \in Nat : i <= Cells => w[i] = Part(s, i)}
  <1>6. 0 \in T
    BY <1>1, <1>2, <1>5 DEF Hop
  <1>7. ASSUME NEW i \in T PROVE i + 1 \in T
    <2>1. ASSUME i + 1 <= Cells PROVE w[i + 1] = Part(s, i + 1)
      <3>1. i \in Nat /\ i + 1 \in 0..Cells /\ w[i] = Part(s, i)
        BY <1>1, <2>1
      <3>2. Hop(m, c, w, i + 1) = Part(s, i + 1)
        BY <3>1, HopPart
      <3> QED  BY <1>5, <3>1, <3>2
    <2> QED  BY <2>1
  <1>8. T = Nat
    <2> HIDE DEF T
    <2> QED  BY <1>6, <1>7, Induction DEF T
  <1>9. w[Cells] = s
    BY <1>1, <1>2, <1>8
  <1> QED
    BY <1>9, RunDef DEF w

LEMMA UpTo ==
    ASSUME NEW n \in Nat
    PROVE  IsFiniteSet(1..n) /\ Cardinality(1..n) = n
  <1>1. 1 \in Int /\ n \in Int /\ (1 > n <=> n = 0) /\ n - 1 + 1 = n
    OBVIOUS
  <1> QED  BY <1>1, FS_Interval

LEMMA FunIsSeq ==
    ASSUME NEW U, NEW n \in Nat, NEW f \in [1..n -> U]
    PROVE  f \in Seq(U) /\ Len(f) = n
  <1>1. f \in Seq(U)
    BY SeqDef
  <1> QED
    BY <1>1, LenProperties

\* Entries that differ are no more than there are.
LEMMA FewCells ==
    ASSUME NEW s \in Seq(1..Cells), \A i, j \in 1..Len(s) : s[i] = s[j] => i = j
    PROVE  Len(s) <= Cells
  <1>1. Cells \in Nat /\ Len(s) \in Nat /\ s \in [1..Len(s) -> 1..Cells]
    BY CellsAssumption, LenProperties
  <1>2. s \in Injection(1..Len(s), 1..Cells)
    BY <1>1 DEF Injection, IsInjective
  <1>3. IsFiniteSet(1..Cells)
    BY <1>1, UpTo
  <1>4. Cardinality(1..Len(s)) <= Cardinality(1..Cells)
    BY <1>2, <1>3, FS_Injection
  <1>5. Cardinality(1..Len(s)) = Len(s) /\ Cardinality(1..Cells) = Cells
    BY <1>1, UpTo
  <1> QED
    BY <1>1, <1>4, <1>5

LEMMA MallocedIs ==
    ASSUME NEW m, DOMAIN m \subseteq 1..Cells, NEW n \in Nat, n <= L!Room(m)
    PROVE  LET new == L!Malloced(m, n) IN
           /\ new \in Seq(1..Cells) /\ Len(new) = n
           /\ \A i, j \in 1..n : new[i] = new[j] => i = j
           /\ \A i \in 1..n : new[i] \in 1..Cells /\ new[i] \notin DOMAIN m
  <1> DEFINE F == 1..Cells \ DOMAIN m
             size == Cardinality(F)
  <1>1. Cells \in Nat /\ IsFiniteSet(1..Cells) /\ Cardinality(1..Cells) = Cells
    BY CellsAssumption, UpTo
  <1>2. IsFiniteSet(DOMAIN m) /\ Cardinality(DOMAIN m) \in Nat
    BY <1>1, FS_Subset, FS_CardinalityType
  <1>3. IsFiniteSet(F) /\ size = Cells - Cardinality(DOMAIN m)
    <2>1. 1..Cells \cap DOMAIN m = DOMAIN m
      OBVIOUS
    <2>2. IsFiniteSet(F) /\ size = Cardinality(1..Cells) - Cardinality(1..Cells \cap DOMAIN m)
      BY <1>1, FS_Difference
    <2> QED  BY <1>1, <2>1, <2>2
  <1>4. L!Room(m) = Cells - Cardinality(DOMAIN m)
    BY DEF L!Room, L!Cardinality, Cardinality
  <1>5. size \in Nat /\ n <= size /\ ExistsBijection(1..size, F)
    BY <1>2, <1>3, <1>4, FS_CardinalityType
  <1> HIDE DEF size, F
  <1>6. PICK f \in Bijection(1..size, F) : TRUE
    BY <1>5 DEF ExistsBijection
  <1>61. f \in [1..size -> F] /\ \A i, j \in 1..size : f[i] = f[j] => i = j
    BY <1>6 DEF Bijection, Injection, IsInjective
  <1> DEFINE g == [i \in 1..n |-> f[i]]
  <1>7. g \in [1..n -> F] /\ L!IsInjective(g)
    <2>1. \A i \in 1..n : i \in 1..size
      BY <1>5
    <2> QED  BY <1>61, <2>1 DEF L!IsInjective
  <1> DEFINE new == L!Malloced(m, n)
  <1>8. new \in [1..n -> F] /\ L!IsInjective(new)
    <2> HIDE DEF g
    <2> QED  BY <1>7 DEF L!Malloced, F
  <1> HIDE DEF new
  <1>9. new \in Seq(1..Cells) /\ Len(new) = n
    <2>1. new \in [1..n -> 1..Cells]
      BY <1>8 DEF F
    <2> QED  BY <2>1, FunIsSeq
  <1>10. /\ \A i, j \in 1..n : new[i] = new[j] => i = j
         /\ \A i \in 1..n : new[i] \in 1..Cells /\ new[i] \notin DOMAIN m
    BY <1>8 DEF L!IsInjective, F
  <1> QED
    BY <1>9, <1>10 DEF new

-----------------------------------------------------------------------------
(* The invariant.  ch gives the chain of each list, k is the entries lost.   *)

LRng(s) == {s[i] : i \in 1..Len(s)}
LEnd(s) == IF s = <<>> THEN 0 ELSE s[Len(s)]
LBegin(s) == IF s = <<>> THEN 0 ELSE s[1]

LRecord == [index : Seq(1..Cells), head : Int, tail : Int, st : {"none", "ok", "broken"}]
Rec(index, head, tail, st) == [index |-> index, head |-> head, tail |-> tail, st |-> st]
Extended(l, index, head, tail) == [l EXCEPT !.index = index, !.head = head, !.tail = tail]
LMemory(m) ==
    /\ DOMAIN m \subseteq 1..Cells
    /\ m \in [DOMAIN m -> [next : Int, prev : Int, data : {"live", "raw"}]]

\* s is a chain: its entries differ, and are linked in both directions.
LJoined(m, s) ==
    /\ \A i, j \in 1..Len(s) : s[i] = s[j] => i = j
    /\ \A i \in 1..Len(s) :
         /\ s[i] \in DOMAIN m
         /\ m[s[i]].next = IF i = Len(s) THEN 0 ELSE s[i + 1]
         /\ m[s[i]].prev = IF i = 1 THEN 0 ELSE s[i - 1]

\* A list that has the chain s.
LHolds(l, s) ==
    /\ l.head = LBegin(s)
    /\ l.tail = IF l.st = "ok" THEN LEnd(s) ELSE 0
    /\ l.st = "none" => s = <<>>
    /\ L!Within(l.index, s)

\* Nothing has failed in it.
LSure(l, m, s) == l.index = s /\ \A i \in 1..Len(s) : m[s[i]].data = "live"

LSound(ls, m, u, ch, x) ==
    /\ LJoined(m, ch[x]) /\ LHolds(ls[x], ch[x])
    /\ x \in u \/ LSure(ls[x], m, ch[x])
LApart(k, ch) ==
    /\ \A x, y \in Lists : x # y => \A c \in LRng(ch[x]) : c \notin LRng(ch[y])
    /\ \A x \in Lists : \A c \in LRng(ch[x]) : c \notin k
LLost(m, k) ==
    \A c \in k : c \in DOMAIN m /\ m[c].next \in k \cup {0} /\ m[c].prev \in k \cup {0}
LCovered(m, k, ch) == \A c \in DOMAIN m : c \in k \/ \E x \in Lists : c \in LRng(ch[x])

LFits(ls, m, u, k, ch) ==
    /\ ls \in [Lists -> LRecord] /\ ch \in [Lists -> Seq(1..Cells)] /\ u \subseteq Lists
    /\ LMemory(m)
    /\ \A x \in Lists : LSound(ls, m, u, ch, x)
    /\ LApart(k, ch) /\ LLost(m, k) /\ LCovered(m, k, ch)

LIInv == \E ch : LFits(lst, mem, unsure, leaked, ch)

LEMMA RecIs ==
    ASSUME NEW i, NEW h, NEW t, NEW o
    PROVE  LET r == Rec(i, h, t, o) IN
           /\ r.index = i /\ r.head = h /\ r.tail = t /\ r.st = o
           /\ \A a : [r EXCEPT !.index = a] = Rec(a, h, t, o)
           /\ \A a : [r EXCEPT !.head = a] = Rec(i, a, t, o)
           /\ \A a : [r EXCEPT !.tail = a] = Rec(i, h, a, o)
           /\ \A a : [r EXCEPT !.st = a] = Rec(i, h, t, a)
  BY DEF Rec

LEMMA IsRec ==
    ASSUME NEW l \in LRecord
    PROVE  l = Rec(l.index, l.head, l.tail, l.st)
  BY DEF LRecord, Rec

LEMMA ExtendedIs ==
    ASSUME NEW l \in LRecord, NEW index, NEW head, NEW tail
    PROVE  Extended(l, index, head, tail) = Rec(index, head, tail, l.st)
  <1> DEFINE i == l.index
             h == l.head
             t == l.tail
             o == l.st
             l1 == [l EXCEPT !.index = index]
             l2 == [l1 EXCEPT !.head = head]
  <1>1. l = Rec(i, h, t, o)
    BY IsRec
  <1> HIDE DEF i, h, t, o
  <1>2. l1 = Rec(index, h, t, o)
    BY RecIs, <1>1
  <1> HIDE DEF l1
  <1>3. l2 = Rec(index, head, t, o)
    BY RecIs, <1>2
  <1> HIDE DEF l2
  <1>4. [l2 EXCEPT !.tail = tail] = Rec(index, head, tail, o)
    BY RecIs, <1>3
  <1>5. Extended(l, index, head, tail) = [l2 EXCEPT !.tail = tail]
    BY DEF Extended, l1, l2
  <1> QED
    BY <1>4, <1>5 DEF o

LEMMA ShortIs ==
    ASSUME NEW l \in LRecord, NEW n
    PROVE  L!Short(l, n) =
             Rec(SubSeq(l.index, 1, n), l.head, mem[l.index[n + 1]].prev, l.st)
  <1> DEFINE i == l.index
             h == l.head
             t == l.tail
             o == l.st
             a == SubSeq(i, 1, n)
             b == mem[i[n + 1]].prev
             l1 == [l EXCEPT !.index = a]
  <1>1. l = Rec(i, h, t, o)
    BY IsRec
  <1>2. L!Short(l, n) = [l1 EXCEPT !.tail = b]
    BY DEF L!Short
  <1> HIDE DEF i, h, t, o, a, b
  <1>3. l1 = Rec(a, h, t, o)
    BY RecIs, <1>1
  <1> HIDE DEF l1
  <1>4. [l1 EXCEPT !.tail = b] = Rec(a, h, b, o)
    BY RecIs, <1>3
  <1> QED
    BY <1>2, <1>4 DEF i, h, o, a, b

LEMMA LRangeIs ==
    ASSUME NEW s \in Seq(1..Cells)
    PROVE  L!Range(s) = LRng(s) /\ DOMAIN s = 1..Len(s)
  BY DEF L!Range, LRng

\* Only the chain x changes: from ch[x] to s.
LTurns(m, ch, x, m2, s) ==
    /\ \A c \in DOMAIN m : c \notin LRng(ch[x]) => c \in DOMAIN m2 /\ m2[c] = m[c] /\ c \notin LRng(s)
    /\ \A c \in DOMAIN m2 : c \in LRng(s) \/ (c \in DOMAIN m /\ c \notin LRng(ch[x]))

LNew(l, m, s, u, u2, x) ==
    /\ l \in LRecord /\ LMemory(m) /\ s \in Seq(1..Cells) /\ LJoined(m, s) /\ LHolds(l, s)
    /\ u2 \subseteq Lists /\ \A y \in Lists : y # x => (y \in u2 <=> y \in u)
    /\ x \in u2 \/ LSure(l, m, s)

LEMMA LChange ==
    ASSUME NEW ls, NEW m, NEW u, NEW k, NEW ch, LFits(ls, m, u, k, ch), NEW x \in Lists,
           NEW l, NEW m2, NEW u2, NEW s, LNew(l, m2, s, u, u2, x), LTurns(m, ch, x, m2, s)
    PROVE  LFits([ls EXCEPT ![x] = l], m2, u2, k, [ch EXCEPT ![x] = s])
  <1> DEFINE ls2 == [ls EXCEPT ![x] = l]
             ch2 == [ch EXCEPT ![x] = s]
  <1>1. /\ ls2 \in [Lists -> LRecord] /\ ch2 \in [Lists -> Seq(1..Cells)]
        /\ ls2[x] = l /\ ch2[x] = s
        /\ \A y \in Lists : y # x => ls2[y] = ls[y] /\ ch2[y] = ch[y]
    BY DEF LFits, LNew
  <1> HIDE DEF ls2, ch2
  <1>2. \A y \in Lists : y # x => \A c \in LRng(ch[y]) : c \in DOMAIN m /\ c \notin LRng(ch[x])
    <2>1. \A y \in Lists : LJoined(m, ch[y])
      BY DEF LFits, LSound
    <2>2. \A y \in Lists : \A c \in LRng(ch[y]) : c \in DOMAIN m
      BY <2>1 DEF LJoined, LRng
    <2>3. LApart(k, ch)
      BY DEF LFits
    <2> QED  BY <2>2, <2>3 DEF LApart
  <1>3. \A y \in Lists : y # x => \A c \in LRng(ch[y]) :
            c \in DOMAIN m2 /\ m2[c] = m[c] /\ c \notin LRng(s)
    BY <1>2 DEF LTurns
  <1>4. ASSUME NEW y \in Lists PROVE LSound(ls2, m2, u2, ch2, y)
    <2>1. CASE y = x
      BY <1>1, <2>1 DEF LSound, LNew
    <2>2. CASE y # x
      <3>1. \A i \in 1..Len(ch[y]) : ch[y][i] \in DOMAIN m2 /\ m2[ch[y][i]] = m[ch[y][i]]
        BY <1>3, <2>2 DEF LRng
      <3>2. LJoined(m, ch[y]) => LJoined(m2, ch[y])
        BY <3>1 DEF LJoined
      <3>3. LSure(ls[y], m, ch[y]) => LSure(ls[y], m2, ch[y])
        BY <3>1 DEF LSure
      <3>4. y \in u2 <=> y \in u
        BY <2>2 DEF LNew
      <3>5. LSound(ls, m, u, ch, y)
        BY DEF LFits
      <3> QED  BY <1>1, <2>2, <3>2, <3>3, <3>4, <3>5 DEF LSound
    <2> QED  BY <2>1, <2>2
  <1>5. \A c \in k : c \in DOMAIN m /\ c \notin LRng(ch[x])
    BY DEF LFits, LLost, LApart
  <1>6. LApart(k, ch2)
    <2>1. \A c \in LRng(s) : c \notin k
      BY <1>5 DEF LTurns
    <2>2. \A y, z \in Lists : y # z => \A c \in LRng(ch[y]) : c \notin LRng(ch[z])
      BY DEF LFits, LApart
    <2>3. \A y, z \in Lists : y # z => \A c \in LRng(ch2[y]) : c \notin LRng(ch2[z])
      BY <1>1, <1>3, <2>2
    <2>4. \A y \in Lists : \A c \in LRng(ch[y]) : c \notin k
      BY DEF LFits, LApart
    <2>5. \A y \in Lists : \A c \in LRng(ch2[y]) : c \notin k
      BY <1>1, <2>1, <2>4
    <2> QED  BY <2>3, <2>5 DEF LApart
  <1>7. LLost(m2, k)
    <2>1. \A c \in k : c \in DOMAIN m2 /\ m2[c] = m[c]
      BY <1>5 DEF LTurns
    <2> QED  BY <2>1 DEF LFits, LLost
  <1>8. LCovered(m2, k, ch2)
    <2>1. ASSUME NEW c \in DOMAIN m2, c \notin k PROVE \E y \in Lists : c \in LRng(ch2[y])
      <3>1. CASE c \in LRng(s)
        BY <1>1, <3>1
      <3>2. CASE c \notin LRng(s)
        <4>1. c \in DOMAIN m /\ c \notin LRng(ch[x])
          BY <3>2 DEF LTurns
        <4>2. PICK y \in Lists : c \in LRng(ch[y])
          BY <2>1, <4>1 DEF LFits, LCovered
        <4> QED  BY <1>1, <4>1, <4>2
      <3> QED  BY <3>1, <3>2
    <2> QED  BY <2>1 DEF LCovered
  <1>9. LMemory(m2) /\ u2 \subseteq Lists
    BY DEF LNew
  <1> QED
    BY <1>1, <1>4, <1>6, <1>7, <1>8, <1>9 DEF LFits, ls2, ch2

\* The chain is what Chain and Run find.
LEMMA LChainIs ==
    ASSUME NEW ls, NEW m, NEW u, NEW k, NEW ch, LFits(ls, m, u, k, ch), NEW x \in Lists
    PROVE  /\ L!Run(m, ls[x].head) = ch[x] /\ ch[x] \in Seq(1..Cells) /\ Len(ch[x]) \in Nat
           /\ LJoined(m, ch[x]) /\ LHolds(ls[x], ch[x]) /\ ls[x] \in LRecord
  <1>1. /\ ch[x] \in Seq(1..Cells) /\ Len(ch[x]) \in Nat /\ LSound(ls, m, u, ch, x)
        /\ ls[x] \in LRecord
    BY DEF LFits
  <1>2. Leads(m, ls[x].head, ch[x])
    BY <1>1 DEF LSound, LHolds, LJoined, Leads, LBegin
  <1>3. Len(ch[x]) <= Cells
    BY <1>1, FewCells DEF LSound, LJoined
  <1>4. L!Run(m, ls[x].head) = ch[x]
    BY <1>1, <1>2, <1>3, RunIs
  <1> QED
    BY <1>1, <1>4 DEF LSound

-----------------------------------------------------------------------------
(* What the parts of the operations do to one list.                          *)

LEMMA LRngIs ==
    ASSUME NEW s \in Seq(1..Cells), NEW c
    PROVE  c \in LRng(s) <=> \E i \in 1..Len(s) : s[i] = c
  BY DEF LRng

\* Memory after Joined, entry by entry.
JoinedAs(m, before, new, refused, m2) ==
    /\ LMemory(m2) /\ DOMAIN m2 = DOMAIN m \cup LRng(new)
    /\ \A c \in DOMAIN m : c # before \/ new = <<>> => m2[c] = m[c]
    /\ \A c \in DOMAIN m : m2[c].data = m[c].data /\ m2[c].prev = m[c].prev
    /\ new # <<>> /\ before # 0 => m2[before].next = new[1]
    /\ \A i \in 1..Len(new) :
         /\ m2[new[i]].next = IF i = Len(new) THEN 0 ELSE new[i + 1]
         /\ m2[new[i]].prev = IF i = 1 THEN before ELSE new[i - 1]
         /\ m2[new[i]].data = IF i = Len(new) /\ refused THEN "raw" ELSE "live"
\* Entries malloc'd: new in m, and no two the same.
Unused(m, new) ==
    /\ new \in Seq(1..Cells)
    /\ \A i, j \in 1..Len(new) : new[i] = new[j] => i = j
    /\ \A i \in 1..Len(new) : new[i] \notin DOMAIN m

LEMMA JoinedIs ==
    ASSUME NEW m, LMemory(m), NEW before, NEW refused \in BOOLEAN, NEW new, Unused(m, new),
           before = 0 \/ before \in DOMAIN m
    PROVE  JoinedAs(m, before, new, refused, L!Joined(m, before, new, refused))
  <1>0. /\ new \in Seq(1..Cells) /\ \A i, j \in 1..Len(new) : new[i] = new[j] => i = j
        /\ \A i \in 1..Len(new) : new[i] \notin DOMAIN m
    BY DEF Unused
  <1> DEFINE m2 == L!Joined(m, before, new, refused)
             At(c) == CHOOSE i \in DOMAIN new : new[i] = c
             Init0(i) == IF i = Len(new) /\ refused THEN "raw" ELSE "live"
             Fresh(i) == [next |-> IF i = Len(new) THEN 0 ELSE new[i + 1],
                          prev |-> IF i = 1 THEN before ELSE new[i - 1],
                          data |-> Init0(i)]
             Old(c) == IF c = before /\ new # <<>> THEN [m[c] EXCEPT !.next = new[1]] ELSE m[c]
             E == [next : Int, prev : Int, data : {"live", "raw"}]
  <1>1. L!Range(new) = LRng(new) /\ DOMAIN new = 1..Len(new) /\ Len(new) \in Nat
    BY <1>0, LRangeIs
  <1>16. Len(new) \in Nat
    BY <1>1
  <1>2. m2 = [c \in DOMAIN m \cup LRng(new) |->
                IF c = before /\ new # <<>> THEN [m[c] EXCEPT !.next = new[1]]
                ELSE IF c \in DOMAIN m THEN m[c] ELSE Fresh(At(c))]
    BY <1>1 DEF L!Joined, L!NULL
  <1>3. \A i \in 1..Len(new) : At(new[i]) = i
    BY <1>0, <1>1
  <1>4. \A i \in 1..Len(new) : new[i] \in 1..Cells /\ new[i] # 0
    <2>1. \A i \in 1..Len(new) : new[i] \in 1..Cells
      BY <1>0, ElementOfSeq
    <2> QED  BY <2>1, CellsAssumption
  <1>5. \A i \in 1..Len(new) : Fresh(i) \in E
    <2>1. ASSUME NEW i \in 1..Len(new) PROVE Fresh(i).next \in Int /\ Fresh(i).prev \in Int
      <3>1. i # Len(new) => i + 1 \in 1..Len(new)
        BY <1>16
      <3>2. i # 1 => i - 1 \in 1..Len(new)
        BY <1>16
      <3>3. before \in Int
        BY CellsAssumption DEF LMemory
      <3>4. \A j \in 1..Len(new) : new[j] \in Int
        BY <1>4
      <3> QED  BY <3>1, <3>2, <3>3, <3>4
    <2> QED  BY <2>1
  <1> HIDE DEF m2, At
  <1>6. \A c \in DOMAIN m : m[c] \in E /\ c # 0
    BY CellsAssumption DEF LMemory
  <1>7. ASSUME NEW i \in 1..Len(new) PROVE m2[new[i]] = Fresh(i)
    <2>1. new[i] \in LRng(new) /\ new[i] \notin DOMAIN m /\ new[i] # before /\ At(new[i]) = i
      BY <1>0, <1>3, <1>4 DEF LRng
    <2> HIDE DEF Fresh
    <2> QED  BY <1>2, <2>1
  <1>8. ASSUME NEW c \in DOMAIN m PROVE m2[c] = Old(c)
    <2> HIDE DEF Fresh
    <2> QED  BY <1>2
  <1>9. \A c \in DOMAIN m : Old(c) \in E /\ Old(c).data = m[c].data /\ Old(c).prev = m[c].prev
    <2>1. new # <<>> => new[1] \in Int
      <3>1. new # <<>> => 1 \in 1..Len(new)
        BY <1>1, EmptySeq
      <3> QED  BY <1>4, <3>1
    <2> QED  BY <1>6, <2>1
  <1>10. DOMAIN m2 = DOMAIN m \cup LRng(new)
    BY <1>2
  <1>11. LMemory(m2)
    <2>1. ASSUME NEW c \in DOMAIN m2 PROVE m2[c] \in E /\ c \in 1..Cells
      <3>1. CASE c \in DOMAIN m
        BY <1>8, <1>9, <3>1 DEF LMemory
      <3>2. CASE c \in LRng(new)
        <4>1. PICK i \in 1..Len(new) : new[i] = c
          BY <1>0, <3>2, LRngIs
        <4> HIDE DEF Fresh, E
        <4> QED  BY <1>4, <1>5, <1>7, <4>1
      <3> QED  BY <1>10, <3>1, <3>2
    <2>2. m2 = [c \in DOMAIN m2 |-> m2[c]]
      BY <1>2
    <2>3. m2 \in [DOMAIN m2 -> E]
      <3> HIDE DEF E
      <3> QED  BY <2>1, <2>2
    <2> QED  BY <2>1, <2>3 DEF LMemory
  <1>12. \A c \in DOMAIN m : c # before \/ new = <<>> => m2[c] = m[c]
    BY <1>8
  <1>13. \A c \in DOMAIN m : m2[c].data = m[c].data /\ m2[c].prev = m[c].prev
    BY <1>8, <1>9
  <1>14. new # <<>> /\ before # 0 => m2[before].next = new[1]
    <2>1. before # 0 => before \in DOMAIN m /\ m[before] \in E
      BY <1>6
    <2> QED  BY <1>8, <2>1
  <1>15. ASSUME NEW i \in 1..Len(new)
         PROVE  /\ m2[new[i]].next = IF i = Len(new) THEN 0 ELSE new[i + 1]
                /\ m2[new[i]].prev = IF i = 1 THEN before ELSE new[i - 1]
                /\ m2[new[i]].data = Init0(i)
    <2> DEFINE nx == IF i = Len(new) THEN 0 ELSE new[i + 1]
               pv == IF i = 1 THEN before ELSE new[i - 1]
               dt == Init0(i)
    <2>1. m2[new[i]] = [next |-> nx, prev |-> pv, data |-> dt]
      BY <1>7
    <2> HIDE DEF nx, pv, dt
    <2>2. m2[new[i]].next = nx /\ m2[new[i]].prev = pv /\ m2[new[i]].data = dt
      BY <2>1
    <2> QED  BY <2>2 DEF nx, pv, dt
  <1> QED
    BY <1>10, <1>11, <1>12, <1>13, <1>14, <1>15 DEF m2, JoinedAs

\* The chain after Joined.
Longer(m, s, new, refused, m2) ==
    /\ LMemory(m2) /\ DOMAIN m2 = DOMAIN m \cup LRng(new)
    /\ s \o new \in Seq(1..Cells) /\ LJoined(m2, s \o new)
    /\ \A c \in DOMAIN m : c \notin LRng(s) => m2[c] = m[c]
    /\ \A c \in DOMAIN m : m2[c].data = m[c].data
    /\ \A i \in 1..Len(new) :
         m2[new[i]].data = IF i = Len(new) /\ refused THEN "raw" ELSE "live"
    /\ \A c : c \in LRng(s \o new) <=> c \in LRng(s) \/ c \in LRng(new)

LEMMA LongerChain ==
    ASSUME NEW m, LMemory(m), NEW s \in Seq(1..Cells), LJoined(m, s), NEW refused \in BOOLEAN,
           NEW new, Unused(m, new)
    PROVE  Longer(m, s, new, refused, L!Joined(m, LEnd(s), new, refused))
  <1>0. /\ new \in Seq(1..Cells) /\ \A i, j \in 1..Len(new) : new[i] = new[j] => i = j
        /\ \A i \in 1..Len(new) : new[i] \notin DOMAIN m
    BY DEF Unused
  <1> DEFINE a == Len(s)
             b == Len(new)
             t == s \o new
             m2 == L!Joined(m, LEnd(s), new, refused)
  <1>1. /\ a \in Nat /\ b \in Nat /\ t \in Seq(1..Cells) /\ Len(t) = a + b
        /\ \A i \in 1..a : t[i] = s[i]
        /\ \A i \in 1..b : t[a + i] = new[i]
    <2>1. a \in Nat /\ b \in Nat
      BY <1>0
    <2>2. /\ t \in Seq(1..Cells) /\ Len(t) = a + b
          /\ \A i \in 1..a + b : t[i] = IF i <= a THEN s[i] ELSE new[i - a]
      BY <1>0, ConcatProperties
    <2> HIDE DEF t
    <2>3. \A i \in 1..a : i \in 1..a + b /\ i <= a
      BY <2>1
    <2>4. \A i \in 1..b : a + i \in 1..a + b /\ ~(a + i <= a) /\ (a + i) - a = i
      BY <2>1
    <2>5. \A i \in 1..a : t[i] = s[i]
      BY <2>2, <2>3
    <2>6. \A i \in 1..b : t[a + i] = new[i]
      BY <2>2, <2>4
    <2> QED  BY <2>1, <2>2, <2>5, <2>6
  <1>2. (s = <<>> <=> a = 0) /\ (new = <<>> <=> b = 0)
    BY <1>0, <1>1, EmptySeq
  <1>3. \A i \in 1..a : s[i] \in DOMAIN m
    BY DEF LJoined
  <1>4. \A i \in 1..a : s[i] = LEnd(s) => i = a
    <2>1. ASSUME NEW i \in 1..a, s[i] = LEnd(s) PROVE i = a
      <3>1. LEnd(s) = s[a] /\ a \in 1..a
        BY <1>1, <1>2 DEF LEnd
      <3> QED  BY <2>1, <3>1 DEF LJoined
    <2> QED  BY <2>1
  <1>5. LEnd(s) = 0 \/ LEnd(s) \in DOMAIN m
    BY <1>1, <1>2, <1>3 DEF LEnd
  <1>6. a # 0 => LEnd(s) = s[a] /\ LEnd(s) # 0 /\ s[a] \in DOMAIN m /\ a \in 1..a
    BY <1>1, <1>2, <1>3, CellsAssumption DEF LEnd, LMemory
  <1> HIDE DEF m2
  <1>7. /\ LMemory(m2) /\ DOMAIN m2 = DOMAIN m \cup LRng(new)
        /\ \A c \in DOMAIN m : c # LEnd(s) \/ new = <<>> => m2[c] = m[c]
        /\ \A c \in DOMAIN m : m2[c].data = m[c].data /\ m2[c].prev = m[c].prev
        /\ new # <<>> /\ LEnd(s) # 0 => m2[LEnd(s)].next = new[1]
        /\ \A i \in 1..b :
             /\ m2[new[i]].next = IF i = b THEN 0 ELSE new[i + 1]
             /\ m2[new[i]].prev = IF i = 1 THEN LEnd(s) ELSE new[i - 1]
             /\ m2[new[i]].data = IF i = b /\ refused THEN "raw" ELSE "live"
    <2>1. JoinedAs(m, LEnd(s), new, refused, m2)
      BY <1>5, JoinedIs DEF m2
    <2> QED  BY <2>1 DEF JoinedAs
  <1> HIDE DEF t, a, b
  <1>8. ASSUME NEW i \in 1..a + b PROVE i \in 1..a \/ (i - a \in 1..b /\ a + (i - a) = i)
    BY <1>1
  <1>9. \A i, j \in 1..a + b : t[i] = t[j] => i = j
    <2>1. \A i, j \in 1..a : s[i] = s[j] => i = j
      BY DEF LJoined, a
    <2>2. \A i \in 1..a, j \in 1..b : s[i] # new[j]
      BY <1>0, <1>3 DEF b
    <2>3. \A i, j \in 1..b : new[i] = new[j] => i = j
      BY <1>0 DEF b
    <2>4. ASSUME NEW i \in 1..a + b, NEW j \in 1..a + b, t[i] = t[j] PROVE i = j
      <3>1. CASE i \in 1..a /\ j \in 1..a
        BY <1>1, <2>1, <2>4, <3>1
      <3>2. CASE i \in 1..a /\ j \notin 1..a
        <4>1. j - a \in 1..b /\ t[j] = new[j - a]
          BY <1>1, <1>8, <3>2
        <4> QED  BY <1>1, <2>2, <2>4, <3>2, <4>1
      <3>3. CASE i \notin 1..a /\ j \in 1..a
        <4>1. i - a \in 1..b /\ t[i] = new[i - a]
          BY <1>1, <1>8, <3>3
        <4> QED  BY <1>1, <2>2, <2>4, <3>3, <4>1
      <3>4. CASE i \notin 1..a /\ j \notin 1..a
        <4>1. /\ i - a \in 1..b /\ t[i] = new[i - a]
              /\ j - a \in 1..b /\ t[j] = new[j - a]
          BY <1>1, <1>8, <3>4
        <4>2. i - a = j - a
          BY <2>3, <2>4, <4>1
        <4> QED  BY <1>1, <4>2
      <3> QED  BY <3>1, <3>2, <3>3, <3>4
    <2> QED  BY <2>4
  <1>10. ASSUME NEW i \in 1..a + b
         PROVE  /\ t[i] \in DOMAIN m2
                /\ m2[t[i]].next = IF i = a + b THEN 0 ELSE t[i + 1]
                /\ m2[t[i]].prev = IF i = 1 THEN 0 ELSE t[i - 1]
    <2>1. CASE i \in 1..a
      <3>1. t[i] = s[i] /\ s[i] \in DOMAIN m /\ s[i] \in DOMAIN m2
        BY <1>1, <1>3, <1>7, <2>1
      <3>2. /\ m[s[i]].next = IF i = a THEN 0 ELSE s[i + 1]
            /\ m[s[i]].prev = IF i = 1 THEN 0 ELSE s[i - 1]
        BY <2>1 DEF LJoined, a
      <3>3. m2[s[i]].prev = IF i = 1 THEN 0 ELSE t[i - 1]
        <4>1. i # 1 => i - 1 \in 1..a
          BY <1>1, <2>1
        <4>2. i # 1 => t[i - 1] = s[i - 1]
          BY <1>1, <4>1
        <4> QED  BY <1>7, <3>1, <3>2, <4>2
      <3>4. CASE i = a /\ b # 0
        <4>1. LEnd(s) = s[i] /\ LEnd(s) # 0 /\ new # <<>>
          BY <1>1, <1>2, <1>6, <2>1, <3>4
        <4>2. m2[s[i]].next = new[1]
          BY <1>7, <4>1
        <4>3. 1 \in 1..b /\ t[a + 1] = new[1] /\ i # a + b
          BY <1>1, <3>4
        <4> QED  BY <3>1, <3>3, <3>4, <4>2, <4>3
      <3>5. CASE i # a \/ b = 0
        <4>1. m2[s[i]] = m[s[i]]
          BY <1>2, <1>4, <1>7, <2>1, <3>1, <3>5
        <4>2. i # a => i + 1 \in 1..a /\ i # a + b
          BY <1>1, <2>1
        <4>3. i # a => t[i + 1] = s[i + 1]
          BY <1>1, <4>2
        <4>4. i = a => i = a + b
          BY <1>1, <3>5
        <4> QED  BY <3>1, <3>2, <3>3, <4>1, <4>2, <4>3, <4>4
      <3> QED  BY <3>4, <3>5
    <2>2. CASE i \notin 1..a
      <3> DEFINE j == i - a
      <3>1. j \in 1..b /\ t[i] = new[j] /\ i = a + j /\ (i = a + b <=> j = b)
        BY <1>1, <1>8, <2>2
      <3>2. new[j] \in DOMAIN m2
        BY <1>7, <3>1 DEF LRng, b
      <3>3. j # b => t[i + 1] = new[j + 1]
        <4>1. j # b => j + 1 \in 1..b /\ a + (j + 1) = i + 1
          BY <1>1, <3>1
        <4> QED  BY <1>1, <4>1
      <3>4. j # 1 => t[i - 1] = new[j - 1] /\ i # 1
        <4>1. j # 1 => j - 1 \in 1..b /\ a + (j - 1) = i - 1 /\ i # 1
          BY <1>1, <3>1
        <4> QED  BY <1>1, <4>1
      <3>5. j = 1 => LEnd(s) = IF i = 1 THEN 0 ELSE t[i - 1]
        <4>1. CASE a = 0
          <5>1. LEnd(s) = 0
            BY <1>2, <4>1 DEF LEnd
          <5>2. i = j
            BY <1>1, <4>1
          <5> QED  BY <5>1, <5>2
        <4>2. CASE a # 0
          <5>1. j = 1 => i - 1 = a /\ i # 1
            BY <1>1, <3>1, <4>2
          <5>2. LEnd(s) = s[a] /\ t[a] = s[a]
            BY <1>1, <1>6, <4>2
          <5> QED  BY <5>1, <5>2
        <4> QED  BY <4>1, <4>2
      <3> HIDE DEF j
      <3>6. /\ m2[new[j]].next = IF j = b THEN 0 ELSE new[j + 1]
            /\ m2[new[j]].prev = IF j = 1 THEN LEnd(s) ELSE new[j - 1]
        BY <1>7, <3>1
      <3> QED  BY <3>1, <3>2, <3>3, <3>4, <3>5, <3>6
    <2> QED  BY <2>1, <2>2
  <1>11. LJoined(m2, t)
    BY <1>1, <1>9, <1>10 DEF LJoined
  <1>12. \A c \in DOMAIN m : c \notin LRng(s) => m2[c] = m[c]
    <2>1. LEnd(s) \in LRng(s) \/ LEnd(s) = 0
      BY <1>6, <1>2 DEF LRng, LEnd, a
    <2>2. \A c \in DOMAIN m : c # 0
      BY CellsAssumption DEF LMemory
    <2> QED  BY <1>7, <2>1, <2>2
  <1>13. ASSUME NEW c PROVE c \in LRng(t) <=> c \in LRng(s) \/ c \in LRng(new)
    <2>1. c \in LRng(t) => c \in LRng(s) \/ c \in LRng(new)
      <3>1. ASSUME c \in LRng(t) PROVE c \in LRng(s) \/ c \in LRng(new)
        <4>1. PICK i \in 1..a + b : t[i] = c
          BY <1>1, <3>1 DEF LRng
        <4>2. CASE i \in 1..a
          BY <1>1, <4>1, <4>2 DEF LRng, a
        <4>3. CASE i \notin 1..a
          <5>1. i - a \in 1..b /\ new[i - a] = c
            BY <1>1, <1>8, <4>1, <4>3
          <5> QED  BY <5>1 DEF LRng, b
        <4> QED  BY <4>2, <4>3
      <3> QED  BY <3>1
    <2>2. c \in LRng(s) => c \in LRng(t)
      <3>1. ASSUME NEW i \in 1..a, s[i] = c PROVE c \in LRng(t)
        <4>1. i \in 1..a + b /\ t[i] = c
          BY <1>1, <3>1
        <4> QED  BY <1>1, <4>1 DEF LRng
      <3> QED  BY <3>1 DEF LRng, a
    <2>3. c \in LRng(new) => c \in LRng(t)
      <3>1. ASSUME NEW i \in 1..b, new[i] = c PROVE c \in LRng(t)
        <4>1. a + i \in 1..a + b /\ t[a + i] = c
          BY <1>1, <3>1
        <4> QED  BY <1>1, <4>1 DEF LRng
      <3> QED  BY <3>1 DEF LRng, b
    <2> QED  BY <2>1, <2>2, <2>3
  <1> QED
    BY <1>1, <1>7, <1>11, <1>12, <1>13 DEF t, m2, a, b, Longer

LEMMA WithinIs ==
    ASSUME NEW t \in Seq(1..Cells), NEW s \in Seq(1..Cells)
    PROVE  L!Within(t, s) <=>
             /\ \A i \in 1..Len(t) : \E a \in 1..Len(s) : t[i] = s[a]
             /\ \A i, j \in 1..Len(t), a, b \in 1..Len(s) :
                  i < j /\ t[i] = s[a] /\ t[j] = s[b] => a < b
  <1>1. /\ L!Range(t) = {t[i] : i \in 1..Len(t)} /\ DOMAIN t = 1..Len(t)
        /\ L!Range(s) = {s[i] : i \in 1..Len(s)} /\ DOMAIN s = 1..Len(s)
    BY LRangeIs DEF LRng
  <1>2. L!Range(t) \subseteq L!Range(s) <=> \A i \in 1..Len(t) : \E a \in 1..Len(s) : t[i] = s[a]
    BY <1>1
  <1> QED
    BY <1>1, <1>2 DEF L!Within

LEMMA WithinNone ==
    ASSUME NEW t \in Seq(1..Cells), NEW s \in Seq(1..Cells), L!Within(t, s), s = <<>>
    PROVE  t = <<>>
  <1>1. \A i \in 1..Len(t) : \E a \in 1..Len(s) : t[i] = s[a]
    BY ONLY t \in Seq(1..Cells), s \in Seq(1..Cells), L!Within(t, s), WithinIs
  <1>2. Len(s) = 0
    BY EmptySeq
  <1>3. t # <<>> => 1 \in 1..Len(t)
    <2>1. t # <<>> => Len(t) \in Nat \ {0}
      BY EmptySeq
    <2> QED  BY <2>1
  <1> QED
    BY <1>1, <1>2, <1>3

LEMMA WithinEmpty ==
    ASSUME NEW s \in Seq(1..Cells)
    PROVE  L!Within(<<>>, s)
  <1>1. <<>> \in Seq(1..Cells) /\ Len(<<>>) = 0
    BY EmptySeq
  <1>2. \A i \in 1..Len(<<>>) : FALSE
    BY <1>1
  <1> QED
    BY <1>1, <1>2, WithinIs

LEMMA WithinSame ==
    ASSUME NEW s \in Seq(1..Cells), \A i, j \in 1..Len(s) : s[i] = s[j] => i = j
    PROVE  L!Within(s, s)
  <1>1. \A i \in 1..Len(s) : \E a \in 1..Len(s) : s[i] = s[a]
    OBVIOUS
  <1>2. \A i, j, a, b \in 1..Len(s) : i < j /\ s[i] = s[a] /\ s[j] = s[b] => a < b
    OBVIOUS
  <1> QED
    BY ONLY s \in Seq(1..Cells), <1>1, <1>2, WithinIs

\* Places in a longer sequence.
LEMMA ConcatIs ==
    ASSUME NEW s \in Seq(1..Cells), NEW new \in Seq(1..Cells)
    PROVE  /\ s \o new \in Seq(1..Cells) /\ Len(s \o new) = Len(s) + Len(new)
           /\ Len(s) \in Nat /\ Len(new) \in Nat
           /\ \A i \in 1..Len(s) : i \in 1..Len(s \o new) /\ (s \o new)[i] = s[i]
           /\ \A i \in 1..Len(new) :
                Len(s) + i \in 1..Len(s \o new) /\ (s \o new)[Len(s) + i] = new[i]
           /\ \A i \in 1..Len(s \o new) : i \in 1..Len(s) \/ i - Len(s) \in 1..Len(new)
  <1> DEFINE a == Len(s)
             b == Len(new)
             t == s \o new
  <1>1. a \in Nat /\ b \in Nat
    OBVIOUS
  <1>2. /\ t \in Seq(1..Cells) /\ Len(t) = a + b
        /\ \A i \in 1..a + b : t[i] = IF i <= a THEN s[i] ELSE new[i - a]
    BY ConcatProperties
  <1> HIDE DEF t, a, b
  <1>3. \A i \in 1..a : i \in 1..a + b /\ i <= a
    BY <1>1
  <1>4. \A i \in 1..b : a + i \in 1..a + b /\ ~(a + i <= a) /\ (a + i) - a = i
    BY <1>1
  <1>5. \A i \in 1..a : t[i] = s[i]
    BY <1>2, <1>3
  <1>6. \A i \in 1..b : t[a + i] = new[i]
    BY <1>2, <1>4
  <1>7. \A i \in 1..a + b : i \in 1..a \/ i - a \in 1..b
    BY <1>1
  <1> QED
    BY <1>1, <1>2, <1>3, <1>4, <1>5, <1>6, <1>7 DEF t, a, b

LEMMA WithinMore ==
    ASSUME NEW t \in Seq(1..Cells), NEW s \in Seq(1..Cells), L!Within(t, s),
           NEW new \in Seq(1..Cells),
           \A i, j \in 1..Len(s \o new) : (s \o new)[i] = (s \o new)[j] => i = j
    PROVE  L!Within(t, s \o new) /\ L!Within(t \o new, s \o new)
  <1> DEFINE r == s \o new
             v == t \o new
  <1>1. /\ r \in Seq(1..Cells) /\ Len(r) = Len(s) + Len(new)
        /\ Len(s) \in Nat /\ Len(new) \in Nat
        /\ \A i \in 1..Len(s) : i \in 1..Len(r) /\ r[i] = s[i]
        /\ \A i \in 1..Len(new) : Len(s) + i \in 1..Len(r) /\ r[Len(s) + i] = new[i]
    BY ConcatIs
  <1>2. /\ v \in Seq(1..Cells) /\ Len(v) = Len(t) + Len(new) /\ Len(t) \in Nat
        /\ \A i \in 1..Len(t) : i \in 1..Len(v) /\ v[i] = t[i]
        /\ \A i \in 1..Len(new) : Len(t) + i \in 1..Len(v) /\ v[Len(t) + i] = new[i]
        /\ \A i \in 1..Len(v) : i \in 1..Len(t) \/ i - Len(t) \in 1..Len(new)
    BY ConcatIs
  <1>3. \A i, j \in 1..Len(r) : r[i] = r[j] => i = j
    OBVIOUS
  <1> HIDE DEF r, v
  <1>4. /\ \A i \in 1..Len(t) : \E a \in 1..Len(s) : t[i] = s[a]
        /\ \A i, j \in 1..Len(t), a, b \in 1..Len(s) :
             i < j /\ t[i] = s[a] /\ t[j] = s[b] => a < b
    BY WithinIs
  <1>5. ASSUME NEW i \in 1..Len(t), NEW a \in 1..Len(r), t[i] = r[a]
        PROVE  a \in 1..Len(s) /\ t[i] = s[a]
    <2>1. PICK b \in 1..Len(s) : t[i] = s[b]
      BY <1>4
    <2>2. b \in 1..Len(r) /\ r[b] = r[a]
      BY <1>1, <1>5, <2>1
    <2>3. a = b
      BY <1>3, <2>2
    <2> QED  BY <2>1, <2>3
  <1>6. ASSUME NEW i \in 1..Len(t), NEW j \in 1..Len(t), NEW a \in 1..Len(r), NEW b \in 1..Len(r),
               i < j, t[i] = r[a], t[j] = r[b]
        PROVE  a < b
    <2>1. a \in 1..Len(s) /\ t[i] = s[a] /\ b \in 1..Len(s) /\ t[j] = s[b]
      BY <1>5, <1>6
    <2> QED  BY <1>4, <1>6, <2>1
  <1>7. \A i \in 1..Len(t) : \E a \in 1..Len(r) : t[i] = r[a]
    BY <1>1, <1>4
  <1>8. L!Within(t, r)
    <2>1. r \in Seq(1..Cells)
      BY <1>1
    <2> QED  BY ONLY t \in Seq(1..Cells), <2>1, <1>6, <1>7, WithinIs
  <1>9. ASSUME NEW i \in 1..Len(v) PROVE \E a \in 1..Len(r) : v[i] = r[a]
    <2>1. CASE i \in 1..Len(t)
      BY <1>2, <1>7, <2>1
    <2>2. CASE i \notin 1..Len(t)
      <3> DEFINE p == i - Len(t)
      <3>1. p \in 1..Len(new) /\ i = Len(t) + p
        BY <1>2, <2>2
      <3> HIDE DEF p
      <3>2. v[i] = new[p] /\ r[Len(s) + p] = new[p] /\ Len(s) + p \in 1..Len(r)
        BY <1>1, <1>2, <3>1
      <3> QED  BY <3>2
    <2> QED  BY <2>1, <2>2
  <1>10. ASSUME NEW i \in 1..Len(v), NEW a \in 1..Len(r), v[i] = r[a], i \notin 1..Len(t)
         PROVE  a = Len(s) + (i - Len(t)) /\ i - Len(t) \in 1..Len(new)
    <2> DEFINE p == i - Len(t)
    <2>1. p \in 1..Len(new) /\ i = Len(t) + p
      BY <1>2, <1>10
    <2> HIDE DEF p
    <2>2. v[i] = new[p] /\ r[Len(s) + p] = new[p] /\ Len(s) + p \in 1..Len(r)
      BY <1>1, <1>2, <2>1
    <2>3. a = Len(s) + p
      BY <1>3, <1>10, <2>2
    <2> QED  BY <2>1, <2>3 DEF p
  <1>11. ASSUME NEW i \in 1..Len(v), NEW j \in 1..Len(v), NEW a \in 1..Len(r), NEW b \in 1..Len(r),
                i < j, v[i] = r[a], v[j] = r[b]
         PROVE  a < b
    <2>1. CASE i \in 1..Len(t) /\ j \in 1..Len(t)
      <3>1. t[i] = r[a] /\ t[j] = r[b]
        BY <1>2, <1>11, <2>1
      <3> QED  BY <1>6, <1>11, <2>1, <3>1
    <2>2. CASE i \in 1..Len(t) /\ j \notin 1..Len(t)
      <3>1. t[i] = r[a]
        BY <1>2, <1>11, <2>2
      <3>2. a \in 1..Len(s)
        BY <1>5, <2>2, <3>1
      <3>3. b = Len(s) + (j - Len(t)) /\ j - Len(t) \in 1..Len(new)
        BY <1>10, <1>11, <2>2
      <3> QED  BY <1>1, <1>2, <3>2, <3>3
    <2>3. CASE i \notin 1..Len(t)
      <3>1. j \notin 1..Len(t)
        BY <1>2, <1>11, <2>3
      <3>2. a = Len(s) + (i - Len(t)) /\ b = Len(s) + (j - Len(t))
        BY <1>10, <1>11, <2>3, <3>1
      <3> QED  BY <1>1, <1>2, <1>11, <3>2
    <2> QED  BY <2>1, <2>2, <2>3
  <1>12. L!Within(v, r)
    <2>1. r \in Seq(1..Cells) /\ v \in Seq(1..Cells)
      BY <1>1, <1>2
    <2> QED  BY <1>9, <1>11, <2>1, WithinIs
  <1> QED
    BY <1>8, <1>12 DEF r, v

LEMMA LongerTurns ==
    ASSUME NEW m, NEW ch, NEW x \in Lists, ch[x] \in Seq(1..Cells), NEW new, Unused(m, new),
           NEW refused, NEW m2, Longer(m, ch[x], new, refused, m2)
    PROVE  LTurns(m, ch, x, m2, ch[x] \o new)
  <1>1. \A c \in LRng(new) : c \notin DOMAIN m
    BY DEF Unused, LRng
  <1>2. /\ DOMAIN m2 = DOMAIN m \cup LRng(new)
        /\ \A c \in DOMAIN m : c \notin LRng(ch[x]) => m2[c] = m[c]
        /\ \A c : c \in LRng(ch[x] \o new) <=> c \in LRng(ch[x]) \/ c \in LRng(new)
    BY DEF Longer
  <1> QED
    BY <1>1, <1>2 DEF LTurns

\* An entry that is joined to no other one is the end of a chain that grows.
LEMMA GrowFits ==
    ASSUME NEW ls, NEW m, NEW u, NEW k, NEW ch, LFits(ls, m, u, k, ch), NEW x \in Lists,
           ls[x].st = "ok", ls[x].index = <<>> => ch[x] = <<>>,
           NEW refused \in BOOLEAN, NEW new, Unused(m, new), new # <<>>
    PROVE  LFits([ls EXCEPT ![x] =
                    Rec(IF refused THEN ls[x].index ELSE ls[x].index \o new,
                        IF ls[x].index = <<>> THEN new[1] ELSE ls[x].head,
                        new[Len(new)], "ok")],
                 L!Joined(m, LEnd(ch[x]), new, refused),
                 IF refused THEN u \cup {x} ELSE u, k,
                 [ch EXCEPT ![x] = ch[x] \o new])
  <1> DEFINE s == ch[x]
             t == ls[x].index
             ix == IF refused THEN t ELSE t \o new
             hd == IF t = <<>> THEN new[1] ELSE ls[x].head
             l2 == Rec(ix, hd, new[Len(new)], "ok")
             m2 == L!Joined(m, LEnd(s), new, refused)
             u2 == IF refused THEN u \cup {x} ELSE u
             r == s \o new
  <1>1. /\ s \in Seq(1..Cells) /\ LJoined(m, s) /\ LHolds(ls[x], s) /\ ls[x] \in LRecord
        /\ LMemory(m) /\ u \subseteq Lists /\ (x \in u \/ LSure(ls[x], m, s))
    BY DEF LFits, LSound
  <1>2. new \in Seq(1..Cells) /\ \A i \in 1..Len(new) : new[i] \notin DOMAIN m
    BY DEF Unused
  <1>3. Longer(m, s, new, refused, m2)
    BY <1>1, LongerChain
  <1>4. t \in Seq(1..Cells) /\ L!Within(t, s) /\ ls[x].head = LBegin(s) /\ ls[x].head \in Int
    BY <1>1 DEF LRecord, LHolds
  <1>5. t = <<>> <=> s = <<>>
    <2> HIDE DEF s, t
    <2>1. s = <<>> => t = <<>>
      BY <1>1, <1>4, WithinNone
    <2>2. t = <<>> => s = <<>>
      BY DEF s, t
    <2> QED  BY <2>1, <2>2
  <1> HIDE DEF m2, u2
  <1>6. LTurns(m, ch, x, m2, r)
    BY <1>1, <1>3, LongerTurns
  <1>7. /\ r \in Seq(1..Cells) /\ Len(r) = Len(s) + Len(new)
        /\ Len(s) \in Nat /\ Len(new) \in Nat \ {0}
        /\ \A i \in 1..Len(s) : i \in 1..Len(r) /\ r[i] = s[i]
        /\ \A i \in 1..Len(new) : Len(s) + i \in 1..Len(r) /\ r[Len(s) + i] = new[i]
        /\ \A i \in 1..Len(r) : i \in 1..Len(s) \/ i - Len(s) \in 1..Len(new)
    BY <1>1, <1>2, ConcatIs, EmptySeq
  <1>8. \A i \in 1..Len(new) : new[i] \in 1..Cells
    BY <1>2, ElementOfSeq
  <1>9. LMemory(m2) /\ LJoined(m2, r)
    BY <1>3 DEF Longer
  <1>10. ix \in Seq(1..Cells) /\ L!Within(ix, r)
    <2>1. \A i, j \in 1..Len(r) : r[i] = r[j] => i = j
      BY <1>9 DEF LJoined
    <2>2. L!Within(t, r) /\ L!Within(t \o new, r)
      BY <1>1, <1>2, <1>4, <2>1, WithinMore
    <2>3. t \o new \in Seq(1..Cells)
      BY <1>2, <1>4, ConcatIs
    <2> QED  BY <1>4, <2>2, <2>3
  <1>11. hd = LBegin(r) /\ hd \in Int
    <2>1. r # <<>> /\ LBegin(r) = r[1]
      BY <1>7, EmptySeq DEF LBegin
    <2>2. CASE s = <<>>
      <3>1. Len(s) = 0 /\ 1 \in 1..Len(new) /\ 0 + 1 = 1
        BY <1>7, <2>2
      <3>2. r[1] = new[1] /\ new[1] \in Int
        BY <1>7, <1>8, <3>1
      <3> QED  BY <1>5, <2>1, <2>2, <3>2
    <2>3. CASE s # <<>>
      <3>1. Len(s) # 0
        BY <1>1, <2>3, EmptySeq
      <3>2. 1 \in 1..Len(s)
        BY <1>7, <3>1
      <3>3. r[1] = s[1] /\ ls[x].head = s[1]
        BY <1>4, <1>7, <2>3, <3>2 DEF LBegin
      <3> QED  BY <1>4, <1>5, <2>1, <2>3, <3>3
    <2> QED  BY <2>2, <2>3
  <1>12. new[Len(new)] = LEnd(r) /\ new[Len(new)] \in Int
    <2>1. r # <<>> /\ LEnd(r) = r[Len(r)]
      BY <1>7, EmptySeq DEF LEnd
    <2>2. Len(new) \in 1..Len(new) /\ Len(r) = Len(s) + Len(new)
      BY <1>7
    <2> QED  BY <1>7, <1>8, <2>1, <2>2
  <1>13. l2 \in LRecord /\ LHolds(l2, r)
    <2> DEFINE tl == new[Len(new)]
    <2> HIDE DEF ix, hd, tl, r
    <2>1. l2.index = ix /\ l2.head = hd /\ l2.tail = tl /\ l2.st = "ok"
      BY DEF tl, Rec
    <2>2. l2 \in LRecord
      BY <1>10, <1>11, <1>12 DEF LRecord, tl, Rec
    <2> QED  BY <1>10, <1>11, <1>12, <2>1, <2>2 DEF LHolds, tl
  <1>14. u2 \subseteq Lists /\ \A y \in Lists : y # x => (y \in u2 <=> y \in u)
    BY <1>1 DEF u2
  <1>15. x \in u2 \/ LSure(l2, m2, r)
    <2>1. ASSUME x \notin u2 PROVE LSure(l2, m2, r)
      <3>1. ~refused /\ x \notin u
        BY <2>1 DEF u2
      <3>2. t = s /\ \A i \in 1..Len(s) : m[s[i]].data = "live"
        BY <1>1, <3>1 DEF LSure
      <3>3. l2.index = r
        BY <3>1, <3>2 DEF Rec
      <3>4. ASSUME NEW i \in 1..Len(r) PROVE m2[r[i]].data = "live"
        <4>1. CASE i \in 1..Len(s)
          <5>1. s[i] \in DOMAIN m /\ r[i] = s[i]
            BY <1>1, <1>7, <4>1 DEF LJoined
          <5> QED  BY <1>3, <3>2, <4>1, <5>1 DEF Longer
        <4>2. CASE i \notin 1..Len(s)
          <5> DEFINE p == i - Len(s)
          <5>1. p \in 1..Len(new) /\ i = Len(s) + p
            BY <1>7, <4>2
          <5> HIDE DEF p
          <5>2. r[i] = new[p]
            BY <1>7, <5>1
          <5>3. m2[new[p]].data = IF p = Len(new) /\ refused THEN "raw" ELSE "live"
            BY <1>3, <5>1 DEF Longer
          <5> QED  BY <3>1, <5>2, <5>3
        <4> QED  BY <4>1, <4>2
      <3> HIDE DEF l2
      <3> QED  BY <3>3, <3>4 DEF LSure
    <2> QED  BY <2>1
  <1>16. LNew(l2, m2, r, u, u2, x)
    <2> HIDE DEF l2, r
    <2> QED  BY <1>7, <1>9, <1>13, <1>14, <1>15 DEF LNew
  <1>17. LFits([ls EXCEPT ![x] = l2], m2, u2, k, [ch EXCEPT ![x] = r])
    <2> HIDE DEF l2, r
    <2> QED  BY <1>6, <1>16, LChange
  <1> QED
    BY <1>17 DEF m2, u2

\* The record of a list that has no entry.
Bare(st) == Rec(<<>>, 0, 0, st)

LEMMA BareHolds ==
    ASSUME NEW st \in {"none", "ok"}, NEW m
    PROVE  /\ Bare(st) \in LRecord /\ LHolds(Bare(st), <<>>) /\ LSure(Bare(st), m, <<>>)
           /\ LJoined(m, <<>>) /\ <<>> \in Seq(1..Cells) /\ LRng(<<>>) = {}
  <1>1. <<>> \in Seq(1..Cells) /\ Len(<<>>) = 0
    BY EmptySeq
  <1>2. 1..Len(<<>>) = {}
    BY <1>1
  <1>3. Bare(st).index = <<>> /\ Bare(st).head = 0 /\ Bare(st).tail = 0 /\ Bare(st).st = st
    BY DEF Bare, Rec
  <1>4. Bare(st) \in LRecord
    BY <1>1 DEF Bare, LRecord, Rec
  <1>5. L!Within(<<>>, <<>>)
    BY <1>1, <1>2, WithinIs
  <1>6. LHolds(Bare(st), <<>>)
    BY <1>3, <1>5 DEF LHolds, LBegin, LEnd
  <1>7. LSure(Bare(st), m, <<>>) /\ LJoined(m, <<>>) /\ LRng(<<>>) = {}
    BY <1>2, <1>3 DEF LSure, LJoined, LRng
  <1> QED
    BY <1>1, <1>4, <1>6, <1>7

\* A chain is dropped where a list of length 0 begins a new one.
LEMMA LeakFits ==
    ASSUME NEW ls, NEW m, NEW u, NEW k, NEW ch, LFits(ls, m, u, k, ch), NEW x \in Lists,
           ls[x].st = "ok"
    PROVE  LFits([ls EXCEPT ![x] = Bare("ok")], m, u, k \cup LRng(ch[x]), [ch EXCEPT ![x] = <<>>])
  <1> DEFINE ls2 == [ls EXCEPT ![x] = Bare("ok")]
             ch2 == [ch EXCEPT ![x] = <<>>]
             k2 == k \cup LRng(ch[x])
  <1>1. /\ Bare("ok") \in LRecord /\ LHolds(Bare("ok"), <<>>) /\ LSure(Bare("ok"), m, <<>>)
        /\ LJoined(m, <<>>) /\ <<>> \in Seq(1..Cells) /\ LRng(<<>>) = {}
    BY BareHolds
  <1>2. /\ ls2 \in [Lists -> LRecord] /\ ch2 \in [Lists -> Seq(1..Cells)]
        /\ ls2[x] = Bare("ok") /\ ch2[x] = <<>>
        /\ \A y \in Lists : y # x => ls2[y] = ls[y] /\ ch2[y] = ch[y]
    <2>1. ls \in [Lists -> LRecord] /\ ch \in [Lists -> Seq(1..Cells)]
      BY DEF LFits
    <2> QED  BY <1>1, <2>1
  <1>3. /\ \A y, z \in Lists : y # z => \A c \in LRng(ch[y]) : c \notin LRng(ch[z])
        /\ \A y \in Lists : \A c \in LRng(ch[y]) : c \notin k
    BY DEF LFits, LApart
  <1> HIDE DEF ls2, ch2
  <1>4. ASSUME NEW y \in Lists PROVE LSound(ls2, m, u, ch2, y)
    <2>1. CASE y = x
      BY <1>1, <1>2, <2>1 DEF LSound
    <2>2. CASE y # x
      <3>1. LSound(ls, m, u, ch, y)
        BY DEF LFits
      <3> QED  BY <1>2, <2>2, <3>1 DEF LSound
    <2> QED  BY <2>1, <2>2
  <1>5. LApart(k2, ch2)
    <2>1. \A y, z \in Lists : y # z => \A c \in LRng(ch2[y]) : c \notin LRng(ch2[z])
      BY <1>1, <1>2, <1>3
    <2>2. \A y \in Lists : \A c \in LRng(ch2[y]) : c \notin k2
      BY <1>1, <1>2, <1>3
    <2> QED  BY <2>1, <2>2 DEF LApart
  <1>6. LLost(m, k2)
    <2>1. ASSUME NEW c \in k
          PROVE  c \in DOMAIN m /\ m[c].next \in k2 \cup {0} /\ m[c].prev \in k2 \cup {0}
      BY DEF LFits, LLost
    <2>2. ASSUME NEW c \in LRng(ch[x])
          PROVE  c \in DOMAIN m /\ m[c].next \in k2 \cup {0} /\ m[c].prev \in k2 \cup {0}
      <3> DEFINE s == ch[x]
      <3>1. LJoined(m, s) /\ Len(s) \in Nat
        BY DEF LFits, LSound
      <3>2. PICK i \in 1..Len(s) : s[i] = c
        BY <2>2 DEF LRng
      <3> HIDE DEF s
      <3>3. /\ c \in DOMAIN m
            /\ m[c].next = IF i = Len(s) THEN 0 ELSE s[i + 1]
            /\ m[c].prev = IF i = 1 THEN 0 ELSE s[i - 1]
        BY <3>1, <3>2 DEF LJoined
      <3>4. (i # Len(s) => i + 1 \in 1..Len(s)) /\ (i # 1 => i - 1 \in 1..Len(s))
        BY <3>1
      <3>5. (i # Len(s) => s[i + 1] \in LRng(s)) /\ (i # 1 => s[i - 1] \in LRng(s))
        BY <3>4 DEF LRng
      <3>6. m[c].next \in LRng(s) \cup {0} /\ m[c].prev \in LRng(s) \cup {0}
        BY <3>3, <3>5
      <3> QED  BY <3>3, <3>6 DEF s
    <2> QED  BY <2>1, <2>2 DEF LLost
  <1>7. LCovered(m, k2, ch2)
    <2>1. \A c \in DOMAIN m : c \in k \/ \E y \in Lists : c \in LRng(ch[y])
      BY DEF LFits, LCovered
    <2>2. \A c \in DOMAIN m : c \in k2 \/ \E y \in Lists : c \in LRng(ch2[y])
      BY <1>2, <2>1
    <2> QED  BY <2>2 DEF LCovered
  <1>8. LMemory(m) /\ u \subseteq Lists
    BY DEF LFits
  <1> QED
    BY <1>2, <1>4, <1>5, <1>6, <1>7, <1>8 DEF LFits, ls2, ch2

\* free of the entries of a set.
LEMMA FreedIs ==
    ASSUME NEW m, LMemory(m), NEW gone
    PROVE  /\ LMemory(L!Freed(m, gone)) /\ DOMAIN L!Freed(m, gone) = DOMAIN m \ gone
           /\ \A c \in DOMAIN m : c \notin gone => L!Freed(m, gone)[c] = m[c]
  BY DEF L!Freed, LMemory

LEMMA FiniFits ==
    ASSUME NEW ls, NEW m, NEW u, NEW k, NEW ch, LFits(ls, m, u, k, ch), NEW x \in Lists,
           NEW st \in {"none", "ok"}
    PROVE  LFits([ls EXCEPT ![x] = Bare(st)], L!Freed(m, LRng(ch[x])), u \ {x}, k,
                 [ch EXCEPT ![x] = <<>>])
  <1> DEFINE m2 == L!Freed(m, LRng(ch[x]))
             u2 == u \ {x}
  <1>1. LMemory(m) /\ u \subseteq Lists
    BY DEF LFits
  <1>2. /\ LMemory(m2) /\ DOMAIN m2 = DOMAIN m \ LRng(ch[x])
        /\ \A c \in DOMAIN m : c \notin LRng(ch[x]) => m2[c] = m[c]
    BY <1>1, FreedIs
  <1> HIDE DEF m2
  <1>3. /\ Bare(st) \in LRecord /\ LHolds(Bare(st), <<>>) /\ LSure(Bare(st), m2, <<>>)
        /\ LJoined(m2, <<>>) /\ <<>> \in Seq(1..Cells) /\ LRng(<<>>) = {}
    BY BareHolds
  <1>4. LNew(Bare(st), m2, <<>>, u, u2, x)
    BY <1>1, <1>2, <1>3 DEF LNew
  <1>5. LTurns(m, ch, x, m2, <<>>)
    BY <1>2, <1>3 DEF LTurns
  <1> QED
    BY <1>4, <1>5, LChange DEF m2

\* The entries of a list may be initialised and finalised: their links stay.
SameLinks(m, m2) ==
    /\ LMemory(m2) /\ DOMAIN m2 = DOMAIN m
    /\ \A c \in DOMAIN m : m2[c].next = m[c].next /\ m2[c].prev = m[c].prev

LEMMA DataFits ==
    ASSUME NEW ls, NEW m, NEW u, NEW k, NEW ch, LFits(ls, m, u, k, ch), NEW x \in Lists,
           NEW m2, SameLinks(m, m2), \A c \in DOMAIN m : c \notin LRng(ch[x]) => m2[c] = m[c],
           NEW u2, u2 = u \cup {x} \/ (u2 = u /\ \A c \in DOMAIN m : m[c].data = "live" => m2[c].data = "live")
    PROVE  LFits(ls, m2, u2, k, ch)
  <1>1. /\ ch[x] \in Seq(1..Cells) /\ LJoined(m, ch[x]) /\ LHolds(ls[x], ch[x]) /\ ls[x] \in LRecord
        /\ u \subseteq Lists /\ (x \in u \/ LSure(ls[x], m, ch[x]))
        /\ ls \in [Lists -> LRecord] /\ ch \in [Lists -> Seq(1..Cells)]
    BY DEF LFits, LSound
  <1>2. \A c \in LRng(ch[x]) : c \in DOMAIN m
    BY <1>1 DEF LJoined, LRng
  <1>3. LJoined(m2, ch[x])
    BY <1>1 DEF LJoined, SameLinks
  <1>4. x \in u2 \/ LSure(ls[x], m2, ch[x])
    BY <1>1 DEF LSure, LJoined
  <1>5. LNew(ls[x], m2, ch[x], u, u2, x)
    BY <1>1, <1>3, <1>4 DEF LNew, SameLinks
  <1>6. LTurns(m, ch, x, m2, ch[x])
    BY <1>2 DEF LTurns, SameLinks
  <1>7. LFits([ls EXCEPT ![x] = ls[x]], m2, u2, k, [ch EXCEPT ![x] = ch[x]])
    BY <1>5, <1>6, LChange
  <1>8. [ls EXCEPT ![x] = ls[x]] = ls /\ [ch EXCEPT ![x] = ch[x]] = ch
    BY <1>1
  <1> QED
    BY <1>7, <1>8

LEMMA ReinitFits ==
    ASSUME NEW ls, NEW m, NEW u, NEW k, NEW ch, LFits(ls, m, u, k, ch), NEW x \in Lists, NEW bad
    PROVE  LFits(ls, L!Reinit(m, ls[x], bad),
                 IF bad \in DOMAIN L!Run(m, ls[x].head) THEN u \cup {x} ELSE u, k, ch)
  <1> DEFINE s == ch[x]
             m2 == L!Reinit(m, ls[x], bad)
             u2 == IF bad \in DOMAIN L!Run(m, ls[x].head) THEN u \cup {x} ELSE u
  <1>1. L!Run(m, ls[x].head) = s /\ s \in Seq(1..Cells) /\ LMemory(m)
    <2>1. LMemory(m)
      BY DEF LFits
    <2>2. L!Run(m, ls[x].head) = ch[x] /\ ch[x] \in Seq(1..Cells)
      BY LChainIs
    <2> QED  BY <2>1, <2>2
  <1>2. DOMAIN s = 1..Len(s)
    BY <1>1, LRangeIs
  <1> HIDE DEF s
  <1>3. m2 = [c \in DOMAIN m |->
                IF \E i \in DOMAIN s : s[i] = c /\ i < bad THEN [m[c] EXCEPT !.data = "live"]
                ELSE IF bad \in DOMAIN s /\ s[bad] = c THEN [m[c] EXCEPT !.data = "raw"]
                ELSE m[c]]
    BY <1>1 DEF L!Reinit
  <1>4. ASSUME NEW c \in DOMAIN m
        PROVE  \/ m2[c] = [m[c] EXCEPT !.data = "live"] /\ c \in LRng(s)
               \/ m2[c] = [m[c] EXCEPT !.data = "raw"] /\ bad \in DOMAIN s /\ c \in LRng(s)
               \/ m2[c] = m[c]
    <2>1. CASE \E i \in DOMAIN s : s[i] = c /\ i < bad
      BY <1>2, <1>3, <2>1 DEF LRng
    <2>2. CASE ~(\E i \in DOMAIN s : s[i] = c /\ i < bad) /\ bad \in DOMAIN s /\ s[bad] = c
      BY <1>2, <1>3, <2>2 DEF LRng
    <2>3. CASE ~(\E i \in DOMAIN s : s[i] = c /\ i < bad) /\ ~(bad \in DOMAIN s /\ s[bad] = c)
      BY <1>3, <2>3
    <2> QED  BY <2>1, <2>2, <2>3
  <1>5. DOMAIN m2 = DOMAIN m /\ m2 = [c \in DOMAIN m2 |-> m2[c]]
    BY <1>3
  <1> HIDE DEF m2
  <1> DEFINE E == [next : Int, prev : Int, data : {"live", "raw"}]
  <1>6. \A c \in DOMAIN m : m[c] \in E
    BY <1>1 DEF LMemory
  <1>7. ASSUME NEW c \in DOMAIN m
        PROVE  m2[c] \in E /\ m2[c].next = m[c].next /\ m2[c].prev = m[c].prev
    BY <1>4, <1>6
  <1>8. SameLinks(m, m2)
    <2>1. m2 \in [DOMAIN m2 -> E]
      <3> HIDE DEF E
      <3> QED  BY <1>5, <1>7
    <2> QED  BY <1>1, <1>5, <1>7, <2>1 DEF SameLinks, LMemory
  <1>9. \A c \in DOMAIN m : c \notin LRng(s) => m2[c] = m[c]
    BY <1>4
  <1>10. bad \notin DOMAIN s => \A c \in DOMAIN m : m[c].data = "live" => m2[c].data = "live"
    BY <1>4, <1>6
  <1>11. u2 = u \cup {x} \/ (u2 = u /\ \A c \in DOMAIN m : m[c].data = "live" => m2[c].data = "live")
    BY <1>1, <1>10
  <1> QED
    BY <1>8, <1>9, <1>11, DataFits DEF m2, s

\* list_move, when the chain of dst is gone: dst takes what src has.
LEMMA MoveFits ==
    ASSUME NEW ls, NEW m, NEW u, NEW k, NEW ch, LFits(ls, m, u, k, ch),
           NEW dst \in Lists, NEW src \in Lists, dst # src, ch[dst] = <<>>
    PROVE  LFits([ls EXCEPT ![dst] = ls[src], ![src] = Bare("none")], m,
                 (u \ {dst, src}) \cup (IF src \in u THEN {dst} ELSE {}), k,
                 [ch EXCEPT ![dst] = ch[src], ![src] = <<>>])
  <1> DEFINE ls2 == [ls EXCEPT ![dst] = ls[src], ![src] = Bare("none")]
             ch2 == [ch EXCEPT ![dst] = ch[src], ![src] = <<>>]
             u2 == (u \ {dst, src}) \cup (IF src \in u THEN {dst} ELSE {})
  <1>1. /\ Bare("none") \in LRecord /\ LHolds(Bare("none"), <<>>) /\ LSure(Bare("none"), m, <<>>)
        /\ LJoined(m, <<>>) /\ <<>> \in Seq(1..Cells) /\ LRng(<<>>) = {}
    BY BareHolds
  <1>2. /\ ls \in [Lists -> LRecord] /\ ch \in [Lists -> Seq(1..Cells)]
        /\ LMemory(m) /\ LLost(m, k) /\ u \subseteq Lists
    BY DEF LFits
  <1>3. /\ ls2 \in [Lists -> LRecord] /\ ls2[dst] = ls[src] /\ ls2[src] = Bare("none")
        /\ \A y \in Lists : y # dst /\ y # src => ls2[y] = ls[y]
    <2> DEFINE ls1 == [ls EXCEPT ![dst] = ls[src]]
    <2>1. /\ ls1 \in [Lists -> LRecord] /\ ls1[dst] = ls[src]
          /\ \A y \in Lists : y # dst => ls1[y] = ls[y]
      BY <1>2
    <2>2. ls2 = [ls1 EXCEPT ![src] = Bare("none")]
      OBVIOUS
    <2> HIDE DEF ls1, ls2
    <2> QED  BY <1>1, <2>1, <2>2
  <1>4. /\ ch2 \in [Lists -> Seq(1..Cells)] /\ ch2[dst] = ch[src] /\ ch2[src] = <<>>
        /\ \A y \in Lists : y # dst /\ y # src => ch2[y] = ch[y]
    <2> DEFINE ch1 == [ch EXCEPT ![dst] = ch[src]]
    <2>1. /\ ch1 \in [Lists -> Seq(1..Cells)] /\ ch1[dst] = ch[src]
          /\ \A y \in Lists : y # dst => ch1[y] = ch[y]
      BY <1>2
    <2>2. ch2 = [ch1 EXCEPT ![src] = <<>>]
      OBVIOUS
    <2> HIDE DEF ch1, ch2
    <2> QED  BY <1>1, <2>1, <2>2
  <1>5. /\ u2 \subseteq Lists /\ src \notin u2 /\ (dst \in u2 <=> src \in u)
        /\ \A y \in Lists : y # dst /\ y # src => (y \in u2 <=> y \in u)
    BY <1>2
  <1> HIDE DEF ls2, ch2, u2
  <1>6. ASSUME NEW y \in Lists PROVE LSound(ls2, m, u2, ch2, y)
    <2>1. CASE y = dst
      <3>1. LSound(ls, m, u, ch, src)
        BY DEF LFits
      <3> QED  BY <1>3, <1>4, <1>5, <2>1, <3>1 DEF LSound
    <2>2. CASE y = src
      BY <1>1, <1>3, <1>4, <2>2 DEF LSound
    <2>3. CASE y # dst /\ y # src
      <3>1. LSound(ls, m, u, ch, y)
        BY DEF LFits
      <3> QED  BY <1>3, <1>4, <1>5, <2>3, <3>1 DEF LSound
    <2> QED  BY <2>1, <2>2, <2>3
  <1> DEFINE From(y) == IF y = dst THEN src ELSE IF y = src THEN dst ELSE y
  <1>7. \A y \in Lists : From(y) \in Lists /\ ch2[y] = ch[From(y)]
    BY <1>4
  <1>8. \A y, z \in Lists : y # z => From(y) # From(z)
    OBVIOUS
  <1>9. \A y \in Lists : From(From(y)) = y
    OBVIOUS
  <1> HIDE DEF From
  <1>10. LApart(k, ch2)
    <2>1. /\ \A y, z \in Lists : y # z => \A c \in LRng(ch[y]) : c \notin LRng(ch[z])
          /\ \A y \in Lists : \A c \in LRng(ch[y]) : c \notin k
      BY DEF LFits, LApart
    <2>2. \A y, z \in Lists : y # z => \A c \in LRng(ch2[y]) : c \notin LRng(ch2[z])
      BY <1>7, <1>8, <2>1
    <2>3. \A y \in Lists : \A c \in LRng(ch2[y]) : c \notin k
      BY <1>7, <2>1
    <2> QED  BY <2>2, <2>3 DEF LApart
  <1>11. LCovered(m, k, ch2)
    <2>1. ASSUME NEW c \in DOMAIN m, c \notin k PROVE \E y \in Lists : c \in LRng(ch2[y])
      <3>1. PICK y \in Lists : c \in LRng(ch[y])
        BY <2>1 DEF LFits, LCovered
      <3>2. From(y) \in Lists /\ ch2[From(y)] = ch[y]
        BY <1>7, <1>9
      <3> QED  BY <3>1, <3>2
    <2> QED  BY <2>1 DEF LCovered
  <1> QED
    BY <1>2, <1>3, <1>4, <1>5, <1>6, <1>10, <1>11 DEF LFits, ls2, ch2, u2

\* The chain up to, and from, a place.
LEMMA CutIs ==
    ASSUME NEW s \in Seq(1..Cells), NEW p \in 2..Len(s)
    PROVE  LET a == SubSeq(s, 1, p - 1)
               b == SubSeq(s, p, Len(s))
           IN  /\ a \in Seq(1..Cells) /\ Len(a) = p - 1 /\ \A i \in 1..p - 1 : a[i] = s[i]
               /\ b \in Seq(1..Cells) /\ Len(b) = Len(s) - p + 1
               /\ \A i \in 1..Len(s) - p + 1 : b[i] = s[p + i - 1]
  <1>1. Len(s) \in Nat /\ p \in Nat /\ p - 1 \in Nat /\ p - 1 >= 1 /\ p <= Len(s)
    OBVIOUS
  <1>2. (\A i \in 1..p - 1 : s[i] \in 1..Cells) /\ (\A i \in p..Len(s) : s[i] \in 1..Cells)
    <2>1. (\A i \in 1..p - 1 : i \in 1..Len(s)) /\ (\A i \in p..Len(s) : i \in 1..Len(s))
      BY <1>1
    <2> QED  BY <2>1, ElementOfSeq
  <1>3. /\ SubSeq(s, 1, p - 1) \in Seq(1..Cells)
        /\ Len(SubSeq(s, 1, p - 1)) = IF 1 <= p - 1 THEN (p - 1) - 1 + 1 ELSE 0
        /\ \A i \in 1..(p - 1) - 1 + 1 : SubSeq(s, 1, p - 1)[i] = s[1 + i - 1]
    BY <1>1, <1>2, SubSeqProperties
  <1>4. /\ SubSeq(s, p, Len(s)) \in Seq(1..Cells)
        /\ Len(SubSeq(s, p, Len(s))) = IF p <= Len(s) THEN Len(s) - p + 1 ELSE 0
        /\ \A i \in 1..Len(s) - p + 1 : SubSeq(s, p, Len(s))[i] = s[p + i - 1]
    BY <1>1, <1>2, SubSeqProperties
  <1> DEFINE a == SubSeq(s, 1, p - 1)
             b == SubSeq(s, p, Len(s))
  <1> HIDE DEF a, b
  <1>5. a \in Seq(1..Cells) /\ Len(a) = p - 1
    BY <1>1, <1>3 DEF a
  <1>6. ASSUME NEW i \in 1..p - 1 PROVE a[i] = s[i]
    <2>1. i \in 1..(p - 1) - 1 + 1 /\ 1 + i - 1 = i
      BY <1>1
    <2> QED  BY <1>3, <2>1 DEF a
  <1>7. b \in Seq(1..Cells) /\ Len(b) = Len(s) - p + 1
    BY <1>1, <1>4 DEF b
  <1> QED
    BY <1>4, <1>5, <1>6, <1>7 DEF a, b

\* The entries of a list from index[n + 1] on are removed.
LEMMA ShortFits ==
    ASSUME NEW ch, LFits(lst, mem, unsure, leaked, ch), NEW x \in Lists, lst[x].st = "ok",
           NEW n \in Nat, n # 0, n < Len(lst[x].index)
    PROVE  \E s2 : LFits([lst EXCEPT ![x] = L!Short(lst[x], n)], L!ShortMem(lst[x], n), unsure, leaked,
                         [ch EXCEPT ![x] = s2])
  <1> DEFINE s == ch[x]
             l == lst[x]
             t == l.index
             c0 == t[n + 1]
  <1>1. /\ s \in Seq(1..Cells) /\ Len(s) \in Nat /\ LJoined(mem, s) /\ LHolds(l, s) /\ l \in LRecord
        /\ LMemory(mem) /\ unsure \subseteq Lists /\ (x \in unsure \/ LSure(l, mem, s))
    BY DEF LFits, LSound
  <1>2. t \in Seq(1..Cells) /\ L!Within(t, s) /\ l.head = LBegin(s) /\ Len(t) \in Nat
    BY <1>1 DEF LRecord, LHolds
  <1>3. l.st = "ok" /\ n < Len(t)
    OBVIOUS
  <1>4. l = [index |-> t, head |-> l.head, tail |-> l.tail, st |-> l.st] /\ l.head \in Int
    BY <1>1 DEF LRecord
  <1>5. /\ \A i \in 1..Len(t) : \E a \in 1..Len(s) : t[i] = s[a]
        /\ \A i, j \in 1..Len(t), a, b \in 1..Len(s) :
             i < j /\ t[i] = s[a] /\ t[j] = s[b] => a < b
    <2> HIDE DEF t, s
    <2> QED  BY <1>1, <1>2, WithinIs
  <1>6. n + 1 \in 1..Len(t) /\ 1 \in 1..Len(t) /\ 1 < n + 1 /\ \A i \in 1..n : i \in 1..Len(t) /\ i < n + 1
    <2> HIDE DEF t
    <2> QED  BY <1>2, <1>3
  <1> HIDE DEF s, l, t
  <1>7. PICK p \in 1..Len(s) : c0 = s[p]
    BY <1>5, <1>6
  <1>8. p \in 2..Len(s)
    <2>1. PICK a \in 1..Len(s) : t[1] = s[a]
      BY <1>5, <1>6
    <2>2. a < p
      BY <1>5, <1>6, <1>7, <2>1
    <2> QED  BY <1>1, <1>7, <2>1, <2>2
  <1>9. p - 1 \in 1..Len(s) /\ p # 1 /\ p \in Nat
    BY <1>1, <1>8
  <1> DEFINE a == SubSeq(s, 1, p - 1)
             b == SubSeq(s, p, Len(s))
             e == s[p - 1]
             m1 == [mem EXCEPT ![e].next = 0]
             m2 == L!ShortMem(l, n)
             t2 == SubSeq(t, 1, n)
             l2 == Rec(t2, l.head, e, "ok")
  <1>10. /\ a \in Seq(1..Cells) /\ Len(a) = p - 1 /\ \A i \in 1..p - 1 : a[i] = s[i]
         /\ b \in Seq(1..Cells) /\ Len(b) = Len(s) - p + 1
         /\ \A i \in 1..Len(s) - p + 1 : b[i] = s[p + i - 1]
    BY <1>1, <1>8, CutIs
  <1>11. /\ \A i, j \in 1..Len(s) : s[i] = s[j] => i = j
         /\ \A i \in 1..Len(s) :
              /\ s[i] \in DOMAIN mem
              /\ mem[s[i]].next = IF i = Len(s) THEN 0 ELSE s[i + 1]
              /\ mem[s[i]].prev = IF i = 1 THEN 0 ELSE s[i - 1]
    BY <1>1 DEF LJoined
  <1>12. mem[c0].prev = e /\ e \in DOMAIN mem /\ e \in Int
    <2>1. mem[s[p]].prev = e
      BY <1>9, <1>11
    <2>2. e \in 1..Cells
      BY <1>1, <1>9, ElementOfSeq
    <2> QED  BY <1>7, <1>9, <1>11, <2>1, <2>2
  <1>13. L!Short(l, n) = l2
    <2>1. L!Short(l, n) = Rec(t2, l.head, mem[c0].prev, l.st)
      BY <1>1, ShortIs DEF t
    <2>2. l.st = "ok"
      BY <1>3
    <2> HIDE DEF t2, e
    <2> QED  BY <1>12, <2>1, <2>2
  <1> HIDE DEF a, b, e
  <1>14. \A i \in 1..Len(b) : p + i - 1 \in 1..Len(s) /\ b[i] = s[p + i - 1]
    BY <1>1, <1>9, <1>10
  <1>15. \A i \in 1..p - 1 : i \in 1..Len(s) /\ a[i] = s[i]
    BY <1>1, <1>9, <1>10
  <1>16. L!Run(mem, c0) = b
    <2>1. Len(b) \in Nat \ {0} /\ b # <<>>
      <3>1. Len(b) \in Nat \ {0}
        BY <1>1, <1>8, <1>10
      <3> QED  BY <1>10, <3>1, EmptySeq
    <2>2. b[1] = s[p]
      <3>1. 1 \in 1..Len(b) /\ p + 1 - 1 = p
        BY <1>9, <2>1
      <3> QED  BY <1>14, <3>1
    <2>3. ASSUME NEW i \in 1..Len(b) PROVE mem[b[i]].next = IF i = Len(b) THEN 0 ELSE b[i + 1]
      <3>1. /\ p + i - 1 \in 1..Len(s) /\ b[i] = s[p + i - 1]
            /\ mem[s[p + i - 1]].next = IF p + i - 1 = Len(s) THEN 0 ELSE s[(p + i - 1) + 1]
        BY <1>11, <1>14
      <3>2. i = Len(b) <=> p + i - 1 = Len(s)
        BY <1>1, <1>9, <1>10
      <3>3. i # Len(b) => b[i + 1] = s[(p + i - 1) + 1]
        <4>1. i # Len(b) => i + 1 \in 1..Len(b) /\ p + (i + 1) - 1 = (p + i - 1) + 1
          BY <1>9, <2>1
        <4> QED  BY <1>14, <4>1
      <3> QED  BY <3>1, <3>2, <3>3
    <2>4. Leads(mem, c0, b)
      BY <1>7, <2>1, <2>2, <2>3 DEF Leads
    <2>5. \A i, j \in 1..Len(b) : b[i] = b[j] => i = j
      <3>1. ASSUME NEW i \in 1..Len(b), NEW j \in 1..Len(b), b[i] = b[j] PROVE i = j
        <4>1. /\ p + i - 1 \in 1..Len(s) /\ p + j - 1 \in 1..Len(s)
              /\ s[p + i - 1] = s[p + j - 1]
          BY <1>14, <3>1
        <4>2. p + i - 1 = p + j - 1
          BY <1>11, <4>1
        <4> QED  BY <1>9, <2>1, <4>2
      <3> QED  BY <3>1
    <2>6. Len(b) <= Cells
      BY <1>10, <2>5, FewCells
    <2> QED  BY <1>10, <2>4, <2>6, RunIs
  <1>17. m2 = L!Freed(m1, LRng(b))
    <2>1. L!Range(b) = LRng(b)
      BY <1>10, LRangeIs
    <2> QED  BY <1>12, <1>16, <2>1 DEF L!ShortMem, L!NULL, t
  <1> HIDE DEF c0, m2
  <1>18. /\ LMemory(m1) /\ DOMAIN m1 = DOMAIN mem
         /\ \A c \in DOMAIN mem : c # e => m1[c] = mem[c]
         /\ m1[e].next = 0 /\ m1[e].prev = mem[e].prev /\ m1[e].data = mem[e].data
    <2> DEFINE E == [next : Int, prev : Int, data : {"live", "raw"}]
    <2>1. mem \in [DOMAIN mem -> E] /\ DOMAIN mem \subseteq 1..Cells
      BY <1>1 DEF LMemory
    <2>2. mem[e] \in E
      BY <1>12, <2>1
    <2> DEFINE f == [mem[e] EXCEPT !.next = 0]
    <2>3. f \in E /\ f.next = 0 /\ f.prev = mem[e].prev /\ f.data = mem[e].data
      BY <2>2
    <2>4. m1 = [mem EXCEPT ![e] = f]
      OBVIOUS
    <2> HIDE DEF f, m1
    <2>5. DOMAIN m1 = DOMAIN mem /\ m1[e] = f /\ \A c \in DOMAIN mem : c # e => m1[c] = mem[c]
      BY <1>12, <2>4
    <2>6. m1 \in [DOMAIN mem -> E]
      <3> HIDE DEF E
      <3> QED  BY <2>1, <2>3, <2>4
    <2> QED  BY <2>1, <2>3, <2>5, <2>6 DEF LMemory
  <1> HIDE DEF m1
  <1>19. /\ LMemory(m2) /\ DOMAIN m2 = DOMAIN mem \ LRng(b)
         /\ \A c \in DOMAIN mem : c \notin LRng(b) => m2[c] = m1[c]
    <2>1. /\ LMemory(L!Freed(m1, LRng(b)))
          /\ DOMAIN L!Freed(m1, LRng(b)) = DOMAIN m1 \ LRng(b)
          /\ \A c \in DOMAIN m1 : c \notin LRng(b) => L!Freed(m1, LRng(b))[c] = m1[c]
      BY <1>18, FreedIs
    <2> QED  BY <1>17, <1>18, <2>1
  <1>20. ASSUME NEW i \in 1..p - 1 PROVE s[i] \notin LRng(b)
    <2>1. ASSUME s[i] \in LRng(b) PROVE FALSE
      <3>1. PICK j \in 1..Len(b) : b[j] = s[i]
        BY <2>1 DEF LRng
      <3>2. i \in 1..Len(s) /\ p + j - 1 \in 1..Len(s) /\ s[i] = s[p + j - 1]
        BY <1>14, <1>15, <3>1
      <3>3. i = p + j - 1
        BY <1>11, <3>2
      <3> QED  BY <1>9, <1>10, <1>1, <3>3
    <2> QED  BY <2>1
  <1>21. ASSUME NEW i \in 1..Len(s), s[i] \notin LRng(b) PROVE i \in 1..p - 1
    <2>1. ASSUME i \notin 1..p - 1 PROVE FALSE
      <3>1. i - p + 1 \in 1..Len(b) /\ p + (i - p + 1) - 1 = i
        BY <1>1, <1>9, <1>10, <2>1
      <3>2. b[i - p + 1] = s[i]
        BY <1>14, <3>1
      <3> QED  BY <1>21, <3>1, <3>2 DEF LRng
    <2> QED  BY <2>1
  <1>22. ASSUME NEW i \in 1..p - 1
         PROVE  /\ s[i] \in DOMAIN m2 /\ m2[s[i]].data = mem[s[i]].data
                /\ m2[s[i]].next = IF i = p - 1 THEN 0 ELSE s[i + 1]
                /\ m2[s[i]].prev = IF i = 1 THEN 0 ELSE s[i - 1]
    <2>1. s[i] \in DOMAIN mem /\ m2[s[i]] = m1[s[i]] /\ s[i] \in DOMAIN m2 /\ i \in 1..Len(s)
      BY <1>11, <1>15, <1>19, <1>20
    <2>2. /\ mem[s[i]].next = IF i = Len(s) THEN 0 ELSE s[i + 1]
          /\ mem[s[i]].prev = IF i = 1 THEN 0 ELSE s[i - 1]
      BY <1>11, <2>1
    <2>3. CASE i = p - 1
      <3>1. s[i] = e
        BY <2>3 DEF e
      <3> QED  BY <1>18, <2>1, <2>2, <2>3, <3>1
    <2>4. CASE i # p - 1
      <3>1. s[i] # e
        BY <1>9, <1>11, <2>1, <2>4 DEF e
      <3>2. m1[s[i]] = mem[s[i]] /\ i # Len(s)
        BY <1>1, <1>8, <1>18, <2>1, <3>1
      <3> QED  BY <2>1, <2>2, <2>4, <3>2
    <2> QED  BY <2>3, <2>4
  <1>23. LJoined(m2, a)
    <2>1. ASSUME NEW i \in 1..Len(a)
          PROVE  /\ a[i] \in DOMAIN m2
                 /\ m2[a[i]].next = IF i = Len(a) THEN 0 ELSE a[i + 1]
                 /\ m2[a[i]].prev = IF i = 1 THEN 0 ELSE a[i - 1]
      <3>1. i \in 1..p - 1 /\ Len(a) = p - 1 /\ a[i] = s[i]
        BY <1>10
      <3>2. (i # p - 1 => i + 1 \in 1..p - 1) /\ (i # 1 => i - 1 \in 1..p - 1)
        BY <1>9, <3>1
      <3>3. (i # p - 1 => a[i + 1] = s[i + 1]) /\ (i # 1 => a[i - 1] = s[i - 1])
        BY <1>15, <3>2
      <3> QED  BY <1>22, <3>1, <3>3
    <2>2. \A i, j \in 1..Len(a) : a[i] = a[j] => i = j
      BY <1>10, <1>11, <1>15
    <2> QED  BY <2>1, <2>2 DEF LJoined
  <1>24. \A c : c \in LRng(a) <=> \E i \in 1..p - 1 : s[i] = c
    BY <1>10 DEF LRng
  <1>25. LTurns(mem, ch, x, m2, a)
    <2>1. ASSUME NEW c \in DOMAIN mem, c \notin LRng(s)
          PROVE  c \in DOMAIN m2 /\ m2[c] = mem[c] /\ c \notin LRng(a)
      <3>1. \A i \in 1..Len(s) : s[i] # c
        BY <2>1 DEF LRng
      <3>2. c \notin LRng(b)
        BY <1>14, <3>1 DEF LRng
      <3>3. c # e
        BY <1>9, <3>1 DEF e
      <3>4. c \notin LRng(a)
        BY <1>15, <1>24, <3>1
      <3> QED  BY <1>18, <1>19, <3>2, <3>3, <3>4
    <2>2. ASSUME NEW c \in DOMAIN m2, c \in LRng(s) PROVE c \in LRng(a)
      <3>1. PICK i \in 1..Len(s) : s[i] = c
        BY <2>2 DEF LRng
      <3>2. i \in 1..p - 1
        BY <1>19, <1>21, <3>1
      <3> QED  BY <1>24, <3>1, <3>2
    <2>3. \A c \in DOMAIN m2 : c \in DOMAIN mem
      BY <1>19
    <2> QED  BY <2>1, <2>2, <2>3 DEF LTurns, s
  <1>26. /\ t2 \in Seq(1..Cells) /\ Len(t2) = n /\ \A i \in 1..n : t2[i] = t[i]
    <2>1. 1 \in 1..Len(t) + 1 /\ n \in 1 - 1..Len(t) /\ n - 1 + 1 = n
      BY <1>2, <1>3
    <2>2. /\ t2 \in Seq(1..Cells) /\ Len(t2) = n - 1 + 1
          /\ \A i \in 1..n - 1 + 1 : t2[i] = t[1 + i - 1]
      <3>1. \A i \in 1..n : t[i] \in 1..Cells
        BY <1>2, <1>6, ElementOfSeq
      <3>2. 1 \in Int /\ n \in Int /\ 1 <= n
        OBVIOUS
      <3> QED  BY <3>1, <3>2, SubSeqProperties
    <2> HIDE DEF t2
    <2>3. \A i \in 1..n : t2[i] = t[i]
      <3>1. ASSUME NEW i \in 1..n PROVE t2[i] = t[i]
        <4>1. i \in 1..n - 1 + 1 /\ 1 + i - 1 = i
          OBVIOUS
        <4> QED  BY <2>2, <4>1
      <3> QED  BY <3>1
    <2> QED  BY <2>1, <2>2, <2>3
  <1> HIDE DEF t2
  <1>27. L!Within(t2, a)
    <2>1. ASSUME NEW i \in 1..Len(t2) PROVE \E q \in 1..Len(a) : t2[i] = a[q]
      <3>1. i \in 1..n /\ t2[i] = t[i] /\ i \in 1..Len(t) /\ i < n + 1
        BY <1>6, <1>26
      <3>2. PICK q \in 1..Len(s) : t[i] = s[q]
        BY <1>5, <3>1
      <3>3. q < p
        BY <1>5, <1>6, <1>7, <3>1, <3>2 DEF c0
      <3>4. q \in 1..p - 1
        BY <1>1, <1>9, <3>3
      <3> QED  BY <1>10, <1>15, <3>1, <3>2, <3>4
    <2>2. ASSUME NEW i \in 1..Len(t2), NEW j \in 1..Len(t2), NEW q \in 1..Len(a), NEW r \in 1..Len(a),
                 i < j, t2[i] = a[q], t2[j] = a[r]
          PROVE  q < r
      <3>1. /\ i \in 1..Len(t) /\ j \in 1..Len(t) /\ t[i] = t2[i] /\ t[j] = t2[j]
        BY <1>6, <1>26
      <3>2. q \in 1..Len(s) /\ r \in 1..Len(s) /\ a[q] = s[q] /\ a[r] = s[r]
        BY <1>10, <1>15
      <3> QED  BY <1>5, <2>2, <3>1, <3>2
    <2> QED  BY <1>10, <1>26, <2>1, <2>2, WithinIs, ZenonT(60)
  <1>28. LBegin(a) = LBegin(s) /\ LEnd(a) = e
    <2>1. Len(a) # 0 /\ Len(s) # 0 /\ 1 \in 1..p - 1 /\ p - 1 \in 1..p - 1
      BY <1>1, <1>8, <1>10
    <2>2. a # <<>> /\ s # <<>>
      BY <1>1, <1>10, <2>1, EmptySeq
    <2> QED  BY <1>10, <1>15, <2>1, <2>2 DEF LBegin, LEnd, e
  <1>29. /\ l2.index = t2 /\ l2.head = l.head /\ l2.tail = e /\ l2.st = "ok"
         /\ l2 \in LRecord
    BY <1>4, <1>12, <1>26 DEF LRecord, Rec
  <1> HIDE DEF l2
  <1>30. LHolds(l2, a)
    BY <1>2, <1>27, <1>28, <1>29 DEF LHolds
  <1>31. x \in unsure \/ LSure(l2, m2, a)
    <2>1. ASSUME LSure(l, mem, s) PROVE LSure(l2, m2, a)
      <3>1. t = s /\ \A i \in 1..Len(s) : mem[s[i]].data = "live"
        BY <2>1 DEF LSure, t
      <3>2. p = n + 1
        BY <1>6, <1>7, <1>11, <3>1 DEF c0
      <3>3. t2 = a
        <4>1. Len(t2) = Len(a) /\ \A i \in 1..Len(t2) : t2[i] = a[i]
          BY <1>9, <1>10, <1>15, <1>26, <3>1, <3>2
        <4> QED  BY <1>10, <1>26, <4>1, SeqEqual
      <3>4. ASSUME NEW i \in 1..Len(a) PROVE m2[a[i]].data = "live"
        BY <1>10, <1>15, <1>22, <3>1
      <3> QED  BY <1>29, <3>3, <3>4 DEF LSure
    <2> QED  BY <1>1, <2>1
  <1>32. LNew(l2, m2, a, unsure, unsure, x)
    BY <1>1, <1>10, <1>19, <1>23, <1>29, <1>30, <1>31 DEF LNew
  <1>33. LFits([lst EXCEPT ![x] = l2], m2, unsure, leaked, [ch EXCEPT ![x] = a])
    BY <1>25, <1>32, LChange
  <1> QED
    BY <1>13, <1>33 DEF l, m2

-----------------------------------------------------------------------------
(* The operations.                                                           *)

LEMMA ExtendInv ==
    ASSUME NEW ch, NEW m, LFits(lst, m, unsure, leaked, ch), NEW x \in Lists, L!Chain(x) = ch[x],
           lst[x].st = "ok", NEW n \in Nat, n # 0, NEW refused \in BOOLEAN,
           L!Extend(x, lst[x], m, n, refused),
           unsure' = IF refused THEN unsure \cup {x} ELSE unsure
    PROVE  LIInv'
  <1> DEFINE new == L!Malloced(m, n)
             l == lst[x]
             first == l.index = <<>>
             ix == IF refused THEN l.index ELSE l.index \o new
             hd == IF first THEN new[1] ELSE l.head
             tl == new[Len(new)]
             u2 == IF refused THEN unsure \cup {x} ELSE unsure
  <1>1. /\ n =< L!Room(m)
        /\ lst' = [lst EXCEPT ![x] = Extended(l, ix, hd, tl)]
        /\ mem' = L!Joined(m, IF first THEN 0 ELSE l.tail, new, refused)
        /\ leaked' = IF first THEN leaked \cup L!Range(L!Chain(x)) ELSE leaked
    BY DEF L!Extend, L!Become, L!Last, L!NULL, Extended
  <1>2. /\ l \in LRecord /\ LMemory(m) /\ lst \in [Lists -> LRecord] /\ LHolds(l, ch[x])
        /\ ch \in [Lists -> Seq(1..Cells)] /\ ch[x] \in Seq(1..Cells) /\ l.st = "ok"
    BY DEF LFits, LSound
  <1>3. new # <<>> /\ Unused(m, new)
    <2>1. /\ new \in Seq(1..Cells) /\ Len(new) = n
          /\ \A i, j \in 1..n : new[i] = new[j] => i = j
          /\ \A i \in 1..n : new[i] \in 1..Cells /\ new[i] \notin DOMAIN m
      BY <1>1, <1>2, MallocedIs DEF LMemory
    <2> HIDE DEF new
    <2> QED  BY <2>1, EmptySeq DEF Unused
  <1>4. Extended(l, ix, hd, tl) = Rec(ix, hd, tl, "ok")
    BY <1>2, ExtendedIs
  <1>5. unsure' = u2
    OBVIOUS
  <1> HIDE DEF new, u2
  <1>6. CASE ~first
    <2>1. l.tail = LEnd(ch[x])
      BY <1>2 DEF LHolds
    <2>2. LFits([lst EXCEPT ![x] = Rec(ix, hd, tl, "ok")], L!Joined(m, LEnd(ch[x]), new, refused),
                u2, leaked, [ch EXCEPT ![x] = ch[x] \o new])
      BY <1>2, <1>3, <1>6, GrowFits DEF u2
    <2>3. /\ lst' = [lst EXCEPT ![x] = Rec(ix, hd, tl, "ok")] /\ leaked' = leaked
          /\ mem' = L!Joined(m, LEnd(ch[x]), new, refused)
      BY <1>1, <1>4, <1>6, <2>1
    <2>4. LFits(lst', mem', unsure', leaked', [ch EXCEPT ![x] = ch[x] \o new])
      BY <1>5, <2>2, <2>3
    <2> QED  BY <2>4 DEF LIInv
  <1>7. CASE first
    <2> DEFINE ls1 == [lst EXCEPT ![x] = Bare("ok")]
               ch1 == [ch EXCEPT ![x] = <<>>]
               k1 == leaked \cup LRng(ch[x])
               rr == Rec(ix, hd, tl, "ok")
    <2>1. LFits(ls1, m, unsure, k1, ch1)
      BY <1>2, LeakFits
    <2>2. /\ ls1[x] = Bare("ok") /\ ch1[x] = <<>> /\ [ls1 EXCEPT ![x] = rr] = [lst EXCEPT ![x] = rr]
      <3> HIDE DEF rr
      <3> QED  BY <1>2
    <2>3. Bare("ok").index = <<>> /\ Bare("ok").st = "ok" /\ l.index = <<>>
      BY <1>7 DEF Bare, Rec
    <2> HIDE DEF ls1, ch1, k1
    <2>4. LFits([ls1 EXCEPT ![x] = Rec(IF refused THEN ls1[x].index ELSE ls1[x].index \o new,
                                       IF ls1[x].index = <<>> THEN new[1] ELSE ls1[x].head, tl, "ok")],
                L!Joined(m, LEnd(ch1[x]), new, refused), u2, k1, [ch1 EXCEPT ![x] = ch1[x] \o new])
      BY <1>3, <2>1, <2>2, <2>3, GrowFits DEF u2
    <2>5. /\ (IF refused THEN ls1[x].index ELSE ls1[x].index \o new) = ix
          /\ (IF ls1[x].index = <<>> THEN new[1] ELSE ls1[x].head) = hd
      BY <1>7, <2>2, <2>3
    <2>6. LEnd(ch1[x]) = 0
      BY <2>2 DEF LEnd
    <2>7. LFits([lst EXCEPT ![x] = rr], L!Joined(m, 0, new, refused), u2, k1, [ch1 EXCEPT ![x] = ch1[x] \o new])
      <3> HIDE DEF ix, hd, tl
      <3> QED  BY <2>2, <2>4, <2>5, <2>6
    <2>8. lst' = [lst EXCEPT ![x] = rr] /\ mem' = L!Joined(m, 0, new, refused)
      BY <1>1, <1>4, <1>7
    <2>9. leaked' = k1
      <3>1. leaked' = leaked \cup L!Range(ch[x])
        BY <1>1, <1>7
      <3> QED  BY <1>2, <3>1, LRangeIs DEF k1
    <2> HIDE DEF rr
    <2>10. LFits(lst', mem', unsure', leaked', [ch1 EXCEPT ![x] = ch1[x] \o new])
      BY <1>5, <2>7, <2>8, <2>9
    <2> QED  BY <2>10 DEF LIInv
  <1> QED
    BY <1>6, <1>7

LEMMA UnsetIs ==
    ASSUME NEW st
    PROVE  [L!Unset EXCEPT !.st = st] = Bare(st) /\ L!Unset = Bare("none")
  <1>1. L!Unset = Rec(<<>>, 0, 0, "none")
    BY DEF L!Unset, L!NULL, Rec
  <1> QED
    BY <1>1, RecIs DEF Bare

LEMMA DataFiniInv ==
    ASSUME LIInv, NEW x \in Lists, NEW st \in {"none", "ok"}, L!DataFini(x, st)
    PROVE  LIInv'
  <1>1. PICK ch : LFits(lst, mem, unsure, leaked, ch)
    BY DEF LIInv
  <1>2. L!Chain(x) = ch[x] /\ ch[x] \in Seq(1..Cells)
    BY <1>1, LChainIs DEF L!Chain
  <1>3. L!Range(L!Chain(x)) = LRng(ch[x])
    BY <1>2, LRangeIs
  <1>4. /\ lst' = [lst EXCEPT ![x] = [L!Unset EXCEPT !.st = st]] /\ unsure' = unsure \ {x}
        /\ leaked' = leaked /\ mem' = L!Freed(mem, L!Range(L!Chain(x)))
    BY DEF L!DataFini, L!Become
  <1>5. /\ lst' = [lst EXCEPT ![x] = Bare(st)] /\ mem' = L!Freed(mem, LRng(ch[x]))
    BY <1>3, <1>4, UnsetIs
  <1>6. LFits([lst EXCEPT ![x] = Bare(st)], L!Freed(mem, LRng(ch[x])), unsure \ {x}, leaked,
              [ch EXCEPT ![x] = <<>>])
    BY <1>1, FiniFits
  <1>7. LFits(lst', mem', unsure', leaked', [ch EXCEPT ![x] = <<>>])
    BY <1>4, <1>5, <1>6
  <1> QED
    BY <1>7 DEF LIInv

LEMMA ListMoveInv ==
    ASSUME LIInv, NEW dst \in Lists, NEW src \in Lists, L!ListMove(dst, src)
    PROVE  LIInv'
  <1>1. PICK ch : LFits(lst, mem, unsure, leaked, ch)
    BY DEF LIInv
  <1>2. L!Chain(dst) = ch[dst] /\ ch[dst] \in Seq(1..Cells)
    BY <1>1, LChainIs DEF L!Chain
  <1>3. /\ dst # src /\ lst' = [lst EXCEPT ![dst] = lst[src], ![src] = L!Unset]
        /\ mem' = L!Freed(mem, L!Range(L!Chain(dst))) /\ leaked' = leaked
        /\ unsure' = (unsure \ {dst, src}) \cup (IF src \in unsure THEN {dst} ELSE {})
    BY DEF L!ListMove
  <1> DEFINE ls1 == [lst EXCEPT ![dst] = Bare("none")]
             ch1 == [ch EXCEPT ![dst] = <<>>]
             u1 == unsure \ {dst}
             ls2 == [ls1 EXCEPT ![dst] = ls1[src], ![src] = Bare("none")]
             u2 == (u1 \ {dst, src}) \cup (IF src \in u1 THEN {dst} ELSE {})
             ch2 == [ch1 EXCEPT ![dst] = ch1[src], ![src] = <<>>]
  <1>4. mem' = L!Freed(mem, LRng(ch[dst]))
    BY <1>2, <1>3, LRangeIs
  <1>5. LFits(ls1, mem', u1, leaked, ch1)
    BY <1>1, <1>4, FiniFits
  <1>6. ch1[dst] = <<>>
    BY <1>1 DEF LFits
  <1> HIDE DEF ls1, ch1, u1
  <1>7. LFits(ls2, mem', u2, leaked, ch2)
    BY <1>3, <1>5, <1>6, MoveFits
  <1>8. u2 = unsure'
    BY <1>3 DEF u1
  <1>9. ls2 = lst'
    <2>1. lst \in [Lists -> LRecord]
      BY <1>1 DEF LFits
    <2>2. ls1[src] = lst[src]
      BY <1>3, <2>1 DEF ls1
    <2>3. L!Unset = Bare("none")
      BY UnsetIs
    <2> DEFINE r == lst[src]
               o == Bare("none")
               v1 == [lst EXCEPT ![dst] = r]
               v2 == [ls1 EXCEPT ![dst] = r]
    <2>4. lst' = [v1 EXCEPT ![src] = o]
      BY <1>3, <2>3
    <2>5. ls2 = [v2 EXCEPT ![src] = o]
      BY <2>2
    <2> HIDE DEF r, o
    <2>6. v1 = v2
      BY <2>1 DEF ls1
    <2> QED  BY <2>4, <2>5, <2>6
  <1>10. LFits(lst', mem', unsure', leaked', ch2)
    <2> HIDE DEF ls2, u2, ch2
    <2> QED  BY <1>3, <1>7, <1>8, <1>9
  <1> QED
    BY <1>10 DEF LIInv

LEMMA ClearItemInv ==
    ASSUME LIInv, NEW x \in Lists, NEW i, L!ClearItem(x, i)
    PROVE  LIInv'
  <1>1. PICK ch : LFits(lst, mem, unsure, leaked, ch)
    BY DEF LIInv
  <1> DEFINE c0 == lst[x].index[i]
             E == [next : Int, prev : Int, data : {"live", "raw"}]
  <1>2. /\ i \in DOMAIN lst[x].index /\ mem' = [mem EXCEPT ![c0].data = "raw"]
        /\ lst' = lst /\ leaked' = leaked /\ unsure' = unsure \cup {x}
    BY DEF L!ClearItem, L!Failed
  <1>3. /\ ch[x] \in Seq(1..Cells) /\ LJoined(mem, ch[x]) /\ LHolds(lst[x], ch[x])
        /\ lst[x] \in LRecord
    BY <1>1, LChainIs
  <1>4. LMemory(mem)
    BY <1>1 DEF LFits
  <1>5. c0 \in LRng(ch[x]) /\ c0 \in DOMAIN mem
    <2> DEFINE t == lst[x].index
               s == ch[x]
    <2>1. t \in Seq(1..Cells) /\ L!Within(t, s) /\ s \in Seq(1..Cells)
      BY <1>3 DEF LRecord, LHolds
    <2>2. i \in DOMAIN t /\ LJoined(mem, s)
      BY <1>2, <1>3
    <2> HIDE DEF t, s
    <2>3. i \in 1..Len(t)
      BY <2>1, <2>2, LRangeIs
    <2>4. PICK a \in 1..Len(s) : t[i] = s[a]
      BY <2>1, <2>3, WithinIs
    <2>5. t[i] \in LRng(s) /\ t[i] \in DOMAIN mem
      BY <2>2, <2>4 DEF LRng, LJoined
    <2> QED  BY <2>5 DEF t, s
  <1>6. mem \in [DOMAIN mem -> E] /\ DOMAIN mem \subseteq 1..Cells
    BY <1>4 DEF LMemory
  <1> HIDE DEF c0
  <1> DEFINE f == [mem[c0] EXCEPT !.data = "raw"]
  <1>7. f \in E /\ f.next = mem[c0].next /\ f.prev = mem[c0].prev
    BY <1>5, <1>6
  <1>8. mem' = [mem EXCEPT ![c0] = f]
    BY <1>2
  <1> HIDE DEF f
  <1>9. /\ mem' \in [DOMAIN mem -> E] /\ DOMAIN mem' = DOMAIN mem /\ mem'[c0] = f
        /\ \A c \in DOMAIN mem : c # c0 => mem'[c] = mem[c]
    <2> HIDE DEF E
    <2> QED  BY <1>5, <1>6, <1>7, <1>8
  <1>10. SameLinks(mem, mem')
    BY <1>6, <1>7, <1>9 DEF SameLinks, LMemory
  <1>11. \A c \in DOMAIN mem : c \notin LRng(ch[x]) => mem'[c] = mem[c]
    BY <1>5, <1>9
  <1>12. LFits(lst, mem', unsure \cup {x}, leaked, ch)
    BY <1>1, <1>10, <1>11, DataFits
  <1>13. LFits(lst', mem', unsure', leaked', ch)
    BY <1>2, <1>12
  <1> QED
    BY <1>13 DEF LIInv

LEMMA ListInitInv ==
    ASSUME LIInv, NEW x \in Lists, NEW n \in Nat, NEW refused \in BOOLEAN, L!ListInit(x, n, refused)
    PROVE  LIInv'
  <1>1. PICK ch : LFits(lst, mem, unsure, leaked, ch)
    BY DEF LIInv
  <1> DEFINE new == L!Malloced(mem, n)
             ix == IF refused THEN <<>> ELSE new
             hd == IF n = 0 THEN 0 ELSE new[1]
             tl == IF n = 0 \/ refused THEN 0 ELSE new[Len(new)]
             st == IF refused THEN "broken" ELSE "ok"
             l2 == Rec(ix, hd, tl, st)
             u2 == IF refused THEN unsure \cup {x} ELSE unsure
  <1>2. /\ lst[x].st = "none" /\ n =< L!Room(mem) /\ (refused => n > 0)
        /\ lst' = [lst EXCEPT ![x] = l2] /\ mem' = L!Joined(mem, 0, new, refused)
        /\ unsure' = u2 /\ leaked' = leaked
    BY DEF L!ListInit, L!Become, L!Failed, L!Last, L!NULL, Rec
  <1>3. /\ ch[x] \in Seq(1..Cells) /\ LHolds(lst[x], ch[x])
        /\ LMemory(mem) /\ unsure \subseteq Lists
    BY <1>1, LChainIs DEF LFits
  <1>4. ch[x] = <<>>
    BY <1>2, <1>3 DEF LHolds
  <1>5. /\ new \in Seq(1..Cells) /\ Len(new) = n
        /\ \A i, j \in 1..n : new[i] = new[j] => i = j
        /\ \A i \in 1..n : new[i] \in 1..Cells /\ new[i] \notin DOMAIN mem
    BY <1>2, <1>3, MallocedIs DEF LMemory
  <1> HIDE DEF new
  <1>6. Unused(mem, new)
    BY <1>5 DEF Unused
  <1>7. LJoined(mem, <<>>) /\ <<>> \in Seq(1..Cells) /\ LEnd(<<>>) = 0
    BY BareHolds DEF LEnd
  <1>8. Longer(mem, <<>>, new, refused, mem')
    BY <1>2, <1>3, <1>6, <1>7, LongerChain
  <1>9. <<>> \o new = new
    BY <1>5, ConcatEmptySeq
  <1>10. LTurns(mem, ch, x, mem', new)
    BY <1>3, <1>4, <1>6, <1>8, <1>9, LongerTurns
  <1>11. LMemory(mem') /\ LJoined(mem', new)
    BY <1>8, <1>9 DEF Longer
  <1>12. /\ new = <<>> <=> n = 0
         /\ n # 0 => 1 \in 1..Len(new) /\ Len(new) \in 1..Len(new)
    BY <1>5, EmptySeq
  <1>13. n # 0 => new[1] \in Int /\ new[Len(new)] \in Int
    BY <1>5, <1>12
  <1>14. ix \in Seq(1..Cells) /\ hd \in Int /\ tl \in Int /\ st \in {"none", "ok", "broken"}
    <2>1. ix \in Seq(1..Cells)
      <3>1. CASE refused
        BY <1>7, <3>1
      <3>2. CASE ~refused
        BY <1>5, <3>2
      <3> QED  BY <3>1, <3>2
    <2>2. hd \in Int
      <3>1. CASE n = 0
        BY <3>1
      <3>2. CASE n # 0
        BY <1>13, <3>2
      <3> QED  BY <3>1, <3>2
    <2>3. tl \in Int
      <3>1. CASE n = 0 \/ refused
        BY <3>1
      <3>2. CASE ~(n = 0 \/ refused)
        BY <1>13, <3>2
      <3> QED  BY <3>1, <3>2
    <2>4. st \in {"none", "ok", "broken"}
      OBVIOUS
    <2> HIDE DEF ix, hd, tl, st
    <2> QED  BY <2>1, <2>2, <2>3, <2>4
  <1>15. hd = LBegin(new) /\ tl = (IF st = "ok" THEN LEnd(new) ELSE 0) /\ st # "none"
    BY <1>12 DEF LBegin, LEnd
  <1>16. L!Within(ix, new)
    <2>1. L!Within(new, new)
      BY <1>5, WithinSame
    <2>2. L!Within(<<>>, new)
      BY <1>5, WithinEmpty
    <2> QED  BY <2>1, <2>2
  <1>17. x \notin u2 => ix = new /\ \A i \in 1..Len(new) : mem'[new[i]].data = "live"
    <2>1. ASSUME ~refused PROVE \A i \in 1..Len(new) : mem'[new[i]].data = "live"
      BY <1>8, <2>1 DEF Longer
    <2> QED  BY <2>1
  <1>18. u2 \subseteq Lists /\ \A y \in Lists : y # x => (y \in u2 <=> y \in unsure)
    BY <1>3
  <1> HIDE DEF ix, hd, tl, st, u2
  <1>19. l2 \in LRecord /\ LHolds(l2, new)
    <2>1. l2.index = ix /\ l2.head = hd /\ l2.tail = tl /\ l2.st = st
      BY DEF Rec
    <2>2. l2 \in LRecord
      BY <1>14 DEF LRecord, Rec
    <2> QED  BY <1>15, <1>16, <2>1, <2>2 DEF LHolds
  <1>20. x \in u2 \/ LSure(l2, mem', new)
    <2>1. l2.index = ix
      BY DEF Rec
    <2> QED  BY <1>17, <2>1 DEF LSure
  <1> HIDE DEF l2
  <1>21. LNew(l2, mem', new, unsure, u2, x)
    BY <1>5, <1>11, <1>18, <1>19, <1>20 DEF LNew
  <1>22. LFits([lst EXCEPT ![x] = l2], mem', u2, leaked, [ch EXCEPT ![x] = new])
    BY <1>1, <1>10, <1>21, LChange
  <1>23. LFits(lst', mem', unsure', leaked', [ch EXCEPT ![x] = new])
    BY <1>2, <1>22
  <1> QED
    BY <1>23 DEF LIInv

LEMMA EnsureLenInv ==
    ASSUME LIInv, NEW x \in Lists, NEW n \in Nat, NEW save \in BOOLEAN, NEW bad,
           L!EnsureLen(x, n, save, bad)
    PROVE  LIInv'
  <1>1. PICK ch : LFits(lst, mem, unsure, leaked, ch)
    BY DEF LIInv
  <1> DEFINE old == L!elnum(lst[x])
             less == 0 < n /\ n < old
             l == IF less THEN L!Short(lst[x], n) ELSE lst[x]
             left == IF less THEN L!ShortMem(lst[x], n) ELSE mem
             stops == ~save /\ bad \in DOMAIN L!Run(left, l.head)
             m == IF save THEN left ELSE L!Reinit(left, l, bad)
             ls1 == [lst EXCEPT ![x] = l]
             u2 == IF stops THEN unsure \cup {x} ELSE unsure
  <1>2. /\ lst[x].st = "ok"
        /\ IF n = 0 /\ old > 0 THEN L!DataFini(x, "ok")
           ELSE IF stops \/ n =< old
                THEN lst' = ls1 /\ mem' = m /\ unsure' = u2 /\ leaked' = leaked
           ELSE \/ L!Extend(x, l, m, n - old, FALSE) /\ unsure' = unsure
                \/ \E made \in 1..n - old :
                     L!Extend(x, l, m, made, TRUE) /\ unsure' = unsure \cup {x}
    BY DEF L!EnsureLen, L!Failed, L!Become
  <1>3. /\ old = Len(lst[x].index) /\ old \in Nat /\ lst \in [Lists -> LRecord] /\ lst[x] \in LRecord
    BY <1>1 DEF L!elnum, LFits, LRecord
  <1>4. PICK ch1 : LFits(ls1, left, unsure, leaked, ch1)
    <2>1. CASE less
      <3>1. n # 0 /\ n < Len(lst[x].index)
        BY <1>3, <2>1
      <3> HIDE DEF old
      <3>2. \E s2 : LFits([lst EXCEPT ![x] = L!Short(lst[x], n)], L!ShortMem(lst[x], n), unsure, leaked,
                          [ch EXCEPT ![x] = s2])
        BY <1>1, <1>2, <3>1, ShortFits
      <3>3. l = L!Short(lst[x], n) /\ left = L!ShortMem(lst[x], n)
        BY <2>1
      <3> HIDE DEF l, left
      <3> QED  BY <3>2, <3>3
    <2>2. CASE ~less
      <3>1. ls1 = lst /\ left = mem
        BY <1>3, <2>2
      <3> QED  BY <1>1, <3>1
    <2> QED  BY <2>1, <2>2
  <1>5. ls1[x] = l
    BY <1>3
  <1>6. ~less => ls1 = lst /\ left = mem /\ l = lst[x]
    BY <1>3
  <1> HIDE DEF old, l, left, ls1
  <1>7. LFits(ls1, m, u2, leaked, ch1)
    <2>1. CASE save
      BY <1>4, <2>1
    <2>2. CASE ~save
      <3> DEFINE u3 == IF bad \in DOMAIN L!Run(left, ls1[x].head) THEN unsure \cup {x} ELSE unsure
      <3>1. LFits(ls1, L!Reinit(left, ls1[x], bad), u3, leaked, ch1)
        BY <1>4, ReinitFits
      <3>2. m = L!Reinit(left, ls1[x], bad) /\ u2 = u3
        BY <1>5, <2>2
      <3> HIDE DEF m, u2, u3
      <3> QED  BY <3>1, <3>2
    <2> QED  BY <2>1, <2>2
  <1> HIDE DEF m, u2
  <1>8. CASE n = 0 /\ old > 0
    BY <1>2, <1>8, DataFiniInv
  <1>9. CASE ~(n = 0 /\ old > 0) /\ (stops \/ n =< old)
    <2>1. LFits(lst', mem', unsure', leaked', ch1)
      <3>1. lst' = ls1 /\ mem' = m /\ unsure' = u2 /\ leaked' = leaked
        BY <1>2, <1>9
      <3> QED  BY <1>7, <3>1
    <2> QED  BY <2>1 DEF LIInv
  <1>10. CASE ~(n = 0 /\ old > 0) /\ ~(stops \/ n =< old)
    <2>1. ~less /\ ~stops /\ n - old \in Nat /\ n - old # 0 /\ u2 = unsure
      BY <1>3, <1>10 DEF u2
    <2>2. ls1 = lst /\ left = mem /\ l = lst[x]
      BY <1>6, <2>1
    <2>3. LFits(lst, m, unsure, leaked, ch1)
      BY <1>7, <2>1, <2>2
    <2>4. L!Chain(x) = ch1[x]
      BY <1>4, <2>2, LChainIs DEF L!Chain
    <2>5. CASE L!Extend(x, l, m, n - old, FALSE) /\ unsure' = unsure
      <3>1. L!Extend(x, lst[x], m, n - old, FALSE)
        BY <2>2, <2>5
      <3>2. unsure' = IF FALSE THEN unsure \cup {x} ELSE unsure
        BY <2>5
      <3> QED  BY <1>2, <2>1, <2>3, <2>4, <3>1, <3>2, ExtendInv
    <2>6. ASSUME NEW made \in 1..n - old, L!Extend(x, l, m, made, TRUE), unsure' = unsure \cup {x}
          PROVE  LIInv'
      <3>0. made \in Nat /\ made # 0
        BY <2>1
      <3>1. L!Extend(x, lst[x], m, made, TRUE)
        BY <2>2, <2>6
      <3>2. unsure' = IF TRUE THEN unsure \cup {x} ELSE unsure
        BY <2>6
      <3> QED  BY <1>2, <2>3, <2>4, <3>0, <3>1, <3>2, ExtendInv
    <2>7. \/ L!Extend(x, l, m, n - old, FALSE) /\ unsure' = unsure
          \/ \E made \in 1..n - old : L!Extend(x, l, m, made, TRUE) /\ unsure' = unsure \cup {x}
      BY <1>2, <1>10
    <2> QED  BY <2>5, <2>6, <2>7
  <1> QED
    BY <1>8, <1>9, <1>10

LEMMA ListStep == LIInv /\ [L!LNext]_lvars => LIInv'
  <1> SUFFICES ASSUME LIInv, [L!LNext]_lvars PROVE LIInv'
    OBVIOUS
  <1>1. ASSUME NEW x \in Lists, NEW n \in 0..MaxLen, NEW refused \in BOOLEAN, L!ListInit(x, n, refused)
        PROVE  LIInv'
    <2>1. n \in Nat
      OBVIOUS
    <2> QED  BY <1>1, <2>1, ListInitInv
  <1>2. ASSUME NEW x \in Lists, NEW n \in 0..MaxLen, NEW save \in BOOLEAN, NEW bad, L!EnsureLen(x, n, save, bad)
        PROVE  LIInv'
    <2>1. n \in Nat
      OBVIOUS
    <2> QED  BY <1>2, <2>1, EnsureLenInv
  <1>3. ASSUME NEW x \in Lists, NEW i, L!ClearItem(x, i) PROVE LIInv'
    BY <1>3, ClearItemInv
  <1>4. ASSUME NEW x \in Lists, NEW y \in Lists, L!ListMove(x, y) PROVE LIInv'
    BY <1>4, ListMoveInv
  <1>5. \A x \in Lists : L!elnum(lst[x]) \in Nat
    <2>1. PICK ch : LFits(lst, mem, unsure, leaked, ch)
      BY DEF LIInv
    <2>2. ASSUME NEW x \in Lists PROVE lst[x].index \in Seq(1..Cells)
      BY <2>1 DEF LFits, LRecord
    <2>3. ASSUME NEW x \in Lists PROVE Len(lst[x].index) \in Nat
      BY <2>2, LenProperties
    <2> QED  BY <2>3 DEF L!elnum
  <1>6. ASSUME NEW x \in Lists, L!ListIncr(x) PROVE LIInv'
    <2>1. L!EnsureLen(x, L!elnum(lst[x]) + 1, TRUE, 1)
      BY <1>6 DEF L!ListIncr
    <2>2. L!elnum(lst[x]) + 1 \in Nat
      BY <1>5
    <2> QED  BY <2>1, <2>2, EnsureLenInv
  <1>7. ASSUME NEW x \in Lists, L!ListDecr(x) PROVE LIInv'
    <2>1. L!EnsureLen(x, L!elnum(lst[x]) - 1, TRUE, 1) /\ L!elnum(lst[x]) > 0
      BY <1>7 DEF L!ListDecr
    <2>2. L!elnum(lst[x]) - 1 \in Nat
      BY <1>5, <2>1
    <2> QED  BY <2>1, <2>2, EnsureLenInv
  <1>8. ASSUME NEW x \in Lists, L!ListFini(x) PROVE LIInv'
    BY <1>8, DataFiniInv DEF L!ListFini
  <1>9. CASE UNCHANGED lvars
    BY <1>9 DEF lvars, LIInv
  <1>10. CASE L!LNext
    BY <1>1, <1>2, <1>3, <1>4, <1>6, <1>7, <1>8, <1>10 DEF L!LNext
  <1> QED
    BY <1>9, <1>10

LEMMA ListStart == L!LStart => LIInv
  <1> SUFFICES ASSUME L!LStart PROVE LIInv
    OBVIOUS
  <1> DEFINE ch == [x \in Lists |-> <<>>]
             o == Bare("none")
  <1>1. /\ lst = [x \in Lists |-> o] /\ mem = <<>> /\ unsure = {} /\ leaked = {}
    BY UnsetIs DEF L!LStart
  <1>2. /\ o \in LRecord /\ LHolds(o, <<>>) /\ LSure(o, mem, <<>>)
        /\ LJoined(mem, <<>>) /\ <<>> \in Seq(1..Cells) /\ LRng(<<>>) = {}
    BY BareHolds
  <1> HIDE DEF o
  <1>3. DOMAIN mem = {}
    BY <1>1
  <1>4. LMemory(mem)
    <2>1. mem = [c \in {} |-> mem[c]]
      BY <1>1
    <2>2. mem \in [{} -> [next : Int, prev : Int, data : {"live", "raw"}]]
      BY <2>1
    <2> QED  BY <1>3, <2>2 DEF LMemory
  <1>5. /\ lst \in [Lists -> LRecord] /\ ch \in [Lists -> Seq(1..Cells)]
        /\ \A x \in Lists : lst[x] = o /\ ch[x] = <<>>
    BY <1>1, <1>2
  <1> HIDE DEF ch
  <1>6. \A x \in Lists : LSound(lst, mem, unsure, ch, x)
    BY <1>2, <1>5 DEF LSound
  <1>7. LApart(leaked, ch) /\ LLost(mem, leaked) /\ LCovered(mem, leaked, ch)
    BY <1>1, <1>2, <1>3, <1>5 DEF LApart, LLost, LCovered
  <1>8. LFits(lst, mem, unsure, leaked, ch)
    BY <1>1, <1>4, <1>5, <1>6, <1>7 DEF LFits
  <1> QED
    BY <1>8 DEF LIInv

LEMMA ListGood == LIInv => ListSound
  <1> SUFFICES ASSUME LIInv PROVE L!ListSound
    BY DEF ListSound
  <1>1. PICK ch : LFits(lst, mem, unsure, leaked, ch)
    BY DEF LIInv
  <1>2. \A x \in Lists : L!Chain(x) = ch[x] /\ ch[x] \in Seq(1..Cells) /\ Len(ch[x]) \in Nat
    BY <1>1, LChainIs DEF L!Chain
  <1>3. \A x \in Lists : L!Range(ch[x]) = LRng(ch[x]) /\ DOMAIN ch[x] = 1..Len(ch[x])
    BY <1>2, LRangeIs
  <1>4. /\ \A x \in Lists : LSound(lst, mem, unsure, ch, x) /\ lst[x] \in LRecord
        /\ LApart(leaked, ch) /\ LLost(mem, leaked) /\ LCovered(mem, leaked, ch)
    BY <1>1 DEF LFits
  <1>5. ASSUME NEW x \in Lists, NEW c \in LRng(ch[x])
        PROVE  /\ c \in DOMAIN mem /\ mem[c].next \in DOMAIN mem \cup {0}
               /\ mem[c].prev \in DOMAIN mem \cup {0}
    <2> DEFINE s == ch[x]
    <2>1. LJoined(mem, s) /\ Len(s) \in Nat
      BY <1>2, <1>4 DEF LSound
    <2>2. PICK i \in 1..Len(s) : s[i] = c
      BY <1>5 DEF LRng
    <2> HIDE DEF s
    <2>3. /\ c \in DOMAIN mem
          /\ mem[c].next = IF i = Len(s) THEN 0 ELSE s[i + 1]
          /\ mem[c].prev = IF i = 1 THEN 0 ELSE s[i - 1]
      BY <2>1, <2>2 DEF LJoined
    <2>4. (i # Len(s) => i + 1 \in 1..Len(s)) /\ (i # 1 => i - 1 \in 1..Len(s))
      BY <2>1
    <2>5. (i # Len(s) => s[i + 1] \in DOMAIN mem) /\ (i # 1 => s[i - 1] \in DOMAIN mem)
      BY <2>1, <2>4 DEF LJoined
    <2> QED  BY <2>3, <2>5
  <1>6. \A c \in DOMAIN mem : {mem[c].next, mem[c].prev} \subseteq DOMAIN mem \cup {L!NULL}
    <2>1. \A c \in leaked : mem[c].next \in DOMAIN mem \cup {0} /\ mem[c].prev \in DOMAIN mem \cup {0}
      BY <1>4 DEF LLost
    <2> QED  BY <1>4, <1>5, <2>1 DEF LCovered, L!NULL
  <1>7. ASSUME NEW x \in Lists
        PROVE  LET l == lst[x]
                   s == L!Chain(x)
               IN  /\ {l.head, l.tail} \cup L!Range(l.index) \subseteq DOMAIN mem \cup {L!NULL}
                   /\ L!IsInjective(s)
                   /\ \A i \in DOMAIN s : mem[s[i]].prev = IF i = 1 THEN L!NULL ELSE s[i - 1]
                   /\ l.st = "ok" => l.tail = IF s = <<>> THEN L!NULL ELSE L!Last(s)
                   /\ L!Within(l.index, s)
                   /\ x \notin unsure =>
                        l.index = s /\ \A c \in L!Range(s) : mem[c].data = "live"
    <2> DEFINE s == ch[x]
               l == lst[x]
    <2>1. /\ LJoined(mem, s) /\ LHolds(l, s) /\ (x \in unsure \/ LSure(l, mem, s)) /\ l \in LRecord
          /\ L!Chain(x) = s /\ s \in Seq(1..Cells) /\ Len(s) \in Nat
          /\ L!Range(s) = LRng(s) /\ DOMAIN s = 1..Len(s)
      BY <1>2, <1>3, <1>4 DEF LSound
    <2> HIDE DEF s, l
    <2>2. L!IsInjective(s)
      BY <2>1 DEF LJoined, L!IsInjective
    <2>3. \A i \in DOMAIN s : mem[s[i]].prev = IF i = 1 THEN L!NULL ELSE s[i - 1]
      BY <2>1 DEF LJoined, L!NULL
    <2>4. l.st = "ok" => l.tail = IF s = <<>> THEN L!NULL ELSE L!Last(s)
      BY <2>1 DEF LHolds, LEnd, L!NULL, L!Last
    <2>5. L!Within(l.index, s)
      BY <2>1 DEF LHolds
    <2>6. x \notin unsure => l.index = s /\ \A c \in L!Range(s) : mem[c].data = "live"
      BY <2>1 DEF LSure, LRng
    <2>7. LRng(s) \subseteq DOMAIN mem
      <3>1. \A i \in 1..Len(s) : s[i] \in DOMAIN mem
        BY <2>1 DEF LJoined
      <3> QED  BY <3>1 DEF LRng
    <2>8. L!Range(l.index) \subseteq DOMAIN mem
      BY <2>1, <2>5, <2>7 DEF L!Within
    <2>9. l.head \in DOMAIN mem \cup {0} /\ l.tail \in DOMAIN mem \cup {0}
      <3>1. s # <<>> => 1 \in 1..Len(s) /\ Len(s) \in 1..Len(s)
        <4>1. s # <<>> => Len(s) \in Nat \ {0}
          BY <2>1, EmptySeq
        <4> QED  BY <4>1
      <3>2. s # <<>> => s[1] \in DOMAIN mem /\ s[Len(s)] \in DOMAIN mem
        BY <2>1, <3>1 DEF LJoined
      <3> QED  BY <2>1, <3>2 DEF LHolds, LBegin, LEnd
    <2>10. {l.head, l.tail} \cup L!Range(l.index) \subseteq DOMAIN mem \cup {L!NULL}
      BY <2>8, <2>9 DEF L!NULL
    <2>11. L!Chain(x) = s
      BY <2>1
    <2> QED  BY <2>2, <2>3, <2>4, <2>5, <2>6, <2>10, <2>11, Zenon DEF l
  <1>8. \A x, y \in Lists : x # y => L!Range(L!Chain(x)) \cap L!Range(L!Chain(y)) = {}
    <2> SUFFICES ASSUME NEW x \in Lists, NEW y \in Lists, x # y
                 PROVE  L!Range(L!Chain(x)) \cap L!Range(L!Chain(y)) = {}
      OBVIOUS
    <2>1. L!Range(L!Chain(x)) = LRng(ch[x]) /\ L!Range(L!Chain(y)) = LRng(ch[y])
      <3>1. L!Chain(x) = ch[x] /\ L!Chain(y) = ch[y]
        BY <1>2
      <3>2. L!Range(ch[x]) = LRng(ch[x]) /\ L!Range(ch[y]) = LRng(ch[y])
        BY <1>3
      <3> QED  BY <3>1, <3>2, Zenon
    <2>2. \A c \in LRng(ch[x]) : c \notin LRng(ch[y])
      BY <1>4 DEF LApart
    <2>3. LRng(ch[x]) \cap LRng(ch[y]) = {}
      BY <2>2
    <2> QED  BY <2>1, <2>3, Zenon
  <1>9. DOMAIN mem = leaked \cup UNION {L!Range(L!Chain(x)) : x \in Lists}
    <2>1. \A c \in DOMAIN mem : c \in leaked \/ \E x \in Lists : c \in L!Range(L!Chain(x))
      BY <1>2, <1>3, <1>4 DEF LCovered
    <2>2. \A x \in Lists : \A c \in L!Range(L!Chain(x)) : c \in DOMAIN mem
      BY <1>2, <1>3, <1>5
    <2>3. \A c \in leaked : c \in DOMAIN mem
      BY <1>4 DEF LLost
    <2> DEFINE Held(x) == L!Range(L!Chain(x))
               U == UNION {Held(x) : x \in Lists}
    <2>4. \A c : c \in U <=> \E x \in Lists : c \in Held(x)
      OBVIOUS
    <2>5. /\ \A c \in DOMAIN mem : c \in leaked \/ \E x \in Lists : c \in Held(x)
          /\ \A x \in Lists : \A c \in Held(x) : c \in DOMAIN mem
      BY <2>1, <2>2
    <2> HIDE DEF Held
    <2>6. \A c : c \in DOMAIN mem <=> c \in leaked \cup U
      <3> HIDE DEF U
      <3> QED  BY <2>3, <2>4, <2>5
    <2>7. DOMAIN mem = leaked \cup U
      <3> HIDE DEF U
      <3> QED  BY <2>6
    <2> QED  BY <2>7 DEF Held
  <1> QED
    BY <1>6, <1>7, <1>8, <1>9 DEF L!ListSound

\* However the initialiser refuses and whichever operations follow, chain and index of
\* a list of list.c agree, no entry is in two chains, and none is lost but where
\* list_ensure_len begins a new chain for a list of length 0.
THEOREM ListsSound == MCSpec => []ListSound
  <1>1. MCInit => LIInv
    BY ListStart DEF MCInit
  <1>2. LIInv /\ [MCNext]_<<use, vars, svars, lvars, rvars>> => LIInv'
    <2>1. [MCNext]_<<use, vars, svars, lvars, rvars>> => [L!LNext]_lvars
      BY DEF MCNext
    <2> QED  BY <2>1, ListStep
  <1>3. LIInv => ListSound
    BY ListGood
  <1> QED
    BY <1>1, <1>2, <1>3, PTL DEF MCSpec
=============================================================================
