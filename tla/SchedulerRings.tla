--------------------------- MODULE SchedulerRings ---------------------------
(***************************************************************************)
(* What the functions of pcb.c and the loop of block() do to one queue:    *)
(* the rings and lists that the pointers of a memory m stand for, as       *)
(* sequences.  A lemma says what the stores leave in the memory, which     *)
(* queue they make of one, or that they leave the others alone.            *)
(***************************************************************************)
EXTENDS Scheduler, QueueLemmas, TLAPS

-----------------------------------------------------------------------------
(* queue_shift() and queue_insert() on a ring *)

\* The store of queue_shift(), location by location.
LEMMA ShiftMemory ==
    ASSUME NEW m \in MemType, NEW q \in Heads, m.head[q] # Null,
           NEW p, p = m.head[q], NEW n, n = m.next[p], NEW prev, prev = m.previous[p]
    PROVE  /\ queue_shift(m, q) \in MemType
           /\ \A k \in Heads : queue_shift(m, q).head[k] =
                 IF k = q THEN (IF n = p /\ prev = p THEN Null ELSE n) ELSE m.head[k]
           /\ \A x \in Memory :
                 /\ queue_shift(m, q).next[x] =
                       IF x = p THEN Null
                       ELSE IF x = prev THEN n ELSE m.next[x]
                 /\ queue_shift(m, q).previous[x] =
                       IF x = p THEN Null
                       ELSE IF x = n THEN prev ELSE m.previous[x]
<1>1. p \in Memory /\ n \in Memory /\ prev \in Memory /\ Null \in Memory
  BY DEF MemType, Memory
<1>2. /\ m.next \in [Memory -> Memory] /\ m.previous \in [Memory -> Memory]
      /\ m.head \in [Heads -> Memory]
  BY DEF MemType
<1>3. CASE n = p /\ prev = p
  <2> DEFINE a == [m.next EXCEPT ![p] = Null]
             b == [m.previous EXCEPT ![p] = Null]
             c == [m.head EXCEPT ![q] = Null]
  <2>1. queue_shift(m, q) = [next |-> a, previous |-> b, head |-> c]
    BY Zenon, <1>3 DEF queue_shift
  <2>2. /\ a \in [Memory -> Memory] /\ b \in [Memory -> Memory]
        /\ c \in [Heads -> Memory]
    BY Zenon, <1>1, <1>2
  <2>3. /\ \A x \in Memory : a[x] = IF x = p THEN Null ELSE m.next[x]
        /\ \A x \in Memory : b[x] = IF x = p THEN Null ELSE m.previous[x]
        /\ \A k \in Heads : c[k] = IF k = q THEN Null ELSE m.head[k]
    BY Zenon, <1>1, <1>2
  <2> HIDE DEF a, b, c
  <2> QED  BY <1>3, <2>1, <2>2, <2>3 DEF MemType
<1>4. CASE ~(n = p /\ prev = p)
  <2> DEFINE a == [m.next EXCEPT ![prev] = n, ![p] = Null]
             b == [m.previous EXCEPT ![n] = prev, ![p] = Null]
             c == [m.head EXCEPT ![q] = n]
  <2>1. queue_shift(m, q) = [next |-> a, previous |-> b, head |-> c]
    BY Zenon, <1>4 DEF queue_shift
  <2>2. /\ a \in [Memory -> Memory] /\ b \in [Memory -> Memory]
        /\ c \in [Heads -> Memory]
    BY <1>1, <1>2
  <2>3. /\ \A x \in Memory : a[x] = IF x = p THEN Null
                                    ELSE IF x = prev THEN n ELSE m.next[x]
        /\ \A x \in Memory : b[x] = IF x = p THEN Null
                                    ELSE IF x = n THEN prev ELSE m.previous[x]
        /\ \A k \in Heads : c[k] = IF k = q THEN n ELSE m.head[k]
    BY <1>1, <1>2
  <2> HIDE DEF a, b, c
  <2> QED  BY <1>4, <2>1, <2>2, <2>3 DEF MemType
<1> QED  BY <1>3, <1>4

\* The store of queue_insert().
LEMMA InsertMemory ==
    ASSUME NEW m \in MemType, NEW q \in Heads, NEW p \in Pcbs,
           NEW h, h = m.head[q], NEW last, last = m.previous[h]
    PROVE  /\ queue_insert(m, q, p) \in MemType
           /\ \A k \in Heads : queue_insert(m, q, p).head[k] =
                 IF k = q /\ h = Null THEN p ELSE m.head[k]
           /\ h = Null => \A x \in Memory :
                 /\ queue_insert(m, q, p).next[x] = IF x = p THEN p ELSE m.next[x]
                 /\ queue_insert(m, q, p).previous[x] =
                       IF x = p THEN p ELSE m.previous[x]
           /\ h # Null => \A x \in Memory :
                 /\ queue_insert(m, q, p).next[x] =
                       IF x = last THEN p ELSE IF x = p THEN h ELSE m.next[x]
                 /\ queue_insert(m, q, p).previous[x] =
                       IF x = h THEN p ELSE IF x = p THEN last ELSE m.previous[x]
<1>1. p \in Memory /\ h \in Memory /\ last \in Memory
  BY DEF MemType, Memory
<1>2. /\ m.next \in [Memory -> Memory] /\ m.previous \in [Memory -> Memory]
      /\ m.head \in [Heads -> Memory]
  BY DEF MemType
<1>3. CASE h = Null
  <2> DEFINE a == [m.next EXCEPT ![p] = p]
             b == [m.previous EXCEPT ![p] = p]
             c == [m.head EXCEPT ![q] = p]
  <2>1. queue_insert(m, q, p) = [next |-> a, previous |-> b, head |-> c]
    BY Zenon, <1>3 DEF queue_insert
  <2>2. /\ a \in [Memory -> Memory] /\ b \in [Memory -> Memory]
        /\ c \in [Heads -> Memory]
    BY <1>1, <1>2
  <2>3. /\ \A x \in Memory : a[x] = IF x = p THEN p ELSE m.next[x]
        /\ \A x \in Memory : b[x] = IF x = p THEN p ELSE m.previous[x]
        /\ \A k \in Heads : c[k] = IF k = q THEN p ELSE m.head[k]
    BY Zenon, <1>1, <1>2
  <2> HIDE DEF a, b, c
  <2> QED  BY <1>3, <2>1, <2>2, <2>3 DEF MemType
<1>4. CASE h # Null
  <2> DEFINE a == [m.next EXCEPT ![p] = h, ![last] = p]
             b == [m.previous EXCEPT ![p] = last, ![h] = p]
  <2>1. queue_insert(m, q, p) = [next |-> a, previous |-> b, head |-> m.head]
    BY Zenon, <1>4 DEF queue_insert
  <2>2. a \in [Memory -> Memory] /\ b \in [Memory -> Memory]
    BY <1>1, <1>2
  <2>3. /\ \A x \in Memory : a[x] = IF x = last THEN p
                                    ELSE IF x = p THEN h ELSE m.next[x]
        /\ \A x \in Memory : b[x] = IF x = h THEN p
                                    ELSE IF x = p THEN last ELSE m.previous[x]
    BY <1>1, <1>2
  <2> HIDE DEF a, b
  <2> QED  BY <1>2, <1>4, <2>1, <2>2, <2>3 DEF MemType
<1> QED  BY <1>3, <1>4

\* A queue of length zero.
LEMMA ZeroIsEmpty == ASSUME NEW S, NEW s \in Seq(S), Len(s) = 0 PROVE s = <<>>
  OBVIOUS

RingShifted(m, m2, q, s) ==
    /\ m2 \in MemType /\ IsRing(m2, q, Tail(s))
    /\ s[1] \in Items(s) /\ m2.next[s[1]] = Null /\ m2.previous[s[1]] = Null
    /\ \A x \in Pcbs : x \notin Items(s) =>
          m2.next[x] = m.next[x] /\ m2.previous[x] = m.previous[x]
    /\ \A k \in Heads : k # q => m2.head[k] = m.head[k]

\* queue_shift() takes the first PCB out of a ring and touches no other queue.
LEMMA ShiftRing ==
    ASSUME NEW m \in MemType, NEW q \in Heads, NEW s, IsRing(m, q, s), s # <<>>,
           NEW m2, m2 = queue_shift(m, q)
    PROVE  RingShifted(m, m2, q, s)
<1> DEFINE k == Len(s)
           t == Tail(s)
<1>1. /\ s \in Seq(Pcbs) /\ Distinct(s) /\ m.head[q] = s[1]
      /\ \A i \in 1 .. k : /\ m.next[s[i]] = IF i = k THEN s[1] ELSE s[i + 1]
                           /\ m.previous[s[i]] = IF i = 1 THEN s[k] ELSE s[i - 1]
  BY Zenon DEF IsRing, IsQueue
<1>2. /\ t \in Seq(Pcbs) /\ Distinct(t) /\ s[1] \in Pcbs /\ k \in Nat /\ k >= 1
      /\ Len(t) = k - 1 /\ \A i \in 1 .. k - 1 : t[i] = s[i + 1]
  <2>1. s \in Seq(Pcbs) /\ s # <<>> /\ Distinct(s)
    BY Zenon, <1>1
  <2> QED  BY ONLY <2>1, TailFacts
<1>3. /\ \A i \in 1 .. k : s[i] \in Items(s) /\ s[i] \in Memory /\ s[i] \in Pcbs
      /\ s[1] # Null /\ Null \notin Pcbs /\ \A x \in Pcbs : x \in Memory
      /\ \A i, j \in 1 .. k : s[i] = s[j] => i = j
  <2>1. \A i \in 1 .. k : s[i] \in Pcbs
    BY <1>1
  <2>2. Null \notin Pcbs
    BY DEF Null, Pcbs
  <2>3. \A i \in 1 .. k : s[i] \in Items(s)
    BY Zenon DEF Items
  <2>4. \A i, j \in 1 .. k : s[i] = s[j] => i = j
    BY Zenon, <1>1 DEF Distinct
  <2> QED  BY Zenon, <1>2, <2>1, <2>2, <2>3, <2>4 DEF Memory
<1>4. 1 \in 1 .. k /\ k \in 1 .. k
  BY <1>2
<1> DEFINE n == IF 1 = k THEN s[1] ELSE s[2]
           prev == s[k]
<1>5. m.next[s[1]] = n /\ m.previous[s[1]] = prev
  <2>1. k # 1 => s[1 + 1] = s[2]
    OBVIOUS
  <2> QED  BY Zenon, <1>1, <1>4, <2>1
<1>6. /\ m2 \in MemType
      /\ \A j \in Heads : m2.head[j] =
            IF j = q THEN (IF n = s[1] /\ prev = s[1] THEN Null ELSE n) ELSE m.head[j]
      /\ \A x \in Memory :
            /\ m2.next[x] = IF x = s[1] THEN Null
                            ELSE IF x = prev THEN n ELSE m.next[x]
            /\ m2.previous[x] = IF x = s[1] THEN Null
                                ELSE IF x = n THEN prev ELSE m.previous[x]
  <2> HIDE DEF n, prev
  <2>1. m.head[q] # Null /\ s[1] = m.head[q] /\ n = m.next[s[1]] /\ prev = m.previous[s[1]]
    BY Zenon, <1>1, <1>3, <1>5
  <2>2. m \in MemType /\ q \in Heads
    OBVIOUS
  <2> QED  BY ONLY <2>1, <2>2, m2 = queue_shift(m, q), ShiftMemory
<1>7. /\ s[1] \in Items(s) /\ m2.next[s[1]] = Null /\ m2.previous[s[1]] = Null
      /\ \A j \in Heads : j # q => m2.head[j] = m.head[j]
  BY Zenon, <1>3, <1>4, <1>6
<1>8. ASSUME NEW x \in Pcbs, x \notin Items(s)
      PROVE  m2.next[x] = m.next[x] /\ m2.previous[x] = m.previous[x]
  <2>1. n \in Items(s) /\ prev \in Items(s)
    BY <1>2, <1>3
  <2> HIDE DEF n, prev
  <2> QED  BY Zenon, <1>3, <1>6, <1>7, <1>8, <2>1
<1>9. CASE k = 1
  <2>1. t = <<>> /\ Len(t) = 0 /\ n = s[1] /\ prev = s[1]
    <3>1. Len(t) = 0
      BY <1>2, <1>9
    <3> QED  BY Zenon, <1>2, <1>9, <3>1, ZeroIsEmpty
  <2>2. m2.head[q] = Null
    BY Zenon, <1>6, <2>1
  <2>3. IsQueue(m2, q, t)
    BY Zenon, <1>2, <2>1, <2>2 DEF IsQueue
  <2>4. IsRing(m2, q, t)
    <3> HIDE DEF t
    <3> QED  BY <2>1, <2>3 DEF IsRing
  <2> QED  BY Zenon, <1>6, <1>7, <1>8, <2>4 DEF RingShifted
<1>10. CASE k # 1
  <2>1. n = s[2] /\ 2 \in 1 .. k /\ n # s[1] /\ k - 1 \in Nat /\ t[1] = s[2]
        /\ t # <<>>
    <3>1. 2 \in 1 .. k /\ k - 1 \in Nat /\ 1 \in 1 .. k - 1 /\ 1 + 1 = 2 /\ k - 1 # 0
      BY <1>2, <1>10
    <3>2. t # <<>>
      BY Zenon, <1>2, <3>1, EmptyFacts
    <3>3. s[2] # s[1]
      <4>1. 1 # 2
        OBVIOUS
      <4> QED  BY Zenon, <1>3, <1>4, <3>1, <4>1
    <3> QED  BY Zenon, <1>2, <1>10, <3>1, <3>2, <3>3
  <2>2. m2.head[q] = t[1]
    BY Zenon, <1>6, <2>1
  <2>3. IsQueue(m2, q, t)
    BY Zenon, <1>2, <2>1, <2>2 DEF IsQueue
  <2>4. ASSUME NEW i \in 1 .. k - 1
        PROVE  /\ m2.next[t[i]] = IF i = k - 1 THEN t[1] ELSE t[i + 1]
               /\ m2.previous[t[i]] = IF i = 1 THEN t[k - 1] ELSE t[i - 1]
    <3>1. /\ i + 1 \in 1 .. k /\ i \in 1 .. k /\ t[i] = s[i + 1] /\ i + 1 # 1
          /\ t[k - 1] = s[k] /\ (i + 1) - 1 = i
          /\ i # 1 => t[i - 1] = s[i]
          /\ i # k - 1 => t[i + 1] = s[(i + 1) + 1]
          /\ i = 1 <=> i + 1 = 2 
          /\ i = k - 1 <=> i + 1 = k
      <4> HIDE DEF k, t
      <4> QED  BY <1>2, <2>1
    <3>2. /\ s[i + 1] # s[1] /\ s[i + 1] \in Memory
          /\ s[i + 1] = s[k] <=> i + 1 = k
          /\ s[i + 1] = s[2] <=> i + 1 = 2
      BY Zenon, <1>3, <1>4, <2>1, <3>1
    <3>3. m2.next[t[i]] = IF i = k - 1 THEN t[1] ELSE t[i + 1]
      <4>1. m2.next[t[i]] = IF i + 1 = k THEN s[2] ELSE m.next[s[i + 1]]
        <5>1. m2.next[s[i + 1]] = IF s[i + 1] = s[1] THEN Null
                                  ELSE IF s[i + 1] = prev THEN n ELSE m.next[s[i + 1]]
          <6> HIDE DEF n, prev, k
          <6> QED  BY Zenon, <1>6, <3>2
        <5>2. m2.next[s[i + 1]] = IF s[i + 1] = s[k] THEN s[2] ELSE m.next[s[i + 1]]
          BY Zenon, <2>1, <3>2, <5>1
        <5> QED  BY Zenon, <3>1, <3>2, <5>2
      <4>2. i + 1 # k => m.next[s[i + 1]] = s[(i + 1) + 1]
        BY Zenon, <1>1, <3>1
      <4> QED  BY Zenon, <2>1, <3>1, <4>1, <4>2
    <3>4. m2.previous[t[i]] = IF i = 1 THEN t[k - 1] ELSE t[i - 1]
      <4>1. m2.previous[t[i]] = IF i + 1 = 2 THEN s[k] ELSE m.previous[s[i + 1]]
        <5>1. m2.previous[s[i + 1]] = IF s[i + 1] = s[1] THEN Null
                                      ELSE IF s[i + 1] = n THEN prev ELSE m.previous[s[i + 1]]
          <6> HIDE DEF n, prev, k
          <6> QED  BY Zenon, <1>6, <3>2
        <5>2. m2.previous[s[i + 1]] = IF s[i + 1] = s[2] THEN s[k] ELSE m.previous[s[i + 1]]
          BY Zenon, <2>1, <3>2, <5>1
        <5> QED  BY Zenon, <3>1, <3>2, <5>2
      <4>2. m.previous[s[i + 1]] = s[(i + 1) - 1]
        BY Zenon, <1>1, <3>1
      <4> QED  BY Zenon, <2>1, <3>1, <4>1, <4>2
    <3> QED  BY <3>3, <3>4
  <2>5. IsRing(m2, q, t)
    <3>1. \A i \in 1 .. Len(t) :
            /\ m2.next[t[i]] = IF i = Len(t) THEN t[1] ELSE t[i + 1]
            /\ m2.previous[t[i]] = IF i = 1 THEN t[Len(t)] ELSE t[i - 1]
      <4> HIDE DEF t, k
      <4> QED  BY Zenon, <1>2, <2>4
    <3> QED  BY Zenon, <2>3, <3>1 DEF IsRing
  <2> QED  BY Zenon, <1>6, <1>7, <1>8, <2>5 DEF RingShifted
<1> QED  BY Zenon, <1>9, <1>10

\* What a ring or a list is made of.
LEMMA QueueFacts ==
    ASSUME NEW m, NEW q, NEW s, IsQueue(m, q, s)
    PROVE  /\ s \in Seq(Pcbs) /\ Distinct(s) /\ Len(s) \in Nat
           /\ s # <<>> => m.head[q] = s[1] /\ Len(s) >= 1 /\ 1 \in 1 .. Len(s)
                          /\ Len(s) \in 1 .. Len(s) /\ s[1] \in Pcbs /\ s[Len(s)] \in Pcbs
           /\ s = <<>> => m.head[q] = Null /\ Len(s) = 0
           /\ \A i \in 1 .. Len(s) : s[i] \in Items(s) /\ s[i] \in Pcbs /\ s[i] \in Memory
           /\ \A i, j \in 1 .. Len(s) : s[i] = s[j] => i = j
           /\ Null \notin Pcbs /\ Null \in Memory /\ \A x \in Pcbs : x \in Memory
           /\ Items(s) \subseteq Pcbs
<1>1. s \in Seq(Pcbs) /\ Distinct(s) /\ m.head[q] = IF s = <<>> THEN Null ELSE s[1]
  BY Zenon DEF IsQueue
<1>2. Len(s) \in Nat /\ (\A i \in 1 .. Len(s) : s[i] \in Pcbs) /\ (s # <<>> => Len(s) >= 1)
  BY Zenon, <1>1, SeqFacts
<1>3. s # <<>> => 1 \in 1 .. Len(s) /\ Len(s) \in 1 .. Len(s)
  BY <1>2
<1>4. s = <<>> => Len(s) = 0
  BY Zenon, EmptyFacts
<1>5. Null \notin Pcbs
  BY DEF Null, Pcbs
<1>6. \A i \in 1 .. Len(s) : s[i] \in Items(s)
  BY Zenon DEF Items
<1>7. Items(s) \subseteq Pcbs
  BY Zenon, <1>2 DEF Items
<1> QED  BY Zenon, <1>1, <1>2, <1>3, <1>4, <1>5, <1>6, <1>7 DEF Memory, Distinct

RingInserted(m, m2, q, s, p) ==
    /\ m2 \in MemType /\ IsRing(m2, q, Append(s, p))
    /\ \A x \in Pcbs : x \notin Items(s) /\ x # p =>
          m2.next[x] = m.next[x] /\ m2.previous[x] = m.previous[x]
    /\ \A j \in Heads : j # q => m2.head[j] = m.head[j]

\* queue_insert() adds the PCB as the last of a ring and touches no other.
LEMMA InsertRing ==
    ASSUME NEW m \in MemType, NEW q \in Heads, NEW s, IsRing(m, q, s),
           NEW p \in Pcbs, p \notin Items(s), NEW m2, m2 = queue_insert(m, q, p)
    PROVE  RingInserted(m, m2, q, s, p)
<1> DEFINE a == Append(s, p)
<1>1. /\ IsQueue(m, q, s)
      /\ \A i \in 1 .. Len(s) : /\ m.next[s[i]] = IF i = Len(s) THEN s[1] ELSE s[i + 1]
                           /\ m.previous[s[i]] = IF i = 1 THEN s[Len(s)] ELSE s[i - 1]
  BY Zenon DEF IsRing
<1>2. /\ s \in Seq(Pcbs) /\ Distinct(s) /\ Len(s) \in Nat
      /\ s # <<>> => m.head[q] = s[1] /\ Len(s) >= 1 /\ 1 \in 1 .. Len(s) /\ Len(s) \in 1 .. Len(s)
                     /\ s[1] \in Pcbs /\ s[Len(s)] \in Pcbs
      /\ s = <<>> => m.head[q] = Null /\ Len(s) = 0
      /\ \A i \in 1 .. Len(s) : s[i] \in Items(s) /\ s[i] \in Pcbs /\ s[i] \in Memory
      /\ \A i, j \in 1 .. Len(s) : s[i] = s[j] => i = j
      /\ Null \notin Pcbs /\ \A x \in Pcbs : x \in Memory
  BY <1>1, QueueFacts
<1>3. /\ a \in Seq(Pcbs) /\ Len(a) = Len(s) + 1 /\ Distinct(a)
      /\ \A i \in 1 .. Len(s) : a[i] = s[i]
      /\ a[Len(s) + 1] = p
  <2>1. s \in Seq(Pcbs) /\ Distinct(s) /\ p \in Pcbs /\ p \notin Items(s)
    BY Zenon, <1>2
  <2> QED  BY ONLY <2>1, AppendFacts
<1>4. a # <<>>
  <2>1. Len(s) + 1 # 0
    BY <1>2
  <2> QED  BY Zenon, <1>3, <2>1, EmptyFacts
<1> DEFINE h == m.head[q]
           last == m.previous[h]
<1>5. /\ m2 \in MemType
      /\ \A j \in Heads : m2.head[j] = IF j = q /\ h = Null THEN p ELSE m.head[j]
      /\ h = Null => \A x \in Memory :
            /\ m2.next[x] = IF x = p THEN p ELSE m.next[x]
            /\ m2.previous[x] = IF x = p THEN p ELSE m.previous[x]
      /\ h # Null => \A x \in Memory :
            /\ m2.next[x] = IF x = last THEN p ELSE IF x = p THEN h ELSE m.next[x]
            /\ m2.previous[x] = IF x = h THEN p ELSE IF x = p THEN last ELSE m.previous[x]
  <2>1. m \in MemType /\ q \in Heads /\ p \in Pcbs /\ m2 = queue_insert(m, q, p)
    OBVIOUS
  <2> QED  BY ONLY <2>1, InsertMemory
<1> HIDE DEF a
<1>6. CASE s = <<>>
  <2>1. h = Null /\ Len(s) = 0 /\ Len(s) + 1 = 1 /\ a[1] = p /\ Len(a) = 1
    BY <1>2, <1>3, <1>6
  <2>2. m2.next[p] = p /\ m2.previous[p] = p /\ m2.head[q] = p
    BY <1>2, <1>5, <2>1
  <2>3. IsQueue(m2, q, a)
    BY Zenon, <1>3, <1>4, <2>1, <2>2 DEF IsQueue
  <2>4. IsRing(m2, q, a)
    BY <2>1, <2>2, <2>3 DEF IsRing
  <2>5. \A x \in Pcbs : x # p => m2.next[x] = m.next[x] /\ m2.previous[x] = m.previous[x]
    BY <1>2, <1>5, <2>1
  <2> QED  BY Zenon, <1>5, <2>4, <2>5 DEF a, RingInserted
<1>7. CASE s # <<>>
  <2>1. /\ h = s[1] /\ last = s[Len(s)] /\ h # Null /\ h # p /\ last # p
        /\ h \in Items(s) /\ last \in Items(s)
    BY <1>1, <1>2, <1>7
  <2> HIDE DEF h, last
  <2>2. /\ m2.head[q] = s[1]
        /\ \A x \in Pcbs : 
            /\ m2.next[x] = IF x = last THEN p ELSE IF x = p THEN h ELSE m.next[x]
            /\ m2.previous[x] = IF x = h THEN p ELSE IF x = p THEN last ELSE m.previous[x]
    BY Zenon, <1>2, <1>5, <1>7, <2>1 DEF h
  <2>3. a[1] = s[1]
    BY Zenon, <1>2, <1>3, <1>7
  <2>4. IsQueue(m2, q, a)
    BY Zenon, <1>3, <1>4, <2>2, <2>3 DEF IsQueue
  <2>5. ASSUME NEW i \in 1 .. Len(s) + 1
        PROVE  /\ m2.next[a[i]] = IF i = Len(s) + 1 THEN a[1] ELSE a[i + 1]
               /\ m2.previous[a[i]] = IF i = 1 THEN a[Len(s) + 1] ELSE a[i - 1]
    <3>1. CASE i = Len(s) + 1
      <4>1. i - 1 = Len(s) /\ i # 1 /\ a[i - 1] = s[Len(s)]
        BY <1>2, <1>3, <1>7, <3>1
      <4> QED  BY Zenon, <1>3, <2>1, <2>2, <2>3, <3>1, <4>1
    <3>2. CASE i \in 1 .. Len(s)
      <4>1. /\ a[i] = s[i] /\ i # Len(s) + 1 /\ (i # Len(s) => a[i + 1] = s[i + 1])
            /\ (i = Len(s) => a[i + 1] = p) /\ (i # 1 => a[i - 1] = s[i - 1])
        BY <1>2, <1>3, <3>2
      <4>2. /\ s[i] = last <=> i = Len(s)
            /\ s[i] = h <=> i = 1
            /\ s[i] # p /\ s[i] \in Pcbs
        BY Zenon, <1>2, <1>7, <2>1, <3>2
      <4> QED  BY <1>1, <1>3, <2>2, <3>2, <4>1, <4>2
    <3> QED  BY <1>2, <3>1, <3>2
  <2>6. IsRing(m2, q, a)
    BY <1>3, <2>4, <2>5 DEF IsRing
  <2>7. \A x \in Pcbs : x \notin Items(s) /\ x # p =>
           m2.next[x] = m.next[x] /\ m2.previous[x] = m.previous[x]
    BY Zenon, <2>1, <2>2
  <2>8. \A j \in Heads : j # q => m2.head[j] = m.head[j]
    BY Zenon, <1>5
  <2> QED  BY Zenon, <1>5, <2>6, <2>7, <2>8 DEF a, RingInserted
<1> QED  BY Zenon, <1>6, <1>7

\* The store of current_running = current_running->next.
Reheaded(m, q, n) ==
    LET m2 == [m EXCEPT !.head = [@ EXCEPT ![q] = n]] IN
    /\ m2 \in MemType /\ m2.next = m.next /\ m2.previous = m.previous
    /\ m2.head[q] = n
    /\ \A j \in Heads : j # q => m2.head[j] = m.head[j]

\* scheduler()'s current_running = current_running->next, location by location.
LEMMA RotateMemory ==
    ASSUME NEW m \in MemType, NEW q \in Heads, NEW n \in Memory
    PROVE  Reheaded(m, q, n)
<1>1. /\ m.next \in [Memory -> Memory] /\ m.previous \in [Memory -> Memory]
      /\ m.head \in [Heads -> Memory]
  BY DEF MemType
<1> DEFINE c == [m.head EXCEPT ![q] = n]
           m2 == [m EXCEPT !.head = c]
<1>2. /\ c \in [Heads -> Memory] /\ c[q] = n
      /\ \A j \in Heads : j # q => c[j] = m.head[j]
  BY Zenon, <1>1
<1> HIDE DEF c
<1>3. m2 \in MemType /\ m2.previous = m.previous /\ m2.next = m.next /\ m2.head = c
  BY <1>1, <1>2 DEF MemType
<1> QED  BY Zenon, <1>2, <1>3 DEF c, Reheaded

\* The ring seen from its second PCB.
RingRotated(m, m2, q, s) ==
    /\ IsRing(m2, q, Append(Tail(s), s[1]))
    /\ m.next[s[1]] = Append(Tail(s), s[1])[1] /\ m.next[s[1]] \in Pcbs

\* It makes the second of the ready ring the first, and the first the last.
LEMMA RotateRing ==
    ASSUME NEW m \in MemType, NEW q \in Heads, NEW s, IsRing(m, q, s), s # <<>>,
           NEW m2, m2.next = m.next, m2.previous = m.previous,
           m2.head[q] = m.next[s[1]]
    PROVE  RingRotated(m, m2, q, s)
<1> DEFINE a == Append(Tail(s), s[1])
<1>1. /\ IsQueue(m, q, s)
      /\ \A i \in 1 .. Len(s) : /\ m.next[s[i]] = IF i = Len(s) THEN s[1] ELSE s[i + 1]
                           /\ m.previous[s[i]] = IF i = 1 THEN s[Len(s)] ELSE s[i - 1]
  BY Zenon DEF IsRing
<1>2. /\ s \in Seq(Pcbs) /\ Distinct(s) /\ Len(s) \in Nat /\ Len(s) >= 1 /\ 1 \in 1 .. Len(s)
      /\ Len(s) \in 1 .. Len(s) /\ s[1] \in Pcbs /\ \A x \in Pcbs : x \in Memory
  BY Zenon, <1>1, QueueFacts
<1>3. /\ Tail(s) \in Seq(Pcbs) /\ Distinct(Tail(s)) /\ s[1] \notin Items(Tail(s))
      /\ Len(Tail(s)) = Len(s) - 1 /\ \A i \in 1 .. Len(s) - 1 : Tail(s)[i] = s[i + 1]
  <2>1. s \in Seq(Pcbs) /\ s # <<>> /\ Distinct(s)
    BY Zenon, <1>2
  <2> QED  BY ONLY <2>1, TailFacts
<1>4. /\ a \in Seq(Pcbs) /\ Distinct(a) /\ Len(a) = (Len(s) - 1) + 1
      /\ \A i \in 1 .. Len(s) - 1 : a[i] = Tail(s)[i]
      /\ a[(Len(s) - 1) + 1] = s[1]
  <2>1. /\ a \in Seq(Pcbs) /\ Distinct(a) /\ Len(a) = Len(Tail(s)) + 1
        /\ \A i \in 1 .. Len(Tail(s)) : a[i] = Tail(s)[i]
        /\ a[Len(Tail(s)) + 1] = s[1]
    <3>1. /\ Tail(s) \in Seq(Pcbs) /\ Distinct(Tail(s)) /\ s[1] \notin Items(Tail(s))
          /\ s[1] \in Pcbs
      BY Zenon, <1>2, <1>3
    <3>2. \A t \in Seq(Pcbs) : \A e \in Pcbs :
             /\ Append(t, e) \in Seq(Pcbs) /\ Len(Append(t, e)) = Len(t) + 1
             /\ \A i \in 1 .. Len(t) : Append(t, e)[i] = t[i]
             /\ Append(t, e)[Len(t) + 1] = e
             /\ Distinct(t) /\ e \notin Items(t) => Distinct(Append(t, e))
      BY ONLY AppendFacts
    <3> QED  BY Zenon, <3>1, <3>2
  <2> QED  BY Zenon, <1>3, <2>1
<1> HIDE DEF a
<1>5. /\ a \in Seq(Pcbs) /\ Distinct(a) /\ Len(a) = Len(s) /\ a[Len(s)] = s[1] /\ a # <<>>
      /\ \A i \in 1 .. Len(s) - 1 : a[i] = s[i + 1]
  <2>1. Len(a) = Len(s) /\ a[Len(s)] = s[1] /\ Len(s) # 0
    BY <1>2, <1>4
  <2> QED  BY Zenon, <1>3, <1>4, <2>1, EmptyFacts
<1>20. Len(s) \in Nat /\ Len(s) >= 1
  BY Zenon, <1>2
<1>6. m.next[s[1]] = a[1]
  <2>1. Len(s) # 1 => 1 \in 1 .. Len(s) - 1
    <3>1. \A k \in Nat : k >= 1 /\ k # 1 => 1 \in 1 .. k - 1
      OBVIOUS
    <3> QED  BY Zenon, <1>20, <3>1
  <2> QED  BY Zenon, <1>1, <1>2, <1>5, <2>1
<1>7. a[1] \in Pcbs
  BY <1>2, <1>5
<1>10. ASSUME NEW i \in 1 .. Len(s)
       PROVE  /\ m.next[a[i]] = IF i = Len(s) THEN a[1] ELSE a[i + 1]
              /\ m.previous[a[i]] = IF i = 1 THEN a[Len(s)] ELSE a[i - 1]
  <2>1. CASE i = Len(s)
    <3>1. Len(s) # 1 => i # 1 /\ a[i - 1] = s[Len(s)]
      BY <1>2, <1>5, <2>1
    <3> QED  BY Zenon, <1>1, <1>2, <1>5, <1>6, <2>1, <3>1
  <2>2. CASE i # Len(s)
    <3>1. /\ i + 1 \in 1 .. Len(s) /\ a[i] = s[i + 1] /\ i + 1 # 1 /\ (i + 1) - 1 = i
          /\ i + 1 # Len(s) => a[i + 1] = s[(i + 1) + 1]
          /\ i # 1 => a[i - 1] = s[i]
      <4>1. /\ i + 1 \in 1 .. Len(s) /\ i + 1 # 1 /\ (i + 1) - 1 = i
            /\ i \in 1 .. Len(s) - 1
            /\ i + 1 # Len(s) => i + 1 \in 1 .. Len(s) - 1
            /\ i # 1 => i - 1 \in 1 .. Len(s) - 1 /\ (i - 1) + 1 = i
        BY ONLY <1>20, <2>2, i \in 1 .. Len(s)
      <4> QED  BY Zenon, <1>5, <4>1
    <3> QED  BY <1>1, <1>2, <1>5, <2>2, <3>1
  <2> QED  BY <2>1, <2>2
<1>11. IsRing(m2, q, a)
  <2>1. IsQueue(m2, q, a)
    BY Zenon, <1>5, <1>6 DEF IsQueue
  <2> QED  BY <1>5, <1>10, <2>1 DEF IsRing
<1> QED  BY Zenon, <1>6, <1>7, <1>11 DEF a, RingRotated

\* Both directions of a ring.
LEMMA RingBothWays ==
    ASSUME NEW m, NEW q, NEW s, IsRing(m, q, s), NEW t \in Items(s)
    PROVE  m.previous[m.next[t]] = t /\ m.next[m.previous[t]] = t
<1>1. s \in Seq(Pcbs)
  BY Zenon DEF IsRing, IsQueue
<1>2. PICK n \in Nat : n = Len(s)
  BY <1>1
<1>3. PICK i \in 1 .. n : t = s[i]
  BY Zenon, <1>2 DEF Items
<1>4. \A j \in 1 .. n : /\ m.next[s[j]] = IF j = n THEN s[1] ELSE s[j + 1]
                        /\ m.previous[s[j]] = IF j = 1 THEN s[n] ELSE s[j - 1]
  BY Zenon, <1>2 DEF IsRing
<1>5. m.previous[m.next[t]] = t
  <2>1. CASE i = n
    <3>1. m.next[t] = s[1] /\ m.previous[s[1]] = s[n]
      BY <1>3, <1>4, <2>1
    <3> QED  BY Zenon, <1>3, <2>1, <3>1
  <2>2. CASE i # n
    <3>1. i + 1 \in 1 .. n /\ i + 1 # 1 /\ (i + 1) - 1 = i
      BY <1>2, <1>3, <2>2
    <3>2. m.next[t] = s[i + 1] /\ m.previous[s[i + 1]] = s[(i + 1) - 1]
      BY Zenon, <1>3, <1>4, <2>2, <3>1
    <3> QED  BY Zenon, <1>3, <3>1, <3>2
  <2> QED  BY Zenon, <2>1, <2>2
<1>6. m.next[m.previous[t]] = t
  <2>1. CASE i = 1
    <3>1. n \in 1 .. n
      BY <1>2, <1>3
    <3>2. m.previous[t] = s[n] /\ m.next[s[n]] = s[1]
      BY Zenon, <1>3, <1>4, <2>1, <3>1
    <3> QED  BY Zenon, <1>3, <2>1, <3>2
  <2>2. CASE i # 1
    <3>1. i - 1 \in 1 .. n /\ i - 1 # n /\ (i - 1) + 1 = i
      BY <1>2, <1>3, <2>2
    <3>2. m.previous[t] = s[i - 1] /\ m.next[s[i - 1]] = s[(i - 1) + 1]
      BY Zenon, <1>3, <1>4, <2>2, <3>1
    <3> QED  BY Zenon, <1>3, <3>1, <3>2
  <2> QED  BY Zenon, <2>1, <2>2
<1> QED  BY Zenon, <1>5, <1>6

-----------------------------------------------------------------------------
(* The walk along the pointers of a queue, and what it finds *)

\* What the library says of natural numbers.
Induction == \A T \in SUBSET Nat : T # {} => \E m \in T : \A n \in T : m <= n

\* The loop p = p->next, as far as one likes.
Follows(m, h, n, g) ==
    g = [i \in 1 .. n |-> IF i = 1 THEN h ELSE m.next[g[i - 1]]]

\* However long the walk, it is defined: by induction on its length.
LEMMA WalkExists ==
    ASSUME Induction, NEW m, NEW h, NEW n \in Nat
    PROVE  \E g : Follows(m, h, n, g)
<1> DEFINE Is(k, g) == Follows(m, h, k, g)
           None == {k \in Nat : ~ \E g : Is(k, g)}
<1>1. SUFFICES ASSUME None # {} PROVE FALSE
  OBVIOUS
<1>2. PICK k \in None : \A j \in None : k <= j
  BY Zenon, <1>1 DEF Induction
<1>3. Is(0, <<>>)
  BY SMT DEF Follows
<1>4. k \in Nat /\ ~ \E g : Is(k, g)
  BY Zenon, <1>2
<1>5. k # 0 /\ k - 1 \in Nat /\ ~(k <= k - 1)
  <2> HIDE DEF Is
  <2>1. k # 0
    BY Zenon, <1>3, <1>4
  <2> QED  BY <1>4, <2>1
<1>6. PICK g : Is(k - 1, g)
  BY Zenon, <1>2, <1>5
<1> DEFINE b == [i \in 1 .. k |-> IF i = 1 THEN h ELSE m.next[g[i - 1]]]
<1>7. ASSUME NEW i \in 1 .. k, i # 1 PROVE b[i - 1] = g[i - 1]
  <2>1. i - 1 \in 1 .. k - 1 /\ i - 1 \in 1 .. k
    BY <1>4, <1>7
  <2>2. g[i - 1] = IF i - 1 = 1 THEN h ELSE m.next[g[(i - 1) - 1]]
    BY <1>6, <2>1 DEF Follows
  <2> QED  BY <2>1, <2>2
<1>8. Is(k, b)
  BY <1>7 DEF Follows
<1> QED  BY Zenon, <1>4, <1>8

\* Walk(m, h) starts at h and follows next.
LEMMA WalkFacts ==
    ASSUME Induction, NEW m, NEW h
    PROVE  /\ Walk(m, h)[1] = h
           /\ \A i \in 1 .. NPcbs : Walk(m, h)[i + 1] = m.next[Walk(m, h)[i]]
<1> DEFINE w == Walk(m, h)
<1>1. NPcbs + 1 \in Nat /\ NPcbs \in Nat
  BY SchedulerAssumption
<1>2. \E g : Follows(m, h, NPcbs + 1, g)
  BY Zenon, <1>1, WalkExists
<1>3. w = [i \in 1 .. NPcbs + 1 |-> IF i = 1 THEN h ELSE m.next[w[i - 1]]]
  BY Zenon, <1>2 DEF Walk, Follows
<1>4. w[1] = h /\ \A i \in 1 .. NPcbs : w[i + 1] = m.next[w[i]]
  <2> HIDE DEF w
  <2> QED  BY <1>1, <1>3
<1> QED  BY Zenon, <1>4

\* Stores elsewhere leave a ring alone.
LEMMA RingFrame ==
    ASSUME NEW m, NEW m2, NEW q, NEW s, IsRing(m, q, s), m2.head[q] = m.head[q],
           \A x \in Items(s) : m2.next[x] = m.next[x] /\ m2.previous[x] = m.previous[x]
    PROVE  IsRing(m2, q, s)
<1>1. IsQueue(m2, q, s)
  BY Zenon DEF IsRing, IsQueue
<1>2. \A i \in 1 .. Len(s) : s[i] \in Items(s)
  BY Zenon DEF Items
<1> QED  BY <1>1, <1>2 DEF IsRing

StaysInList(m, m2, x) ==
    /\ x = m2.head["ready"] => x = m.head["ready"]
    /\ x # m.head["ready"] =>
          m2.next[x] = m.next[x] /\ m2.previous[x] = m.previous[x]
    /\ x = m.head["ready"] /\ x # m2.head["ready"] =>
          m2.next[x] = Null /\ m2.previous[x] = Null

\* The same of a list; the task at its end may also leave the ready queue.
LEMMA ListFrame ==
    ASSUME NEW m, NEW m2, NEW q, NEW s, IsList(m, q, s), m2.head[q] = m.head[q],
           \A x \in Items(s) : StaysInList(m, m2, x)
    PROVE  IsList(m2, q, s)
<1>1. IsQueue(m2, q, s)
  BY Zenon DEF IsList, IsQueue
<1>2. \A i \in 1 .. Len(s) : s[i] \in Items(s)
  BY Zenon DEF Items
<1>3. ASSUME NEW i \in 1 .. Len(s)
      PROVE  /\ i # Len(s) => s[i] # m2.head["ready"] /\ m2.next[s[i]] = s[i + 1]
             /\ s[i] # m2.head["ready"] =>
                   /\ m2.previous[s[i]] = Null
                   /\ i = Len(s) => m2.next[s[i]] = Null
  <2>1. /\ i # Len(s) => s[i] # m.head["ready"] /\ m.next[s[i]] = s[i + 1]
        /\ s[i] # m.head["ready"] =>
              /\ m.previous[s[i]] = Null
              /\ i = Len(s) => m.next[s[i]] = Null
    BY Zenon, <1>3 DEF IsList
  <2>2. StaysInList(m, m2, s[i])
    BY Zenon, <1>2, <1>3
  <2> QED  BY Zenon, <2>1, <2>2 DEF StaysInList
<1> QED  BY Zenon, <1>1, <1>3 DEF IsList

ListShifted(m, m2, q, s) ==
    /\ m2 \in MemType /\ IsList(m2, q, Tail(s))
    /\ m2.next[s[1]] = Null /\ m2.previous[s[1]] = Null
    /\ \A x \in Pcbs : x \notin Items(s) =>
          m2.next[x] = m.next[x] /\ m2.previous[x] = m.previous[x]
    /\ \A j \in Heads : j # q => m2.head[j] = m.head[j]

\* unblock() calls queue_shift() on a list: the stores through NULL go to the
\* dummy PCB, and the first PCB leaves the list.
LEMMA ShiftList ==
    ASSUME NEW m \in MemType, NEW q \in Heads, q # "ready", NEW s, IsList(m, q, s),
           s # <<>>, m.head["ready"] \notin Items(s), "ready" \in Heads,
           NEW m2, m2 = queue_shift(m, q)
    PROVE  ListShifted(m, m2, q, s)
<1> DEFINE t == Tail(s)
           n == m.next[s[1]]
<1>1. /\ IsQueue(m, q, s)
      /\ \A i \in 1 .. Len(s) :
            /\ i # Len(s) => s[i] # m.head["ready"] /\ m.next[s[i]] = s[i + 1]
            /\ s[i] # m.head["ready"] =>
                  /\ m.previous[s[i]] = Null
                  /\ i = Len(s) => m.next[s[i]] = Null
  BY Zenon DEF IsList
<1>2. /\ s \in Seq(Pcbs) /\ Distinct(s) /\ Len(s) \in Nat
      /\ m.head[q] = s[1] /\ Len(s) >= 1 /\ 1 \in 1 .. Len(s)
      /\ Len(s) \in 1 .. Len(s) /\ s[1] \in Pcbs /\ s[Len(s)] \in Pcbs
      /\ \A i \in 1 .. Len(s) : s[i] \in Items(s) /\ s[i] \in Pcbs /\ s[i] \in Memory
      /\ \A i, j \in 1 .. Len(s) : s[i] = s[j] => i = j
      /\ Null \notin Pcbs /\ Null \in Memory /\ \A x \in Pcbs : x \in Memory
  BY Zenon, <1>1, QueueFacts
<1>3. \A i \in 1 .. Len(s) : /\ s[i] # m.head["ready"] /\ m.previous[s[i]] = Null
                             /\ i # Len(s) => m.next[s[i]] = s[i + 1]
                             /\ i = Len(s) => m.next[s[i]] = Null
  BY Zenon, <1>1, <1>2
<1>4. /\ t \in Seq(Pcbs) /\ Distinct(t)
      /\ Len(t) = Len(s) - 1 /\ \A i \in 1 .. Len(s) - 1 : t[i] = s[i + 1]
  <2>1. s \in Seq(Pcbs) /\ s # <<>> /\ Distinct(s)
    BY Zenon, <1>2
  <2> QED  BY ONLY <2>1, TailFacts
<1>5. /\ m2 \in MemType
      /\ \A j \in Heads : m2.head[j] =
            IF j = q THEN (IF n = s[1] /\ Null = s[1] THEN Null ELSE n) ELSE m.head[j]
      /\ \A x \in Memory :
            /\ m2.next[x] = IF x = s[1] THEN Null
                            ELSE IF x = Null THEN n ELSE m.next[x]
            /\ m2.previous[x] = IF x = s[1] THEN Null
                                ELSE IF x = n THEN Null ELSE m.previous[x]
  <2>1. /\ m.head[q] # Null /\ s[1] = m.head[q] /\ Null = m.previous[s[1]]
        /\ m \in MemType /\ q \in Heads
    <3>1. m.previous[s[1]] = Null
      BY Zenon, <1>2, <1>3
    <3>2. m.head[q] = s[1] /\ s[1] # Null
      BY Zenon, <1>2
    <3> QED  BY Zenon, <3>1, <3>2
  <2>2. n = m.next[s[1]]
    OBVIOUS
  <2> HIDE DEF n
  <2> QED  BY ONLY <2>1, <2>2, m2 = queue_shift(m, q), ShiftMemory
<1>6. m2.head[q] = n /\ m2.head["ready"] = m.head["ready"]
  BY Zenon, <1>2, <1>5
<1>7. \A x \in Pcbs :
         /\ x # s[1] => m2.next[x] = m.next[x]
         /\ x # s[1] /\ x # n => m2.previous[x] = m.previous[x]
         /\ x = s[1] \/ x = n => m2.previous[x] = Null
         /\ x = s[1] => m2.next[x] = Null
  BY Zenon, <1>2, <1>5
<1>8. n = IF Len(s) = 1 THEN Null ELSE s[2]
  <2>1. 1 + 1 = 2
    OBVIOUS
  <2>2. /\ 1 # Len(s) => m.next[s[1]] = s[1 + 1]
        /\ 1 = Len(s) => m.next[s[1]] = Null
    BY Zenon, <1>2, <1>3
  <2> QED  BY Zenon, <2>1, <2>2
<1>9. n # Null => n \in Items(s)
  <2>1. \A k \in Nat : k >= 1 /\ k # 1 => 2 \in 1 .. k
    OBVIOUS
  <2> QED  BY Zenon, <1>2, <1>8, <2>1
<1> HIDE DEF n
<1>10. \A x \in Pcbs : x \notin Items(s) =>
          m2.next[x] = m.next[x] /\ m2.previous[x] = m.previous[x]
  <2>1. ASSUME NEW x \in Pcbs, x \notin Items(s) PROVE x # s[1] /\ x # n
    BY Zenon, <1>2, <1>9, <2>1
  <2> QED  BY Zenon, <1>7, <2>1
<1>11. IsQueue(m2, q, t)
  <2>1. CASE Len(s) = 1
    <3>1. Len(t) = 0
      BY <1>4, <2>1
    <3> QED  BY Zenon, <1>4, <1>6, <1>8, <2>1, <3>1, ZeroIsEmpty DEF IsQueue
  <2>2. CASE Len(s) # 1
    <3>1. \A k \in Nat : k >= 1 /\ k # 1 => k - 1 # 0 /\ 1 \in 1 .. k - 1 /\ 1 + 1 = 2
      OBVIOUS
    <3>2. t # <<>> /\ t[1] = s[2]
      BY Zenon, <1>2, <1>4, <2>2, <3>1, EmptyFacts
    <3> QED  BY Zenon, <1>4, <1>6, <1>8, <2>2, <3>2 DEF IsQueue
  <2> QED  BY <2>1, <2>2
<1>12. ASSUME NEW i \in 1 .. Len(t)
       PROVE  /\ i # Len(t) => t[i] # m2.head["ready"] /\ m2.next[t[i]] = t[i + 1]
              /\ t[i] # m2.head["ready"] =>
                    /\ m2.previous[t[i]] = Null
                    /\ i = Len(t) => m2.next[t[i]] = Null
  <2>1. \A k \in Nat : k >= 1 => \A j \in 1 .. k - 1 :
           /\ j + 1 \in 1 .. k /\ j + 1 # 1
           /\ j = k - 1 <=> j + 1 = k
           /\ j # k - 1 => j + 1 \in 1 .. k - 1
    OBVIOUS
  <2>2. /\ i + 1 \in 1 .. Len(s) /\ i + 1 # 1 /\ t[i] = s[i + 1]
        /\ i = Len(t) <=> i + 1 = Len(s)
        /\ i # Len(t) => t[i + 1] = s[(i + 1) + 1]
    <3>1. i \in 1 .. Len(s) - 1 /\ Len(t) = Len(s) - 1
      BY Zenon, <1>4, <1>12
    <3>2. /\ i + 1 \in 1 .. Len(s) /\ i + 1 # 1
          /\ i = Len(t) <=> i + 1 = Len(s)
          /\ i # Len(t) => i + 1 \in 1 .. Len(s) - 1
      <4>1. Len(s) \in Nat /\ Len(s) >= 1
        BY Zenon, <1>2
      <4>2. /\ i + 1 \in 1 .. Len(s) /\ i + 1 # 1
            /\ i = Len(s) - 1 <=> i + 1 = Len(s)
            /\ i # Len(s) - 1 => i + 1 \in 1 .. Len(s) - 1
        BY Zenon, <2>1, <3>1, <4>1
      <4> QED  BY Zenon, <3>1, <4>2
    <3> QED  BY Zenon, <1>4, <3>1, <3>2
  <2>3. s[i + 1] # s[1] /\ s[i + 1] \in Pcbs /\ s[i + 1] # m2.head["ready"]
    BY Zenon, <1>2, <1>3, <1>6, <2>2
  <2> QED  BY Zenon, <1>3, <1>7, <2>2, <2>3
<1>13. IsList(m2, q, t)
  BY Zenon, <1>11, <1>12 DEF IsList
<1>14. m2.next[s[1]] = Null /\ m2.previous[s[1]] = Null
  BY Zenon, <1>2, <1>7
<1>15. \A j \in Heads : j # q => m2.head[j] = m.head[j]
  BY Zenon, <1>5
<1> QED  BY Zenon, <1>5, <1>10, <1>13, <1>14, <1>15 DEF ListShifted

\* The loop in block() goes through the PCBs of the list in their order.
LEMMA WalkAlong ==
    ASSUME Induction, NEW m, NEW s, NEW k \in Nat, k >= 1, k <= NPcbs,
           \A i \in 1 .. k - 1 : m.next[s[i]] = s[i + 1]
    PROVE  \A i \in 1 .. k : Walk(m, s[1])[i] = s[i]
<1>1. PICK w : w = Walk(m, s[1])
  OBVIOUS
<1>2. NPcbs \in Nat
  BY SchedulerAssumption
<1>3. w[1] = s[1] /\ \A i \in 1 .. NPcbs : w[i + 1] = m.next[w[i]]
  <2>1. /\ Walk(m, s[1])[1] = s[1]
        /\ \A i \in 1 .. NPcbs : Walk(m, s[1])[i + 1] = m.next[Walk(m, s[1])[i]]
    BY ONLY Induction, WalkFacts
  <2> QED  BY Zenon, <1>1, <2>1
<1> DEFINE T == {i \in Nat : i \in 1 .. k /\ w[i] # s[i]}
<1>4. SUFFICES ASSUME T # {} PROVE FALSE
  <2>1. ASSUME T = {}, NEW i \in 1 .. k PROVE w[i] = s[i]
    BY <2>1
  <2> QED  BY Zenon, <1>1, <2>1
<1>5. PICK i \in T : \A j \in T : i <= j
  BY Zenon, <1>4 DEF Induction
<1>6. i \in Nat /\ i \in 1 .. k /\ w[i] # s[i]
  BY Zenon, <1>5
<1>7. i # 1
  BY Zenon, <1>3, <1>6
<1>8. /\ i - 1 \in Nat /\ i - 1 \in 1 .. k /\ i - 1 \in 1 .. k - 1 /\ ~(i <= i - 1)
      /\ i - 1 \in 1 .. NPcbs /\ (i - 1) + 1 = i
  BY <1>2, <1>6, <1>7
<1>9. w[i - 1] = s[i - 1]
  BY Zenon, <1>5, <1>8
<1>10. w[(i - 1) + 1] = m.next[w[i - 1]] /\ m.next[s[i - 1]] = s[(i - 1) + 1]
  BY Zenon, <1>3, <1>8
<1> QED  BY Zenon, <1>6, <1>8, <1>9, <1>10

\* The loop in block() finds the last PCB of the list.
LEMMA LastIs ==
    ASSUME Induction, NEW m, NEW q, NEW s, IsList(m, q, s), s # <<>>,
           Len(s) <= NPcbs, m.head["ready"] \notin Items(s)
    PROVE  LastOf(m, m.head[q]) = s[Len(s)]
<1>1. /\ IsQueue(m, q, s)
      /\ \A i \in 1 .. Len(s) :
            /\ i # Len(s) => s[i] # m.head["ready"] /\ m.next[s[i]] = s[i + 1]
            /\ s[i] # m.head["ready"] =>
                  /\ m.previous[s[i]] = Null
                  /\ i = Len(s) => m.next[s[i]] = Null
  BY Zenon DEF IsList
<1>2. /\ Len(s) \in Nat /\ m.head[q] = s[1] /\ Len(s) >= 1
      /\ \A i \in 1 .. Len(s) : s[i] \in Items(s) /\ s[i] \in Pcbs
      /\ Null \notin Pcbs
  BY Zenon, <1>1, QueueFacts
<1>3. PICK k \in Nat : k = Len(s)
  BY Zenon, <1>2
<1>4. NPcbs \in Nat /\ k >= 1 /\ k <= NPcbs
  BY Zenon, <1>2, <1>3, SchedulerAssumption
<1>5. \A i \in 1 .. k - 1 : i \in 1 .. k /\ i # k /\ i + 1 \in 1 .. k
  BY <1>4
<1>6. \A i \in 1 .. k : /\ i # k => m.next[s[i]] = s[i + 1]
                        /\ i = k => m.next[s[i]] = Null
                        /\ s[i] # Null
  BY Zenon, <1>1, <1>2, <1>3
<1>7. \A i \in 1 .. k - 1 : m.next[s[i]] = s[i + 1]
  BY Zenon, <1>5, <1>6
<1>8. PICK w : w = Walk(m, s[1])
  OBVIOUS
<1>9. \A i \in 1 .. k : w[i] = s[i]
  <2>1. \A i \in 1 .. k : Walk(m, s[1])[i] = s[i]
    BY ONLY Induction, <1>4, <1>7, WalkAlong
  <2> QED  BY Zenon, <1>8, <2>1
<1> DEFINE P(i) == m.next[w[i]] = Null /\ \A j \in 1 .. i - 1 : m.next[w[j]] # Null
           c == CHOOSE i \in 1 .. NPcbs : P(i)
<1>10. LastOf(m, m.head[q]) = w[c]
  BY Zenon, <1>2, <1>8 DEF LastOf
<1>11. \A j \in 1 .. k - 1 : m.next[w[j]] # Null
  <2>1. ASSUME NEW j \in 1 .. k - 1 PROVE m.next[w[j]] # Null
    <3>1. w[j] = s[j] /\ m.next[s[j]] = s[j + 1] /\ j + 1 \in 1 .. k
      BY Zenon, <1>5, <1>7, <1>9, <2>1
    <3> QED  BY Zenon, <1>6, <3>1
  <2> QED  BY Zenon, <2>1
<1>12. k \in 1 .. k /\ k \in 1 .. NPcbs
  BY <1>4
<1>13. m.next[w[k]] = Null
  BY Zenon, <1>6, <1>9, <1>12
<1>14. c \in 1 .. NPcbs /\ P(c)
  <2>1. P(k)
    BY Zenon, <1>11, <1>13
  <2>2. \E i \in 1 .. NPcbs : P(i)
    BY Zenon, <1>12, <2>1
  <2> HIDE DEF P
  <2> QED  BY Zenon, <2>2
<1> HIDE DEF c
<1>15. c = k
  <2>1. ~(c \in 1 .. k - 1)
    BY Zenon, <1>11, <1>14
  <2>2. ~(k \in 1 .. c - 1)
    BY Zenon, <1>13, <1>14
  <2>3. c \in Nat /\ c >= 1
    BY <1>4, <1>14
  <2> HIDE DEF P
  <2> QED  BY <1>4, <2>1, <2>2, <2>3
<1> QED  BY Zenon, <1>3, <1>9, <1>10, <1>12, <1>15

\* Following next from the head of a ring back to it gives its PCBs.
LEMMA RingIs ==
    ASSUME Induction, NEW m, NEW q, NEW s, IsRing(m, q, s), Len(s) <= NPcbs
    PROVE  RingIn(m, q) = s
<1>1. /\ IsQueue(m, q, s)
      /\ \A i \in 1 .. Len(s) : m.next[s[i]] = IF i = Len(s) THEN s[1] ELSE s[i + 1]
  BY Zenon DEF IsRing
<1>2. /\ s \in Seq(Pcbs) /\ Len(s) \in Nat
      /\ s # <<>> => m.head[q] = s[1] /\ Len(s) >= 1 /\ s[1] \in Pcbs
      /\ s = <<>> => m.head[q] = Null
      /\ \A i, j \in 1 .. Len(s) : s[i] = s[j] => i = j
      /\ Null \notin Pcbs
  BY ONLY <1>1, QueueFacts
<1>3. CASE s = <<>>
  BY Zenon, <1>2, <1>3 DEF RingIn
<1>4. CASE s # <<>>
  <2>1. PICK k \in Nat : k = Len(s)
    BY Zenon, <1>2
  <2>2. NPcbs \in Nat /\ k >= 1 /\ k <= NPcbs
    BY Zenon, <1>2, <1>4, <2>1, SchedulerAssumption
  <2>3. \A i \in 1 .. k - 1 : i \in 1 .. k /\ i # k /\ i + 1 \in 1 .. k /\ i + 1 # 1
    BY <2>2
  <2>4. \A i \in 1 .. k - 1 : m.next[s[i]] = s[i + 1]
    BY Zenon, <1>1, <2>1, <2>3
  <2> DEFINE h == m.head[q]
             w == Walk(m, h)
             P(i) == w[i + 1] = h /\ \A j \in 2 .. i : w[j] # h
             c == CHOOSE i \in 1 .. NPcbs : P(i)
  <2>5. h = s[1] /\ h # Null
    BY Zenon, <1>2, <1>4
  <2>6. RingIn(m, q) = [i \in 1 .. c |-> w[i]]
    BY Zenon, <2>5 DEF RingIn
  <2> HIDE DEF h
  <2>7. \A i \in 1 .. k : w[i] = s[i]
    <3>1. \A i \in 1 .. k : Walk(m, s[1])[i] = s[i]
      BY ONLY Induction, <2>2, <2>4, WalkAlong
    <3> QED  BY Zenon, <2>5, <3>1
  <2>8. \A i \in 1 .. NPcbs : w[i + 1] = m.next[w[i]]
    <3>1. \A i \in 1 .. NPcbs : Walk(m, s[1])[i + 1] = m.next[Walk(m, s[1])[i]]
      BY ONLY Induction, WalkFacts
    <3> QED  BY Zenon, <2>5, <3>1
  <2> HIDE DEF w
  <2>9. k \in 1 .. k /\ 1 \in 1 .. k /\ k \in 1 .. NPcbs /\ \A j \in 2 .. k : j \in 1 .. k /\ j # 1
    BY <2>2
  <2>10. w[k + 1] = h
    <3>1. w[k + 1] = m.next[w[k]] /\ w[k] = s[k]
      BY Zenon, <2>7, <2>8, <2>9
    <3>2. m.next[s[k]] = s[1]
      BY Zenon, <1>1, <2>1, <2>9
    <3> QED  BY Zenon, <2>5, <3>1, <3>2
  <2>11. \A j \in 2 .. k : w[j] # h
    <3>1. ASSUME NEW j \in 2 .. k PROVE w[j] # h
      <4>1. j \in 1 .. k /\ 1 \in 1 .. k /\ j # 1 /\ w[j] = s[j]
        BY Zenon, <2>7, <2>9, <3>1
      <4>2. s[j] # s[1]
        BY Zenon, <1>2, <2>1, <4>1
      <4> QED  BY Zenon, <2>5, <4>1, <4>2
    <3> QED  BY Zenon, <3>1
  <2>12. c \in 1 .. NPcbs /\ P(c)
    <3>1. P(k)
      BY Zenon, <2>10, <2>11
    <3>2. \E i \in 1 .. NPcbs : P(i)
      BY Zenon, <2>9, <3>1
    <3> HIDE DEF P
    <3> QED  BY Zenon, <3>2
  <2> HIDE DEF c
  <2>13. c = k
    <3>1. ~(c + 1 \in 2 .. k)
      BY Zenon, <2>11, <2>12
    <3>2. ~(k + 1 \in 2 .. c)
      BY Zenon, <2>10, <2>12
    <3>3. c \in Nat /\ c >= 1
      BY <2>2, <2>12
    <3> HIDE DEF P
    <3> QED  BY <2>2, <3>1, <3>2, <3>3
  <2>14. RingIn(m, q) = [i \in 1 .. k |-> s[i]]
    BY Zenon, <2>7, <2>6, <2>13
  <2>15. s \in [1 .. k -> Pcbs]
    BY Zenon, <1>2, <2>1, SeqFacts
  <2> QED  BY <2>14, <2>15
<1> QED  BY Zenon, <1>3, <1>4

\* Following next from the head of a list to NULL, or to the running task,
\* gives its PCBs.
LEMMA ListIs ==
    ASSUME Induction, NEW m, NEW q, NEW s, IsList(m, q, s), Len(s) <= NPcbs
    PROVE  ListIn(m, q) = s
<1>1. /\ IsQueue(m, q, s)
      /\ \A i \in 1 .. Len(s) :
            /\ i # Len(s) => s[i] # m.head["ready"] /\ m.next[s[i]] = s[i + 1]
            /\ s[i] # m.head["ready"] => (i = Len(s) => m.next[s[i]] = Null)
  BY Zenon DEF IsList
<1>2. /\ s \in Seq(Pcbs) /\ Len(s) \in Nat
      /\ s # <<>> => m.head[q] = s[1] /\ Len(s) >= 1 /\ s[1] \in Pcbs
      /\ s = <<>> => m.head[q] = Null
      /\ \A i \in 1 .. Len(s) : s[i] \in Pcbs
      /\ Null \notin Pcbs
  BY ONLY <1>1, QueueFacts
<1>3. CASE s = <<>>
  BY Zenon, <1>2, <1>3 DEF ListIn
<1>4. CASE s # <<>>
  <2>1. PICK k \in Nat : k = Len(s)
    BY Zenon, <1>2
  <2>2. NPcbs \in Nat /\ k >= 1 /\ k <= NPcbs
    BY Zenon, <1>2, <1>4, <2>1, SchedulerAssumption
  <2>3. \A i \in 1 .. k - 1 : i \in 1 .. k /\ i # k /\ i + 1 \in 1 .. k
    BY <2>2
  <2>4. \A i \in 1 .. k - 1 : m.next[s[i]] = s[i + 1]
    BY Zenon, <1>1, <2>1, <2>3
  <2> DEFINE h == m.head[q]
             w == Walk(m, h)
             E(i) == m.next[w[i]] = Null \/ w[i] = m.head["ready"]
             P(i) == E(i) /\ \A j \in 1 .. i - 1 : ~E(j)
             c == CHOOSE i \in 1 .. NPcbs : P(i)
  <2>5. h = s[1] /\ h # Null
    BY Zenon, <1>2, <1>4
  <2>6. ListIn(m, q) = [i \in 1 .. c |-> w[i]]
    BY Zenon, <2>5 DEF ListIn
  <2> HIDE DEF h
  <2>7. \A i \in 1 .. k : w[i] = s[i]
    <3>1. \A i \in 1 .. k : Walk(m, s[1])[i] = s[i]
      BY ONLY Induction, <2>2, <2>4, WalkAlong
    <3> QED  BY Zenon, <2>5, <3>1
  <2> HIDE DEF w
  <2>8. k \in 1 .. k /\ k \in 1 .. NPcbs
    BY <2>2
  <2>9. E(k)
    BY Zenon, <1>1, <2>1, <2>7, <2>8
  <2>10. \A j \in 1 .. k - 1 : ~E(j)
    <3>1. ASSUME NEW j \in 1 .. k - 1 PROVE ~E(j)
      <4>1. w[j] = s[j] /\ m.next[s[j]] = s[j + 1] /\ j + 1 \in 1 .. k
        BY Zenon, <2>3, <2>4, <2>7, <3>1
      <4>2. s[j] # m.head["ready"]
        BY Zenon, <1>1, <2>1, <2>3, <3>1
      <4>3. s[j + 1] # Null
        BY Zenon, <1>2, <2>1, <4>1
      <4> QED  BY Zenon, <4>1, <4>2, <4>3
    <3> QED  BY Zenon, <3>1
  <2> HIDE DEF E
  <2>11. c \in 1 .. NPcbs /\ P(c)
    <3>1. P(k)
      BY Zenon, <2>9, <2>10
    <3>2. \E i \in 1 .. NPcbs : P(i)
      BY Zenon, <2>8, <3>1
    <3> HIDE DEF P
    <3> QED  BY Zenon, <3>2
  <2> HIDE DEF c
  <2>12. c = k
    <3>1. ~(c \in 1 .. k - 1)
      BY Zenon, <2>10, <2>11
    <3>2. ~(k \in 1 .. c - 1)
      BY Zenon, <2>9, <2>11
    <3>3. c \in Nat /\ c >= 1
      BY <2>2, <2>11
    <3> HIDE DEF P
    <3> QED  BY <2>2, <3>1, <3>2, <3>3
  <2>13. ListIn(m, q) = [i \in 1 .. k |-> s[i]]
    BY Zenon, <2>7, <2>6, <2>12
  <2>14. s \in [1 .. k -> Pcbs]
    BY Zenon, <1>2, <2>1, SeqFacts
  <2> QED  BY <2>13, <2>14
<1> QED  BY Zenon, <1>3, <1>4

\* What the library says of injections: a queue of distinct PCBs is not longer
\* than the PCB table.
Fits == \A s \in Seq(Pcbs) : Distinct(s) => Len(s) <= NPcbs

\* The queues that a walk along the pointers finds.
LEMMA SeenIn ==
    ASSUME Induction, Fits, NEW m, NEW r, NEW f, NEW w, Linked(m, r, f, w)
    PROVE  /\ RingIn(m, "ready") = r /\ RingIn(m, "free") = f
           /\ [q \in WaitQueues |-> ListIn(m, q)] = w
<1>1. /\ IsRing(m, "ready", r) /\ IsRing(m, "free", f)
      /\ w \in [WaitQueues -> Seq(Pcbs)] /\ \A q \in WaitQueues : IsList(m, q, w[q])
  BY Zenon DEF Linked
<1>2. Len(r) <= NPcbs /\ Len(f) <= NPcbs
  BY Zenon, <1>1 DEF Fits, IsRing, IsQueue
<1>3. \A q \in WaitQueues : ListIn(m, q) = w[q]
  <2>1. ASSUME NEW q \in WaitQueues PROVE ListIn(m, q) = w[q]
    <3>1. IsList(m, q, w[q])
      BY Zenon, <1>1, <2>1
    <3>2. Len(w[q]) <= NPcbs
      BY Zenon, <3>1 DEF Fits, IsList, IsQueue
    <3> QED  BY Zenon, <3>1, <3>2, ListIs
  <2> QED  BY Zenon, <2>1
<1>4. [q \in WaitQueues |-> ListIn(m, q)] = w
  BY Zenon, <1>1, <1>3
<1> QED  BY Zenon, <1>1, <1>2, <1>4, RingIs

-----------------------------------------------------------------------------
(* block() on a list *)

\* The parts of the memory that block() stores to.
Relinked(m, l, c) ==
    LET m2 == [m EXCEPT !.next = [@ EXCEPT ![l] = c]] IN
    /\ m2 \in MemType /\ m2.previous = m.previous /\ m2.head = m.head
    /\ m2.next[l] = c
    /\ \A x \in Memory : x # l => m2.next[x] = m.next[x]

\* The store of block(), location by location.
LEMMA BlockMemory ==
    ASSUME NEW m \in MemType, NEW q \in Heads, NEW c \in Memory, NEW l \in Memory
    PROVE  Relinked(m, l, c)
<1>1. /\ m.next \in [Memory -> Memory] /\ m.previous \in [Memory -> Memory]
      /\ m.head \in [Heads -> Memory]
  BY DEF MemType
<1> DEFINE a == [m.next EXCEPT ![l] = c]
           m2 == [m EXCEPT !.next = a]
<1>2. /\ a \in [Memory -> Memory] /\ a[l] = c
      /\ \A x \in Memory : x # l => a[x] = m.next[x]
  BY Zenon, <1>1
<1> HIDE DEF a
<1>3. m2 \in MemType /\ m2.previous = m.previous /\ m2.head = m.head /\ m2.next = a
  BY <1>1, <1>2 DEF MemType
<1> QED  BY Zenon, <1>2, <1>3 DEF a, Relinked

ListJoined(m, m2, q, s, c) ==
    /\ m2 \in MemType /\ IsList(m2, q, Append(s, c))
    /\ m2.previous = m.previous
    /\ \A x \in Pcbs : x \notin Items(s) => m2.next[x] = m.next[x]
    /\ \A j \in Heads : j # q => m2.head[j] = m.head[j]

\* block() adds the running task as the last of the list.
Blocked(m, q, c) ==
    LET h == m.head[q] IN
    IF h = Null THEN [m EXCEPT !.head = [@ EXCEPT ![q] = c]]
    ELSE [m EXCEPT !.next = [@ EXCEPT ![LastOf(m, h)] = c]]

\* After block() current_running is the last of the wait queue it joined.
LEMMA BlockList ==
    ASSUME Induction, NEW m \in MemType, NEW q \in Heads, q # "ready", "ready" \in Heads,
           NEW s, IsList(m, q, s), Len(s) <= NPcbs, NEW c \in Pcbs,
           c = m.head["ready"], c \notin Items(s),
           NEW m2, m2 = Blocked(m, q, c)
    PROVE  ListJoined(m, m2, q, s, c)
<1> DEFINE a == Append(s, c)
<1>1. /\ IsQueue(m, q, s)
      /\ \A i \in 1 .. Len(s) :
            /\ i # Len(s) => s[i] # m.head["ready"] /\ m.next[s[i]] = s[i + 1]
            /\ s[i] # m.head["ready"] =>
                  /\ m.previous[s[i]] = Null
                  /\ i = Len(s) => m.next[s[i]] = Null
  BY Zenon DEF IsList
<1>2. /\ s \in Seq(Pcbs) /\ Distinct(s) /\ Len(s) \in Nat
      /\ s # <<>> => m.head[q] = s[1] /\ Len(s) >= 1 /\ 1 \in 1 .. Len(s)
                     /\ Len(s) \in 1 .. Len(s) /\ s[1] \in Pcbs /\ s[Len(s)] \in Pcbs
      /\ s = <<>> => m.head[q] = Null /\ Len(s) = 0
      /\ \A i \in 1 .. Len(s) : s[i] \in Items(s) /\ s[i] \in Pcbs
      /\ \A i, j \in 1 .. Len(s) : s[i] = s[j] => i = j
      /\ Null \notin Pcbs /\ \A x \in Pcbs : x \in Memory
  BY ONLY <1>1, QueueFacts
<1>3. /\ a \in Seq(Pcbs) /\ Len(a) = Len(s) + 1 /\ Distinct(a)
      /\ \A i \in 1 .. Len(s) : a[i] = s[i]
      /\ a[Len(s) + 1] = c
  <2>1. s \in Seq(Pcbs) /\ Distinct(s) /\ c \in Pcbs /\ c \notin Items(s)
    BY Zenon, <1>2
  <2> QED  BY ONLY <2>1, AppendFacts
<1>4. a # <<>>
  <2>1. \A k \in Nat : k + 1 # 0
    OBVIOUS
  <2> QED  BY Zenon, <1>2, <1>3, <2>1, EmptyFacts
<1> HIDE DEF a
<1>5. CASE s = <<>>
  <2>1. m2 = [m EXCEPT !.head = [@ EXCEPT ![q] = c]]
    BY Zenon, <1>2, <1>5 DEF Blocked
  <2>2. /\ m2 \in MemType /\ m2.next = m.next /\ m2.previous = m.previous
        /\ m2.head[q] = c
        /\ \A j \in Heads : j # q => m2.head[j] = m.head[j]
    <3>1. c \in Memory
      BY Zenon, <1>2
    <3>2. Reheaded(m, q, c)
      BY Zenon, <3>1, RotateMemory
    <3> QED  BY Zenon, <2>1, <3>2 DEF Reheaded
  <2>3. a[1] = c /\ Len(a) = 1
    <3>1. 0 + 1 = 1
      OBVIOUS
    <3> QED  BY Zenon, <1>2, <1>3, <1>5, <3>1
  <2>4. IsQueue(m2, q, a)
    BY Zenon, <1>3, <1>4, <2>2, <2>3 DEF IsQueue
  <2>5. \A i \in 1 .. 1 : i = 1
    OBVIOUS
  <2>6. m2.head["ready"] = c
    BY Zenon, <2>2
  <2>7. IsList(m2, q, a)
    BY Zenon, <2>3, <2>4, <2>5, <2>6 DEF IsList
  <2> QED  BY Zenon, <2>2, <2>7 DEF a, ListJoined
<1>6. CASE s # <<>>
  <2> DEFINE l == s[Len(s)]
  <2>1. m2 = [m EXCEPT !.next = [@ EXCEPT ![l] = c]]
    <3>1. LastOf(m, m.head[q]) = l
      BY Zenon, <1>6, LastIs
    <3>2. m.head[q] # Null
      BY Zenon, <1>2, <1>6
    <3> QED  BY Zenon, <3>1, <3>2 DEF Blocked
  <2>2. l \in Pcbs /\ l \in Memory /\ c \in Memory /\ l \in Items(s)
    BY Zenon, <1>2, <1>6
  <2> HIDE DEF l
  <2>3. /\ m2 \in MemType /\ m2.previous = m.previous /\ m2.head = m.head
        /\ m2.next[l] = c
        /\ \A x \in Memory : x # l => m2.next[x] = m.next[x]
    <3>1. Relinked(m, l, c)
      BY Zenon, <2>2, BlockMemory
    <3> QED  BY Zenon, <2>1, <3>1 DEF Relinked
  <2>4. a[1] = s[1]
    BY Zenon, <1>2, <1>3, <1>6
  <2>5. IsQueue(m2, q, a)
    BY Zenon, <1>2, <1>3, <1>4, <1>6, <2>3, <2>4 DEF IsQueue
  <2>6. ASSUME NEW i \in 1 .. Len(a)
        PROVE  /\ i # Len(a) => a[i] # m2.head["ready"] /\ m2.next[a[i]] = a[i + 1]
               /\ a[i] # m2.head["ready"] =>
                     /\ m2.previous[a[i]] = Null
                     /\ i = Len(a) => m2.next[a[i]] = Null
    <3>1. \A k \in Nat : \A j \in 1 .. k + 1 :
             /\ j # k + 1 => j \in 1 .. k
             /\ j \in 1 .. k /\ j # k => j + 1 \in 1 .. k
      OBVIOUS
    <3>2. /\ i # Len(a) => i \in 1 .. Len(s)
          /\ i \in 1 .. Len(s) /\ i # Len(s) => i + 1 \in 1 .. Len(s)
      BY Zenon, <1>2, <1>3, <2>6, <3>1
    <3>3. CASE i = Len(a)
      BY Zenon, <1>3, <2>3, <3>3
    <3>4. CASE i # Len(a)
      <4>1. i \in 1 .. Len(s) /\ a[i] = s[i] /\ s[i] \in Items(s) /\ s[i] \in Memory
        BY Zenon, <1>2, <1>3, <3>2, <3>4
      <4>2. s[i] # c /\ m.previous[s[i]] = Null
        BY Zenon, <1>1, <4>1
      <4>3. m2.next[s[i]] = a[i + 1]
        <5>1. CASE i = Len(s)
          BY Zenon, <1>3, <2>3, <5>1 DEF l
        <5>2. CASE i # Len(s)
          <6>1. s[i] # l
            BY Zenon, <1>2, <1>6, <4>1, <5>2 DEF l
          <6>2. a[i + 1] = s[i + 1]
            BY Zenon, <1>3, <3>2, <4>1, <5>2
          <6> QED  BY Zenon, <1>1, <2>3, <4>1, <5>2, <6>1, <6>2
        <5> QED  BY <5>1, <5>2
      <4> QED  BY Zenon, <2>3, <3>4, <4>1, <4>2, <4>3
    <3> QED  BY <3>3, <3>4
  <2>7. IsList(m2, q, a)
    BY Zenon, <2>5, <2>6 DEF IsList
  <2>8. \A x \in Pcbs : x \notin Items(s) => m2.next[x] = m.next[x]
    BY Zenon, <1>2, <2>2, <2>3
  <2>9. \A j \in Heads : j # q => m2.head[j] = m.head[j]
    BY Zenon, <2>3
  <2> QED  BY Zenon, <2>3, <2>7, <2>8, <2>9 DEF a, ListJoined
<1> QED  BY Zenon, <1>5, <1>6

-----------------------------------------------------------------------------
(* The queues that kernel_main() leaves *)

\* The queues that kernel_main() has built.
BootRing == [i \in 1 .. Boot |-> i]
BootFree == [i \in 1 .. NPcbs - Boot |-> Boot + i]
NoWaits == [q \in WaitQueues |-> <<>>]

\* They are PCBs 1 .. Boot and the rest of the table.
LEMMA BootFacts ==
    /\ BootRing \in Seq(Pcbs) /\ Distinct(BootRing) /\ Items(BootRing) = 1 .. Boot
    /\ BootFree \in Seq(Pcbs) /\ Distinct(BootFree) /\ Items(BootFree) = Boot + 1 .. NPcbs
    /\ Len(BootRing) = Boot /\ Len(BootFree) = NPcbs - Boot
    /\ BootRing # <<>> /\ BootRing[1] = 1
    /\ Boot < NPcbs => BootFree # <<>> /\ BootFree[1] = Boot + 1
    /\ Boot = NPcbs => BootFree = <<>>
<1>1. NPcbs \in Nat /\ Boot \in 1 .. NPcbs /\ NPcbs - Boot \in Nat
  BY SchedulerAssumption DEF Pcbs
<1>2. BootRing \in Seq(Pcbs) /\ Len(BootRing) = Boot /\ \A i \in 1 .. Boot : BootRing[i] = i
  BY <1>1 DEF BootRing, Pcbs
<1>3. /\ BootFree \in Seq(Pcbs) /\ Len(BootFree) = NPcbs - Boot
      /\ \A i \in 1 .. NPcbs - Boot : BootFree[i] = Boot + i
  BY <1>1 DEF BootFree, Pcbs
<1>4. Distinct(BootRing) /\ Items(BootRing) = 1 .. Boot
  BY <1>1, <1>2 DEF Distinct, Items
<1>5. Distinct(BootFree)
  BY <1>1, <1>3 DEF Distinct
<1>6. Items(BootFree) = Boot + 1 .. NPcbs
  <2>1. ASSUME NEW x \in Boot + 1 .. NPcbs PROVE x \in Items(BootFree)
    <3>1. x - Boot \in 1 .. NPcbs - Boot /\ x = Boot + (x - Boot)
      BY <1>1, <2>1
    <3>2. BootFree[x - Boot] = x
      BY <1>3, <3>1
    <3> QED  BY <1>3, <3>1, <3>2 DEF Items
  <2>2. ASSUME NEW x \in Items(BootFree) PROVE x \in Boot + 1 .. NPcbs
    <3>1. PICK i \in 1 .. NPcbs - Boot : x = BootFree[i]
      BY <1>3, <2>2 DEF Items
    <3> QED  BY <1>1, <1>3, <3>1
  <2> QED  BY <2>1, <2>2
<1>7. BootRing # <<>> /\ BootRing[1] = 1
  BY <1>1, <1>2
<1>8. Boot < NPcbs => BootFree # <<>> /\ BootFree[1] = Boot + 1
  BY <1>1, <1>3
<1>9. Boot = NPcbs => BootFree = <<>>
  BY <1>1, <1>3
<1> QED  BY Zenon, <1>2, <1>3, <1>4, <1>5, <1>6, <1>7, <1>8, <1>9

\* Nobody waits yet.
LEMMA BootWaits ==
    /\ NoWaits \in [WaitQueues -> Seq(Pcbs)]
    /\ \A q \in WaitQueues : NoWaits[q] = <<>> /\ Items(NoWaits[q]) = {}
<1>1. Items(<<>>) = {} /\ <<>> \in Seq(Pcbs)
  BY DEF Items
<1> QED  BY Zenon, <1>1 DEF NoWaits

\* The memory that kernel_main() has built.
LEMMA BootMemory ==
    ASSUME SchedulerInit
    PROVE  /\ mem \in MemType /\ mem.head["ready"] = 1
           /\ mem.head["free"] = IF Boot < NPcbs THEN Boot + 1 ELSE Null
           /\ \A q \in WaitQueues : mem.head[q] = Null
           /\ \A p \in 1 .. Boot : /\ mem.next[p] = RingNext(p, 1, Boot)
                                   /\ mem.previous[p] = RingPrevious(p, 1, Boot)
           /\ \A p \in Boot + 1 .. NPcbs :
                /\ mem.next[p] = RingNext(p, Boot + 1, NPcbs)
                /\ mem.previous[p] = RingPrevious(p, Boot + 1, NPcbs)
<1> DEFINE nx == [p \in Memory |-> IF p = Null THEN Null
                          ELSE IF p <= Boot THEN RingNext(p, 1, Boot)
                          ELSE RingNext(p, Boot + 1, NPcbs)]
           pv == [p \in Memory |-> IF p = Null THEN Null
                          ELSE IF p <= Boot THEN RingPrevious(p, 1, Boot)
                          ELSE RingPrevious(p, Boot + 1, NPcbs)]
           hd == [q \in Heads |-> IF q = "ready" THEN 1
                          ELSE IF q = "free" /\ Boot < NPcbs THEN Boot + 1
                          ELSE Null]
<1>1. mem = [next |-> nx, previous |-> pv, head |-> hd]
  BY DEF SchedulerInit
<1>2. NPcbs \in Nat /\ Boot \in 1 .. NPcbs
  BY SchedulerAssumption DEF Pcbs
<1>3. /\ nx \in [Memory -> Memory]
      /\ \A p \in 1 .. Boot : nx[p] = RingNext(p, 1, Boot)
      /\ \A p \in Boot + 1 .. NPcbs : nx[p] = RingNext(p, Boot + 1, NPcbs)
  BY <1>2 DEF Memory, Pcbs, Null, RingNext
<1>4. /\ pv \in [Memory -> Memory]
      /\ \A p \in 1 .. Boot : pv[p] = RingPrevious(p, 1, Boot)
      /\ \A p \in Boot + 1 .. NPcbs : pv[p] = RingPrevious(p, Boot + 1, NPcbs)
  BY <1>2 DEF Memory, Pcbs, Null, RingPrevious
<1>5. /\ hd \in [Heads -> Memory] /\ hd["ready"] = 1
      /\ hd["free"] = IF Boot < NPcbs THEN Boot + 1 ELSE Null
      /\ \A q \in WaitQueues : hd[q] = Null
  <2>1. \A q \in WaitQueues : q # "ready" /\ q # "free"
    BY SchedulerAssumption
  <2>2. 1 \in Memory /\ Null \in Memory /\ (Boot < NPcbs => Boot + 1 \in Memory)
    BY <1>2 DEF Memory, Pcbs
  <2> QED  BY Zenon, <2>1, <2>2 DEF Heads
<1> HIDE DEF nx, pv, hd
<1>6. mem.next = nx /\ mem.previous = pv /\ mem.head = hd /\ mem \in MemType
  BY <1>1, <1>3, <1>4, <1>5 DEF MemType
<1> QED  BY Zenon, <1>3, <1>4, <1>5, <1>6

\* The pointers of that memory stand for those queues.
LEMMA BootLinked ==
    ASSUME SchedulerInit
    PROVE  Linked(mem, BootRing, BootFree, NoWaits)
<1>1. NPcbs \in Nat /\ Boot \in 1 .. NPcbs
  BY SchedulerAssumption DEF Pcbs
<1>2. /\ mem.head["ready"] = 1
      /\ mem.head["free"] = IF Boot < NPcbs THEN Boot + 1 ELSE Null
      /\ \A q \in WaitQueues : mem.head[q] = Null
      /\ \A p \in 1 .. Boot : /\ mem.next[p] = RingNext(p, 1, Boot)
                              /\ mem.previous[p] = RingPrevious(p, 1, Boot)
      /\ \A p \in Boot + 1 .. NPcbs :
           /\ mem.next[p] = RingNext(p, Boot + 1, NPcbs)
           /\ mem.previous[p] = RingPrevious(p, Boot + 1, NPcbs)
  BY Zenon, BootMemory
<1>3. IsRing(mem, "ready", BootRing)
  <2>1. IsQueue(mem, "ready", BootRing)
    BY Zenon, <1>2, BootFacts DEF IsQueue
  <2>2. Len(BootRing) = Boot /\ \A i \in 1 .. Boot : BootRing[i] = i
    BY Zenon, BootFacts DEF BootRing
  <2>3. ASSUME NEW i \in 1 .. Boot
        PROVE  /\ mem.next[BootRing[i]] = IF i = Boot THEN BootRing[1] ELSE BootRing[i + 1]
               /\ mem.previous[BootRing[i]] = IF i = 1 THEN BootRing[Boot] ELSE BootRing[i - 1]
    <3>1. /\ BootRing[i] = i /\ BootRing[1] = 1 /\ BootRing[Boot] = Boot
          /\ i # Boot => BootRing[i + 1] = i + 1
          /\ i # 1 => BootRing[i - 1] = i - 1
      BY <1>1, <2>2
    <3>2. mem.next[i] = RingNext(i, 1, Boot) /\ mem.previous[i] = RingPrevious(i, 1, Boot)
      BY Zenon, <1>2
    <3> QED  BY Zenon, <3>1, <3>2 DEF RingNext, RingPrevious
  <2> QED  BY Zenon, <2>1, <2>2, <2>3 DEF IsRing
<1>4. IsRing(mem, "free", BootFree)
  <2>1. IsQueue(mem, "free", BootFree)
    <3>1. CASE Boot < NPcbs
      BY Zenon, <1>2, <3>1, BootFacts DEF IsQueue
    <3>2. CASE ~(Boot < NPcbs)
      <4>1. Boot = NPcbs
        BY <1>1, <3>2
      <4> QED  BY Zenon, <1>2, <3>2, <4>1, BootFacts DEF IsQueue
    <3> QED  BY Zenon, <3>1, <3>2
  <2>2. PICK n \in Nat : n = NPcbs - Boot
    BY <1>1
  <2>3. Len(BootFree) = n /\ \A i \in 1 .. n : BootFree[i] = Boot + i
    BY Zenon, <2>2, BootFacts DEF BootFree
  <2>4. ASSUME NEW i \in 1 .. n
        PROVE  /\ mem.next[BootFree[i]] = IF i = n THEN BootFree[1] ELSE BootFree[i + 1]
               /\ mem.previous[BootFree[i]] = IF i = 1 THEN BootFree[n] ELSE BootFree[i - 1]
    <3>1. /\ BootFree[i] = Boot + i /\ BootFree[1] = Boot + 1 /\ BootFree[n] = NPcbs
          /\ i # n => BootFree[i + 1] = Boot + i + 1
          /\ i # 1 => BootFree[i - 1] = Boot + i - 1
      BY <1>1, <2>2, <2>3
    <3>2. PICK p \in Boot + 1 .. NPcbs : p = Boot + i
      BY <1>1, <2>2
    <3>3. /\ (i = n <=> p = NPcbs) /\ (i = 1 <=> p = Boot + 1)
          /\ p + 1 = Boot + i + 1 /\ p - 1 = Boot + i - 1
      BY <1>1, <2>2, <3>2
    <3>4. /\ mem.next[p] = RingNext(p, Boot + 1, NPcbs)
          /\ mem.previous[p] = RingPrevious(p, Boot + 1, NPcbs)
      BY Zenon, <1>2
    <3> QED  BY Zenon, <3>1, <3>2, <3>3, <3>4 DEF RingNext, RingPrevious
  <2> QED  BY Zenon, <2>1, <2>3, <2>4 DEF IsRing
<1>5. \A q \in WaitQueues : IsList(mem, q, NoWaits[q])
  <2>1. <<>> \in Seq(Pcbs) /\ Distinct(<<>>) /\ Len(<<>>) = 0 /\ 1 .. 0 = {}
    BY DEF Distinct
  <2> QED  BY Zenon, <1>2, <2>1, BootWaits DEF IsList, IsQueue
<1>6. \A t \in Pcbs : t \in Items(BootRing) => t \notin Items(BootFree)
  <2>1. \A t \in 1 .. Boot : t \notin Boot + 1 .. NPcbs
    BY <1>1
  <2> QED  BY Zenon, <2>1, BootFacts
<1> QED  BY Zenon, <1>3, <1>4, <1>5, <1>6, BootWaits DEF Linked
=============================================================================
