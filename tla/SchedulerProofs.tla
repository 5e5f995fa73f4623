-------------------------- MODULE SchedulerProofs ---------------------------
(***************************************************************************)
(* The task queues of the kernel keep their meaning under every call and   *)
(* every round of scheduler(): SchedulerInv is inductive, and every step   *)
(* is the step of TaskQueues it is for.  Holds(r, f, w) is the invariant   *)
(* with the queues named: r the ready ring, f the free ring, w the wait    *)
(* lists.  One lemma per action says which queues the next state holds,    *)
(* one what that means.                                                    *)
(***************************************************************************)
EXTENDS SchedulerRings

USE Zenon

-----------------------------------------------------------------------------
(* Each operation on all the queues together *)

\* Every queue has a head of its own.
LEMMA HeadFacts ==
    /\ "ready" \in Heads /\ "free" \in Heads /\ "ready" # "free"
    /\ \A q \in WaitQueues : q \in Heads /\ q # "ready" /\ q # "free"
<1>1. "ready" # "free"
  BY SMT
<1> QED  BY <1>1, SchedulerAssumption DEF Heads

\* The items of a queue after it lost its first or got a new last one.
LEMMA TailItems ==
    ASSUME NEW s \in Seq(Pcbs), s # <<>>, Distinct(s)
    PROVE  \A x : x \in Items(Tail(s)) <=> x \in Items(s) /\ x # s[1]
<1>1. Head(s) = s[1] /\ Items(Tail(s)) = Items(s) \ {Head(s)}
  BY TailFacts
<1> QED  BY <1>1

\* Who is in a queue that one more task has joined.
LEMMA AppendItems ==
    ASSUME NEW s \in Seq(Pcbs), NEW e \in Pcbs
    PROVE  \A x : x \in Items(Append(s, e)) <=> x \in Items(s) \/ x = e
<1>1. Items(Append(s, e)) = Items(s) \cup {e}
  BY SMT, AppendFacts
<1> QED  BY <1>1

\* A first-in first-out queue without its first, and with one more last.
LEMMA LinkedFacts ==
    ASSUME NEW m, NEW r, NEW f, NEW w, Linked(m, r, f, w)
    PROVE  /\ r \in Seq(Pcbs) /\ Distinct(r) /\ f \in Seq(Pcbs) /\ Distinct(f)
           /\ Items(r) \subseteq Pcbs /\ Items(f) \subseteq Pcbs
           /\ r # <<>> => m.head["ready"] = r[1] /\ r[1] \in Items(r) /\ r[1] \in Pcbs
           /\ f # <<>> => m.head["free"] = f[1] /\ f[1] \in Items(f) /\ f[1] \in Pcbs
           /\ f = <<>> => m.head["free"] = Null
           /\ w \in [WaitQueues -> Seq(Pcbs)]
           /\ \A q \in WaitQueues :
                 /\ w[q] \in Seq(Pcbs) /\ Distinct(w[q]) /\ Items(w[q]) \subseteq Pcbs
                 /\ w[q] # <<>> =>
                       /\ m.head[q] = w[q][1] /\ w[q][1] \in Items(w[q])
                       /\ w[q][1] \in Pcbs
                 /\ w[q] = <<>> => m.head[q] = Null
           /\ \A x \in Pcbs : x # Null /\ x \in Memory
<1>1. /\ IsQueue(m, "ready", r) /\ IsQueue(m, "free", f)
      /\ w \in [WaitQueues -> Seq(Pcbs)]
      /\ \A q \in WaitQueues : IsQueue(m, q, w[q])
  BY DEF Linked, IsRing, IsList
<1>2. ASSUME NEW q, NEW s, IsQueue(m, q, s)
      PROVE  /\ s \in Seq(Pcbs) /\ Distinct(s) /\ Items(s) \subseteq Pcbs
             /\ s # <<>> => m.head[q] = s[1] /\ s[1] \in Items(s) /\ s[1] \in Pcbs
             /\ s = <<>> => m.head[q] = Null
             /\ \A x \in Pcbs : x # Null /\ x \in Memory
  <2>1. /\ s \in Seq(Pcbs) /\ Distinct(s) /\ Items(s) \subseteq Pcbs
        /\ s # <<>> => m.head[q] = s[1] /\ 1 \in 1 .. Len(s) /\ s[1] \in Pcbs
        /\ s = <<>> => m.head[q] = Null
        /\ \A i \in 1 .. Len(s) : s[i] \in Items(s)
        /\ Null \notin Pcbs /\ \A x \in Pcbs : x \in Memory
    BY ONLY <1>2, QueueFacts
  <2> QED  BY <2>1
<1>3. /\ r \in Seq(Pcbs) /\ Distinct(r) /\ Items(r) \subseteq Pcbs
      /\ r # <<>> => m.head["ready"] = r[1] /\ r[1] \in Items(r) /\ r[1] \in Pcbs
      /\ \A x \in Pcbs : x # Null /\ x \in Memory
  BY <1>1, <1>2
<1>4. /\ f \in Seq(Pcbs) /\ Distinct(f) /\ Items(f) \subseteq Pcbs
      /\ f # <<>> => m.head["free"] = f[1] /\ f[1] \in Items(f) /\ f[1] \in Pcbs
      /\ f = <<>> => m.head["free"] = Null
  BY <1>1, <1>2
<1>5. ASSUME NEW q \in WaitQueues
      PROVE  /\ w[q] \in Seq(Pcbs) /\ Distinct(w[q]) /\ Items(w[q]) \subseteq Pcbs
             /\ w[q] # <<>> => /\ m.head[q] = w[q][1] /\ w[q][1] \in Items(w[q])
                               /\ w[q][1] \in Pcbs
             /\ w[q] = <<>> => m.head[q] = Null
  BY <1>1, <1>2
<1> QED  BY <1>1, <1>3, <1>4, <1>5

ReadyShifted(m, m2, r, f, w) ==
    /\ m2 \in MemType /\ Linked(m2, Tail(r), f, w)
    /\ m2.next[r[1]] = Null
    /\ \A x \in Pcbs : x \notin Items(r) => m2.next[x] = m.next[x]

\* scheduler() takes the task at the head out of the ready queue; if that
\* task has joined a wait queue it is from now on in that one only.
LEMMA ShiftReady ==
    ASSUME NEW m \in MemType, NEW r, NEW f, NEW w, Linked(m, r, f, w), r # <<>>,
           NEW m2, m2 = queue_shift(m, "ready")
    PROVE  ReadyShifted(m, m2, r, f, w)
<1>1. /\ IsRing(m, "ready", r) /\ IsRing(m, "free", f)
      /\ \A q \in WaitQueues : IsList(m, q, w[q])
      /\ \A t \in Pcbs : t \in Items(r) => t \notin Items(f)
      /\ \A q \in WaitQueues : \A t \in Items(w[q]) :
           /\ t \notin Items(f)
           /\ t \in Items(r) => t = m.head["ready"]
           /\ \A p \in WaitQueues : t \in Items(w[p]) => p = q
  BY DEF Linked
<1>2. /\ r \in Seq(Pcbs) /\ Distinct(r) /\ Items(f) \subseteq Pcbs
      /\ m.head["ready"] = r[1] /\ r[1] \in Items(r) /\ r[1] \in Pcbs
      /\ w \in [WaitQueues -> Seq(Pcbs)]
      /\ \A q \in WaitQueues : Items(w[q]) \subseteq Pcbs
  BY LinkedFacts
<1>3. /\ m2 \in MemType /\ IsRing(m2, "ready", Tail(r))
      /\ m2.next[r[1]] = Null /\ m2.previous[r[1]] = Null
      /\ \A x \in Pcbs : x \notin Items(r) =>
            m2.next[x] = m.next[x] /\ m2.previous[x] = m.previous[x]
      /\ \A j \in Heads : j # "ready" => m2.head[j] = m.head[j]
  <2>1. RingShifted(m, m2, "ready", r)
    BY <1>1, HeadFacts, ShiftRing
  <2> QED  BY <2>1 DEF RingShifted
<1>4. \A x : x \in Items(Tail(r)) <=> x \in Items(r) /\ x # r[1]
  BY <1>2, TailItems
<1>5. IsRing(m2, "free", f)
  <2>1. \A x \in Items(f) : m2.next[x] = m.next[x] /\ m2.previous[x] = m.previous[x]
    BY <1>1, <1>2, <1>3
  <2>2. m2.head["free"] = m.head["free"]
    BY <1>3, HeadFacts
  <2> QED  BY <1>1, <2>1, <2>2, RingFrame
<1>6. Tail(r) # <<>> => m2.head["ready"] \in Items(Tail(r))
  <2>1. IsQueue(m2, "ready", Tail(r))
    BY <1>3 DEF IsRing
  <2>2. Tail(r) # <<>> => m2.head["ready"] = Tail(r)[1] /\ 1 \in 1 .. Len(Tail(r))
    <3>1. /\ Tail(r) \in Seq(Pcbs)
          /\ Tail(r) # <<>> => m2.head["ready"] = Tail(r)[1]
      BY <2>1 DEF IsQueue
    <3>2. Tail(r) # <<>> => Len(Tail(r)) \in Nat /\ Len(Tail(r)) >= 1
      BY <3>1, SeqFacts
    <3>3. \A k \in Nat : k >= 1 => 1 \in 1 .. k
      BY SMT
    <3> QED  BY <3>1, <3>2, <3>3
  <2> QED  BY <2>2 DEF Items
<1>7. Tail(r) = <<>> => m2.head["ready"] = Null
  BY <1>3 DEF IsRing, IsQueue
<1>8. ASSUME NEW q \in WaitQueues PROVE IsList(m2, q, w[q])
  <2>1. ASSUME NEW x \in Items(w[q])
        PROVE  StaysInList(m, m2, x)
    <3>1. x \in Pcbs /\ x # Null
      BY <1>2, <1>8, <2>1, LinkedFacts
    <3>2. x \in Items(r) => x = r[1]
      BY <1>1, <1>2, <1>8, <2>1
    <3>3. x # m2.head["ready"]
      BY <1>4, <1>6, <1>7, <3>1, <3>2
    <3> QED  BY <1>2, <1>3, <3>1, <3>2, <3>3 DEF StaysInList
  <2>2. m2.head[q] = m.head[q]
    BY <1>3, <1>8, HeadFacts
  <2> QED  BY <1>1, <1>8, <2>1, <2>2, ListFrame
<1>9. \A t \in Pcbs : t \in Items(Tail(r)) => t \notin Items(f)
  BY <1>1, <1>4
<1>10. ASSUME NEW q \in WaitQueues, NEW t \in Items(w[q])
       PROVE  /\ t \notin Items(f)
              /\ t \in Items(Tail(r)) => t = m2.head["ready"]
              /\ \A p \in WaitQueues : t \in Items(w[p]) => p = q
  BY <1>1, <1>2, <1>4, <1>10
<1>11. Linked(m2, Tail(r), f, w)
  BY <1>2, <1>3, <1>5, <1>8, <1>9, <1>10 DEF Linked
<1> QED  BY <1>3, <1>11 DEF ReadyShifted

FreeShifted(m, m2, r, f, w) ==
    /\ m2 \in MemType /\ Linked(m2, r, Tail(f), w)
    /\ m2.next[f[1]] = Null
    /\ \A x \in Pcbs : x \notin Items(f) => m2.next[x] = m.next[x]

\* alloc_pcb() takes the first free PCB.
LEMMA ShiftFree ==
    ASSUME NEW m \in MemType, NEW r, NEW f, NEW w, Linked(m, r, f, w), f # <<>>,
           NEW m2, m2 = queue_shift(m, "free")
    PROVE  FreeShifted(m, m2, r, f, w)
<1>1. /\ IsRing(m, "ready", r) /\ IsRing(m, "free", f)
      /\ \A q \in WaitQueues : IsList(m, q, w[q])
      /\ \A t \in Pcbs : t \in Items(r) => t \notin Items(f)
      /\ \A q \in WaitQueues : \A t \in Items(w[q]) :
           /\ t \notin Items(f)
           /\ t \in Items(r) => t = m.head["ready"]
           /\ \A p \in WaitQueues : t \in Items(w[p]) => p = q
  BY DEF Linked
<1>2. /\ f \in Seq(Pcbs) /\ Distinct(f) /\ Items(r) \subseteq Pcbs
      /\ w \in [WaitQueues -> Seq(Pcbs)]
      /\ \A q \in WaitQueues : Items(w[q]) \subseteq Pcbs
  BY LinkedFacts
<1>3. /\ m2 \in MemType /\ IsRing(m2, "free", Tail(f)) /\ m2.next[f[1]] = Null
      /\ \A x \in Pcbs : x \notin Items(f) =>
            m2.next[x] = m.next[x] /\ m2.previous[x] = m.previous[x]
      /\ \A j \in Heads : j # "free" => m2.head[j] = m.head[j]
  <2>1. RingShifted(m, m2, "free", f)
    BY <1>1, HeadFacts, ShiftRing
  <2> QED  BY <2>1 DEF RingShifted
<1>4. \A x : x \in Items(Tail(f)) <=> x \in Items(f) /\ x # f[1]
  BY <1>2, TailItems
<1>5. m2.head["ready"] = m.head["ready"]
  BY <1>3, HeadFacts
<1>6. IsRing(m2, "ready", r)
  <2>1. \A x \in Items(r) : m2.next[x] = m.next[x] /\ m2.previous[x] = m.previous[x]
    BY <1>1, <1>2, <1>3
  <2> QED  BY <1>1, <1>5, <2>1, RingFrame
<1>7. ASSUME NEW q \in WaitQueues PROVE IsList(m2, q, w[q])
  <2>1. ASSUME NEW x \in Items(w[q]) PROVE StaysInList(m, m2, x)
    <3>1. m2.next[x] = m.next[x] /\ m2.previous[x] = m.previous[x]
      BY <1>1, <1>2, <1>3, <1>7, <2>1
    <3> QED  BY <1>5, <3>1 DEF StaysInList
  <2>2. m2.head[q] = m.head[q]
    BY <1>3, <1>7, HeadFacts
  <2> QED  BY <1>1, <1>5, <1>7, <2>1, <2>2, ListFrame
<1>8. \A t \in Pcbs : t \in Items(r) => t \notin Items(Tail(f))
  BY <1>1, <1>4
<1>9. ASSUME NEW q \in WaitQueues, NEW t \in Items(w[q])
      PROVE  /\ t \notin Items(Tail(f))
             /\ t \in Items(r) => t = m2.head["ready"]
             /\ \A p \in WaitQueues : t \in Items(w[p]) => p = q
  BY <1>1, <1>4, <1>5, <1>9
<1>10. Linked(m2, r, Tail(f), w)
  BY <1>2, <1>3, <1>6, <1>7, <1>8, <1>9 DEF Linked
<1> QED  BY <1>3, <1>10 DEF FreeShifted

\* PCBs that are in no queue.
Outside(p, r, f, w) ==
    p \notin Items(r) /\ p \notin Items(f) /\ \A q \in WaitQueues : p \notin Items(w[q])

FreeInserted(m, m2, r, f, w, p) ==
    /\ m2 \in MemType /\ Linked(m2, r, Append(f, p), w)
    /\ \A x \in Pcbs : x \notin Items(f) /\ x # p => m2.next[x] = m.next[x]

\* The PCB of an exited task becomes the last free one.
LEMMA InsertFree ==
    ASSUME NEW m \in MemType, NEW r, NEW f, NEW w, Linked(m, r, f, w),
           NEW p \in Pcbs, Outside(p, r, f, w), NEW m2, m2 = queue_insert(m, "free", p)
    PROVE  FreeInserted(m, m2, r, f, w, p)
<1>1. /\ IsRing(m, "ready", r) /\ IsRing(m, "free", f)
      /\ \A q \in WaitQueues : IsList(m, q, w[q])
      /\ \A t \in Pcbs : t \in Items(r) => t \notin Items(f)
      /\ \A q \in WaitQueues : \A t \in Items(w[q]) :
           /\ t \notin Items(f)
           /\ t \in Items(r) => t = m.head["ready"]
           /\ \A q2 \in WaitQueues : t \in Items(w[q2]) => q2 = q
  BY DEF Linked
<1>2. /\ f \in Seq(Pcbs) /\ Items(r) \subseteq Pcbs
      /\ w \in [WaitQueues -> Seq(Pcbs)]
      /\ \A q \in WaitQueues : Items(w[q]) \subseteq Pcbs
  BY LinkedFacts
<1>3. p \notin Items(r) /\ p \notin Items(f) /\ \A q \in WaitQueues : p \notin Items(w[q])
  BY DEF Outside
<1>4. /\ m2 \in MemType /\ IsRing(m2, "free", Append(f, p))
      /\ \A x \in Pcbs : x \notin Items(f) /\ x # p =>
            m2.next[x] = m.next[x] /\ m2.previous[x] = m.previous[x]
      /\ \A j \in Heads : j # "free" => m2.head[j] = m.head[j]
  <2>1. RingInserted(m, m2, "free", f, p)
    BY <1>1, <1>3, HeadFacts, InsertRing
  <2> QED  BY <2>1 DEF RingInserted
<1>5. \A x : x \in Items(Append(f, p)) <=> x \in Items(f) \/ x = p
  BY <1>2, AppendItems
<1>6. m2.head["ready"] = m.head["ready"]
  BY <1>4, HeadFacts
<1>7. IsRing(m2, "ready", r)
  <2>1. \A x \in Items(r) : m2.next[x] = m.next[x] /\ m2.previous[x] = m.previous[x]
    BY <1>1, <1>2, <1>3, <1>4
  <2> QED  BY <1>1, <1>6, <2>1, RingFrame
<1>8. ASSUME NEW q \in WaitQueues PROVE IsList(m2, q, w[q])
  <2>1. ASSUME NEW x \in Items(w[q]) PROVE StaysInList(m, m2, x)
    <3>1. m2.next[x] = m.next[x] /\ m2.previous[x] = m.previous[x]
      BY <1>1, <1>2, <1>3, <1>4, <1>8, <2>1
    <3> QED  BY <1>6, <3>1 DEF StaysInList
  <2>2. m2.head[q] = m.head[q]
    BY <1>4, <1>8, HeadFacts
  <2> QED  BY <1>1, <1>6, <1>8, <2>1, <2>2, ListFrame
<1>9. \A t \in Pcbs : t \in Items(r) => t \notin Items(Append(f, p))
  BY <1>1, <1>3, <1>5
<1>10. ASSUME NEW q \in WaitQueues, NEW t \in Items(w[q])
       PROVE  /\ t \notin Items(Append(f, p))
              /\ t \in Items(r) => t = m2.head["ready"]
              /\ \A q2 \in WaitQueues : t \in Items(w[q2]) => q2 = q
  <2>1. t # p
    BY <1>3, <1>10
  <2> QED  BY <1>1, <1>5, <1>6, <1>10, <2>1
<1>11. Linked(m2, r, Append(f, p), w)
  BY <1>2, <1>4, <1>7, <1>8, <1>9, <1>10 DEF Linked
<1> QED  BY <1>4, <1>11 DEF FreeInserted

ReadyInserted(m, m2, r, f, w, p) ==
    /\ m2 \in MemType /\ Linked(m2, Append(r, p), f, w)
    /\ \A x \in Pcbs : x \notin Items(r) /\ x # p => m2.next[x] = m.next[x]

\* A new or woken task becomes the last of the ready queue.
LEMMA InsertReady ==
    ASSUME NEW m \in MemType, NEW r, NEW f, NEW w, Linked(m, r, f, w), r # <<>>,
           NEW p \in Pcbs, Outside(p, r, f, w), NEW m2, m2 = queue_insert(m, "ready", p)
    PROVE  ReadyInserted(m, m2, r, f, w, p)
<1>1. /\ IsRing(m, "ready", r) /\ IsRing(m, "free", f)
      /\ \A q \in WaitQueues : IsList(m, q, w[q])
      /\ \A t \in Pcbs : t \in Items(r) => t \notin Items(f)
      /\ \A q \in WaitQueues : \A t \in Items(w[q]) :
           /\ t \notin Items(f)
           /\ t \in Items(r) => t = m.head["ready"]
           /\ \A q2 \in WaitQueues : t \in Items(w[q2]) => q2 = q
  BY DEF Linked
<1>2. /\ r \in Seq(Pcbs) /\ Items(f) \subseteq Pcbs /\ m.head["ready"] = r[1]
      /\ w \in [WaitQueues -> Seq(Pcbs)]
      /\ \A q \in WaitQueues : Items(w[q]) \subseteq Pcbs
  BY LinkedFacts
<1>3. p \notin Items(r) /\ p \notin Items(f) /\ \A q \in WaitQueues : p \notin Items(w[q])
  BY DEF Outside
<1>4. /\ m2 \in MemType /\ IsRing(m2, "ready", Append(r, p))
      /\ \A x \in Pcbs : x \notin Items(r) /\ x # p =>
            m2.next[x] = m.next[x] /\ m2.previous[x] = m.previous[x]
      /\ \A j \in Heads : j # "ready" => m2.head[j] = m.head[j]
  <2>1. RingInserted(m, m2, "ready", r, p)
    BY <1>1, <1>3, HeadFacts, InsertRing
  <2> QED  BY <2>1 DEF RingInserted
<1>5. \A x : x \in Items(Append(r, p)) <=> x \in Items(r) \/ x = p
  BY <1>2, AppendItems
<1>6. m2.head["ready"] = m.head["ready"]
  <2>1. Append(r, p) # <<>> /\ Append(r, p)[1] = r[1]
    BY SMT, <1>2
  <2> QED  BY <1>2, <1>4, <2>1 DEF IsRing, IsQueue
<1>7. IsRing(m2, "free", f)
  <2>1. \A x \in Items(f) : m2.next[x] = m.next[x] /\ m2.previous[x] = m.previous[x]
    BY <1>1, <1>2, <1>3, <1>4
  <2>2. m2.head["free"] = m.head["free"]
    BY <1>4, HeadFacts
  <2> QED  BY <1>1, <2>1, <2>2, RingFrame
<1>8. ASSUME NEW q \in WaitQueues PROVE IsList(m2, q, w[q])
  <2>1. ASSUME NEW x \in Items(w[q])
        PROVE  StaysInList(m, m2, x)
    <3>1. x # m.head["ready"] => m2.next[x] = m.next[x] /\ m2.previous[x] = m.previous[x]
      BY <1>1, <1>2, <1>3, <1>4, <1>8, <2>1
    <3> QED  BY <1>6, <3>1 DEF StaysInList
  <2>2. m2.head[q] = m.head[q]
    BY <1>4, <1>8, HeadFacts
  <2> QED  BY <1>1, <1>6, <1>8, <2>1, <2>2, ListFrame
<1>9. \A t \in Pcbs : t \in Items(Append(r, p)) => t \notin Items(f)
  BY <1>1, <1>3, <1>5
<1>10. ASSUME NEW q \in WaitQueues, NEW t \in Items(w[q])
       PROVE  /\ t \notin Items(f)
              /\ t \in Items(Append(r, p)) => t = m2.head["ready"]
              /\ \A q2 \in WaitQueues : t \in Items(w[q2]) => q2 = q
  <2>1. t # p
    BY <1>3, <1>10
  <2> QED  BY <1>1, <1>5, <1>6, <1>10, <2>1
<1>11. Linked(m2, Append(r, p), f, w)
  BY <1>2, <1>4, <1>7, <1>8, <1>9, <1>10 DEF Linked
<1> QED  BY <1>4, <1>11 DEF ReadyInserted

\* Functions that differ in one place.
LEMMA ExceptFacts ==
    ASSUME NEW S, NEW T, NEW w \in [S -> T], NEW q \in S, NEW e \in T
    PROVE  /\ [w EXCEPT ![q] = e] \in [S -> T]
           /\ [w EXCEPT ![q] = e][q] = e
           /\ \A p \in S : p # q => [w EXCEPT ![q] = e][p] = w[p]
  OBVIOUS

\* The first of a queue is in it.
LEMMA FirstItem ==
    ASSUME NEW s \in Seq(Pcbs), s # <<>>
    PROVE  s[1] \in Items(s) /\ s[1] \in Pcbs
<1>1. 1 \in 1 .. Len(s) /\ s[1] \in Pcbs
  BY SMT
<1> QED  BY <1>1 DEF Items

ReadyRotated(m, m2, r, f, w) ==
    /\ m2 \in MemType /\ Linked(m2, Append(Tail(r), r[1]), f, w)
    /\ m2.next = m.next

\* The next task in the ring is looked at.
LEMMA RotateReady ==
    ASSUME NEW m \in MemType, NEW r, NEW f, NEW w, Linked(m, r, f, w), r # <<>>,
           \A q \in WaitQueues : r[1] \notin Items(w[q]),
           NEW m2, m2 = [m EXCEPT !.head = [@ EXCEPT !["ready"] = m.next[r[1]]]]
    PROVE  ReadyRotated(m, m2, r, f, w)
<1>1. /\ IsRing(m, "ready", r) /\ IsRing(m, "free", f)
      /\ \A q \in WaitQueues : IsList(m, q, w[q])
      /\ \A t \in Pcbs : t \in Items(r) => t \notin Items(f)
      /\ \A q \in WaitQueues : \A t \in Items(w[q]) :
           /\ t \notin Items(f)
           /\ t \in Items(r) => t = m.head["ready"]
           /\ \A p \in WaitQueues : t \in Items(w[p]) => p = q
  BY DEF Linked
<1>2. /\ r \in Seq(Pcbs) /\ Distinct(r) /\ m.head["ready"] = r[1] /\ r[1] \in Pcbs
      /\ w \in [WaitQueues -> Seq(Pcbs)] /\ r[1] \in Items(r) /\ r[1] \in Memory
  BY LinkedFacts
<1>3. m.next[r[1]] \in Memory
  <2>1. m.next \in [Memory -> Memory]
    BY SMT DEF MemType
  <2> QED  BY <1>2, <2>1
<1>4. /\ m2 \in MemType /\ m2.next = m.next /\ m2.previous = m.previous
      /\ m2.head["ready"] = m.next[r[1]]
      /\ \A j \in Heads : j # "ready" => m2.head[j] = m.head[j]
  <2>1. Reheaded(m, "ready", m.next[r[1]])
    BY <1>3, HeadFacts, RotateMemory
  <2> QED  BY <2>1 DEF Reheaded
<1> DEFINE a == Append(Tail(r), r[1])
<1>5. IsRing(m2, "ready", a) /\ m.next[r[1]] = a[1] /\ m.next[r[1]] \in Pcbs
  <2>1. m2.next = m.next /\ m2.previous = m.previous /\ m2.head["ready"] = m.next[r[1]]
    BY <1>4
  <2>2. RingRotated(m, m2, "ready", r)
    BY <1>1, <2>1, HeadFacts, RotateRing
  <2> QED  BY <2>2 DEF RingRotated
<1>6. \A x : x \in Items(a) <=> x \in Items(r)
  <2>1. Tail(r) \in Seq(Pcbs) /\ \A x : x \in Items(Tail(r)) <=> x \in Items(r) /\ x # r[1]
    BY <1>2, TailItems, TailFacts
  <2>2. \A x : x \in Items(a) <=> x \in Items(Tail(r)) \/ x = r[1]
    BY <1>2, <2>1, AppendItems
  <2> QED  BY <1>2, <2>1, <2>2
<1>7. m2.head["ready"] \in Items(r)
  <2>1. a # <<>> => a[1] \in Items(a)
    BY <1>5, FirstItem DEF IsRing, IsQueue
  <2>2. a # <<>>
    <3>1. IsQueue(m2, "ready", a)
      BY <1>5 DEF IsRing
    <3>2. m2.head["ready"] # Null
      BY <1>4, <1>5, LinkedFacts
    <3> QED  BY <3>1, <3>2 DEF IsQueue
  <2> QED  BY <1>4, <1>5, <1>6, <2>1, <2>2
<1> HIDE DEF a
<1>8. IsRing(m2, "free", f)
  <2>1. m2.head["free"] = m.head["free"]
    BY <1>4, HeadFacts
  <2> QED  BY <1>1, <1>4, <2>1, RingFrame
<1>9. ASSUME NEW q \in WaitQueues, NEW x \in Items(w[q]) PROVE x \notin Items(r)
  <2>1. x # r[1]
    BY <1>9
  <2> QED  BY <1>1, <1>2, <1>9, <2>1
<1>10. ASSUME NEW q \in WaitQueues PROVE IsList(m2, q, w[q])
  <2>1. ASSUME NEW x \in Items(w[q]) PROVE StaysInList(m, m2, x)
    <3>1. x # m.head["ready"] /\ x # m2.head["ready"]
      BY <1>2, <1>7, <1>9, <1>10, <2>1
    <3> QED  BY <1>4, <3>1 DEF StaysInList
  <2>2. m2.head[q] = m.head[q]
    BY <1>4, <1>10, HeadFacts
  <2> QED  BY <1>1, <1>10, <2>1, <2>2, ListFrame
<1>11. \A t \in Pcbs : t \in Items(a) => t \notin Items(f)
  BY <1>1, <1>6
<1>12. ASSUME NEW q \in WaitQueues, NEW t \in Items(w[q])
       PROVE  /\ t \notin Items(f)
              /\ t \in Items(a) => t = m2.head["ready"]
              /\ \A p \in WaitQueues : t \in Items(w[p]) => p = q
  BY <1>1, <1>6, <1>9, <1>12
<1>13. Linked(m2, a, f, w)
  BY <1>2, <1>5, <1>8, <1>10, <1>11, <1>12 DEF Linked
<1> QED  BY <1>4, <1>13 DEF a, ReadyRotated

WaitShifted(m, m2, r, f, w, w2, q) ==
    /\ m2 \in MemType /\ Linked(m2, r, f, w2)
    /\ Outside(w[q][1], r, f, w2) /\ m2.next[w[q][1]] = Null
    /\ \A x \in Pcbs : x \notin Items(w[q]) => m2.next[x] = m.next[x]

\* unblock() takes the longest waiting task out of a wait queue.
LEMMA ShiftWait ==
    ASSUME NEW m \in MemType, NEW r, NEW f, NEW w, Linked(m, r, f, w),
           NEW q \in WaitQueues, w[q] # <<>>, m.head["ready"] \notin Items(w[q]),
           NEW m2, m2 = queue_shift(m, q), NEW w2, w2 = [w EXCEPT ![q] = Tail(w[q])]
    PROVE  WaitShifted(m, m2, r, f, w, w2, q)
<1>1. /\ IsRing(m, "ready", r) /\ IsRing(m, "free", f)
      /\ \A p \in WaitQueues : IsList(m, p, w[p])
      /\ \A t \in Pcbs : t \in Items(r) => t \notin Items(f)
      /\ \A p \in WaitQueues : \A t \in Items(w[p]) :
           /\ t \notin Items(f)
           /\ t \in Items(r) => t = m.head["ready"]
           /\ \A p2 \in WaitQueues : t \in Items(w[p2]) => p2 = p
  BY DEF Linked
<1>2. /\ w \in [WaitQueues -> Seq(Pcbs)] /\ w[q] \in Seq(Pcbs) /\ Distinct(w[q])
      /\ w[q][1] \in Items(w[q]) /\ Items(r) \subseteq Pcbs /\ Items(f) \subseteq Pcbs
      /\ \A p \in WaitQueues : Items(w[p]) \subseteq Pcbs
  BY LinkedFacts
<1>3. /\ m2 \in MemType /\ IsList(m2, q, Tail(w[q]))
      /\ m2.next[w[q][1]] = Null
      /\ \A x \in Pcbs : x \notin Items(w[q]) =>
            m2.next[x] = m.next[x] /\ m2.previous[x] = m.previous[x]
      /\ \A j \in Heads : j # q => m2.head[j] = m.head[j]
  <2>1. ListShifted(m, m2, q, w[q])
    BY <1>1, HeadFacts, ShiftList
  <2> QED  BY <2>1 DEF ListShifted
<1>4. /\ \A x : x \in Items(Tail(w[q])) <=> x \in Items(w[q]) /\ x # w[q][1]
      /\ Tail(w[q]) \in Seq(Pcbs)
  BY <1>2, TailItems, TailFacts
<1>5. /\ w2 \in [WaitQueues -> Seq(Pcbs)] /\ w2[q] = Tail(w[q])
      /\ \A p \in WaitQueues : p # q => w2[p] = w[p]
  BY <1>2, <1>4, ExceptFacts
<1>6. m2.head["ready"] = m.head["ready"] /\ m2.head["free"] = m.head["free"]
  BY <1>3, HeadFacts
<1>7. \A x \in Items(r) : x \notin Items(w[q])
  BY <1>1
<1>8. IsRing(m2, "ready", r)
  <2>1. \A x \in Items(r) : m2.next[x] = m.next[x] /\ m2.previous[x] = m.previous[x]
    <3>1. ASSUME NEW x \in Items(r) PROVE x \in Pcbs /\ x \notin Items(w[q])
      BY <1>2, <1>7, <3>1
    <3> QED  BY <1>3, <3>1
  <2>2. IsRing(m, "ready", r) /\ m2.head["ready"] = m.head["ready"]
    BY <1>1, <1>6
  <2> QED  BY <2>1, <2>2, RingFrame
<1>9. IsRing(m2, "free", f)
  <2>1. \A x \in Items(f) : m2.next[x] = m.next[x] /\ m2.previous[x] = m.previous[x]
    BY <1>1, <1>2, <1>3
  <2> QED  BY <1>1, <1>6, <2>1, RingFrame
<1>10. ASSUME NEW p \in WaitQueues PROVE IsList(m2, p, w2[p])
  <2>1. CASE p = q
    BY <1>3, <1>5, <2>1
  <2>2. CASE p # q
    <3>1. ASSUME NEW x \in Items(w[p]) PROVE StaysInList(m, m2, x)
      <4>1. m2.next[x] = m.next[x] /\ m2.previous[x] = m.previous[x]
        BY <1>1, <1>2, <1>3, <1>10, <2>2, <3>1
      <4> QED  BY <1>6, <4>1 DEF StaysInList
    <3>2. m2.head[p] = m.head[p]
      BY <1>3, <1>10, <2>2, HeadFacts
    <3>3. IsList(m2, p, w[p])
      BY <1>1, <1>10, <3>1, <3>2, ListFrame
    <3> QED  BY <1>5, <1>10, <2>2, <3>3
  <2> QED  BY SMT, <2>1, <2>2
<1>11. \A p \in WaitQueues : \A x : x \in Items(w2[p]) => x \in Items(w[p]) /\ x # w[q][1]
  <2>1. ASSUME NEW p \in WaitQueues, NEW x, x \in Items(w2[p])
        PROVE  x \in Items(w[p]) /\ x # w[q][1]
    <3>1. CASE p = q
      BY <1>4, <1>5, <2>1, <3>1
    <3>2. CASE p # q
      BY <1>1, <1>2, <1>5, <2>1, <3>2
    <3> QED  BY SMT, <3>1, <3>2
  <2> QED  BY <2>1
<1>12. ASSUME NEW p \in WaitQueues, NEW t \in Items(w2[p])
       PROVE  /\ t \notin Items(f)
              /\ t \in Items(r) => t = m2.head["ready"]
              /\ \A p2 \in WaitQueues : t \in Items(w2[p2]) => p2 = p
  BY <1>1, <1>6, <1>11, <1>12
<1>13. Linked(m2, r, f, w2)
  BY <1>1, <1>5, <1>8, <1>9, <1>10, <1>12 DEF Linked
<1>14. Outside(w[q][1], r, f, w2)
  <2>1. w[q][1] \notin Items(r) /\ w[q][1] \notin Items(f)
    BY <1>1, <1>2, <1>7
  <2> QED  BY <1>11, <2>1 DEF Outside
<1> QED  BY <1>3, <1>13, <1>14 DEF WaitShifted

WaitJoined(m, m2, r, f, w, w2, q) ==
    /\ m2 \in MemType /\ Linked(m2, r, f, w2)
    /\ \A x \in Pcbs : x \notin Items(w[q]) => m2.next[x] = m.next[x]

\* block() puts the running task at the end of a wait queue.
LEMMA JoinWait ==
    ASSUME Induction, Fits,
           NEW m \in MemType, NEW r, NEW f, NEW w, Linked(m, r, f, w), r # <<>>,
           \A p \in WaitQueues : r[1] \notin Items(w[p]),
           NEW q \in WaitQueues, NEW m2, m2 = Blocked(m, q, r[1]),
           NEW w2, w2 = [w EXCEPT ![q] = Append(w[q], r[1])]
    PROVE  WaitJoined(m, m2, r, f, w, w2, q)
<1>1. /\ IsRing(m, "ready", r) /\ IsRing(m, "free", f)
      /\ \A p \in WaitQueues : IsList(m, p, w[p])
      /\ \A t \in Pcbs : t \in Items(r) => t \notin Items(f)
      /\ \A p \in WaitQueues : \A t \in Items(w[p]) :
           /\ t \notin Items(f)
           /\ t \in Items(r) => t = m.head["ready"]
           /\ \A p2 \in WaitQueues : t \in Items(w[p2]) => p2 = p
  BY DEF Linked
<1>2. /\ w \in [WaitQueues -> Seq(Pcbs)] /\ w[q] \in Seq(Pcbs) /\ Distinct(w[q])
      /\ m.head["ready"] = r[1] /\ r[1] \in Pcbs /\ r[1] \in Items(r)
      /\ Items(r) \subseteq Pcbs /\ Items(f) \subseteq Pcbs
      /\ \A p \in WaitQueues : Items(w[p]) \subseteq Pcbs
  BY LinkedFacts
<1>3. /\ m2 \in MemType /\ IsList(m2, q, Append(w[q], r[1]))
      /\ m2.previous = m.previous
      /\ \A x \in Pcbs : x \notin Items(w[q]) => m2.next[x] = m.next[x]
      /\ \A j \in Heads : j # q => m2.head[j] = m.head[j]
  <2>1. Len(w[q]) <= NPcbs
    BY <1>2 DEF Fits
  <2>2. ListJoined(m, m2, q, w[q], r[1])
    <3>1. q \in Heads /\ q # "ready" /\ "ready" \in Heads
      BY HeadFacts
    <3>2. IsList(m, q, w[q]) /\ r[1] \in Pcbs /\ r[1] = m.head["ready"]
      BY <1>1, <1>2
    <3>3. r[1] \notin Items(w[q])
      BY SMT
    <3> QED  BY <2>1, <3>1, <3>2, <3>3, BlockList
  <2> QED  BY <2>2 DEF ListJoined
<1>4. /\ \A x : x \in Items(Append(w[q], r[1])) <=> x \in Items(w[q]) \/ x = r[1]
      /\ Append(w[q], r[1]) \in Seq(Pcbs)
  BY <1>2, AppendItems, AppendFacts
<1>5. /\ w2 \in [WaitQueues -> Seq(Pcbs)] /\ w2[q] = Append(w[q], r[1])
      /\ \A p \in WaitQueues : p # q => w2[p] = w[p]
  BY <1>2, <1>4, ExceptFacts
<1>6. m2.head["ready"] = m.head["ready"] /\ m2.head["free"] = m.head["free"]
  BY <1>3, HeadFacts
<1>7. \A x \in Items(r) : x \notin Items(w[q])
  <2>1. r[1] \notin Items(w[q])
    BY SMT
  <2>2. ASSUME NEW x \in Items(r), x \in Items(w[q]) PROVE x = r[1]
    BY <1>1, <1>2, <2>2
  <2> QED  BY <2>1, <2>2
<1>8. IsRing(m2, "ready", r)
  <2>1. \A x \in Items(r) : m2.next[x] = m.next[x] /\ m2.previous[x] = m.previous[x]
    <3>1. ASSUME NEW x \in Items(r) PROVE x \in Pcbs /\ x \notin Items(w[q])
      BY <1>2, <1>7, <3>1
    <3> QED  BY <1>3, <3>1
  <2>2. IsRing(m, "ready", r) /\ m2.head["ready"] = m.head["ready"]
    BY <1>1, <1>6
  <2> QED  BY <2>1, <2>2, RingFrame
<1>9. IsRing(m2, "free", f)
  <2>1. \A x \in Items(f) : m2.next[x] = m.next[x] /\ m2.previous[x] = m.previous[x]
    BY <1>1, <1>2, <1>3
  <2> QED  BY <1>1, <1>6, <2>1, RingFrame
<1>10. ASSUME NEW p \in WaitQueues PROVE IsList(m2, p, w2[p])
  <2>1. CASE p = q
    BY <1>3, <1>5, <2>1
  <2>2. CASE p # q
    <3>1. ASSUME NEW x \in Items(w[p]) PROVE StaysInList(m, m2, x)
      <4>1. m2.next[x] = m.next[x] /\ m2.previous[x] = m.previous[x]
        BY <1>1, <1>2, <1>3, <1>10, <2>2, <3>1
      <4> QED  BY <1>6, <4>1 DEF StaysInList
    <3>2. m2.head[p] = m.head[p]
      BY <1>3, <1>10, <2>2, HeadFacts
    <3>3. IsList(m2, p, w[p])
      BY <1>1, <1>10, <3>1, <3>2, ListFrame
    <3> QED  BY <1>5, <1>10, <2>2, <3>3
  <2> QED  BY SMT, <2>1, <2>2
<1>11. \A p \in WaitQueues : \A x : x \in Items(w2[p]) =>
          x \in Items(w[p]) \/ (x = r[1] /\ p = q)
  <2>1. ASSUME NEW p \in WaitQueues, NEW x, x \in Items(w2[p])
        PROVE  x \in Items(w[p]) \/ (x = r[1] /\ p = q)
    <3>1. CASE p = q
      BY <1>4, <1>5, <2>1, <3>1
    <3>2. CASE p # q
      BY <1>5, <2>1, <3>2
    <3> QED  BY SMT, <3>1, <3>2
  <2> QED  BY <2>1
<1>12. ASSUME NEW p \in WaitQueues, NEW t \in Items(w2[p])
       PROVE  /\ t \notin Items(f)
              /\ t \in Items(r) => t = m2.head["ready"]
              /\ \A p2 \in WaitQueues : t \in Items(w2[p2]) => p2 = p
  <2>1. CASE t \in Items(w[p])
    <3>1. t # r[1]
      BY <1>12, <2>1
    <3> QED  BY <1>1, <1>6, <1>11, <1>12, <2>1, <3>1
  <2>2. CASE t = r[1] /\ p = q
    BY <1>1, <1>2, <1>6, <1>11, <1>12, <2>2
  <2> QED  BY <1>11, <1>12, <2>1, <2>2
<1>13. Linked(m2, r, f, w2)
  BY <1>1, <1>5, <1>8, <1>9, <1>10, <1>12 DEF Linked
<1> QED  BY <1>3, <1>13 DEF WaitJoined

-----------------------------------------------------------------------------
(* Calls of the running task *)

\* The first of a queue stays the first when one more joins.
LEMMA FirstKept ==
    ASSUME NEW s \in Seq(Pcbs), s # <<>>, NEW e \in Pcbs
    PROVE  Append(s, e)[1] = s[1]
  BY SMT

Holds(r, f, w) ==
    SchedulerTypeOK /\ StopsOnlyForResources /\ QueuesAre(r, f, w)

\* What every step may start from.
LEMMA HoldsFacts ==
    ASSUME NEW r, NEW f, NEW w, Holds(r, f, w)
    PROVE  /\ mem \in MemType /\ status \in [Pcbs -> Statuses]
           /\ mode \in {"task", "scheduler", "panic"}
           /\ expired \subseteq Pcbs /\ \A t \in expired : status[t] = "sleeping"
           /\ stacks \in 0 .. MaxStacks /\ newborn \in [Pcbs -> Memory]
           /\ Linked(mem, r, f, w) /\ Waiting(status, w) /\ Runnable(status, mode, r)
           /\ Unused(status, stacks, f) /\ Newborns(mem.next, status, newborn, r, f)
           /\ r # <<>> /\ current_running = r[1] /\ r[1] \in Pcbs /\ r[1] \in Items(r)
           /\ mode = "panic" => stacks = MaxStacks \/ mem.head["free"] = Null
<1>1. /\ mem \in MemType /\ status \in [Pcbs -> Statuses]
      /\ mode \in {"task", "scheduler", "panic"}
      /\ expired \subseteq {t \in Pcbs : status[t] = "sleeping"}
      /\ stacks \in 0 .. MaxStacks /\ newborn \in [Pcbs -> Memory]
      /\ mode = "panic" => stacks = MaxStacks \/ mem.head["free"] = Null
  BY DEF Holds, SchedulerTypeOK, StopsOnlyForResources
<1>2. /\ Linked(mem, r, f, w) /\ Waiting(status, w) /\ Runnable(status, mode, r)
      /\ Unused(status, stacks, f) /\ Newborns(mem.next, status, newborn, r, f)
  BY DEF Holds, QueuesAre
<1>3. r # <<>>
  <2>1. Clock \in Items(r)
    BY <1>2 DEF Runnable
  <2>2. Items(<<>>) = {}
    BY SMT DEF Items
  <2> QED  BY <2>1, <2>2
<1>4. mem.head["ready"] = r[1] /\ r[1] \in Pcbs /\ r[1] \in Items(r)
  BY <1>2, <1>3, LinkedFacts
<1> QED  BY <1>1, <1>2, <1>3, <1>4 DEF current_running

\* What every step has to show.
LEMMA Concludes ==
    ASSUME NEW r, NEW f, NEW w,
           mem' \in MemType, status' \in [Pcbs -> Statuses],
           mode' \in {"task", "scheduler", "panic"},
           expired' \subseteq Pcbs, \A t \in expired' : status'[t] = "sleeping",
           stacks' \in 0 .. MaxStacks, newborn' \in [Pcbs -> Memory],
           Linked(mem', r, f, w), Waiting(status', w), Runnable(status', mode', r),
           Unused(status', stacks', f), Newborns(mem'.next, status', newborn', r, f),
           mode' = "panic" => stacks' = MaxStacks \/ mem'.head["free"] = Null
    PROVE  Holds(r, f, w)'
<1>1. r # <<>>
  <2>1. Clock \in Items(r)
    BY DEF Runnable
  <2>2. Items(<<>>) = {}
    BY SMT DEF Items
  <2> QED  BY <2>1, <2>2
<1>2. mem'.head["ready"] = r[1] /\ r[1] # Null
  BY <1>1, LinkedFacts
<1>3. mode' = "task" => mem'.head["ready"] # Null /\ status'[mem'.head["ready"]] = "ready"
  BY <1>2 DEF Runnable
<1>4. expired' \subseteq {t \in Pcbs : status'[t] = "sleeping"}
  OBVIOUS
<1>5. SchedulerTypeOK'
  BY <1>3, <1>4 DEF SchedulerTypeOK, current_running
<1> QED  BY <1>5 DEF Holds, QueuesAre, StopsOnlyForResources

\* One PCB changes its status.
LEMMA StatusFacts ==
    ASSUME NEW st \in [Pcbs -> Statuses], NEW t \in Pcbs, NEW s \in Statuses
    PROVE  /\ [st EXCEPT ![t] = s] \in [Pcbs -> Statuses]
           /\ [st EXCEPT ![t] = s][t] = s
           /\ \A u \in Pcbs : u # t => [st EXCEPT ![t] = s][u] = st[u]
  OBVIOUS

\* yield(): only the mode changes.
LEMMA YieldStep ==
    ASSUME NEW r, NEW f, NEW w, Holds(r, f, w), yield
    PROVE  Holds(r, f, w)'
<1>1. mode' = "scheduler" /\ UNCHANGED <<mem, status, expired, stacks, newborn>>
  BY DEF yield
<1>2. /\ mem' = mem /\ status' = status /\ expired' = expired /\ stacks' = stacks
      /\ newborn' = newborn
  BY <1>1
<1>3. Runnable(status', mode', r)
  <2>1. Runnable(status, mode, r) /\ mode = "task"
    BY HoldsFacts DEF yield, Running
  <2> QED  BY <1>1, <1>2, <2>1 DEF Runnable
<1>4. /\ mem \in MemType /\ status \in [Pcbs -> Statuses]
      /\ expired \subseteq Pcbs /\ \A t \in expired : status[t] = "sleeping"
      /\ stacks \in 0 .. MaxStacks /\ newborn \in [Pcbs -> Memory]
      /\ Linked(mem, r, f, w) /\ Waiting(status, w)
      /\ Unused(status, stacks, f) /\ Newborns(mem.next, status, newborn, r, f)
  BY HoldsFacts
<1> QED  BY <1>1, <1>2, <1>3, <1>4, Concludes

\* The invariant holds when the first thread is dispatched.
LEMMA BootHolds ==
    ASSUME SchedulerInit
    PROVE  Holds(BootRing, BootFree, NoWaits)
<1>1. /\ NPcbs \in Nat /\ Boot \in 1 .. NPcbs /\ Clock \in 1 .. Boot
      /\ MaxStacks \in Nat /\ MaxStacks >= Boot
  BY SMT, SchedulerAssumption DEF Pcbs
<1>2. /\ status = [p \in Pcbs |-> IF p = 1 THEN "ready" ELSE "first"] /\ mode = "task"
      /\ expired = {} /\ stacks = Boot /\ newborn = [p \in Pcbs |-> Null]
  BY SMT DEF SchedulerInit
<1>3. 1 \in Pcbs /\ 1 \in Items(BootRing) /\ Clock \in Items(BootRing) /\ 1 # Null
  BY SMT, <1>1, BootFacts DEF Pcbs, Null
<1>4. mem \in MemType /\ current_running = 1
  BY BootMemory DEF current_running
<1>5. SchedulerTypeOK
  <2>1. status \in [Pcbs -> Statuses] /\ status[1] = "ready"
    BY <1>2, <1>3 DEF Statuses
  <2>2. newborn \in [Pcbs -> Memory]
    BY <1>2 DEF Memory
  <2>3. stacks \in 0 .. MaxStacks
    BY SMT, <1>1, <1>2
  <2>4. expired \subseteq {t \in Pcbs : status[t] = "sleeping"}
    BY <1>2
  <2> QED  BY <1>2, <1>3, <1>4, <2>1, <2>2, <2>3, <2>4 DEF SchedulerTypeOK
<1>6. Waiting(status, NoWaits)
  BY <1>2, BootWaits DEF Waiting
<1>7. Runnable(status, mode, BootRing)
  <2>1. BootRing[1] = 1 /\ Items(BootRing) \subseteq Pcbs
    BY SMT, <1>1, BootFacts DEF Pcbs
  <2>2. \A t \in Pcbs : status[t] \in {"first", "ready"}
    BY <1>2
  <2>3. status[1] = "ready"
    BY <1>2, <1>3
  <2> QED  BY <1>2, <1>3, <2>1, <2>2, <2>3 DEF Runnable
<1>8. Unused(status, stacks, BootFree)
  <2>1. \A t \in Items(BootFree) : status[t] = "first"
    <3>1. \A t \in Items(BootFree) : t \in Pcbs /\ t # 1
      BY SMT, <1>1, BootFacts DEF Pcbs
    <3> QED  BY <1>2, <3>1
  <2>2. \A i \in 1 .. Len(BootFree) : BootFree[i] \in Items(BootFree)
    BY DEF Items
  <2>3. Len(BootFree) >= NPcbs - stacks
    BY SMT, <1>1, <1>2, BootFacts
  <2> QED  BY <2>1, <2>2, <2>3 DEF Unused
<1>9. Newborns(mem.next, status, newborn, BootRing, BootFree)
  BY <1>2 DEF Newborns
<1>10. StopsOnlyForResources
  BY <1>2 DEF StopsOnlyForResources
<1> QED  BY <1>5, <1>6, <1>7, <1>8, <1>9, <1>10, BootLinked DEF Holds, QueuesAre

\* A status that changes elsewhere leaves these alone.
LEMMA UnusedKept ==
    ASSUME NEW st, NEW st2, NEW k, NEW f, Unused(st, k, f),
           \A t \in Items(f) : st2[t] = st[t]
    PROVE  Unused(st2, k, f)
<1>1. \A i \in 1 .. Len(f) : f[i] \in Items(f)
  BY DEF Items
<1> QED  BY <1>1 DEF Unused

\* The wait queues still hold the blocked tasks when a task that is not blocked
\* becomes something else, but not blocked.
LEMMA WaitingKept ==
    ASSUME NEW st \in [Pcbs -> Statuses], NEW w, Waiting(st, w),
           NEW t \in Pcbs, NEW s \in Statuses, st[t] # "blocked", s # "blocked"
    PROVE  Waiting([st EXCEPT ![t] = s], w)
<1>1. /\ [st EXCEPT ![t] = s][t] = s
      /\ \A u \in Pcbs : u # t => [st EXCEPT ![t] = s][u] = st[u]
  BY StatusFacts
<1> QED  BY <1>1 DEF Waiting

Left(r, f, st, s) ==
    /\ st \in [Pcbs -> Statuses] /\ status[r[1]] = "ready" /\ st[r[1]] = s
    /\ \A u \in Pcbs : u # r[1] => st[u] = status[u]
    /\ \A t \in expired : t \in Pcbs /\ st[t] = "sleeping"
    /\ Runnable(st, "scheduler", r) /\ Unused(st, stacks, f)
    /\ Newborns(mem.next, st, newborn, r, f)

\* The running task changes its status and calls scheduler().
LEMMA LeaveFacts ==
    ASSUME NEW r, NEW f, NEW w, Holds(r, f, w), Running, r[1] # Clock,
           NEW s \in Statuses, NEW st, st = [status EXCEPT ![r[1]] = s]
    PROVE  Left(r, f, st, s)
<1>1. /\ status \in [Pcbs -> Statuses] /\ mode = "task"
      /\ expired \subseteq Pcbs /\ \A t \in expired : status[t] = "sleeping"
      /\ newborn \in [Pcbs -> Memory]
      /\ Linked(mem, r, f, w) /\ Waiting(status, w) /\ Runnable(status, mode, r)
      /\ Unused(status, stacks, f) /\ Newborns(mem.next, status, newborn, r, f)
      /\ r[1] \in Pcbs /\ r[1] \in Items(r)
  BY HoldsFacts DEF Running
<1>2. status[r[1]] = "ready"
  BY <1>1 DEF Runnable
<1>3. /\ st \in [Pcbs -> Statuses] /\ st[r[1]] = s
      /\ \A u \in Pcbs : u # r[1] => st[u] = status[u]
  BY <1>1, StatusFacts
<1>4. \A t \in expired : t \in Pcbs /\ st[t] = "sleeping"
  BY <1>1, <1>2, <1>3
<1>5. Items(r) \subseteq Pcbs /\ Items(f) \subseteq Pcbs /\ r[1] \notin Items(f)
  <2>1. Items(r) \subseteq Pcbs /\ Items(f) \subseteq Pcbs
    BY <1>1, LinkedFacts
  <2> QED  BY <1>1, <2>1 DEF Linked
<1>6. Runnable(st, "scheduler", r)
  BY <1>1, <1>3, <1>5 DEF Runnable
<1>7. Unused(st, stacks, f)
  BY <1>1, <1>3, <1>5, UnusedKept
<1>8. Newborns(mem.next, st, newborn, r, f)
  <2>1. ASSUME NEW t \in Pcbs, newborn[t] # Null
        PROVE  newborn[t] \in Pcbs /\ newborn[t] # r[1]
    <3>1. newborn[t] \in Pcbs
      BY <1>1, <2>1 DEF Memory
    <3>2. newborn[t] \notin Items(r)
      BY <1>1, <2>1 DEF Newborns
    <3> QED  BY <1>1, <3>1, <3>2
  <2> QED  BY <1>1, <1>3, <2>1 DEF Newborns
<1> QED  BY <1>2, <1>3, <1>4, <1>6, <1>7, <1>8 DEF Left

\* msleep() and exit(): the task stays at the head of the ready queue.
LEMMA LeaveStep ==
    ASSUME NEW r, NEW f, NEW w, Holds(r, f, w), Running, current_running # Clock,
           NEW s \in {"sleeping", "exited"},
           status' = [status EXCEPT ![current_running] = s], mode' = "scheduler",
           UNCHANGED <<mem, expired, stacks, newborn>>
    PROVE  Holds(r, f, w)'
<1>1. /\ mem \in MemType /\ status \in [Pcbs -> Statuses]
      /\ stacks \in 0 .. MaxStacks /\ newborn \in [Pcbs -> Memory]
      /\ Linked(mem, r, f, w) /\ Waiting(status, w)
      /\ r[1] \in Pcbs /\ current_running = r[1]
  BY HoldsFacts
<1>2. mem' = mem /\ expired' = expired /\ stacks' = stacks /\ newborn' = newborn
  OBVIOUS
<1>3. s \in Statuses /\ s # "blocked"
  BY DEF Statuses
<1>4. status' = [status EXCEPT ![r[1]] = s] /\ r[1] # Clock
  BY <1>1
<1>5. /\ status' \in [Pcbs -> Statuses] /\ status[r[1]] = "ready"
      /\ \A t \in expired : t \in Pcbs /\ status'[t] = "sleeping"
      /\ Runnable(status', "scheduler", r) /\ Unused(status', stacks, f)
      /\ Newborns(mem.next, status', newborn, r, f)
  <2>1. Left(r, f, status', s)
    BY <1>3, <1>4, LeaveFacts
  <2> QED  BY <2>1 DEF Left
<1>6. Waiting(status', w)
  <2>1. status[r[1]] # "blocked"
    BY <1>5
  <2>2. Waiting([status EXCEPT ![r[1]] = s], w)
    BY <1>1, <1>3, <2>1, WaitingKept
  <2> QED  BY <1>4, <2>2
<1>7. expired' \subseteq Pcbs /\ \A t \in expired' : status'[t] = "sleeping"
  BY <1>2, <1>5
<1> QED  BY <1>1, <1>2, <1>5, <1>6, <1>7, Concludes

\* block(): it also joins the wait queue.
LEMMA BlockStep ==
    ASSUME Induction, Fits, NEW r, NEW f, NEW w, Holds(r, f, w),
           NEW q \in WaitQueues, block(q)
    PROVE  /\ Holds(r, f, [w EXCEPT ![q] = Append(w[q], r[1])])'
           /\ mode = "task" /\ status' = [status EXCEPT ![r[1]] = "blocked"]
<1> DEFINE w2 == [w EXCEPT ![q] = Append(w[q], r[1])]
<1>1. /\ mem \in MemType /\ status \in [Pcbs -> Statuses]
      /\ stacks \in 0 .. MaxStacks /\ newborn \in [Pcbs -> Memory]
      /\ Linked(mem, r, f, w) /\ Waiting(status, w) /\ r # <<>>
      /\ Newborns(mem.next, status, newborn, r, f)
      /\ r[1] \in Pcbs /\ current_running = r[1]
  BY HoldsFacts
<1>2. /\ expired' = expired /\ stacks' = stacks /\ newborn' = newborn
      /\ mode' = "scheduler" /\ Running /\ r[1] # Clock
      /\ status' = [status EXCEPT ![r[1]] = "blocked"]
      /\ mem' = Blocked(mem, q, r[1])
  BY <1>1 DEF block, Blocked
<1>3. "blocked" \in Statuses
  BY DEF Statuses
<1>4. /\ status' \in [Pcbs -> Statuses] /\ status[r[1]] = "ready"
      /\ status'[r[1]] = "blocked"
      /\ \A u \in Pcbs : u # r[1] => status'[u] = status[u]
      /\ \A t \in expired : t \in Pcbs /\ status'[t] = "sleeping"
      /\ Runnable(status', "scheduler", r) /\ Unused(status', stacks, f)
      /\ Newborns(mem.next, status', newborn, r, f)
  <2>1. Left(r, f, status', "blocked")
    BY <1>2, <1>3, LeaveFacts
  <2> QED  BY <2>1 DEF Left
<1>5. \A p \in WaitQueues : r[1] \notin Items(w[p])
  <2>1. status[r[1]] # "blocked"
    BY <1>4
  <2> QED  BY <1>1, <2>1 DEF Waiting
<1>6. /\ mem' \in MemType /\ Linked(mem', r, f, w2)
      /\ \A x \in Pcbs : x \notin Items(w[q]) => mem'.next[x] = mem.next[x]
  <2>1. WaitJoined(mem, mem', r, f, w, w2, q)
    BY <1>1, <1>2, <1>5, JoinWait
  <2> QED  BY <2>1 DEF WaitJoined
<1>7. Waiting(status', w2)
  <2>1. /\ w \in [WaitQueues -> Seq(Pcbs)] /\ w[q] \in Seq(Pcbs)
        /\ Append(w[q], r[1]) \in Seq(Pcbs)
        /\ \A x : x \in Items(Append(w[q], r[1])) <=> x \in Items(w[q]) \/ x = r[1]
    <3>1. w \in [WaitQueues -> Seq(Pcbs)] /\ w[q] \in Seq(Pcbs)
      BY <1>1, LinkedFacts
    <3> QED  BY <1>1, <3>1, AppendFacts, AppendItems
  <2>2. w2[q] = Append(w[q], r[1]) /\ \A p \in WaitQueues : p # q => w2[p] = w[p]
    BY <2>1, ExceptFacts
  <2> HIDE DEF w2
  <2>3. ASSUME NEW t \in Pcbs
        PROVE  status'[t] = "blocked" <=> \E p \in WaitQueues : t \in Items(w2[p])
    <3>1. CASE t = r[1]
      BY <1>4, <2>1, <2>2, <3>1
    <3>2. CASE t # r[1]
      <4>1. status[t] = "blocked" <=> \E p \in WaitQueues : t \in Items(w[p])
        BY <1>1 DEF Waiting
      <4>2. \A p \in WaitQueues : t \in Items(w2[p]) <=> t \in Items(w[p])
        BY <2>1, <2>2, <3>2
      <4> QED  BY <1>4, <3>2, <4>1, <4>2
    <3> QED  BY SMT, <3>1, <3>2
  <2> QED  BY <2>3 DEF Waiting
<1>8. Newborns(mem'.next, status', newborn, r, f)
  <2>1. ASSUME NEW t \in Pcbs, newborn[t] # Null
        PROVE  mem'.next[newborn[t]] = mem.next[newborn[t]]
    <3>1. newborn[t] \in Pcbs /\ status[newborn[t]] # "blocked"
      BY <1>1, <2>1 DEF Newborns, Memory
    <3>2. newborn[t] \notin Items(w[q])
      BY <1>1, <3>1 DEF Waiting
    <3> QED  BY <1>6, <3>1, <3>2
  <2> QED  BY <1>4, <2>1 DEF Newborns
<1>9. expired' \subseteq Pcbs /\ \A t \in expired' : status'[t] = "sleeping"
  BY <1>2, <1>4
<1> HIDE DEF w2
<1>10. Holds(r, f, w2)'
  BY <1>1, <1>2, <1>4, <1>6, <1>7, <1>8, <1>9, Concludes
<1> QED  BY <1>2, <1>10 DEF w2, Running

\* A task that can run joins the ready queue while another one runs.
LEMMA RunnableMore ==
    ASSUME NEW st, NEW st2, NEW r \in Seq(Pcbs), r # <<>>, NEW p \in Pcbs, p \notin Items(r),
           Runnable(st, "task", r), st2[p] \in {"first", "ready"},
           \A t \in Items(r) : st2[t] = st[t]
    PROVE  Runnable(st2, "task", Append(r, p))
<1>1. \A x : x \in Items(Append(r, p)) <=> x \in Items(r) \/ x = p
  BY AppendItems
<1>2. Append(r, p)[1] = r[1]
  BY SMT
<1>3. r[1] \in Items(r)
  BY FirstItem
<1>4. \A t \in Items(Append(r, p)) : st2[t] \notin {"blocked", "exited"}
  <2>1. \A t \in Items(r) : st2[t] \notin {"blocked", "exited"}
    BY DEF Runnable
  <2>2. st2[p] \notin {"blocked", "exited"}
    OBVIOUS
  <2> QED  BY <1>1, <2>1, <2>2
<1>5. Clock \in Items(Append(r, p)) /\ st2[Clock] \in {"first", "ready"}
  BY <1>1 DEF Runnable
<1>6. st2[Append(r, p)[1]] = "ready"
  BY <1>2, <1>3 DEF Runnable
<1> QED  BY <1>4, <1>5, <1>6 DEF Runnable

\* unblock().
LEMMA UnblockStep ==
    ASSUME NEW r, NEW f, NEW w, Holds(r, f, w), NEW q \in WaitQueues, unblock(q)
    PROVE  /\ Holds(Append(r, w[q][1]), f, [w EXCEPT ![q] = Tail(w[q])])'
           /\ w[q] # <<>> /\ mode = "task" /\ status'[r[1]] = "ready"
<1> DEFINE w2 == [w EXCEPT ![q] = Tail(w[q])]
           p == w[q][1]
           m == queue_shift(mem, q)
<1>1. /\ mem \in MemType /\ status \in [Pcbs -> Statuses]
      /\ expired \subseteq Pcbs /\ \A t \in expired : status[t] = "sleeping"
      /\ stacks \in 0 .. MaxStacks /\ newborn \in [Pcbs -> Memory]
      /\ Linked(mem, r, f, w) /\ Waiting(status, w) /\ Runnable(status, mode, r)
      /\ Unused(status, stacks, f) /\ Newborns(mem.next, status, newborn, r, f)
      /\ r # <<>> /\ current_running = r[1] /\ r[1] \in Pcbs /\ r[1] \in Items(r)
  BY HoldsFacts
<1>2. /\ mode = "task" /\ mem.head[q] # Null
      /\ mem' = queue_insert(m, "ready", mem.head[q])
      /\ mode' = Asserts(m, mem.head[q], "task")
      /\ status' = [status EXCEPT ![mem.head[q]] = "ready"]
      /\ expired' = expired /\ stacks' = stacks /\ newborn' = newborn
  BY DEF unblock, Running
<1>3. /\ w[q] # <<>> /\ mem.head[q] = p /\ p \in Items(w[q]) /\ p \in Pcbs
      /\ w \in [WaitQueues -> Seq(Pcbs)] /\ w[q] \in Seq(Pcbs) /\ Distinct(w[q])
      /\ r \in Seq(Pcbs) /\ Items(r) \subseteq Pcbs /\ Items(f) \subseteq Pcbs
  <2>1. /\ w[q] # <<>> =>
              mem.head[q] = w[q][1] /\ w[q][1] \in Items(w[q]) /\ w[q][1] \in Pcbs
        /\ w[q] = <<>> => mem.head[q] = Null
    <3>1. IsQueue(mem, q, w[q])
      BY <1>1 DEF Linked, IsList
    <3>2. /\ w[q] \in Seq(Pcbs) /\ (w[q] # <<>> => mem.head[q] = w[q][1])
          /\ (w[q] = <<>> => mem.head[q] = Null)
      BY <3>1 DEF IsQueue
    <3> QED  BY <3>2, FirstItem
  <2>2. /\ w \in [WaitQueues -> Seq(Pcbs)] /\ w[q] \in Seq(Pcbs) /\ Distinct(w[q])
        /\ r \in Seq(Pcbs) /\ Items(r) \subseteq Pcbs /\ Items(f) \subseteq Pcbs
    BY <1>1, LinkedFacts
  <2> QED  BY <1>2, <2>1, <2>2
<1>4. status[r[1]] = "ready" /\ Runnable(status, "task", r)
  BY <1>1, <1>2 DEF Runnable
<1>5. mem.head["ready"] \notin Items(w[q])
  <2>1. status[r[1]] # "blocked" /\ mem.head["ready"] = r[1]
    BY <1>1, <1>4 DEF current_running
  <2> QED  BY <1>1, <2>1 DEF Waiting
<1>6. /\ m \in MemType /\ Linked(m, r, f, w2) /\ Outside(p, r, f, w2) /\ m.next[p] = Null
      /\ \A x \in Pcbs : x \notin Items(w[q]) => m.next[x] = mem.next[x]
  <2>1. WaitShifted(mem, m, r, f, w, w2, q)
    BY <1>1, <1>3, <1>5, ShiftWait
  <2> QED  BY <2>1 DEF WaitShifted
<1>7. /\ mem' \in MemType /\ Linked(mem', Append(r, p), f, w2)
      /\ \A x \in Pcbs : x \notin Items(r) /\ x # p => mem'.next[x] = m.next[x]
  <2>1. mem' = queue_insert(m, "ready", p)
    BY <1>2, <1>3
  <2> HIDE DEF m, p, w2
  <2>2. ReadyInserted(m, mem', r, f, w2, p)
    BY <1>1, <1>3, <1>6, <2>1, InsertReady
  <2> QED  BY <2>2 DEF ReadyInserted
<1>8. mode' = "task"
  BY <1>2, <1>3, <1>6 DEF Asserts
<1>9. /\ p \notin Items(r) /\ p \notin Items(f)
      /\ \A k \in WaitQueues : p \notin Items(w2[k])
  BY <1>6 DEF Outside
<1>10. /\ w2[q] = Tail(w[q]) /\ \A k \in WaitQueues : k # q => w2[k] = w[k]
       /\ \A x : x \in Items(Tail(w[q])) <=> x \in Items(w[q]) /\ x # p
  <2>1. Tail(w[q]) \in Seq(Pcbs)
    BY <1>3, TailFacts
  <2>2. \A x : x \in Items(Tail(w[q])) <=> x \in Items(w[q]) /\ x # p
    BY <1>3, TailItems
  <2> QED  BY <1>3, <2>1, <2>2, ExceptFacts
<1> HIDE DEF w2, p, m
<1>11. /\ status' \in [Pcbs -> Statuses] /\ status'[p] = "ready"
       /\ \A u \in Pcbs : u # p => status'[u] = status[u]
  <2>1. status' = [status EXCEPT ![p] = "ready"] /\ "ready" \in Statuses
    BY <1>2, <1>3 DEF Statuses
  <2>2. /\ [status EXCEPT ![p] = "ready"] \in [Pcbs -> Statuses]
        /\ [status EXCEPT ![p] = "ready"][p] = "ready"
        /\ \A u \in Pcbs : u # p => [status EXCEPT ![p] = "ready"][u] = status[u]
    <3>1. status \in [Pcbs -> Statuses] /\ p \in Pcbs
      BY <1>1, <1>3
    <3> QED  BY <2>1, <3>1, StatusFacts
  <2> QED  BY <2>1, <2>2
<1>12. status[p] = "blocked"
  BY <1>1, <1>3 DEF Waiting
<1>13. Waiting(status', w2)
  <2>1. ASSUME NEW t \in Pcbs
        PROVE  status'[t] = "blocked" <=> \E k \in WaitQueues : t \in Items(w2[k])
    <3>1. CASE t = p
      BY <1>9, <1>11, <3>1
    <3>2. CASE t # p
      <4>1. status[t] = "blocked" <=> \E k \in WaitQueues : t \in Items(w[k])
        BY <1>1 DEF Waiting
      <4>2. \A k \in WaitQueues : t \in Items(w2[k]) <=> t \in Items(w[k])
        BY <1>10, <3>2
      <4> QED  BY <1>11, <3>2, <4>1, <4>2
    <3> QED  BY SMT, <3>1, <3>2
  <2> QED  BY <2>1 DEF Waiting
<1>14. Runnable(status', mode', Append(r, p))
  <2>1. \A t \in Items(r) : status'[t] = status[t]
    BY <1>3, <1>9, <1>11
  <2>2. status'[p] \in {"first", "ready"}
    BY <1>11
  <2>3. Runnable(status', "task", Append(r, p))
    BY <1>1, <1>3, <1>4, <1>9, <2>1, <2>2, RunnableMore
  <2> QED  BY <1>8, <2>3
<1>15. Unused(status', stacks', f)
  <2>1. \A t \in Items(f) : status'[t] = status[t]
    BY <1>3, <1>9, <1>11
  <2> QED  BY <1>1, <1>2, <2>1, UnusedKept
<1>16. Newborns(mem'.next, status', newborn', Append(r, p), f)
  <2>1. ASSUME NEW t \in Pcbs, newborn[t] # Null
        PROVE  /\ newborn[t] \notin Items(Append(r, p)) /\ newborn[t] \notin Items(f)
               /\ status'[newborn[t]] = "first" /\ mem'.next[newborn[t]] = Null
               /\ \A u \in Pcbs : newborn[u] # Null => u = t
    <3>1. newborn[t] \in Pcbs
      BY <1>1, <2>1 DEF Memory
    <3>2. /\ newborn[t] \notin Items(r) /\ newborn[t] \notin Items(f)
          /\ status[newborn[t]] = "first" /\ mem.next[newborn[t]] = Null
          /\ \A u \in Pcbs : newborn[u] # Null => u = t
      BY <1>1, <2>1 DEF Newborns
    <3>3. newborn[t] # p
      BY <1>12, <3>2
    <3>4. newborn[t] \notin Items(w[q])
      <4>1. status[newborn[t]] # "blocked"
        BY <3>2
      <4> QED  BY <1>1, <3>1, <4>1 DEF Waiting
    <3>5. mem'.next[newborn[t]] = Null
      BY <1>6, <1>7, <3>1, <3>2, <3>3, <3>4
    <3>6. newborn[t] \notin Items(Append(r, p))
      <4>1. \A x : x \in Items(Append(r, p)) <=> x \in Items(r) \/ x = p
        BY <1>3, AppendItems
      <4> QED  BY <3>2, <3>3, <4>1
    <3> QED  BY <1>11, <3>1, <3>2, <3>3, <3>5, <3>6
  <2> QED  BY <1>2, <2>1 DEF Newborns
<1>17. expired' \subseteq Pcbs /\ \A t \in expired' : status'[t] = "sleeping"
  BY <1>1, <1>2, <1>11, <1>12
<1>18. /\ stacks' \in 0 .. MaxStacks /\ newborn' \in [Pcbs -> Memory]
       /\ mode' \in {"task", "scheduler", "panic"} /\ mode' # "panic"
  BY <1>1, <1>2, <1>8
<1>19. Holds(Append(r, p), f, w2)'
  BY <1>7, <1>11, <1>13, <1>14, <1>15, <1>16, <1>17, <1>18, Concludes
<1>20. status'[r[1]] = "ready"
  BY <1>1, <1>4, <1>9, <1>11
<1> QED  BY <1>2, <1>3, <1>19, <1>20 DEF w2, p

\* The end of create_thread() and create_process().
LEMMA InsertStep ==
    ASSUME NEW r, NEW f, NEW w, Holds(r, f, w), InsertNewborn,
           NEW p, p = newborn[r[1]]
    PROVE  /\ Holds(Append(r, p), f, w)'
           /\ mode = "task" /\ p \in Pcbs /\ Outside(p, r, f, w)
<1>1. /\ mem \in MemType /\ status \in [Pcbs -> Statuses]
      /\ expired \subseteq Pcbs /\ \A t \in expired : status[t] = "sleeping"
      /\ stacks \in 0 .. MaxStacks /\ newborn \in [Pcbs -> Memory]
      /\ Linked(mem, r, f, w) /\ Waiting(status, w) /\ Runnable(status, mode, r)
      /\ Unused(status, stacks, f) /\ Newborns(mem.next, status, newborn, r, f)
      /\ r # <<>> /\ current_running = r[1] /\ r[1] \in Pcbs /\ r[1] \in Items(r)
  BY HoldsFacts
<1>2. /\ mode = "task" /\ p # Null
      /\ mem' = queue_insert(mem, "ready", p)
      /\ mode' = Asserts(mem, p, "task")
      /\ newborn' = [newborn EXCEPT ![r[1]] = Null]
      /\ status' = status /\ expired' = expired /\ stacks' = stacks
  BY <1>1 DEF InsertNewborn, Running
<1>3. p \in Pcbs
  BY <1>1, <1>2 DEF Memory
<1>4. /\ p \notin Items(r) /\ p \notin Items(f)
      /\ status[p] = "first" /\ mem.next[p] = Null
      /\ \A u \in Pcbs : newborn[u] # Null => u = r[1]
  BY <1>1, <1>2 DEF Newborns
<1>5. Outside(p, r, f, w)
  <2>1. status[p] # "blocked"
    BY <1>4
  <2> QED  BY <1>1, <1>3, <1>4, <2>1 DEF Waiting, Outside
<1>6. mem' \in MemType /\ Linked(mem', Append(r, p), f, w)
  <2>1. ReadyInserted(mem, mem', r, f, w, p)
    BY <1>1, <1>2, <1>3, <1>5, InsertReady
  <2> QED  BY <2>1 DEF ReadyInserted
<1>7. mode' = "task"
  BY <1>2, <1>4 DEF Asserts
<1>8. Runnable(status', mode', Append(r, p))
  <2>1. r \in Seq(Pcbs)
    BY <1>1, LinkedFacts
  <2>2. status[p] \in {"first", "ready"} /\ Runnable(status, "task", r)
    BY <1>1, <1>2, <1>4
  <2>3. Runnable(status, "task", Append(r, p))
    BY <1>1, <1>3, <1>4, <2>1, <2>2, RunnableMore
  <2> QED  BY <1>2, <1>7, <2>3
<1>9. newborn' \in [Pcbs -> Memory] /\ \A t \in Pcbs : newborn'[t] = Null
  <2>1. Null \in Memory
    BY DEF Memory
  <2>2. /\ newborn' \in [Pcbs -> Memory] /\ newborn'[r[1]] = Null
        /\ \A t \in Pcbs : t # r[1] => newborn'[t] = newborn[t]
    BY <1>1, <1>2, <2>1, ExceptFacts
  <2> QED  BY <1>4, <2>2
<1>10. Newborns(mem'.next, status', newborn', Append(r, p), f)
  BY <1>9 DEF Newborns
<1>11. mode' \in {"task", "scheduler", "panic"} /\ mode' # "panic"
  BY <1>7
<1>12. /\ status' \in [Pcbs -> Statuses] /\ stacks' \in 0 .. MaxStacks
       /\ expired' \subseteq Pcbs /\ \A t \in expired' : status'[t] = "sleeping"
       /\ Waiting(status', w) /\ Unused(status', stacks', f)
  BY <1>1, <1>2
<1>13. Holds(Append(r, p), f, w)'
  <2>1. mode' = "panic" => stacks' = MaxStacks \/ mem'.head["free"] = Null
    BY <1>11
  <2>2. newborn' \in [Pcbs -> Memory] /\ mode' \in {"task", "scheduler", "panic"}
    BY <1>9, <1>11
  <2>3. /\ mem' \in MemType /\ status' \in [Pcbs -> Statuses]
        /\ expired' \subseteq Pcbs /\ \A t \in expired' : status'[t] = "sleeping"
        /\ stacks' \in 0 .. MaxStacks
        /\ Linked(mem', Append(r, p), f, w) /\ Waiting(status', w)
    BY <1>6, <1>12
  <2>4. /\ Runnable(status', mode', Append(r, p)) /\ Unused(status', stacks', f)
        /\ Newborns(mem'.next, status', newborn', Append(r, p), f)
    BY <1>8, <1>10, <1>12
  <2> QED  BY <2>1, <2>2, <2>3, <2>4, Concludes
<1> QED  BY <1>2, <1>3, <1>5, <1>13

\* The clock.
LEMMA ExpireStep ==
    ASSUME NEW r, NEW f, NEW w, Holds(r, f, w), NEW t \in Pcbs, Expire(t)
    PROVE  Holds(r, f, w)'
<1>1. /\ mem' = mem /\ status' = status /\ mode' = mode /\ stacks' = stacks
      /\ newborn' = newborn /\ expired' = expired \cup {t} /\ status[t] = "sleeping"
  BY DEF Expire
<1>2. /\ mem \in MemType /\ status \in [Pcbs -> Statuses]
      /\ mode \in {"task", "scheduler", "panic"}
      /\ expired \subseteq Pcbs /\ \A u \in expired : status[u] = "sleeping"
      /\ stacks \in 0 .. MaxStacks /\ newborn \in [Pcbs -> Memory]
      /\ Linked(mem, r, f, w) /\ Waiting(status, w) /\ Runnable(status, mode, r)
      /\ Unused(status, stacks, f) /\ Newborns(mem.next, status, newborn, r, f)
      /\ mode = "panic" => stacks = MaxStacks \/ mem.head["free"] = Null
  BY HoldsFacts
<1>3. expired' \subseteq Pcbs /\ \A u \in expired' : status'[u] = "sleeping"
  BY <1>1, <1>2
<1> QED  BY <1>1, <1>2, <1>3, Concludes

\* One free PCB less for one stack more.
LEMMA UnusedLess ==
    ASSUME NEW st, NEW st2, NEW k \in Nat, NEW f \in Seq(Pcbs), f # <<>>, Distinct(f),
           Unused(st, k, f), \A t \in Items(f) : t # f[1] => st2[t] = st[t]
    PROVE  Unused(st2, k + 1, Tail(f))
<1>1. PICK n \in Nat : n = Len(f)
  BY SeqFacts
<1>2. PICK g : g = Tail(f)
  OBVIOUS
<1>3. n >= 1 /\ Len(g) = n - 1 /\ \A i \in 1 .. n - 1 : g[i] = f[i + 1]
  <2>1. /\ Len(f) >= 1 /\ Len(Tail(f)) = Len(f) - 1
        /\ \A i \in 1 .. Len(f) - 1 : Tail(f)[i] = f[i + 1]
    BY TailFacts
  <2> QED  BY <1>1, <1>2, <2>1
<1>4. \A x : x \in Items(g) <=> x \in Items(f) /\ x # f[1]
  BY <1>2, TailItems
<1>5. \A t \in Items(g) : st2[t] \in {"first", "exited"}
  BY <1>4 DEF Unused
<1>6. n >= NPcbs - k /\ \A i \in 1 .. n : i <= NPcbs - k => st[f[i]] = "first"
  BY <1>1 DEF Unused
<1>7. NPcbs \in Nat
  BY SMT, SchedulerAssumption
<1>8. ASSUME NEW i \in 1 .. n - 1, i <= NPcbs - (k + 1) PROVE st2[g[i]] = "first"
  <2>1. i + 1 \in 1 .. n /\ i + 1 <= NPcbs - k
    BY SMT, <1>3, <1>7, <1>8
  <2>2. st[g[i]] = "first"
    BY <1>3, <1>6, <1>8, <2>1
  <2>3. g[i] \in Items(g)
    BY <1>3, <1>8 DEF Items
  <2> QED  BY <1>4, <2>2, <2>3
<1>9. n - 1 >= NPcbs - (k + 1)
  BY SMT, <1>3, <1>6, <1>7
<1>10. Unused(st2, k + 1, g)
  BY <1>3, <1>5, <1>8, <1>9 DEF Unused
<1> QED  BY <1>2, <1>10

\* One free PCB more.
LEMMA UnusedMore ==
    ASSUME NEW st, NEW k \in Nat, NEW f \in Seq(Pcbs), NEW p \in Pcbs,
           Unused(st, k, f), st[p] = "exited"
    PROVE  Unused(st, k, Append(f, p))
<1>1. PICK n \in Nat : n = Len(f)
  BY SeqFacts
<1>2. PICK g : g = Append(f, p)
  OBVIOUS
<1>3. Len(g) = n + 1 /\ \A i \in 1 .. n : g[i] = f[i]
  <2>1. /\ Len(Append(f, p)) = Len(f) + 1
        /\ \A i \in 1 .. Len(f) : Append(f, p)[i] = f[i]
    BY SMT, AppendFacts
  <2> QED  BY <1>1, <1>2, <2>1
<1>4. \A x : x \in Items(g) <=> x \in Items(f) \/ x = p
  BY <1>2, AppendItems
<1>5. \A t \in Items(g) : st[t] \in {"first", "exited"}
  BY <1>4 DEF Unused
<1>6. n >= NPcbs - k /\ \A i \in 1 .. n : i <= NPcbs - k => st[f[i]] = "first"
  BY <1>1 DEF Unused
<1>7. NPcbs \in Nat
  BY SMT, SchedulerAssumption
<1>8. ASSUME NEW i \in 1 .. n + 1, i <= NPcbs - k PROVE st[g[i]] = "first"
  <2>1. i \in 1 .. n
    BY SMT, <1>6, <1>7, <1>8
  <2> QED  BY <1>3, <1>6, <1>8, <2>1
<1>9. n + 1 >= NPcbs - k
  BY SMT, <1>6, <1>7
<1>10. Unused(st, k, g)
  BY <1>3, <1>5, <1>8, <1>9 DEF Unused
<1> QED  BY <1>2, <1>10

\* A failed assertion of alloc_pcb() or create_pcb_common() stops the kernel.
LEMMA PanicStep ==
    ASSUME NEW r, NEW f, NEW w, Holds(r, f, w), alloc_pcb,
           mem.head["free"] = Null \/ stacks = MaxStacks
    PROVE  /\ Holds(r, f, w)' /\ mem' = mem /\ status' = status /\ newborn' = newborn
<1>1. /\ mem \in MemType /\ status \in [Pcbs -> Statuses]
      /\ expired \subseteq Pcbs /\ \A t \in expired : status[t] = "sleeping"
      /\ stacks \in 0 .. MaxStacks /\ newborn \in [Pcbs -> Memory]
      /\ Linked(mem, r, f, w) /\ Waiting(status, w) /\ Runnable(status, mode, r)
      /\ Unused(status, stacks, f) /\ Newborns(mem.next, status, newborn, r, f)
  BY HoldsFacts
<1>2. /\ mode = "task" /\ mode' = "panic" /\ mem' = mem /\ status' = status
      /\ stacks' = stacks /\ newborn' = newborn /\ expired' = expired
  BY DEF alloc_pcb, Running
<1>3. Runnable(status', mode', r)
  BY <1>1, <1>2 DEF Runnable
<1>4. mode' \in {"task", "scheduler", "panic"}
  BY <1>2
<1>5. mode' = "panic" => stacks' = MaxStacks \/ mem'.head["free"] = Null
  BY <1>2
<1>6. Holds(r, f, w)'
  BY <1>1, <1>2, <1>3, <1>4, <1>5, Concludes
<1> QED  BY <1>2, <1>6

\* alloc_pcb() hands out the first free PCB.
LEMMA AllocStep ==
    ASSUME NEW r, NEW f, NEW w, Holds(r, f, w), alloc_pcb,
           ~(mem.head["free"] = Null \/ stacks = MaxStacks)
    PROVE  /\ Holds(r, Tail(f), w)' /\ f # <<>> /\ mode = "task"
           /\ status'[r[1]] = "ready" /\ status[r[1]] = "ready"
           /\ newborn' = [newborn EXCEPT ![r[1]] = f[1]]
           /\ stacks \in 0 .. MaxStacks - 1
<1>1. /\ mem \in MemType /\ status \in [Pcbs -> Statuses]
      /\ expired \subseteq Pcbs /\ \A t \in expired : status[t] = "sleeping"
      /\ stacks \in 0 .. MaxStacks /\ newborn \in [Pcbs -> Memory]
      /\ Linked(mem, r, f, w) /\ Waiting(status, w) /\ Runnable(status, mode, r)
      /\ Unused(status, stacks, f) /\ Newborns(mem.next, status, newborn, r, f)
      /\ r # <<>> /\ current_running = r[1] /\ r[1] \in Pcbs /\ r[1] \in Items(r)
  BY HoldsFacts
<1>2. /\ mode = "task" /\ \A t \in Pcbs : newborn[t] = Null
      /\ mem' = queue_shift(mem, "free") /\ stacks' = stacks + 1
      /\ status' = [status EXCEPT ![mem.head["free"]] = "first"]
      /\ newborn' = [newborn EXCEPT ![r[1]] = mem.head["free"]]
      /\ mode' = "task" /\ expired' = expired
  BY <1>1 DEF alloc_pcb, Running
<1>3. /\ f # <<>> /\ mem.head["free"] = f[1] /\ f[1] \in Items(f) /\ f[1] \in Pcbs
      /\ f \in Seq(Pcbs) /\ Distinct(f)
  <2>1. /\ f \in Seq(Pcbs) /\ Distinct(f) /\ (f = <<>> => mem.head["free"] = Null)
        /\ f # <<>> => mem.head["free"] = f[1]
    BY <1>1 DEF Linked, IsRing, IsQueue
  <2> QED  BY <2>1, FirstItem
<1>4. /\ mem' \in MemType /\ Linked(mem', r, Tail(f), w) /\ mem'.next[f[1]] = Null
  <2>1. FreeShifted(mem, mem', r, f, w)
    BY <1>1, <1>2, <1>3, ShiftFree
  <2> QED  BY <2>1 DEF FreeShifted
<1>5. /\ status' \in [Pcbs -> Statuses] /\ status'[f[1]] = "first"
      /\ \A u \in Pcbs : u # f[1] => status'[u] = status[u]
  <2>1. status' = [status EXCEPT ![f[1]] = "first"] /\ "first" \in Statuses
    BY <1>2, <1>3 DEF Statuses
  <2>2. /\ [status EXCEPT ![f[1]] = "first"] \in [Pcbs -> Statuses]
        /\ [status EXCEPT ![f[1]] = "first"][f[1]] = "first"
        /\ \A u \in Pcbs : u # f[1] => [status EXCEPT ![f[1]] = "first"][u] = status[u]
    <3>1. status \in [Pcbs -> Statuses] /\ f[1] \in Pcbs
      BY <1>1, <1>3
    <3> QED  BY <2>1, <3>1, StatusFacts
  <2> QED  BY <2>1, <2>2
<1>6. status[f[1]] \in {"first", "exited"}
  BY <1>1, <1>3 DEF Unused
<1>7. /\ f[1] \notin Items(r) /\ Items(r) \subseteq Pcbs
      /\ \A x : x \in Items(Tail(f)) <=> x \in Items(f) /\ x # f[1]
      /\ Items(f) \subseteq Pcbs
  <2>1. Items(r) \subseteq Pcbs /\ Items(f) \subseteq Pcbs
    BY <1>1, LinkedFacts
  <2>2. f[1] \notin Items(r)
    BY <1>1, <1>3 DEF Linked
  <2> QED  BY <1>3, <2>1, <2>2, TailItems
<1>8. Waiting(status', w)
  <2>1. status[f[1]] # "blocked" /\ "first" # "blocked" /\ "first" \in Statuses
    BY <1>6 DEF Statuses
  <2>2. Waiting([status EXCEPT ![f[1]] = "first"], w)
    BY <1>1, <1>3, <2>1, WaitingKept
  <2> QED  BY <1>2, <1>3, <2>2
<1>9. Runnable(status', mode', r)
  <2>1. \A t \in Items(r) : status'[t] = status[t]
    BY <1>5, <1>7
  <2> QED  BY <1>1, <1>2, <2>1 DEF Runnable
<1>10. stacks \in 0 .. MaxStacks - 1 /\ stacks + 1 \in 0 .. MaxStacks /\ stacks \in Nat
  <2>1. stacks \in 0 .. MaxStacks /\ stacks # MaxStacks
    BY <1>1
  <2> QED  BY SMT, <2>1, SchedulerAssumption
<1>11. Unused(status', stacks', Tail(f))
  <2>1. \A t \in Items(f) : t # f[1] => status'[t] = status[t]
    BY <1>5, <1>7
  <2>2. Unused(status', stacks + 1, Tail(f))
    BY <1>1, <1>3, <1>10, <2>1, UnusedLess
  <2> QED  BY <1>2, <2>2
<1>12. /\ newborn' \in [Pcbs -> Memory] /\ newborn'[r[1]] = f[1]
       /\ \A t \in Pcbs : t # r[1] => newborn'[t] = Null
       /\ newborn' = [newborn EXCEPT ![r[1]] = f[1]]
  <2>1. newborn' = [newborn EXCEPT ![r[1]] = f[1]] /\ f[1] \in Memory
    BY <1>2, <1>3 DEF Memory
  <2>2. /\ [newborn EXCEPT ![r[1]] = f[1]] \in [Pcbs -> Memory]
        /\ [newborn EXCEPT ![r[1]] = f[1]][r[1]] = f[1]
        /\ \A t \in Pcbs : t # r[1] => [newborn EXCEPT ![r[1]] = f[1]][t] = newborn[t]
    BY <1>1, <2>1, ExceptFacts
  <2> QED  BY <1>2, <2>1, <2>2
<1>13. Newborns(mem'.next, status', newborn', r, Tail(f))
  <2>1. ASSUME NEW t \in Pcbs, newborn'[t] # Null
        PROVE  /\ newborn'[t] \notin Items(r) /\ newborn'[t] \notin Items(Tail(f))
               /\ status'[newborn'[t]] = "first" /\ mem'.next[newborn'[t]] = Null
               /\ \A u \in Pcbs : newborn'[u] # Null => u = t
    <3>1. t = r[1] /\ newborn'[t] = f[1]
      BY <1>12, <2>1
    <3>2. \A u \in Pcbs : newborn'[u] # Null => u = t
      BY <1>12, <3>1
    <3> QED  BY <1>4, <1>5, <1>7, <3>1, <3>2
  <2> QED  BY <2>1 DEF Newborns
<1>14. expired' \subseteq Pcbs /\ \A t \in expired' : status'[t] = "sleeping"
  BY <1>1, <1>2, <1>5, <1>6
<1>15. /\ mode' \in {"task", "scheduler", "panic"} /\ stacks' \in 0 .. MaxStacks
       /\ mode' = "panic" => stacks' = MaxStacks \/ mem'.head["free"] = Null
  BY <1>2, <1>10
<1>16. Holds(r, Tail(f), w)'
  <2>1. newborn' \in [Pcbs -> Memory] /\ status' \in [Pcbs -> Statuses]
    BY <1>5, <1>12
  <2> QED  BY <1>4, <1>8, <1>9, <1>11, <1>13, <1>14, <1>15, <2>1, Concludes
<1>17. status[r[1]] = "ready" /\ status'[r[1]] = "ready"
  BY <1>1, <1>2, <1>5, <1>7 DEF Runnable
<1> QED  BY <1>2, <1>3, <1>10, <1>12, <1>16, <1>17

-----------------------------------------------------------------------------
(* scheduler() *)

\* The end of a round of scheduler(): the task at the head is dispatched, or
\* looked at in the next round.
LEMMA DispatchStep ==
    ASSUME NEW r, NEW f, NEW w, NEW m \in MemType, NEW st \in [Pcbs -> Statuses],
           Dispatch(m, st), UNCHANGED <<stacks, newborn>>,
           stacks \in 0 .. MaxStacks, newborn \in [Pcbs -> Memory],
           expired' \subseteq Pcbs, \A t \in expired' : st[t] = "sleeping",
           Linked(m, r, f, w), Waiting(st, w), Unused(st, stacks, f),
           Newborns(m.next, st, newborn, r, f),
           \A t \in Items(r) : st[t] \notin {"blocked", "exited"},
           Clock \in Items(r), st[Clock] \in {"first", "ready"}
    PROVE  Holds(r, f, w)' /\ status'[r[1]] \notin {"blocked", "exited"}
<1>1. stacks' = stacks /\ newborn' = newborn
  OBVIOUS
<1>2. r # <<>>
  <2>1. Items(<<>>) = {}
    BY SMT DEF Items
  <2> QED  BY <2>1
<1>3. /\ m.head["ready"] = r[1] /\ r[1] \in Pcbs /\ r[1] \in Items(r) /\ r[1] # Null
  BY <1>2, LinkedFacts
<1>4. Items(r) \subseteq Pcbs /\ Items(f) \subseteq Pcbs /\ r[1] \notin Items(f)
  <2>1. Items(r) \subseteq Pcbs /\ Items(f) \subseteq Pcbs
    BY LinkedFacts
  <2> QED  BY <1>3, <2>1 DEF Linked
<1>5. /\ mem' = m
      /\ IF st[r[1]] \in {"ready", "first"}
         THEN mode' = "task" /\ status' = [st EXCEPT ![r[1]] = "ready"]
         ELSE mode' = "scheduler" /\ status' = st
  BY <1>3 DEF Dispatch
<1>6. CASE st[r[1]] \in {"ready", "first"}
  <2>1. mode' = "task" /\ status' = [st EXCEPT ![r[1]] = "ready"] /\ "ready" \in Statuses
    BY <1>5, <1>6 DEF Statuses
  <2>2. /\ status' \in [Pcbs -> Statuses] /\ status'[r[1]] = "ready"
        /\ \A u \in Pcbs : u # r[1] => status'[u] = st[u]
    <3>1. /\ [st EXCEPT ![r[1]] = "ready"] \in [Pcbs -> Statuses]
          /\ [st EXCEPT ![r[1]] = "ready"][r[1]] = "ready"
          /\ \A u \in Pcbs : u # r[1] => [st EXCEPT ![r[1]] = "ready"][u] = st[u]
      <4>1. r[1] \in Pcbs /\ "ready" \in Statuses
        BY <1>3, <2>1
      <4> QED  BY <4>1
    <3> QED  BY <2>1, <3>1
  <2>3. Waiting(status', w)
    <3>1. st[r[1]] # "blocked" /\ "ready" # "blocked"
      BY <1>6
    <3>2. Waiting([st EXCEPT ![r[1]] = "ready"], w)
      BY <1>3, <2>1, <3>1, WaitingKept
    <3> QED  BY <2>1, <3>2
  <2>4. Unused(status', stacks', f)
    <3>1. \A t \in Items(f) : status'[t] = st[t]
      BY <1>4, <2>2
    <3> QED  BY <1>1, <3>1, UnusedKept
  <2>5. Runnable(status', mode', r)
    <3>1. \A t \in Items(r) : status'[t] \notin {"blocked", "exited"}
      BY <1>4, <2>2
    <3>2. status'[Clock] \in {"first", "ready"}
      BY <1>4, <2>2
    <3> QED  BY <2>2, <3>1, <3>2 DEF Runnable
  <2>6. Newborns(mem'.next, status', newborn', r, f)
    <3>1. ASSUME NEW t \in Pcbs, newborn[t] # Null
          PROVE  newborn[t] \in Pcbs /\ newborn[t] # r[1]
      <4>1. newborn[t] \in Pcbs
        BY <3>1 DEF Memory
      <4>2. newborn[t] \notin Items(r)
        BY <3>1 DEF Newborns
      <4> QED  BY <1>3, <4>1, <4>2
    <3>2. \A t \in Pcbs : newborn[t] # Null => status'[newborn[t]] = st[newborn[t]]
      BY <2>2, <3>1
    <3>3. Newborns(m.next, status', newborn, r, f)
      BY <3>2 DEF Newborns
    <3> QED  BY <1>1, <1>5, <3>3
  <2>7. \A t \in expired' : status'[t] = "sleeping"
    BY <1>6, <2>2
  <2>8. /\ mem' \in MemType /\ Linked(mem', r, f, w) /\ stacks' \in 0 .. MaxStacks
        /\ newborn' \in [Pcbs -> Memory] /\ status' \in [Pcbs -> Statuses]
        /\ mode' \in {"task", "scheduler", "panic"} /\ expired' \subseteq Pcbs
    BY <1>1, <1>5, <2>1, <2>2
  <2>9. mode' = "panic" => stacks' = MaxStacks \/ mem'.head["free"] = Null
    BY <2>1
  <2>10. Holds(r, f, w)'
    BY <2>3, <2>4, <2>5, <2>6, <2>7, <2>8, <2>9, Concludes
  <2> QED  BY <2>2, <2>10
<1>7. CASE st[r[1]] \notin {"ready", "first"}
  <2>1. mode' = "scheduler" /\ status' = st
    BY <1>5, <1>7
  <2>2. Runnable(status', mode', r)
    BY <2>1 DEF Runnable
  <2>3. /\ Waiting(status', w) /\ Unused(status', stacks', f)
        /\ Newborns(mem'.next, status', newborn', r, f)
        /\ \A t \in expired' : status'[t] = "sleeping"
    BY <1>1, <1>5, <2>1
  <2>4. /\ mem' \in MemType /\ Linked(mem', r, f, w) /\ stacks' \in 0 .. MaxStacks
        /\ newborn' \in [Pcbs -> Memory] /\ status' \in [Pcbs -> Statuses]
        /\ mode' \in {"task", "scheduler", "panic"} /\ expired' \subseteq Pcbs
    BY <1>1, <1>5, <2>1
  <2>5. mode' = "panic" => stacks' = MaxStacks \/ mem'.head["free"] = Null
    BY <2>1
  <2>6. Holds(r, f, w)'
    BY <2>2, <2>3, <2>4, <2>5, Concludes
  <2> QED  BY <1>3, <2>1, <2>6
<1> QED  BY <1>6, <1>7

\* A task whose turn is over makes way for the next.
LEMMA AdvanceStep ==
    ASSUME NEW r, NEW f, NEW w, Holds(r, f, w), Advance
    PROVE  /\ Holds(Append(Tail(r), r[1]), f, w)'
           /\ status[r[1]] \notin {"blocked", "exited"}
           /\ status'[Append(Tail(r), r[1])[1]] \notin {"blocked", "exited"}
<1> DEFINE wakes == status[r[1]] = "sleeping" /\ r[1] \in expired
           m == [mem EXCEPT !.head = [@ EXCEPT !["ready"] = mem.next[r[1]]]]
           r2 == Append(Tail(r), r[1])
           st == IF wakes THEN [status EXCEPT ![r[1]] = "ready"] ELSE status
<1>1. /\ mem \in MemType /\ status \in [Pcbs -> Statuses]
      /\ expired \subseteq Pcbs /\ \A t \in expired : status[t] = "sleeping"
      /\ stacks \in 0 .. MaxStacks /\ newborn \in [Pcbs -> Memory]
      /\ Linked(mem, r, f, w) /\ Waiting(status, w) /\ Runnable(status, mode, r)
      /\ Unused(status, stacks, f) /\ Newborns(mem.next, status, newborn, r, f)
      /\ r # <<>> /\ current_running = r[1] /\ r[1] \in Pcbs /\ r[1] \in Items(r)
  BY HoldsFacts
<1>2. /\ status[r[1]] \in {"ready", "first", "sleeping"}
      /\ Dispatch(m, st) /\ UNCHANGED <<stacks, newborn>>
      /\ expired' = IF wakes THEN expired \ {r[1]} ELSE expired
  BY <1>1 DEF Advance
<1>3. \A q \in WaitQueues : r[1] \notin Items(w[q])
  <2>1. status[r[1]] # "blocked"
    BY <1>2
  <2> QED  BY <1>1, <2>1 DEF Waiting
<1>4. m \in MemType /\ Linked(m, r2, f, w) /\ m.next = mem.next
  <2>1. ReadyRotated(mem, m, r, f, w)
    BY <1>1, <1>3, RotateReady
  <2> QED  BY <2>1 DEF ReadyRotated
<1> HIDE DEF m
<1>5. Items(r) \subseteq Pcbs /\ \A x : x \in Items(r2) <=> x \in Items(r)
  <2>1. r \in Seq(Pcbs) /\ Distinct(r) /\ Items(r) \subseteq Pcbs
    BY <1>1, LinkedFacts
  <2>2. Tail(r) \in Seq(Pcbs) /\ \A x : x \in Items(Tail(r)) <=> x \in Items(r) /\ x # r[1]
    BY <1>1, <2>1, TailItems, TailFacts
  <2>3. \A x : x \in Items(r2) <=> x \in Items(Tail(r)) \/ x = r[1]
    <3>1. Tail(r) \in Seq(Pcbs) /\ r[1] \in Pcbs
      BY <1>1, <2>2
    <3> HIDE <1>1, <1>2
    <3> QED  BY <3>1, AppendItems
  <2> QED  BY <1>1, <2>1, <2>2, <2>3
<1> HIDE DEF r2
<1>6. /\ st \in [Pcbs -> Statuses]
      /\ st[r[1]] \in {"ready", "first", "sleeping"}
      /\ st[r[1]] = IF wakes THEN "ready" ELSE status[r[1]]
      /\ \A u \in Pcbs : u # r[1] => st[u] = status[u]
  <2>1. CASE wakes
    <3>1. "ready" \in Statuses
      BY DEF Statuses
    <3>2. /\ [status EXCEPT ![r[1]] = "ready"] \in [Pcbs -> Statuses]
          /\ [status EXCEPT ![r[1]] = "ready"][r[1]] = "ready"
          /\ \A u \in Pcbs : u # r[1] => [status EXCEPT ![r[1]] = "ready"][u] = status[u]
      BY <1>1, <3>1, StatusFacts
    <3> QED  BY <2>1, <3>2
  <2>2. CASE ~wakes
    BY <1>1, <1>2, <2>2
  <2> QED  BY <2>1, <2>2
<1>7. Waiting(st, w)
  <2>1. CASE wakes
    <3>1. "ready" \in Statuses /\ "ready" # "blocked" /\ status[r[1]] # "blocked"
      BY <2>1 DEF Statuses
    <3>2. Waiting([status EXCEPT ![r[1]] = "ready"], w)
      BY <1>1, <3>1, WaitingKept
    <3> QED  BY <2>1, <3>2
  <2>2. CASE ~wakes
    BY <1>1, <2>2
  <2> QED  BY <2>1, <2>2
<1> HIDE DEF st
<1>8. Unused(st, stacks, f)
  <2>1. Items(f) \subseteq Pcbs /\ r[1] \notin Items(f)
    <3>1. Items(f) \subseteq Pcbs
      BY <1>1, LinkedFacts
    <3> QED  BY <1>1, <3>1 DEF Linked
  <2>2. \A t \in Items(f) : st[t] = status[t]
    BY <1>6, <2>1
  <2> QED  BY <1>1, <2>2, UnusedKept
<1>9. Newborns(m.next, st, newborn, r2, f)
  <2>1. ASSUME NEW t \in Pcbs, newborn[t] # Null
        PROVE  newborn[t] \in Pcbs /\ newborn[t] # r[1] /\ newborn[t] \notin Items(r)
    <3>1. newborn[t] \in Pcbs
      BY <1>1, <2>1 DEF Memory
    <3>2. newborn[t] \notin Items(r)
      BY <1>1, <2>1 DEF Newborns
    <3> QED  BY <1>1, <3>1, <3>2
  <2> QED  BY <1>1, <1>4, <1>5, <1>6, <2>1 DEF Newborns
<1>10. \A t \in Items(r2) : st[t] \notin {"blocked", "exited"}
  <2>1. ASSUME NEW t \in Items(r) PROVE st[t] \notin {"blocked", "exited"}
    <3>1. CASE t = r[1]
      BY <1>6, <3>1
    <3>2. CASE t # r[1]
      BY <1>1, <1>5, <1>6, <2>1, <3>2 DEF Runnable
    <3> QED  BY <3>1, <3>2
  <2> QED  BY <1>5, <2>1
<1>11. Clock \in Items(r2) /\ st[Clock] \in {"first", "ready"}
  <2>1. Clock \in Items(r) /\ status[Clock] \in {"first", "ready"} /\ Clock \in Pcbs
    BY <1>1, <1>5 DEF Runnable
  <2>2. CASE Clock = r[1]
    <3>1. st[Clock] = IF wakes THEN "ready" ELSE status[Clock]
      BY <1>6, <2>2
    <3> QED  BY <1>5, <2>1, <3>1
  <2>3. CASE Clock # r[1]
    <3>1. st[Clock] = status[Clock]
      BY <1>6, <2>1, <2>3
    <3> QED  BY <1>5, <2>1, <3>1
  <2> QED  BY <1>5, <2>1, <2>2, <2>3
<1>12. expired' \subseteq Pcbs /\ \A t \in expired' : st[t] = "sleeping"
  <2>1. ASSUME NEW t \in expired' PROVE t \in Pcbs /\ st[t] = "sleeping"
    <3>1. t \in expired /\ t \in Pcbs /\ status[t] = "sleeping"
      BY <1>1, <1>2, <2>1
    <3>2. CASE t = r[1]
      BY <1>2, <1>6, <2>1, <3>1, <3>2
    <3>3. CASE t # r[1]
      BY <1>6, <3>1, <3>3
    <3> QED  BY <3>1, <3>2, <3>3
  <2> QED  BY <2>1
<1> HIDE DEF wakes
<1>13. Holds(r2, f, w)' /\ status'[r2[1]] \notin {"blocked", "exited"}
  BY <1>1, <1>2, <1>4, <1>6, <1>7, <1>8, <1>9, <1>10, <1>11, <1>12, DispatchStep
<1>14. status[r[1]] \notin {"blocked", "exited"}
  BY <1>2
<1> QED  BY <1>13, <1>14 DEF r2

\* What is so while scheduler() removes the task at the head, which is not
\* the clock thread: nobody else is blocked or gone.
Removing(r, f) ==
    /\ \A t \in Items(Tail(r)) : status[t] \notin {"blocked", "exited"}
    /\ Clock \in Items(Tail(r)) /\ status[Clock] \in {"first", "ready"}
    /\ \A x : x \in Items(Tail(r)) <=> x \in Items(r) /\ x # r[1]
    /\ r[1] \notin Items(Tail(r)) /\ r[1] \notin Items(f)
    /\ \A t \in Pcbs : newborn[t] # Null =>
         newborn[t] \in Pcbs /\ newborn[t] \notin Items(r) /\ newborn[t] # r[1]

\* That is so in every round of scheduler() that starts with such a task.
LEMMA RemovingFacts ==
    ASSUME NEW r, NEW f, NEW w, Holds(r, f, w), status[r[1]] \in {"blocked", "exited"}
    PROVE  Removing(r, f)
<1>1. /\ newborn \in [Pcbs -> Memory] /\ Linked(mem, r, f, w)
      /\ Runnable(status, mode, r) /\ Newborns(mem.next, status, newborn, r, f)
      /\ r # <<>> /\ r[1] \in Pcbs /\ r[1] \in Items(r)
  BY HoldsFacts
<1>2. r \in Seq(Pcbs) /\ Distinct(r)
  BY <1>1, LinkedFacts
<1>3. \A x : x \in Items(Tail(r)) <=> x \in Items(r) /\ x # r[1]
  BY <1>1, <1>2, TailItems
<1>4. \A t \in Items(Tail(r)) : status[t] \notin {"blocked", "exited"}
  <2>1. ASSUME NEW t \in Items(Tail(r)) PROVE status[t] \notin {"blocked", "exited"}
    <3>1. t \in Items(r) /\ t # r[1]
      BY <1>3, <2>1
    <3> QED  BY <1>1, <3>1 DEF Runnable
  <2> QED  BY <2>1
<1>5. Clock \in Items(Tail(r)) /\ status[Clock] \in {"first", "ready"}
  <2>1. Clock \in Items(r) /\ status[Clock] \in {"first", "ready"}
    BY <1>1 DEF Runnable
  <2>2. Clock # r[1]
    BY <2>1
  <2> QED  BY <1>3, <2>1, <2>2
<1>6. r[1] \notin Items(Tail(r)) /\ r[1] \notin Items(f)
  BY <1>1, <1>3 DEF Linked
<1>7. ASSUME NEW t \in Pcbs, newborn[t] # Null
      PROVE  newborn[t] \in Pcbs /\ newborn[t] \notin Items(r) /\ newborn[t] # r[1]
  <2>1. newborn[t] \in Pcbs
    BY <1>1, <1>7 DEF Memory
  <2>2. newborn[t] \notin Items(r)
    BY <1>1, <1>7 DEF Newborns
  <2> QED  BY <1>1, <2>1, <2>2
<1> QED  BY <1>3, <1>4, <1>5, <1>6, <1>7 DEF Removing

\* A blocked task leaves the ready queue.
LEMMA RemoveBlockedStep ==
    ASSUME NEW r, NEW f, NEW w, Holds(r, f, w), RemoveBlocked
    PROVE  /\ Holds(Tail(r), f, w)' /\ status[r[1]] = "blocked"
           /\ status'[Tail(r)[1]] \notin {"blocked", "exited"}
<1>1. /\ mem \in MemType /\ status \in [Pcbs -> Statuses]
      /\ expired \subseteq Pcbs /\ \A t \in expired : status[t] = "sleeping"
      /\ stacks \in 0 .. MaxStacks /\ newborn \in [Pcbs -> Memory]
      /\ Linked(mem, r, f, w) /\ Waiting(status, w)
      /\ Unused(status, stacks, f) /\ Newborns(mem.next, status, newborn, r, f)
      /\ r # <<>> /\ current_running = r[1] /\ r[1] \in Pcbs /\ r[1] \in Items(r)
  BY HoldsFacts
<1>2. PICK m : m = queue_shift(mem, "ready")
  BY SMT
<1>3. PICK r2 : r2 = Tail(r)
  OBVIOUS
<1>4. /\ status[r[1]] = "blocked" /\ Dispatch(m, status)
      /\ expired' = expired /\ UNCHANGED <<stacks, newborn>>
  BY <1>1, <1>2 DEF RemoveBlocked
<1>5. Removing(r, f)
  BY <1>4, RemovingFacts
<1>6. /\ m \in MemType /\ Linked(m, r2, f, w)
      /\ \A x \in Pcbs : x \notin Items(r) => m.next[x] = mem.next[x]
  <2>1. ReadyShifted(mem, m, r, f, w)
    BY <1>1, <1>2, ShiftReady
  <2> QED  BY <1>3, <2>1 DEF ReadyShifted
<1>7. Newborns(m.next, status, newborn, r2, f)
  BY <1>1, <1>3, <1>5, <1>6 DEF Newborns, Removing
<1>8. /\ \A t \in Items(r2) : status[t] \notin {"blocked", "exited"}
      /\ Clock \in Items(r2) /\ status[Clock] \in {"first", "ready"}
  BY <1>3, <1>5 DEF Removing
<1>9. expired' \subseteq Pcbs /\ \A t \in expired' : status[t] = "sleeping"
  BY <1>1, <1>4
<1>10. Holds(r2, f, w)' /\ status'[r2[1]] \notin {"blocked", "exited"}
  <2>1. /\ status \in [Pcbs -> Statuses] /\ stacks \in 0 .. MaxStacks
        /\ newborn \in [Pcbs -> Memory] /\ Waiting(status, w) /\ Unused(status, stacks, f)
    BY <1>1
  <2> HIDE <1>1
  <2> QED  BY <1>4, <1>6, <1>7, <1>8, <1>9, <2>1, DispatchStep
<1> QED  BY <1>3, <1>4, <1>10

\* An exited task leaves the ready queue and becomes the last free PCB.
LEMMA RemoveExitedStep ==
    ASSUME NEW r, NEW f, NEW w, Holds(r, f, w), RemoveExited
    PROVE  /\ Holds(Tail(r), Append(f, r[1]), w)' /\ status[r[1]] = "exited"
           /\ status'[Tail(r)[1]] \notin {"blocked", "exited"}
<1>1. /\ mem \in MemType /\ status \in [Pcbs -> Statuses]
      /\ expired \subseteq Pcbs /\ \A t \in expired : status[t] = "sleeping"
      /\ stacks \in 0 .. MaxStacks /\ newborn \in [Pcbs -> Memory]
      /\ Linked(mem, r, f, w) /\ Waiting(status, w)
      /\ Unused(status, stacks, f) /\ Newborns(mem.next, status, newborn, r, f)
      /\ r # <<>> /\ current_running = r[1] /\ r[1] \in Pcbs /\ r[1] \in Items(r)
  BY HoldsFacts
<1>2. PICK m1 : m1 = queue_shift(mem, "ready")
  BY SMT
<1>3. PICK m : m = queue_insert(m1, "free", r[1])
  BY SMT
<1>4. PICK r2 : r2 = Tail(r)
  OBVIOUS
<1>5. PICK f2 : f2 = Append(f, r[1])
  OBVIOUS
<1>6. /\ status[r[1]] = "exited" /\ Dispatch(m, status)
      /\ expired' = expired /\ UNCHANGED <<stacks, newborn>>
  BY <1>1, <1>2, <1>3 DEF RemoveExited
<1>7. Removing(r, f)
  BY <1>6, RemovingFacts
<1>8. /\ m1 \in MemType /\ Linked(m1, r2, f, w)
      /\ \A x \in Pcbs : x \notin Items(r) => m1.next[x] = mem.next[x]
  <2>1. ReadyShifted(mem, m1, r, f, w)
    BY <1>1, <1>2, ShiftReady
  <2> QED  BY <1>4, <2>1 DEF ReadyShifted
<1>9. Outside(r[1], r2, f, w)
  <2>1. \A q \in WaitQueues : r[1] \notin Items(w[q])
    <3>1. status[r[1]] # "blocked"
      BY <1>6
    <3> QED  BY <1>1, <3>1 DEF Waiting
  <2> QED  BY <1>4, <1>7, <2>1 DEF Outside, Removing
<1>10. /\ m \in MemType /\ Linked(m, r2, f2, w)
       /\ \A x \in Pcbs : x \notin Items(f) /\ x # r[1] => m.next[x] = m1.next[x]
  <2>1. FreeInserted(m1, m, r2, f, w, r[1])
    BY <1>1, <1>3, <1>8, <1>9, InsertFree
  <2> QED  BY <1>5, <2>1 DEF FreeInserted
<1>11. f \in Seq(Pcbs) /\ stacks \in Nat
  <2>1. f \in Seq(Pcbs) /\ stacks \in 0 .. MaxStacks
    BY <1>1, LinkedFacts
  <2> QED  BY SMT, <2>1, SchedulerAssumption
<1>12. Unused(status, stacks, f2)
  BY <1>1, <1>5, <1>6, <1>11, UnusedMore
<1>13. \A x : x \in Items(f2) <=> x \in Items(f) \/ x = r[1]
  BY <1>1, <1>5, <1>11, AppendItems
<1>14. Newborns(m.next, status, newborn, r2, f2)
  <2>1. ASSUME NEW t \in Pcbs, newborn[t] # Null
        PROVE  /\ newborn[t] \notin Items(r2) /\ newborn[t] \notin Items(f2)
               /\ status[newborn[t]] = "first" /\ m.next[newborn[t]] = Null
               /\ \A u \in Pcbs : newborn[u] # Null => u = t
    <3>1. newborn[t] \in Pcbs /\ newborn[t] \notin Items(r) /\ newborn[t] # r[1]
      BY <1>7, <2>1 DEF Removing
    <3>2. /\ newborn[t] \notin Items(f) /\ status[newborn[t]] = "first"
          /\ mem.next[newborn[t]] = Null /\ \A u \in Pcbs : newborn[u] # Null => u = t
      BY <1>1, <2>1 DEF Newborns
    <3>3. newborn[t] \notin Items(r2)
      BY <1>4, <1>7, <3>1 DEF Removing
    <3>4. newborn[t] \notin Items(f2)
      BY <1>13, <3>1, <3>2
    <3>5. m.next[newborn[t]] = m1.next[newborn[t]] /\ m1.next[newborn[t]] = mem.next[newborn[t]]
      BY <1>8, <1>10, <3>1, <3>2
    <3> QED  BY <3>2, <3>3, <3>4, <3>5
  <2> QED  BY <2>1 DEF Newborns
<1>15. /\ \A t \in Items(r2) : status[t] \notin {"blocked", "exited"}
       /\ Clock \in Items(r2) /\ status[Clock] \in {"first", "ready"}
  BY <1>4, <1>7 DEF Removing
<1>16. expired' \subseteq Pcbs /\ \A t \in expired' : status[t] = "sleeping"
  BY <1>1, <1>6
<1>17. Holds(r2, f2, w)' /\ status'[r2[1]] \notin {"blocked", "exited"}
  <2>1. /\ status \in [Pcbs -> Statuses] /\ stacks \in 0 .. MaxStacks
        /\ newborn \in [Pcbs -> Memory] /\ Waiting(status, w)
    BY <1>1
  <2> QED  BY <1>6, <1>10, <1>12, <1>14, <1>15, <1>16, <2>1, DispatchStep
<1> QED  BY <1>4, <1>5, <1>6, <1>17

-----------------------------------------------------------------------------
(* What the steps mean *)

\* The abstract state: rd are the ready tasks.
View(r, rd, f, w) ==
    RingOf("ready") = r /\ Ready = rd /\ FreePcbs = f /\ Waits = w
Rest(st, r) == IF st[r[1]] \in {"blocked", "exited"} THEN Tail(r) ELSE r

\* What the invariant says of the abstract state,
LEMMA Viewed ==
    ASSUME Induction, Fits, NEW r, NEW f, NEW w, Linked(mem, r, f, w),
           current_running = r[1], r[1] \in Pcbs, NEW rd, rd = Rest(status, r)
    PROVE  View(r, rd, f, w)
<1>1. RingOf("ready") = r /\ FreePcbs = f /\ Waits = w
  BY SeenIn DEF RingOf, ListOf, FreePcbs, Waits
<1>2. r[1] # Null
  BY SMT, SchedulerAssumption DEF Pcbs, Null
<1> QED  BY <1>1, <1>2 DEF View, Ready, Gone, Rest

\* and of the next one.
LEMMA ViewedNext ==
    ASSUME Induction, Fits, NEW r, NEW f, NEW w, Linked(mem', r, f, w),
           current_running' = r[1], r[1] \in Pcbs, NEW rd, rd = Rest(status', r)
    PROVE  View(r, rd, f, w)'
<1>1. (RingOf("ready"))' = r /\ FreePcbs' = f /\ Waits' = w
  BY SeenIn DEF RingOf, ListOf, FreePcbs, Waits
<1>2. r[1] # Null
  BY SMT, SchedulerAssumption DEF Pcbs, Null
<1> QED  BY <1>1, <1>2 DEF View, Ready, Gone, Rest

\* What a step has to keep, and the meaning it has to have.
Maps ==
    SchedulerInv' /\ (AsTaskQueues!Next \/ UNCHANGED AsTaskQueues!vars)

\* From one set of queues to another.
Goes(r, rd, f, w, r2, rd2, f2, w2) ==
    /\ View(r, rd, f, w) /\ View(r2, rd2, f2, w2)' /\ SchedulerInv'

\* A step between queues that the pointers stand for.
LEMMA GoesFacts ==
    ASSUME Induction, Fits, NEW r, NEW f, NEW w, Holds(r, f, w),
           NEW r2, NEW f2, NEW w2, Holds(r2, f2, w2)',
           NEW rd, rd = Rest(status, r), NEW rd2, rd2 = Rest(status', r2)
    PROVE  Goes(r, rd, f, w, r2, rd2, f2, w2)
<1>1. Linked(mem, r, f, w) /\ current_running = r[1] /\ r[1] \in Pcbs
  BY HoldsFacts
<1>2. Linked(mem', r2, f2, w2) /\ current_running' = r2[1] /\ r2[1] \in Pcbs
  <2>1. Linked(mem', r2, f2, w2) /\ Runnable(status', mode', r2)
    BY DEF Holds, QueuesAre
  <2>2. r2 # <<>>
    <3>1. Clock \in Items(r2)
      BY <2>1 DEF Runnable
    <3>2. Items(<<>>) = {}
      BY SMT DEF Items
    <3> QED  BY <3>1, <3>2
  <2>3. mem'.head["ready"] = r2[1] /\ r2[1] \in Pcbs
    BY <2>1, <2>2, LinkedFacts
  <2> QED  BY <2>1, <2>3 DEF current_running
<1>3. View(r, rd, f, w)
  BY <1>1, Viewed
<1>4. View(r2, rd2, f2, w2)'
  BY <1>2, ViewedNext
<1>5. SchedulerInv'
  BY <1>4 DEF View, SchedulerInv, Holds
<1> QED  BY <1>3, <1>4, <1>5 DEF Goes

\* Steps that mean nothing.
LEMMA Stutters ==
    ASSUME NEW r, NEW rd, NEW f, NEW w, NEW r2, Goes(r, rd, f, w, r2, rd, f, w)
    PROVE  Maps
<1>1. Ready' = Ready /\ FreePcbs' = FreePcbs /\ Waits' = Waits /\ SchedulerInv'
  BY DEF Goes, View
<1>2. InNone(Ready, FreePcbs, Waits)' = InNone(Ready, FreePcbs, Waits)
  BY <1>1 DEF InNone
<1> QED  BY <1>1, <1>2 DEF Maps, AsTaskQueues!vars

\* What two views say of the abstract state.
Meaning(rd, f, w, rd2, f2, w2) ==
    /\ Ready = rd /\ FreePcbs = f /\ Waits = w
    /\ Ready' = rd2 /\ FreePcbs' = f2 /\ Waits' = w2
    /\ InNone(Ready, FreePcbs, Waits) = InNone(rd, f, w)
    /\ InNone(Ready, FreePcbs, Waits)' = InNone(rd2, f2, w2)
    /\ SchedulerInv'

\* The view determines it.
LEMMA GoesMeans ==
    ASSUME NEW r, NEW rd, NEW f, NEW w, NEW r2, NEW rd2, NEW f2, NEW w2,
           Goes(r, rd, f, w, r2, rd2, f2, w2)
    PROVE  Meaning(rd, f, w, rd2, f2, w2)
<1>1. /\ Ready = rd /\ FreePcbs = f /\ Waits = w
      /\ Ready' = rd2 /\ FreePcbs' = f2 /\ Waits' = w2 /\ SchedulerInv'
  BY DEF Goes, View
<1>2. InNone(Ready, FreePcbs, Waits)' = InNone(rd2, f2, w2)
  BY <1>1 DEF InNone
<1> QED  BY <1>1, <1>2 DEF Meaning

\* block() is Block.
LEMMA MapsBlock ==
    ASSUME NEW r \in Seq(Pcbs), r # <<>>, Distinct(r), NEW f,
           NEW w \in [WaitQueues -> Seq(Pcbs)], NEW q \in WaitQueues,
           NEW w2, w2 = [w EXCEPT ![q] = Append(w[q], r[1])],
           Goes(r, r, f, w, r, Tail(r), f, w2)
    PROVE  Maps
<1>1. /\ Ready = r /\ FreePcbs = f /\ Waits = w
      /\ Ready' = Tail(r) /\ FreePcbs' = f /\ Waits' = w2
      /\ InNone(Ready, FreePcbs, Waits) = InNone(r, f, w)
      /\ InNone(Ready, FreePcbs, Waits)' = InNone(Tail(r), f, w2)
      /\ SchedulerInv'
  <2>1. Meaning(r, f, w, Tail(r), f, w2)
    BY GoesMeans
  <2> QED  BY <2>1 DEF Meaning
<1>2. /\ r[1] \in Pcbs /\ r[1] \in Items(r) /\ Head(r) = r[1]
      /\ \A x : x \in Items(Tail(r)) <=> x \in Items(r) /\ x # r[1]
  BY FirstItem, TailItems, TailFacts
<1>3. /\ w2[q] = Append(w[q], r[1])
      /\ \A p \in WaitQueues : p # q => w2[p] = w[p]
  OBVIOUS
<1>4. \A x : x \in Items(w2[q]) <=> x \in Items(w[q]) \/ x = r[1]
  <2>1. w[q] \in Seq(Pcbs)
    OBVIOUS
  <2> QED  BY <1>2, <1>3, <2>1, AppendItems
<1>5. InNone(Tail(r), f, w2) = InNone(r, f, w)
  <2>1. ASSUME NEW x \in InNone(Tail(r), f, w2) PROVE x \in InNone(r, f, w)
    <3>1. /\ x \in Pcbs /\ x \notin Items(Tail(r)) /\ x \notin Items(f)
          /\ \A p \in WaitQueues : x \notin Items(w2[p])
      BY <2>1 DEF InNone
    <3>2. \A p \in WaitQueues : x \notin Items(w[p])
      BY <1>3, <1>4, <3>1
    <3> QED  BY <1>2, <1>4, <3>1, <3>2 DEF InNone
  <2>2. ASSUME NEW x \in InNone(r, f, w) PROVE x \in InNone(Tail(r), f, w2)
    <3>1. /\ x \in Pcbs /\ x \notin Items(r) /\ x \notin Items(f)
          /\ \A p \in WaitQueues : x \notin Items(w[p])
      BY <2>2 DEF InNone
    <3>2. \A p \in WaitQueues : x \notin Items(w2[p])
      BY <1>2, <1>3, <1>4, <3>1
    <3> QED  BY <1>2, <3>1, <3>2 DEF InNone
  <2> QED  BY <2>1, <2>2
<1>6. AsTaskQueues!Block(q)
  BY <1>1, <1>2, <1>5 DEF AsTaskQueues!Block
<1> QED  BY <1>1, <1>6 DEF Maps, AsTaskQueues!Next

\* unblock() is Unblock.
LEMMA MapsUnblock ==
    ASSUME NEW r \in Seq(Pcbs), NEW f,
           NEW w \in [WaitQueues -> Seq(Pcbs)], NEW q \in WaitQueues,
           w[q] # <<>>, Distinct(w[q]),
           NEW r2, r2 = Append(r, w[q][1]),
           NEW w2, w2 = [w EXCEPT ![q] = Tail(w[q])],
           Goes(r, r, f, w, r2, r2, f, w2)
    PROVE  Maps
<1>1. /\ Ready = r /\ FreePcbs = f /\ Waits = w
      /\ Ready' = r2 /\ FreePcbs' = f /\ Waits' = w2
      /\ InNone(Ready, FreePcbs, Waits) = InNone(r, f, w)
      /\ InNone(Ready, FreePcbs, Waits)' = InNone(r2, f, w2)
      /\ SchedulerInv'
  <2>1. Meaning(r, f, w, r2, f, w2)
    BY GoesMeans
  <2> QED  BY <2>1 DEF Meaning
<1>2. PICK s \in Seq(Pcbs) : s = w[q]
  OBVIOUS
<1>3. /\ s[1] \in Pcbs /\ s[1] \in Items(s) /\ Head(s) = s[1]
      /\ \A x : x \in Items(Tail(s)) <=> x \in Items(s) /\ x # s[1]
  BY <1>2, FirstItem, TailItems, TailFacts
<1>4. /\ w2[q] = Tail(s)
      /\ \A p \in WaitQueues : p # q => w2[p] = w[p]
  BY <1>2
<1>5. \A x : x \in Items(r2) <=> x \in Items(r) \/ x = s[1]
  <2>1. s[1] \in Pcbs /\ r2 = Append(r, s[1])
    BY <1>2, <1>3
  <2>2. \A x : x \in Items(Append(r, s[1])) <=> x \in Items(r) \/ x = s[1]
    BY <2>1, AppendItems
  <2> QED  BY <2>1, <2>2
<1>6. InNone(r2, f, w2) = InNone(r, f, w)
  <2>1. ASSUME NEW x \in InNone(r2, f, w2) PROVE x \in InNone(r, f, w)
    <3>1. /\ x \in Pcbs /\ x \notin Items(r2) /\ x \notin Items(f)
          /\ \A p \in WaitQueues : x \notin Items(w2[p])
      BY <2>1 DEF InNone
    <3>2. x \notin Items(w[q])
      BY <1>2, <1>3, <1>4, <1>5, <3>1
    <3>3. \A p \in WaitQueues : x \notin Items(w[p])
      BY <1>4, <3>1, <3>2
    <3> QED  BY <1>5, <3>1, <3>3 DEF InNone
  <2>2. ASSUME NEW x \in InNone(r, f, w) PROVE x \in InNone(r2, f, w2)
    <3>1. /\ x \in Pcbs /\ x \notin Items(r) /\ x \notin Items(f)
          /\ \A p \in WaitQueues : x \notin Items(w[p])
      BY <2>2 DEF InNone
    <3>2. x \notin Items(s)
      BY <1>2, <3>1
    <3>3. \A p \in WaitQueues : x \notin Items(w2[p])
      BY <1>3, <1>4, <3>1, <3>2
    <3> QED  BY <1>3, <1>5, <3>1, <3>2, <3>3 DEF InNone
  <2> QED  BY <2>1, <2>2
<1>7. AsTaskQueues!Unblock(q)
  BY <1>1, <1>2, <1>3, <1>6 DEF AsTaskQueues!Unblock
<1> QED  BY <1>1, <1>7 DEF Maps, AsTaskQueues!Next

\* exit() is Exit.
LEMMA MapsExit ==
    ASSUME NEW r \in Seq(Pcbs), r # <<>>, Distinct(r), NEW f, NEW w,
           r[1] \notin Items(f), \A q \in WaitQueues : r[1] \notin Items(w[q]),
           Goes(r, r, f, w, r, Tail(r), f, w)
    PROVE  Maps
<1>1. /\ Ready = r /\ FreePcbs = f /\ Waits = w
      /\ Ready' = Tail(r) /\ FreePcbs' = f /\ Waits' = w
      /\ InNone(Ready, FreePcbs, Waits) = InNone(r, f, w)
      /\ InNone(Ready, FreePcbs, Waits)' = InNone(Tail(r), f, w)
      /\ SchedulerInv'
  <2>1. Meaning(r, f, w, Tail(r), f, w)
    BY GoesMeans
  <2> QED  BY <2>1 DEF Meaning
<1>2. /\ r[1] \in Pcbs /\ Head(r) = r[1]
      /\ \A x : x \in Items(Tail(r)) <=> x \in Items(r) /\ x # r[1]
  BY FirstItem, TailItems, TailFacts
<1>3. InNone(Tail(r), f, w) = InNone(r, f, w) \cup {r[1]}
  BY <1>2 DEF InNone
<1>4. AsTaskQueues!Exit
  BY <1>1, <1>2, <1>3 DEF AsTaskQueues!Exit
<1> QED  BY <1>1, <1>4 DEF Maps, AsTaskQueues!Next

\* alloc_pcb() is Alloc.
LEMMA MapsAlloc ==
    ASSUME NEW f \in Seq(Pcbs), f # <<>>, Distinct(f), NEW r, NEW w,
           f[1] \notin Items(r), \A q \in WaitQueues : f[1] \notin Items(w[q]),
           Goes(r, r, f, w, r, r, Tail(f), w)
    PROVE  Maps
<1>1. /\ Ready = r /\ FreePcbs = f /\ Waits = w
      /\ Ready' = r /\ FreePcbs' = Tail(f) /\ Waits' = w
      /\ InNone(Ready, FreePcbs, Waits) = InNone(r, f, w)
      /\ InNone(Ready, FreePcbs, Waits)' = InNone(r, Tail(f), w)
      /\ SchedulerInv'
  <2>1. Meaning(r, f, w, r, Tail(f), w)
    BY GoesMeans
  <2> QED  BY <2>1 DEF Meaning
<1>2. /\ f[1] \in Pcbs /\ Head(f) = f[1]
      /\ \A x : x \in Items(Tail(f)) <=> x \in Items(f) /\ x # f[1]
  BY FirstItem, TailItems, TailFacts
<1>3. InNone(r, Tail(f), w) = InNone(r, f, w) \cup {f[1]}
  BY <1>2 DEF InNone
<1>4. AsTaskQueues!Alloc
  BY <1>1, <1>2, <1>3 DEF AsTaskQueues!Alloc
<1> QED  BY <1>1, <1>4 DEF Maps, AsTaskQueues!Next

\* The end of create_thread() is Insert.
LEMMA MapsInsert ==
    ASSUME NEW r \in Seq(Pcbs), NEW f, NEW w, NEW p \in Pcbs, Outside(p, r, f, w),
           NEW r2, r2 = Append(r, p), Goes(r, r, f, w, r2, r2, f, w)
    PROVE  Maps
<1>1. /\ Ready = r /\ FreePcbs = f /\ Waits = w
      /\ Ready' = r2 /\ FreePcbs' = f /\ Waits' = w
      /\ InNone(Ready, FreePcbs, Waits) = InNone(r, f, w)
      /\ InNone(Ready, FreePcbs, Waits)' = InNone(r2, f, w)
      /\ SchedulerInv'
  <2>1. Meaning(r, f, w, r2, f, w)
    BY GoesMeans
  <2> QED  BY <2>1 DEF Meaning
<1>2. \A x : x \in Items(r2) <=> x \in Items(r) \/ x = p
  BY AppendItems
<1>3. p \in InNone(r, f, w) /\ InNone(r2, f, w) = InNone(r, f, w) \ {p}
  BY <1>2 DEF InNone, Outside
<1>4. AsTaskQueues!Insert(p)
  BY <1>1, <1>3 DEF AsTaskQueues!Insert
<1> QED  BY <1>1, <1>4 DEF Maps, AsTaskQueues!Next

\* A round of scheduler() that frees a PCB is Free.
LEMMA MapsFree ==
    ASSUME NEW r, NEW rd, NEW f \in Seq(Pcbs), NEW w, NEW p \in Pcbs,
           Outside(p, rd, f, w), NEW f2, f2 = Append(f, p),
           Goes(r, rd, f, w, rd, rd, f2, w)
    PROVE  Maps
<1>1. /\ Ready = rd /\ FreePcbs = f /\ Waits = w
      /\ Ready' = rd /\ FreePcbs' = f2 /\ Waits' = w
      /\ InNone(Ready, FreePcbs, Waits) = InNone(rd, f, w)
      /\ InNone(Ready, FreePcbs, Waits)' = InNone(rd, f2, w)
      /\ SchedulerInv'
  <2>1. Meaning(rd, f, w, rd, f2, w)
    BY GoesMeans
  <2> QED  BY <2>1 DEF Meaning
<1>2. \A x : x \in Items(f2) <=> x \in Items(f) \/ x = p
  BY AppendItems
<1>3. p \in InNone(rd, f, w) /\ InNone(rd, f2, w) = InNone(rd, f, w) \ {p}
  BY <1>2 DEF InNone, Outside
<1>4. AsTaskQueues!Free(p)
  BY <1>1, <1>3 DEF AsTaskQueues!Free
<1> QED  BY <1>1, <1>4 DEF Maps, AsTaskQueues!Next

\* A round that goes on to the next task is Rotate.
LEMMA MapsRotate ==
    ASSUME NEW r \in Seq(Pcbs), r # <<>>, Distinct(r), NEW f, NEW w,
           NEW r2, r2 = Append(Tail(r), r[1]), Goes(r, r, f, w, r2, r2, f, w)
    PROVE  Maps
<1>1. /\ Ready = r /\ FreePcbs = f /\ Waits = w
      /\ Ready' = r2 /\ FreePcbs' = f /\ Waits' = w
      /\ InNone(Ready, FreePcbs, Waits) = InNone(r, f, w)
      /\ InNone(Ready, FreePcbs, Waits)' = InNone(r2, f, w)
      /\ SchedulerInv'
  <2>1. Meaning(r, f, w, r2, f, w)
    BY GoesMeans
  <2> QED  BY <2>1 DEF Meaning
<1>2. /\ r[1] \in Pcbs /\ r[1] \in Items(r) /\ Head(r) = r[1] /\ Tail(r) \in Seq(Pcbs)
      /\ \A x : x \in Items(Tail(r)) <=> x \in Items(r) /\ x # r[1]
  BY FirstItem, TailItems, TailFacts
<1>3. \A x : x \in Items(r2) <=> x \in Items(r)
  BY <1>2, AppendItems
<1>4. InNone(r2, f, w) = InNone(r, f, w)
  BY <1>3 DEF InNone
<1>5. AsTaskQueues!Rotate
  BY <1>1, <1>2, <1>4 DEF AsTaskQueues!Rotate
<1> QED  BY <1>1, <1>5 DEF Maps, AsTaskQueues!Next

\* The running task is ready and in no wait queue.
LEMMA RunnerFacts ==
    ASSUME NEW r, NEW f, NEW w, Holds(r, f, w), mode = "task"
    PROVE  /\ status[r[1]] = "ready" /\ Rest(status, r) = r
           /\ \A q \in WaitQueues : r[1] \notin Items(w[q])
<1>1. Waiting(status, w) /\ Runnable(status, mode, r) /\ r[1] \in Pcbs
  BY HoldsFacts
<1>2. status[r[1]] = "ready"
  BY <1>1 DEF Runnable
<1>3. status[r[1]] # "blocked" /\ status[r[1]] \notin {"blocked", "exited"}
  BY <1>2
<1> QED  BY <1>1, <1>2, <1>3 DEF Waiting, Rest

\* What is known of the queues.
LEMMA QueueTypes ==
    ASSUME NEW r, NEW f, NEW w, Holds(r, f, w)
    PROVE  /\ r \in Seq(Pcbs) /\ Distinct(r) /\ r # <<>> /\ r[1] \in Pcbs
           /\ f \in Seq(Pcbs) /\ Distinct(f) /\ r[1] \in Items(r)
           /\ w \in [WaitQueues -> Seq(Pcbs)]
           /\ \A q \in WaitQueues : Distinct(w[q])
           /\ \A t \in Pcbs : t \in Items(r) => t \notin Items(f)
           /\ \A q \in WaitQueues : \A t \in Items(w[q]) : t \notin Items(f)
           /\ current_running = r[1] /\ status \in [Pcbs -> Statuses]
<1>1. /\ Linked(mem, r, f, w) /\ r # <<>> /\ r[1] \in Pcbs /\ r[1] \in Items(r)
      /\ current_running = r[1] /\ status \in [Pcbs -> Statuses]
  BY HoldsFacts
<1>2. r \in Seq(Pcbs) /\ Distinct(r) /\ f \in Seq(Pcbs) /\ Distinct(f)
  BY <1>1, LinkedFacts
<1>3. /\ w \in [WaitQueues -> Seq(Pcbs)]
      /\ \A q \in WaitQueues : IsList(mem, q, w[q])
      /\ \A t \in Pcbs : t \in Items(r) => t \notin Items(f)
      /\ \A q \in WaitQueues : \A t \in Items(w[q]) : t \notin Items(f)
  BY <1>1 DEF Linked
<1>4. \A q \in WaitQueues : Distinct(w[q])
  BY <1>3 DEF IsList, IsQueue
<1> QED  BY <1>1, <1>2, <1>3, <1>4

\* A step that keeps the queues and who has left them.
LEMMA KeepsMaps ==
    ASSUME Induction, Fits, NEW r, NEW f, NEW w, Holds(r, f, w), Holds(r, f, w)',
           status'[r[1]] \in {"blocked", "exited"} <=> status[r[1]] \in {"blocked", "exited"}
    PROVE  Maps
<1>1. PICK rd : rd = Rest(status, r)
  BY SMT
<1>2. rd = Rest(status', r)
  BY <1>1 DEF Rest
<1>3. Goes(r, rd, f, w, r, rd, f, w)
  BY <1>1, <1>2, GoesFacts
<1> QED  BY <1>3, Stutters

\* yield() means nothing to the queues.
LEMMA YieldMaps ==
    ASSUME Induction, Fits, NEW r, NEW f, NEW w, Holds(r, f, w), yield
    PROVE  Maps
<1>1. Holds(r, f, w)'
  BY YieldStep
<1>2. status' = status
  BY DEF yield
<1> QED  BY <1>1, <1>2, KeepsMaps

\* Nor does msleep(): a sleeping task stays in the ready queue.
LEMMA SleepMaps ==
    ASSUME Induction, Fits, NEW r, NEW f, NEW w, Holds(r, f, w), msleep
    PROVE  Maps
<1>1. /\ Running /\ current_running # Clock
      /\ status' = [status EXCEPT ![current_running] = "sleeping"]
      /\ mode' = "scheduler" /\ UNCHANGED <<mem, expired, stacks, newborn>>
  BY DEF msleep
<1>2. "sleeping" \in {"sleeping", "exited"}
  BY SMT
<1>3. Holds(r, f, w)'
  BY <1>1, <1>2, LeaveStep
<1>4. status[r[1]] = "ready" /\ status'[r[1]] = "sleeping"
  <2>1. mode = "task"
    BY <1>1 DEF Running
  <2>2. current_running = r[1] /\ r[1] \in Pcbs /\ status \in [Pcbs -> Statuses]
    BY QueueTypes
  <2>3. status'[r[1]] = "sleeping"
    BY <1>1, <2>2
  <2> QED  BY <2>1, <2>3, RunnerFacts
<1>5. status'[r[1]] \in {"blocked", "exited"} <=> status[r[1]] \in {"blocked", "exited"}
  BY <1>4
<1> QED  BY <1>3, <1>5, KeepsMaps

\* Nor does the time that passes.
LEMMA ExpireMaps ==
    ASSUME Induction, Fits, NEW r, NEW f, NEW w, Holds(r, f, w),
           NEW t \in Pcbs, Expire(t)
    PROVE  Maps
<1>1. Holds(r, f, w)'
  BY ExpireStep
<1>2. status' = status
  BY DEF Expire
<1> QED  BY <1>1, <1>2, KeepsMaps

\* exit(): the task is out of the ready queue although still linked in it.
LEMMA ExitMaps ==
    ASSUME Induction, Fits, NEW r, NEW f, NEW w, Holds(r, f, w), exit
    PROVE  Maps
<1>1. /\ Running /\ current_running # Clock
      /\ status' = [status EXCEPT ![current_running] = "exited"]
      /\ mode' = "scheduler" /\ UNCHANGED <<mem, expired, stacks, newborn>>
  BY DEF exit
<1>2. "exited" \in {"sleeping", "exited"}
  BY SMT
<1>3. Holds(r, f, w)'
  BY <1>1, <1>2, LeaveStep
<1>4. /\ r \in Seq(Pcbs) /\ Distinct(r) /\ r # <<>> /\ r[1] \in Pcbs /\ r[1] \notin Items(f)
      /\ current_running = r[1] /\ status \in [Pcbs -> Statuses]
  BY QueueTypes
<1>5. Rest(status, r) = r /\ \A q \in WaitQueues : r[1] \notin Items(w[q])
  <2>1. mode = "task"
    BY <1>1 DEF Running
  <2> QED  BY <2>1, RunnerFacts
<1>6. Rest(status', r) = Tail(r)
  <2>1. status'[r[1]] = "exited"
    BY <1>1, <1>4
  <2> QED  BY <2>1 DEF Rest
<1>7. Goes(r, r, f, w, r, Tail(r), f, w)
  BY <1>3, <1>5, <1>6, GoesFacts
<1> QED  BY <1>4, <1>5, <1>7, MapsExit

\* block(q): the task is the last of q and no longer ready.
LEMMA BlockMaps ==
    ASSUME Induction, Fits, NEW r, NEW f, NEW w, Holds(r, f, w),
           NEW q \in WaitQueues, block(q)
    PROVE  Maps
<1>1. PICK w2 : w2 = [w EXCEPT ![q] = Append(w[q], r[1])]
  OBVIOUS
<1>2. /\ Holds(r, f, w2)' /\ mode = "task"
      /\ status' = [status EXCEPT ![r[1]] = "blocked"]
  BY <1>1, BlockStep
<1>3. /\ r \in Seq(Pcbs) /\ Distinct(r) /\ r # <<>> /\ r[1] \in Pcbs
      /\ status \in [Pcbs -> Statuses] /\ w \in [WaitQueues -> Seq(Pcbs)]
  BY QueueTypes
<1>4. Rest(status, r) = r
  BY <1>2, RunnerFacts
<1>5. Rest(status', r) = Tail(r)
  <2>1. status'[r[1]] = "blocked"
    BY <1>2, <1>3
  <2> QED  BY <2>1 DEF Rest
<1>6. Goes(r, r, f, w, r, Tail(r), f, w2)
  <2> HIDE <1>1
  <2> QED  BY <1>2, <1>4, <1>5, GoesFacts
<1> QED  BY <1>1, <1>3, <1>6, MapsBlock

\* unblock(q): the longest waiting task of q is the last ready one.
LEMMA UnblockMaps ==
    ASSUME Induction, Fits, NEW r, NEW f, NEW w, Holds(r, f, w),
           NEW q \in WaitQueues, unblock(q)
    PROVE  Maps
<1>1. PICK w2 : w2 = [w EXCEPT ![q] = Tail(w[q])]
  OBVIOUS
<1>2. PICK r2 : r2 = Append(r, w[q][1])
  OBVIOUS
<1>3. /\ Holds(r2, f, w2)' /\ w[q] # <<>> /\ mode = "task" /\ status'[r[1]] = "ready"
  BY <1>1, <1>2, UnblockStep
<1>4. /\ r \in Seq(Pcbs) /\ r # <<>> /\ w \in [WaitQueues -> Seq(Pcbs)] /\ Distinct(w[q])
  BY QueueTypes
<1>5. Rest(status, r) = r
  BY <1>3, RunnerFacts
<1>6. Rest(status', r2) = r2
  <2>1. r2[1] = r[1]
    <3>1. w[q] \in Seq(Pcbs)
      BY <1>4
    <3>2. w[q][1] \in Pcbs
      BY <1>3, <3>1, FirstItem
    <3>3. Append(r, w[q][1])[1] = r[1]
      BY <1>4, <3>2, FirstKept
    <3> QED  BY <1>2, <3>3
  <2> QED  BY <1>3, <2>1 DEF Rest
<1>7. Goes(r, r, f, w, r2, r2, f, w2)
  BY <1>3, <1>5, <1>6, GoesFacts
<1> QED  BY <1>1, <1>2, <1>3, <1>4, <1>7, MapsUnblock

\* alloc_pcb(): the first free PCB is handed out, or the kernel stops.
LEMMA AllocMaps ==
    ASSUME Induction, Fits, NEW r, NEW f, NEW w, Holds(r, f, w), alloc_pcb
    PROVE  Maps
<1>1. CASE mem.head["free"] = Null \/ stacks = MaxStacks
  <2>1. Holds(r, f, w)' /\ status' = status
    BY <1>1, PanicStep
  <2> QED  BY <2>1, KeepsMaps
<1>2. CASE ~(mem.head["free"] = Null \/ stacks = MaxStacks)
  <2>1. PICK f2 : f2 = Tail(f)
    OBVIOUS
  <2>2. /\ Holds(r, f2, w)' /\ f # <<>> /\ mode = "task"
        /\ status'[r[1]] = "ready" /\ status[r[1]] = "ready"
    BY <1>2, <2>1, AllocStep
  <2>3. Rest(status, r) = r /\ Rest(status', r) = r
    BY <2>2 DEF Rest
  <2>4. Goes(r, r, f, w, r, r, f2, w)
    BY <2>2, <2>3, GoesFacts
  <2>5. /\ f \in Seq(Pcbs) /\ Distinct(f)
        /\ \A t \in Pcbs : t \in Items(r) => t \notin Items(f)
        /\ \A q \in WaitQueues : \A t \in Items(w[q]) : t \notin Items(f)
    BY QueueTypes
  <2>6. f[1] \in Pcbs /\ f[1] \in Items(f)
    BY <2>2, <2>5, FirstItem
  <2>7. f[1] \notin Items(r) /\ \A q \in WaitQueues : f[1] \notin Items(w[q])
    BY <2>5, <2>6
  <2> QED  BY <2>1, <2>2, <2>4, <2>5, <2>7, MapsAlloc
<1> QED  BY <1>1, <1>2

\* The newborn task is the last ready one.
LEMMA InsertMaps ==
    ASSUME Induction, Fits, NEW r, NEW f, NEW w, Holds(r, f, w), InsertNewborn
    PROVE  Maps
<1>1. PICK p : p = newborn[r[1]]
  BY SMT
<1>2. PICK r2 : r2 = Append(r, p)
  OBVIOUS
<1>3. Holds(r2, f, w)' /\ mode = "task" /\ p \in Pcbs /\ Outside(p, r, f, w)
  BY <1>1, <1>2, InsertStep
<1>4. r \in Seq(Pcbs) /\ r # <<>>
  BY QueueTypes
<1>5. Rest(status, r) = r /\ status[r[1]] = "ready"
  BY <1>3, RunnerFacts
<1>6. Rest(status', r2) = r2
  <2>1. r2[1] = r[1]
    BY <1>2, <1>3, <1>4, FirstKept
  <2>2. status' = status
    BY DEF InsertNewborn
  <2> QED  BY <1>5, <2>1, <2>2 DEF Rest
<1>7. Goes(r, r, f, w, r2, r2, f, w)
  BY <1>3, <1>5, <1>6, GoesFacts
<1> QED  BY <1>2, <1>3, <1>4, <1>7, MapsInsert

\* scheduler() goes on to the next task.
LEMMA AdvanceMaps ==
    ASSUME Induction, Fits, NEW r, NEW f, NEW w, Holds(r, f, w), Advance
    PROVE  Maps
<1>1. PICK r2 : r2 = Append(Tail(r), r[1])
  OBVIOUS
<1>2. /\ Holds(r2, f, w)' /\ status[r[1]] \notin {"blocked", "exited"}
      /\ status'[r2[1]] \notin {"blocked", "exited"}
  BY <1>1, AdvanceStep
<1>3. Rest(status, r) = r /\ Rest(status', r2) = r2
  BY <1>2 DEF Rest
<1>4. Goes(r, r, f, w, r2, r2, f, w)
  BY <1>2, <1>3, GoesFacts
<1>5. r \in Seq(Pcbs) /\ Distinct(r) /\ r # <<>>
  BY QueueTypes
<1> QED  BY <1>1, <1>4, <1>5, MapsRotate

\* scheduler() unlinks a task that block() has already moved.
LEMMA RemoveBlockedMaps ==
    ASSUME Induction, Fits, NEW r, NEW f, NEW w, Holds(r, f, w), RemoveBlocked
    PROVE  Maps
<1>1. PICK r2 : r2 = Tail(r)
  OBVIOUS
<1>2. /\ Holds(r2, f, w)' /\ status[r[1]] = "blocked"
      /\ status'[r2[1]] \notin {"blocked", "exited"}
  BY <1>1, RemoveBlockedStep
<1>3. Rest(status, r) = r2 /\ Rest(status', r2) = r2
  BY <1>1, <1>2 DEF Rest
<1>4. Goes(r, r2, f, w, r2, r2, f, w)
  BY <1>2, <1>3, GoesFacts
<1> QED  BY <1>4, Stutters

\* scheduler() frees the PCB of a task that has exited.
LEMMA RemoveExitedMaps ==
    ASSUME Induction, Fits, NEW r, NEW f, NEW w, Holds(r, f, w), RemoveExited
    PROVE  Maps
<1>1. PICK r2 : r2 = Tail(r)
  OBVIOUS
<1>2. PICK f2 : f2 = Append(f, r[1])
  OBVIOUS
<1>3. /\ Holds(r2, f2, w)' /\ status[r[1]] = "exited"
      /\ status'[r2[1]] \notin {"blocked", "exited"}
  BY <1>1, <1>2, RemoveExitedStep
<1>4. Rest(status, r) = r2 /\ Rest(status', r2) = r2
  BY <1>1, <1>3 DEF Rest
<1>5. Goes(r, r2, f, w, r2, r2, f2, w)
  BY <1>3, <1>4, GoesFacts
<1>6. Outside(r[1], r2, f, w)
  <2>1. Waiting(status, w) /\ r[1] \in Pcbs
    BY HoldsFacts
  <2>2. status[r[1]] # "blocked" /\ status[r[1]] \in {"blocked", "exited"}
    BY <1>3
  <2>3. Removing(r, f)
    BY <2>2, RemovingFacts
  <2> QED  BY <1>1, <2>1, <2>2, <2>3 DEF Outside, Waiting, Removing
<1>7. f \in Seq(Pcbs) /\ r[1] \in Pcbs
  BY QueueTypes
<1> QED  BY <1>2, <1>5, <1>6, <1>7, MapsFree

\* So the first state means a first state of the abstract queues.
LEMMA InitMaps ==
    ASSUME Induction, Fits, SchedulerInit
    PROVE  SchedulerInv /\ AsTaskQueues!Init
<1>1. PICK r : r = BootRing
  BY SMT
<1>2. PICK f : f = BootFree
  BY SMT
<1>3. Holds(r, f, NoWaits)
  BY <1>1, <1>2, BootHolds
<1>4. Linked(mem, r, f, NoWaits) /\ current_running = r[1] /\ r[1] \in Pcbs /\ mode = "task"
  BY <1>3, HoldsFacts DEF SchedulerInit
<1>5. Rest(status, r) = r
  BY <1>3, <1>4, RunnerFacts
<1>6. View(r, r, f, NoWaits)
  BY <1>4, <1>5, Viewed
<1>7. SchedulerInv
  BY <1>3, <1>6 DEF View, SchedulerInv, Holds
<1>8. NPcbs \in Nat /\ Boot \in 1 .. NPcbs
  BY SMT, SchedulerAssumption DEF Pcbs
<1>9. PICK s : s = r \o f
  OBVIOUS
<1>10. s \in Seq(Pcbs) /\ Len(s) = NPcbs /\ \A i \in 1 .. NPcbs : s[i] = i
  <2>1. /\ r \in Seq(Pcbs) /\ f \in Seq(Pcbs) /\ Len(r) = Boot /\ Len(f) = NPcbs - Boot
    BY <1>1, <1>2, BootFacts
  <2>2. \A i \in 1 .. Boot : r[i] = i
    BY <1>1 DEF BootRing
  <2>3. \A i \in 1 .. NPcbs - Boot : f[i] = Boot + i
    BY <1>2 DEF BootFree
  <2>4. s \in Seq(Pcbs) /\ Len(s) = NPcbs
    <3>1. \A a, b \in Seq(Pcbs) : a \o b \in Seq(Pcbs) /\ Len(a \o b) = Len(a) + Len(b)
      BY SMT
    <3>2. s \in Seq(Pcbs) /\ Len(s) = Boot + (NPcbs - Boot)
      BY <1>9, <2>1, <3>1
    <3> QED  BY SMT, <1>8, <3>2
  <2>5. ASSUME NEW i \in 1 .. NPcbs PROVE s[i] = i
    <3>1. CASE i <= Boot
      BY SMT, <1>8, <1>9, <2>1, <2>2, <3>1
    <3>2. CASE ~(i <= Boot)
      <4>1. i - Boot \in 1 .. NPcbs - Boot /\ Boot + (i - Boot) = i
        BY SMT, <1>8, <3>2
      <4>2. s[i] = f[i - Boot]
        BY SMT, <1>8, <1>9, <2>1, <3>2
      <4> QED  BY <2>3, <4>1, <4>2
    <3> QED  BY <3>1, <3>2
  <2> QED  BY <2>4, <2>5
<1>11. Distinct(s) /\ Items(s) = Pcbs
  BY SMT, <1>8, <1>10 DEF Distinct, Items, Pcbs
<1>12. InNone(r, f, NoWaits) = {}
  <2>1. \A t \in Pcbs : t \in Items(r) \/ t \in Items(f)
    BY SMT, <1>1, <1>2, <1>8, BootFacts DEF Pcbs
  <2> QED  BY <2>1 DEF InNone
<1>13. r \in Seq(Pcbs) /\ f \in Seq(Pcbs)
  BY <1>1, <1>2, BootFacts
<1>14. AsTaskQueues!Init
  <2>1. Ready = r /\ FreePcbs = f /\ Waits = NoWaits
    BY <1>6 DEF View
  <2>2. InNone(Ready, FreePcbs, Waits) = {} /\ Ready \o FreePcbs = s
    BY <1>9, <1>12, <2>1
  <2>3. Waits = [q \in WaitQueues |-> <<>>] /\ Ready \in Seq(Pcbs) /\ FreePcbs \in Seq(Pcbs)
    BY <1>13, <2>1 DEF NoWaits
  <2>4. AsTaskQueues!Distinct(s) /\ AsTaskQueues!Items(s) = Pcbs
    BY <1>11 DEF Distinct, Items, AsTaskQueues!Distinct, AsTaskQueues!Items
  <2> QED  BY <2>2, <2>3, <2>4 DEF AsTaskQueues!Init
<1> QED  BY <1>7, <1>14

-----------------------------------------------------------------------------
(* All steps *)

\* Every step keeps the invariant and means a step of the abstract queues.
LEMMA NextMaps ==
    ASSUME Induction, Fits, SchedulerInv, [SchedulerNext]_schedulerVars
    PROVE  SchedulerInv' /\ [AsTaskQueues!Next]_AsTaskQueues!vars
<1>1. PICK r : r = RingOf("ready")
  BY SMT
<1>2. PICK f : f = FreePcbs
  BY SMT
<1>3. PICK w : w = Waits
  BY SMT
<1>4. Holds(r, f, w)
  BY <1>1, <1>2, <1>3 DEF SchedulerInv, Holds
<1>5. Maps
  <2>1. CASE yield
    BY <1>4, <2>1, YieldMaps
  <2>2. CASE msleep
    BY <1>4, <2>2, SleepMaps
  <2>3. CASE exit
    BY <1>4, <2>3, ExitMaps
  <2>4. CASE alloc_pcb
    BY <1>4, <2>4, AllocMaps
  <2>5. CASE InsertNewborn
    BY <1>4, <2>5, InsertMaps
  <2>6. ASSUME NEW q \in WaitQueues, block(q) PROVE Maps
    BY <1>4, <2>6, BlockMaps
  <2>7. ASSUME NEW q \in WaitQueues, unblock(q) PROVE Maps
    BY <1>4, <2>7, UnblockMaps
  <2>8. ASSUME NEW t \in Pcbs, Expire(t) PROVE Maps
    BY <1>4, <2>8, ExpireMaps
  <2>9. CASE Advance
    BY <1>4, <2>9, AdvanceMaps
  <2>10. CASE RemoveBlocked
    BY <1>4, <2>10, RemoveBlockedMaps
  <2>11. CASE RemoveExited
    BY <1>4, <2>11, RemoveExitedMaps
  <2>12. CASE UNCHANGED schedulerVars
    <3>1. /\ mem' = mem /\ status' = status /\ mode' = mode /\ expired' = expired
          /\ stacks' = stacks /\ newborn' = newborn
      BY <2>12 DEF schedulerVars
    <3>2. Holds(r, f, w)'
      <4>1. /\ SchedulerTypeOK /\ StopsOnlyForResources /\ QueuesAre(r, f, w)
        BY <1>4 DEF Holds
      <4>2. SchedulerTypeOK'
        BY <3>1, <4>1 DEF SchedulerTypeOK, current_running
      <4>3. StopsOnlyForResources' /\ QueuesAre(r, f, w)'
        BY <3>1, <4>1 DEF StopsOnlyForResources, QueuesAre
      <4> QED  BY <4>2, <4>3 DEF Holds
    <3> QED  BY <1>4, <3>1, <3>2, KeepsMaps
  <2> QED
    BY <2>1, <2>2, <2>3, <2>4, <2>5, <2>6, <2>7, <2>8, <2>9, <2>10, <2>11, <2>12
       DEF SchedulerNext, SchedulerStep
<1> QED  BY <1>5 DEF Maps

\* alloc_pcb() is the only call that sets a newborn, to a PCB that has never
\* been used as long as there are no more stacks than PCBs.
LEMMA NewbornStep ==
    ASSUME SchedulerInv, SchedulerNext, MaxStacks <= NPcbs,
           NEW t \in Pcbs, newborn'[t] # newborn[t], newborn'[t] # Null
    PROVE  status[newborn'[t]] = "first"
<1>1. PICK r : r = RingOf("ready")
  BY SMT
<1>2. PICK f : f = FreePcbs
  BY SMT
<1>3. PICK w : w = Waits
  BY SMT
<1>4. Holds(r, f, w)
  BY <1>1, <1>2, <1>3 DEF SchedulerInv, Holds
<1>5. newborn' # newborn
  OBVIOUS
<1>6. newborn \in [Pcbs -> Memory] /\ current_running = r[1] /\ Unused(status, stacks, f)
  BY <1>4, HoldsFacts
<1>7. ~InsertNewborn
  <2>1. SUFFICES ASSUME InsertNewborn PROVE FALSE
    BY SMT
  <2>2. newborn' = [newborn EXCEPT ![r[1]] = Null]
    BY <1>6, <2>1 DEF InsertNewborn
  <2> QED  BY <1>6, <2>2
<1>8. alloc_pcb
  BY <1>5, <1>7
     DEF SchedulerNext, SchedulerStep, yield, msleep, exit, block, unblock, Expire,
         Advance, RemoveBlocked, RemoveExited
<1>9. ~(mem.head["free"] = Null \/ stacks = MaxStacks)
  BY <1>5, <1>8 DEF alloc_pcb
<1>10. /\ f # <<>> /\ newborn' = [newborn EXCEPT ![r[1]] = f[1]]
       /\ stacks \in 0 .. MaxStacks - 1
  BY <1>4, <1>8, <1>9, AllocStep
<1>11. newborn'[t] = f[1]
  BY <1>6, <1>10
<1>12. status[f[1]] = "first"
  <2>1. 1 <= NPcbs - stacks
    BY SMT, <1>10, SchedulerAssumption
  <2>2. 1 \in 1 .. Len(f)
    <3>1. f \in Seq(Pcbs)
      BY <1>4, QueueTypes
    <3> QED  BY SMT, <1>10, <3>1
  <2> QED  BY <1>6, <2>1, <2>2 DEF Unused
<1> QED  BY <1>11, <1>12

\* What the invariant says of the two rings and of the assertions.
LEMMA InvSound ==
    ASSUME SchedulerInv PROVE RingsSound
<1>1. SchedulerTypeOK /\ StopsOnlyForResources /\ Linked(mem, RingOf("ready"), FreePcbs, Waits)
  BY DEF SchedulerInv, QueuesAre
<1>2. IsRing(mem, "ready", RingOf("ready")) /\ IsRing(mem, "free", RingOf("free"))
  BY <1>1 DEF Linked, FreePcbs
<1>3. RingsLinked
  <2>1. \A q \in {"ready", "free"} : IsRing(mem, q, RingOf(q))
    BY <1>2
  <2> QED  BY <2>1, RingBothWays DEF RingsLinked
<1> QED  BY <1>1, <1>3 DEF RingsSound

-----------------------------------------------------------------------------
(* The facts of the library, and the theorems *)

INSTANCE WellFoundedInduction
INSTANCE FiniteSetTheorems

\* Every nonempty set of natural numbers has a least element.
LEMMA InductionHolds == Induction
<1> SUFFICES ASSUME NEW T \in SUBSET Nat, T # {} PROVE \E m \in T : \A n \in T : m <= n
  BY DEF Induction
<1> DEFINE R == OpToRel(<, Nat)
<1>1. IsWellFoundedOn(R, Nat)
  BY NatLessThanWellFounded
<1>2. \A x, y \in Nat : y < x => <<y, x>> \in R
  BY SMT DEF OpToRel
<1> HIDE DEF R
<1>3. PICK m \in T : \A y \in T : ~(<<y, m>> \in R)
  BY <1>1, WFMin
<1>4. ASSUME NEW n \in T PROVE m <= n
  <2>1. m \in Nat /\ n \in Nat /\ ~(<<n, m>> \in R)
    BY <1>3
  <2>2. ~(n < m)
    BY <1>2, <2>1
  <2> QED  BY SMT, <2>1, <2>2
<1> QED  BY <1>4

\* A queue of distinct PCBs is an injection into the PCB table.
LEMMA FitsHolds == Fits
<1> SUFFICES ASSUME NEW s \in Seq(Pcbs), Distinct(s) PROVE Len(s) <= NPcbs
  BY DEF Fits
<1>1. NPcbs \in Nat /\ Len(s) \in Nat
  BY SMT, SchedulerAssumption
<1>2. /\ IsFiniteSet(Pcbs) /\ Cardinality(Pcbs) = NPcbs
      /\ IsFiniteSet(1 .. Len(s)) /\ Cardinality(1 .. Len(s)) = Len(s)
  <2>1. \A n \in Nat : IsFiniteSet(1 .. n) /\ Cardinality(1 .. n) = n
    <3>1. SUFFICES ASSUME NEW n \in Nat PROVE IsFiniteSet(1 .. n) /\ Cardinality(1 .. n) = n
      BY SMT
    <3>2. 1 \in Int /\ n \in Int /\ (IF 1 > n THEN 0 ELSE n - 1 + 1) = n
      BY SMT
    <3>3. /\ IsFiniteSet(1 .. n)
          /\ Cardinality(1 .. n) = IF 1 > n THEN 0 ELSE n - 1 + 1
      BY <3>2, FS_Interval
    <3> QED  BY SMT, <3>3
  <2> QED  BY <1>1, <2>1 DEF Pcbs
<1>3. s \in Injection(1 .. Len(s), Pcbs)
  <2>1. s \in [1 .. Len(s) -> Pcbs]
    BY SMT
  <2> QED  BY <2>1 DEF Injection, IsInjective, Distinct
<1>4. Cardinality(1 .. Len(s)) <= Cardinality(Pcbs)
  BY <1>2, <1>3, FS_Injection
<1> QED  BY <1>2, <1>4

\* scheduler.c, pcb.c: whatever the number of PCBs, boot threads, stacks and
\* wait queues, the pointers stand for a ready ring, a free ring and wait lists
\* that share no task but one on its way out of the ready ring, the blocked
\* tasks are those that wait, the clock thread is always ready, and a newborn
\* is in no queue.
THEOREM SchedulerInvariant == SchedulerSpec => []SchedulerInv
<1>1. SchedulerInit => SchedulerInv
  BY InitMaps, InductionHolds, FitsHolds
<1>2. SchedulerInv /\ [SchedulerNext]_schedulerVars => SchedulerInv'
  BY NextMaps, InductionHolds, FitsHolds
<1> QED  BY <1>1, <1>2, PTL DEF SchedulerSpec

\* scheduler.c, pcb.c: both rings can always be walked in both directions, and
\* the kernel stops only for want of a PCB or a kernel stack: no assertion of
\* queue_insert() or of scheduler() fails.
THEOREM RingsSoundAlways == SchedulerSpec => []RingsSound
<1>1. SchedulerInv => RingsSound
  BY InvSound
<1> QED  BY <1>1, SchedulerInvariant, PTL

\* scheduler.c, pcb.c: every store to the pointers, those of queue_shift()
\* through NULL included, means the step of TaskQueues that the call is for:
\* the ready tasks run in turn, blocked ones are woken in the order they came.
THEOREM SchedulerImplements == SchedulerSpec => ImplementsTaskQueues
<1>1. SchedulerInit => AsTaskQueues!Init
  BY InitMaps, InductionHolds, FitsHolds
<1>2. SchedulerInv /\ [SchedulerNext]_schedulerVars => [AsTaskQueues!Next]_AsTaskQueues!vars
  BY NextMaps, InductionHolds, FitsHolds
<1> QED
  BY <1>1, <1>2, SchedulerInvariant, PTL
     DEF SchedulerSpec, ImplementsTaskQueues, AsTaskQueues!Spec

\* pcb.c: with no more kernel stacks than PCBs alloc_pcb() hands out only PCBs
\* that no task has had before.
THEOREM NeverReused == SchedulerSpec => PcbNeverReused
<1>1. SchedulerInv /\ [SchedulerNext]_schedulerVars =>
        [MaxStacks <= NPcbs =>
           \A t \in Pcbs : newborn'[t] # newborn[t] /\ newborn'[t] # Null
                              => status[newborn'[t]] = "first"]_schedulerVars
  BY NewbornStep
<1> QED  BY <1>1, SchedulerInvariant, PTL DEF SchedulerSpec, PcbNeverReused
=============================================================================
