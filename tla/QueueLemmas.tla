---------------------------- MODULE QueueLemmas -----------------------------
(***************************************************************************)
(* What taking the first item of a queue and adding a last one do to its   *)
(* items: the facts every proof about a free list or a wait queue rests on.*)
(***************************************************************************)
EXTENDS Queues, TLAPS

\* Tail drops the first item and, from a sequence of distinct items, nothing
\* else: what remove_page_frame_from_free_list_info() and fifo_dequeue() do.
LEMMA TailFacts ==
    ASSUME NEW S, NEW s \in Seq(S), s # <<>>
    PROVE  /\ Tail(s) \in Seq(S) /\ Head(s) = s[1] /\ Head(s) \in S
           /\ Len(s) \in Nat /\ Len(s) >= 1 /\ Len(Tail(s)) = Len(s) - 1
           /\ \A i \in 1 .. Len(s) - 1 : Tail(s)[i] = s[i + 1]
           /\ Distinct(s) => /\ Distinct(Tail(s))
                             /\ Items(Tail(s)) = Items(s) \ {Head(s)}
<1>1. /\ Tail(s) \in Seq(S) /\ Head(s) = s[1] /\ Head(s) \in S
      /\ Len(s) \in Nat /\ Len(s) >= 1 /\ Len(Tail(s)) = Len(s) - 1
      /\ \A i \in 1 .. Len(s) - 1 : Tail(s)[i] = s[i + 1]
  OBVIOUS
<1>2. ASSUME Distinct(s) PROVE Distinct(Tail(s))
  <2>1. SUFFICES ASSUME NEW i \in 1 .. Len(Tail(s)), NEW j \in 1 .. Len(Tail(s)),
                        Tail(s)[i] = Tail(s)[j]
                 PROVE  i = j
    BY DEF Distinct
  <2>2. s[i + 1] = s[j + 1] /\ i + 1 \in 1 .. Len(s) /\ j + 1 \in 1 .. Len(s)
    BY <1>1, <2>1
  <2> QED  BY <2>2, <1>2 DEF Distinct
<1>3. ASSUME Distinct(s) PROVE Items(Tail(s)) = Items(s) \ {Head(s)}
  <2>1. ASSUME NEW x \in Items(Tail(s)) PROVE x \in Items(s) \ {Head(s)}
    <3>1. PICK i \in 1 .. Len(Tail(s)) : x = Tail(s)[i]
      BY Zenon, <2>1 DEF Items
    <3>2. /\ i + 1 \in 1 .. Len(s) /\ x = s[i + 1] /\ 1 \in 1 .. Len(s)
          /\ i + 1 # 1
      BY <1>1, <3>1
    <3> QED  BY <1>1, <1>3, <3>2 DEF Items, Distinct
  <2>2. ASSUME NEW x \in Items(s) \ {Head(s)} PROVE x \in Items(Tail(s))
    <3>1. PICK i \in 1 .. Len(s) : x = s[i]
      BY <2>2 DEF Items
    <3>2. i - 1 \in 1 .. Len(Tail(s)) /\ x = Tail(s)[i - 1]
      BY <1>1, <2>2, <3>1
    <3> QED  BY <3>2 DEF Items
  <2> QED  BY <2>1, <2>2
<1> QED  BY <1>1, <1>2, <1>3

\* Append adds one item at the end: fifo_enqueue() and block().
LEMMA AppendFacts ==
    ASSUME NEW S, NEW s \in Seq(S), NEW e \in S
    PROVE  /\ Append(s, e) \in Seq(S)
           /\ Items(Append(s, e)) = Items(s) \cup {e}
           /\ Len(Append(s, e)) = Len(s) + 1
           /\ \A i \in 1 .. Len(s) : Append(s, e)[i] = s[i]
           /\ Append(s, e)[Len(s) + 1] = e
           /\ Distinct(s) /\ e \notin Items(s) => Distinct(Append(s, e))
<1>1. /\ Append(s, e) \in Seq(S)
      /\ Len(s) \in Nat /\ Len(Append(s, e)) = Len(s) + 1
      /\ \A i \in 1 .. Len(s) : Append(s, e)[i] = s[i]
      /\ Append(s, e)[Len(s) + 1] = e
  OBVIOUS
<1>2. Items(Append(s, e)) = Items(s) \cup {e}
  <2>1. ASSUME NEW x \in Items(Append(s, e)) PROVE x \in Items(s) \cup {e}
    <3>1. PICK i \in 1 .. Len(s) + 1 : x = Append(s, e)[i]
      BY <1>1, <2>1 DEF Items
    <3>2. CASE i = Len(s) + 1
      BY <1>1, <3>1, <3>2
    <3>3. CASE i \in 1 .. Len(s)
      BY <1>1, <3>1, <3>3 DEF Items
    <3> QED  BY <1>1, <3>2, <3>3
  <2>2. ASSUME NEW x \in Items(s) PROVE x \in Items(Append(s, e))
    <3>1. PICK i \in 1 .. Len(s) : x = s[i]
      BY <2>2 DEF Items
    <3>2. i \in 1 .. Len(Append(s, e)) /\ x = Append(s, e)[i]
      BY <1>1, <3>1
    <3> QED  BY <3>2 DEF Items
  <2>3. e \in Items(Append(s, e))
    <3>1. Len(s) + 1 \in 1 .. Len(Append(s, e))
      BY <1>1
    <3> QED  BY <1>1, <3>1 DEF Items
  <2> QED  BY <2>1, <2>2, <2>3
<1>3. ASSUME Distinct(s), e \notin Items(s) PROVE Distinct(Append(s, e))
  <2>1. SUFFICES ASSUME NEW i \in 1 .. Len(s) + 1, NEW j \in 1 .. Len(s) + 1,
                        Append(s, e)[i] = Append(s, e)[j]
                 PROVE  i = j
    BY <1>1 DEF Distinct
  <2>2. \A k \in 1 .. Len(s) : s[k] # e
    BY <1>3 DEF Items
  <2>3. CASE i \in 1 .. Len(s) /\ j \in 1 .. Len(s)
    BY <1>1, <1>3, <2>1, <2>3 DEF Distinct
  <2>4. CASE i = Len(s) + 1 \/ j = Len(s) + 1
    BY <1>1, <2>1, <2>2, <2>4
  <2> QED  BY <1>1, <2>3, <2>4
<1> QED  BY <1>1, <1>2, <1>3

\* A queue is a function on 1 .. Len, and empty exactly when it has length 0.
LEMMA SeqFacts ==
    ASSUME NEW S, NEW s \in Seq(S)
    PROVE  /\ Len(s) \in Nat /\ s \in [1 .. Len(s) -> S]
           /\ \A i \in 1 .. Len(s) : s[i] \in S
           /\ s # <<>> => Len(s) >= 1
  OBVIOUS

\* A queue that nobody waits in.
LEMMA EmptyFacts == ASSUME NEW S PROVE <<>> \in Seq(S) /\ Len(<<>>) = 0
  OBVIOUS

\* An array filled from its first slot on is a queue.
LEMMA FunctionIsSeq ==
    ASSUME NEW S, NEW n \in Nat, NEW f \in [1 .. n -> S]
    PROVE  f \in Seq(S) /\ Len(f) = n
  OBVIOUS

=============================================================================
