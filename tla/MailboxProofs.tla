---------------------------- MODULE MailboxProofs ---------------------------
(***************************************************************************)
(* A mailbox of kernel/mbox.c, for any number of threads, messages and     *)
(* cells.  First the buffer: messages lie one behind the other from the    *)
(* tail on, wrapped at the end, and following the headers gives them back. *)
(* Then the mailbox: space_available() tells the cells that the messages   *)
(* leave, the mailbox is a queue of messages, and a thread that sleeps in  *)
(* it is left there only by the gap before block().                        *)
(***************************************************************************)
EXTENDS Mailbox, QueueLemmas, TLAPS

\* The messages ms fill the cells from first on, the i-th one from off[i - 1]
\* cells further on to off[i].
Stored(cells, first, ms, off) ==
    /\ ms \in Seq(Bodies)
    /\ off \in [0 .. Len(ms) -> Nat] /\ off[0] = 0
    /\ \A i \in 1 .. Len(ms) : off[i] = off[i - 1] + 1 + Len(ms[i])
    /\ \A i, j \in 0 .. Len(ms) : j <= i => i - j <= off[i] - off[j]
    /\ off[Len(ms)] <= BUFFER_SIZE
    /\ \A i \in 1 .. Len(ms) :
        /\ cells[(first + off[i - 1]) % BUFFER_SIZE] = Len(ms[i])
        /\ \A j \in 1 .. Len(ms[i]) :
              cells[(first + off[i - 1] + j) % BUFFER_SIZE] = ms[i][j]

\* What is used of the theorems on finite sets and on the naturals.
LibraryFacts ==
    /\ \A T \in SUBSET Nat : T # {} => \E n \in T : \A m \in T : n <= m
    /\ Cardinality({}) = 0 /\ \A x : Cardinality({x}) = 1
    /\ Cardinality(Callers) \in Nat
    /\ \A S \in SUBSET Callers :
        /\ Cardinality(S) \in Nat /\ Cardinality(S) <= Cardinality(Callers)
        /\ Cardinality(S) = 0 <=> S = {}
        /\ \A t \in Callers :
              /\ t \notin S => Cardinality(S \cup {t}) = Cardinality(S) + 1
              /\ t \in S => Cardinality(S \ {t}) = Cardinality(S) - 1

\* The remainder of a number less than two buffers away.
LEMMA Modulo ==
    \A b \in Nat, x \in Int : b > 0 =>
        /\ x % b \in 0 .. b - 1
        /\ 0 <= x /\ x < b => x % b = x
        /\ b <= x /\ x < 2 * b => x % b = x - b
        /\ -b <= x /\ x < 0 => x % b = x + b
  BY SMT

\* What a remainder is.
LEMMA Division ==
    ASSUME NEW b \in Nat, b > 0, NEW x \in Int
    PROVE  x % b \in 0 .. b - 1 /\ \E i \in Int : x = b * i + (x % b)
<1>1. x % b \in 0 .. b - 1
  BY SMT
<1>2. \E i \in Int : x = b * i + (x % b)
  BY SMT
<1> QED  BY Zenon, <1>1, <1>2

\* A remainder may be taken early: head and tail wrap at every step.
LEMMA ModuloSum ==
    ASSUME NEW b \in Nat, b > 0, NEW x \in Int, NEW y \in Int
    PROVE  ((x % b) + y) % b = (x + y) % b
<1> DEFINE r == x % b
           s == (r + y) % b
           u == (x + y) % b
<1>1. PICK i \in Int : r \in 0 .. b - 1 /\ x = b * i + r
  BY Zenon, Division
<1>2. PICK j \in Int : s \in 0 .. b - 1 /\ r + y = b * j + s
  <2> HIDE DEF r
  <2>1. r + y \in Int
    BY <1>1
  <2> QED  BY Zenon, <2>1, Division
<1>3. PICK k \in Int : u \in 0 .. b - 1 /\ x + y = b * k + u
  <2>1. x + y \in Int
    OBVIOUS
  <2> QED  BY Zenon, <2>1, Division
<1> HIDE DEF r, s, u
<1>4. b * (i + j - k) = u - s
  BY <1>1, <1>2, <1>3
<1>5. \A l \in Int : (l >= 1 => b * l >= b) /\ (l <= -1 => b * l <= -b)
  BY SMT
<1>6. i + j - k = 0
  BY <1>1, <1>2, <1>3, <1>4, <1>5
<1>7. s = u
  BY <1>2, <1>3, <1>4, <1>6
<1> QED  BY Zenon, <1>7 DEF r, s, u

\* How far the d-th cell from t on is ahead of the o-th.
LEMMA Distance ==
    ASSUME NEW t \in Cells, NEW o \in 0 .. BUFFER_SIZE, NEW d \in Cells,
           NEW c, c = (t + d) % BUFFER_SIZE, NEW h, h = (t + o) % BUFFER_SIZE
    PROVE  /\ d >= o => (c - h) % BUFFER_SIZE = d - o
           /\ d < o => (c - h) % BUFFER_SIZE = d - o + BUFFER_SIZE
<1> DEFINE b == BUFFER_SIZE
<1>1. b \in Nat /\ b > 0 /\ t \in 0 .. b - 1 /\ d \in 0 .. b - 1 /\ o \in 0 .. b
  BY MailboxAssumption DEF Cells
<1>2. /\ c = (t + d) % b /\ h = (t + o) % b
  BY Zenon
<1> HIDE DEF b
<1>3. c = (IF t + d < b THEN t + d ELSE t + d - b)
  BY <1>1, <1>2, Modulo
<1>4. h = (IF t + o < b THEN t + o ELSE t + o - b)
  BY <1>1, <1>2, Modulo
<1>5. \A x \in Int : /\ 0 <= x /\ x < b => x % b = x
                     /\ -b <= x /\ x < 0 => x % b = x + b
  BY Zenon, <1>1, Modulo
<1>6. c \in 0 .. b - 1 /\ h \in 0 .. b - 1
  BY <1>1, <1>3, <1>4
<1>7. (c - h) % b = IF c >= h THEN c - h ELSE c - h + b
  BY <1>1, <1>5, <1>6
<1>8. ASSUME d >= o PROVE (c - h) % b = d - o
  <2>1. c >= h => c - h = d - o
    BY <1>1, <1>3, <1>4, <1>8
  <2>2. c < h => c - h + b = d - o
    BY <1>1, <1>3, <1>4, <1>8
  <2> QED  BY <1>6, <1>7, <2>1, <2>2
<1>9. ASSUME d < o PROVE (c - h) % b = d - o + b
  <2>1. c >= h => c - h = d - o + b
    BY <1>1, <1>3, <1>4, <1>9
  <2>2. c < h => c - h + b = d - o + b
    BY <1>1, <1>3, <1>4, <1>9
  <2> QED  BY <1>6, <1>7, <2>1, <2>2
<1> QED  BY Zenon, <1>8, <1>9 DEF b

\* Induction over a finite prefix goes by the least counterexample.
LEMMA LeastNat ==
    ASSUME LibraryFacts, NEW T \in SUBSET Nat, T # {}
    PROVE  \E n \in T : \A m \in T : n <= m
  BY Zenon DEF LibraryFacts

\* A message takes one cell more than its body, and comes out as it is.
LEMMA Body ==
    ASSUME NEW m \in Bodies
    PROVE  /\ Len(m) \in Nat /\ MSG_SIZE(m) = 1 + Len(m)
           /\ m = [j \in 1 .. Len(m) |-> m[j]]
           /\ Packet(m)[1] = Len(m)
           /\ \A j \in 1 .. Len(m) : Packet(m)[j + 1] = m[j]
<1>1. m \in Seq(Items(m))
  BY Zenon, MailboxAssumption
<1>2. Len(m) \in Nat /\ m \in [1 .. Len(m) -> Items(m)]
  BY Zenon, <1>1, SeqFacts
<1>3. MSG_SIZE(m) = 1 + Len(m)
  BY <1>1, <1>2 DEF MSG_SIZE, Packet
<1>4. Packet(m)[1] = Len(m)
  BY <1>1, <1>2 DEF Packet
<1>5. \A j \in 1 .. Len(m) : Packet(m)[j + 1] = m[j]
  BY <1>1, <1>2 DEF Packet
<1> QED  BY Zenon, <1>2, <1>3, <1>4, <1>5

\* Following the headers finds the messages where they were put.
LEMMA StartsAre ==
    ASSUME LibraryFacts, NEW cells, NEW first \in Cells, NEW ms, NEW off,
           Stored(cells, first, ms, off)
    PROVE  \A i \in 1 .. Len(ms) :
              Starts(cells, first, Len(ms))[i] =
                (first + off[i - 1]) % BUFFER_SIZE
<1> DEFINE n == Len(ms)
           Step(f, i) == IF i = 1 THEN first
                         ELSE (f[i - 1] + 1 + cells[f[i - 1]]) % BUFFER_SIZE
           F(f) == [i \in 1 .. n |-> Step(f, i)]
           g == [i \in 1 .. n |-> (first + off[i - 1]) % BUFFER_SIZE]
           f == Starts(cells, first, n)
<1>1. /\ n \in Nat /\ first \in Nat /\ first < BUFFER_SIZE
      /\ BUFFER_SIZE \in Nat
      /\ BUFFER_SIZE > 0 /\ \A i \in 0 .. n : off[i] \in Nat
      /\ \A i \in 1 .. n : Len(ms[i]) \in Nat
      /\ off[0] = 0
  BY MailboxAssumption, SeqFacts, Body DEF Stored, Cells
<1>2. ASSUME NEW i \in 1 .. n PROVE g[i] = Step(g, i)
  <2>1. CASE i = 1
    <3>1. g[1] = (first + off[0]) % BUFFER_SIZE
      BY <2>1
    <3>2. first + off[0] = first /\ first % BUFFER_SIZE = first
      BY <1>1, Modulo
    <3> QED  BY Zenon, <2>1, <3>1, <3>2
  <2>2. CASE i # 1
    <3>1. i - 1 \in 1 .. n /\ i - 1 - 1 = i - 2 /\ i - 2 \in 0 .. n
      BY <1>1, <2>2
    <3>2. g[i - 1] = (first + off[i - 2]) % BUFFER_SIZE
      BY Zenon, <3>1
    <3>3. cells[g[i - 1]] = Len(ms[i - 1])
      BY Zenon, <3>1, <3>2 DEF Stored
    <3> DEFINE p == off[i - 2]
               q == off[i - 1]
               l == Len(ms[i - 1])
    <3>4. q = p + 1 + l
      BY Zenon, <3>1 DEF Stored
    <3>5. p \in Nat /\ q \in Nat /\ l \in Nat
      BY <1>1, <3>1
    <3> HIDE DEF p, q, l
    <3>6. (((first + p) % BUFFER_SIZE) + (1 + l)) % BUFFER_SIZE
            = (first + q) % BUFFER_SIZE
      <4> DEFINE x == first + p
                 y == 1 + l
      <4>1. x \in Int /\ y \in Int /\ x + y = first + q
        BY <1>1, <3>4, <3>5
      <4>2. BUFFER_SIZE \in Nat /\ BUFFER_SIZE > 0
        BY <1>1
      <4> HIDE DEF x, y
      <4>3. ((x % BUFFER_SIZE) + y) % BUFFER_SIZE = (x + y) % BUFFER_SIZE
        BY Zenon, <4>1, <4>2, ModuloSum
      <4> QED  BY <4>1, <4>3 DEF x, y
    <3>7. (first + p) % BUFFER_SIZE \in Int
      BY <1>1, <3>5, Modulo
    <3>8. /\ g[i - 1] = (first + p) % BUFFER_SIZE
          /\ g[i] = (first + q) % BUFFER_SIZE
      BY Zenon, <3>2 DEF p, q
    <3>9. cells[g[i - 1]] = l
      BY Zenon, <3>3 DEF l
    <3> HIDE DEF g
    <3>10. g[i - 1] + (1 + l) = g[i - 1] + 1 + l
      BY <3>5, <3>7, <3>8
    <3> QED  BY Zenon, <2>2, <3>6, <3>8, <3>9, <3>10
  <2> QED  BY Zenon, <2>1, <2>2
<1>3. f = CHOOSE h : h = F(h)
  BY Zenon DEF Starts
<1>4. g = F(g)
  BY Zenon, <1>2
<1>5. f = F(f)
  <2> HIDE DEF F, f, g
  <2> QED  BY <1>3, <1>4, Zenon
<1>6. \A i \in 1 .. n : f[i] = Step(f, i)
  <2> HIDE DEF Step, f, n
  <2>1. \A i \in 1 .. n : F(f)[i] = Step(f, i)
    BY Zenon
  <2> HIDE DEF F
  <2> QED  BY <1>5, <2>1, Zenon
<1> HIDE DEF f, g, F
<1>7. ASSUME NEW i \in 1 .. n, f[i] # g[i] PROVE FALSE
  <2> DEFINE T == {k \in 1 .. n : f[k] # g[k]}
  <2>1. T \in SUBSET Nat /\ T # {}
    BY <1>1, <1>7
  <2>2. PICK k \in T : \A m \in T : k <= m
    BY Zenon, <2>1, LeastNat
  <2>3. k # 1
    BY Zenon, <1>1, <1>2, <1>6, <2>2
  <2>4. k \in 1 .. n /\ k - 1 \in 1 .. n /\ ~ (k <= k - 1)
    <3>1. n \in Nat /\ k \in 1 .. n
      BY <1>1, <2>2
    <3> HIDE DEF n, T
    <3> QED  BY <2>3, <3>1
  <2>5. f[k - 1] = g[k - 1]
    BY Zenon, <2>2, <2>4
  <2>6. f[k] = g[k]
    BY <1>2, <1>6, <2>4, <2>5
  <2> QED  BY Zenon, <2>2, <2>6
<1> QED  BY Zenon, <1>7 DEF f, g

\* What Stored says of the numbers.
LEMMA Numbers ==
    ASSUME NEW cells, NEW first, NEW ms, NEW off, Stored(cells, first, ms, off)
    PROVE  /\ Len(ms) \in Nat /\ BUFFER_SIZE \in Nat /\ BUFFER_SIZE > 0
           /\ off[0] = 0
           /\ \A i \in 0 .. Len(ms) : off[i] \in Nat /\ off[i] <= off[Len(ms)]
           /\ off[Len(ms)] \in 0 .. BUFFER_SIZE /\ Len(ms) <= off[Len(ms)]
           /\ Len(ms) = 0 <=> off[Len(ms)] = 0
           /\ \A i \in 1 .. Len(ms) :
                 /\ ms[i] \in Bodies /\ Len(ms[i]) \in Nat
                 /\ off[i - 1] \in Nat /\ off[i] = off[i - 1] + 1 + Len(ms[i])
<1>1. /\ Len(ms) \in Nat /\ BUFFER_SIZE \in Nat /\ BUFFER_SIZE > 0
      /\ off[0] = 0
      /\ \A i \in 0 .. Len(ms) : off[i] \in Nat
      /\ \A i \in 1 .. Len(ms) : ms[i] \in Bodies
  <2>1. BUFFER_SIZE \in Nat /\ BUFFER_SIZE > 0
    BY MailboxAssumption
  <2>2. ms \in Seq(Bodies) /\ off \in [0 .. Len(ms) -> Nat] /\ off[0] = 0
    BY Zenon DEF Stored
  <2> QED  BY Zenon, <2>1, <2>2, SeqFacts
<1>2. \A i, j \in 0 .. Len(ms) : j <= i => i - j <= off[i] - off[j]
  BY Zenon DEF Stored
<1>3. \A i \in 0 .. Len(ms) : off[i] <= off[Len(ms)]
  <2> TAKE i \in 0 .. Len(ms)
  <2>1. Len(ms) - i <= off[Len(ms)] - off[i]
    BY <1>1, <1>2
  <2> QED  BY <1>1, <2>1
<1>4. off[Len(ms)] \in 0 .. BUFFER_SIZE
  BY <1>1 DEF Stored
<1>5. Len(ms) <= off[Len(ms)]
  <2>1. Len(ms) - 0 <= off[Len(ms)] - off[0]
    BY <1>1, <1>2
  <2> QED  BY <1>1, <2>1
<1>6. Len(ms) = 0 <=> off[Len(ms)] = 0
  BY <1>1, <1>5
<1>7. \A i \in 1 .. Len(ms) :
          /\ Len(ms[i]) \in Nat
          /\ off[i - 1] \in Nat /\ off[i] = off[i - 1] + 1 + Len(ms[i])
  BY <1>1, Body DEF Stored
<1> QED  BY Zenon, <1>1, <1>3, <1>4, <1>5, <1>6, <1>7

\* What the headers lead to are the messages.
LEMMA Decoded ==
    ASSUME LibraryFacts, NEW cells, NEW first \in Cells, NEW ms, NEW off,
           Stored(cells, first, ms, off)
    PROVE  MessagesFrom(cells, first, Len(ms)) = ms
<1> DEFINE n == Len(ms)
           start == Starts(cells, first, n)
           Message(i) ==
               [j \in 1 .. cells[start[i]] |->
                  cells[(start[i] + j) % BUFFER_SIZE]]
<1>1. /\ n \in Nat /\ first \in Int /\ BUFFER_SIZE \in Nat /\ BUFFER_SIZE > 0
      /\ \A i \in 1 .. n :
           ms[i] \in Bodies /\ Len(ms[i]) \in Nat /\ off[i - 1] \in Nat
  BY Numbers DEF Cells
<1>2. ASSUME NEW i \in 1 .. n PROVE Message(i) = ms[i]
  <2> DEFINE s == start[i]
             p == off[i - 1]
             m == ms[i]
  <2>1. s = (first + p) % BUFFER_SIZE
    BY StartsAre
  <2>2. cells[s] = Len(m)
    BY Zenon, <2>1 DEF Stored
  <2>3. \A j \in 1 .. Len(m) : cells[(first + p + j) % BUFFER_SIZE] = m[j]
    BY Zenon DEF Stored
  <2>4. p \in Nat /\ Len(m) \in Nat /\ m \in Bodies
    BY Zenon, <1>1
  <2> HIDE DEF s, p, m
  <2>5. \A j \in 1 .. Len(m) : cells[(s + j) % BUFFER_SIZE] = m[j]
    <3> TAKE j \in 1 .. Len(m)
    <3>1. (s + j) % BUFFER_SIZE = (first + p + j) % BUFFER_SIZE
      <4>1. first + p \in Int /\ j \in Int
        BY <1>1, <2>4
      <4> QED  BY Zenon, <1>1, <2>1, <4>1, ModuloSum
    <3> QED  BY Zenon, <2>3, <3>1
  <2>6. [j \in 1 .. cells[s] |-> cells[(s + j) % BUFFER_SIZE]] =
          [j \in 1 .. Len(m) |-> m[j]]
    BY Zenon, <2>2, <2>5
  <2>7. [j \in 1 .. Len(m) |-> m[j]] = m
    BY Zenon, <2>4, Body
  <2> QED  BY <2>6, <2>7, Zenon DEF s, m
<1>3. MessagesFrom(cells, first, n) = [i \in 1 .. n |-> Message(i)]
  BY Zenon DEF MessagesFrom
<1>4. ms = [i \in 1 .. n |-> ms[i]]
  <2>1. ms \in Seq(Bodies)
    BY Zenon DEF Stored
  <2> QED  BY Zenon, <2>1, SeqFacts
<1> HIDE DEF Message, n
<1>5. [i \in 1 .. n |-> Message(i)] = [i \in 1 .. n |-> ms[i]]
  BY Zenon, <1>2
<1> QED  BY Zenon, <1>3, <1>4, <1>5 DEF n

\* The cells that the messages leave.
LEMMA Left ==
    ASSUME LibraryFacts, NEW cells, NEW first, NEW ms, NEW off,
           Stored(cells, first, ms, off)
    PROVE  CellsLeft(ms) = BUFFER_SIZE - off[Len(ms)]
<1> DEFINE n == Len(ms)
           Step(h, i) ==
             IF i = 0 THEN BUFFER_SIZE ELSE h[i - 1] - MSG_SIZE(ms[i])
           F(h) == [i \in 0 .. n |-> Step(h, i)]
           g == [i \in 0 .. n |-> BUFFER_SIZE - off[i]]
           f == CHOOSE h : h = F(h)
<1>1. /\ n \in Nat /\ BUFFER_SIZE \in Nat /\ off[0] = 0
      /\ \A i \in 0 .. n : off[i] \in Nat
      /\ \A i \in 1 .. n : /\ ms[i] \in Bodies /\ Len(ms[i]) \in Nat
                           /\ off[i] = off[i - 1] + 1 + Len(ms[i])
  BY Numbers
<1>2. ASSUME NEW i \in 0 .. n PROVE g[i] = Step(g, i)
  <2>1. CASE i = 0
    BY <1>1, <2>1
  <2>2. CASE i # 0
    <3>1. i \in 1 .. n /\ i - 1 \in 0 .. n
      BY <1>1, <2>2
    <3> DEFINE p == off[i - 1]
               q == off[i]
               l == Len(ms[i])
    <3>2. p \in Nat /\ q \in Nat /\ l \in Nat /\ q = p + 1 + l
      BY Zenon, <1>1, <3>1
    <3>3. MSG_SIZE(ms[i]) = 1 + l
      BY Zenon, <1>1, <3>1, Body
    <3>4. g[i] = BUFFER_SIZE - q /\ g[i - 1] = BUFFER_SIZE - p
      BY Zenon, <3>1
    <3> HIDE DEF p, q, l, g
    <3>5. BUFFER_SIZE - q = BUFFER_SIZE - p - (1 + l)
      BY <1>1, <3>2
    <3> QED  BY Zenon, <2>2, <3>3, <3>4, <3>5
  <2> QED  BY Zenon, <2>1, <2>2
<1>3. CellsLeft(ms) = f[n]
  BY Zenon DEF CellsLeft
<1>4. g = F(g)
  BY Zenon, <1>2
<1>5. f = F(f)
  <2> HIDE DEF F, g
  <2> QED  BY <1>4, Zenon
<1> HIDE DEF f
<1>6. \A i \in 0 .. n : f[i] = Step(f, i)
  <2> HIDE DEF Step, n
  <2>1. \A i \in 0 .. n : F(f)[i] = Step(f, i)
    BY Zenon
  <2> HIDE DEF F
  <2> QED  BY <1>5, <2>1, Zenon
<1> HIDE DEF g, F
<1>7. ASSUME NEW i \in 0 .. n, f[i] # g[i] PROVE FALSE
  <2> DEFINE T == {k \in 0 .. n : f[k] # g[k]}
  <2>0. n \in Nat
    BY Zenon, <1>1
  <2> HIDE DEF n
  <2>1. T \in SUBSET Nat /\ T # {}
    BY <1>7, <2>0
  <2>2. PICK k \in T : \A m \in T : k <= m
    BY Zenon, <2>1, LeastNat
  <2>3. k # 0
    <3>1. f[0] = BUFFER_SIZE /\ g[0] = BUFFER_SIZE
      BY <1>2, <1>6, <2>0
    <3> QED  BY Zenon, <2>2, <3>1
  <2>4. k \in 0 .. n /\ k - 1 \in 0 .. n /\ k - 1 \notin T
    BY <2>0, <2>2, <2>3
  <2>5. f[k - 1] = g[k - 1]
    BY Zenon, <2>4
  <2>6. f[k] = g[k]
    <3>1. Step(f, k) = Step(g, k)
      BY <2>5, Zenon
    <3> HIDE DEF Step
    <3> QED  BY <1>2, <1>6, <2>4, <3>1, Zenon
  <2> QED  BY Zenon, <2>2, <2>6
<1>8. f[n] = g[n]
  BY <1>1, <1>7
<1> QED  BY <1>1, <1>3, <1>8 DEF g

\* An index taken modulo BUFFER_SIZE is one of the buffer.
LEMMA InCells == ASSUME NEW x \in Int PROVE x % BUFFER_SIZE \in Cells
<1>1. BUFFER_SIZE \in Nat /\ BUFFER_SIZE > 0
  BY MailboxAssumption
<1> QED  BY Zenon, <1>1, Division DEF Cells

\* An empty buffer.
LEMMA StoredNone ==
    ASSUME NEW cells, NEW first
    PROVE  Stored(cells, first, <<>>, [i \in 0 .. 0 |-> 0])
  BY MailboxAssumption, EmptyFacts DEF Stored

\* msg_to_buffer(), on any cells.
Written(cells, m, start) ==
    [c \in Cells |->
        IF (c - start) % BUFFER_SIZE < MSG_SIZE(m)
        THEN Packet(m)[((c - start) % BUFFER_SIZE) + 1] ELSE cells[c]]

\* It leaves the o cells before the start alone ...
LEMMA WrittenBefore ==
    ASSUME NEW cells, NEW m \in Bodies, NEW first \in Cells,
           NEW o \in Nat, o + 1 + Len(m) <= BUFFER_SIZE,
           NEW d \in Cells, d < o
    PROVE  Written(cells, m, (first + o) % BUFFER_SIZE)
                  [(first + d) % BUFFER_SIZE]
              = cells[(first + d) % BUFFER_SIZE]
<1> DEFINE l == Len(m)
           c == (first + d) % BUFFER_SIZE
           h == (first + o) % BUFFER_SIZE
           i == (c - h) % BUFFER_SIZE
<1>1. l \in Nat /\ MSG_SIZE(m) = 1 + l
  BY Zenon, Body
<1>2. /\ BUFFER_SIZE \in Nat /\ o \in 0 .. BUFFER_SIZE
      /\ d \in 0 .. BUFFER_SIZE - 1 /\ first + d \in Int
  BY <1>1, MailboxAssumption DEF Cells
<1>3. c \in Cells
  BY Zenon, <1>2, InCells
<1>4. i = d - o + BUFFER_SIZE
  <2>1. c = (first + d) % BUFFER_SIZE /\ h = (first + o) % BUFFER_SIZE
    BY Zenon
  <2> HIDE DEF c, h
  <2>2. BUFFER_SIZE \in Nat /\ o \in 0 .. BUFFER_SIZE
    BY Zenon, <1>2
  <2> QED  BY <2>1, <2>2, Distance
<1>5. Written(cells, m, h)[c]
        = IF i < 1 + l THEN Packet(m)[i + 1] ELSE cells[c]
  BY Zenon, <1>1, <1>3 DEF Written
<1>6. l = Len(m)
  BY Zenon
<1> HIDE DEF c, h, i, l
<1>7. ~ (i < 1 + l)
  BY <1>1, <1>2, <1>4, <1>6
<1> QED  BY Zenon, <1>5, <1>7 DEF c, h

\* ... and puts the packet behind them.
LEMMA WrittenBehind ==
    ASSUME NEW cells, NEW m \in Bodies, NEW first \in Cells,
           NEW o \in Nat, o + 1 + Len(m) <= BUFFER_SIZE,
           NEW k \in 0 .. Len(m)
    PROVE  Written(cells, m, (first + o) % BUFFER_SIZE)
                  [(first + (o + k)) % BUFFER_SIZE]
              = Packet(m)[k + 1]
<1> DEFINE l == Len(m)
           d == o + k
           c == (first + d) % BUFFER_SIZE
           h == (first + o) % BUFFER_SIZE
           i == (c - h) % BUFFER_SIZE
<1>1. l \in Nat /\ MSG_SIZE(m) = 1 + l
  BY Zenon, Body
<1>2. /\ BUFFER_SIZE \in Nat /\ o \in 0 .. BUFFER_SIZE /\ d \in Cells
      /\ first + d \in Int /\ d >= o /\ d - o = k
  BY <1>1, MailboxAssumption DEF Cells
<1> HIDE DEF d
<1>3. c \in Cells
  BY Zenon, <1>2, InCells
<1>4. i = d - o
  <2>1. c = (first + d) % BUFFER_SIZE /\ h = (first + o) % BUFFER_SIZE
    BY Zenon
  <2> HIDE DEF c, h
  <2> QED  BY <1>2, <2>1, Distance
<1>5. Written(cells, m, h)[c]
        = IF i < 1 + l THEN Packet(m)[i + 1] ELSE cells[c]
  BY Zenon, <1>1, <1>3 DEF Written
<1>6. l = Len(m)
  BY Zenon
<1> HIDE DEF c, h, i, l
<1>7. i = k /\ i < 1 + l
  BY <1>1, <1>2, <1>4, <1>6
<1>8. Written(cells, m, h)[c] = Packet(m)[k + 1]
  BY Zenon, <1>5, <1>7
<1> QED  BY <1>8, Zenon DEF c, d, h

\* msg_to_buffer() adds a message behind the others and touches none of them.
LEMMA StoredSend ==
    ASSUME NEW cells, NEW first \in Cells, NEW ms, NEW off,
           Stored(cells, first, ms, off), NEW m \in Bodies,
           off[Len(ms)] + MSG_SIZE(m) <= BUFFER_SIZE
    PROVE  \E offs :
              /\ Stored(Written(cells, m, (first + off[Len(ms)]) % BUFFER_SIZE),
                        first, Append(ms, m), offs)
              /\ offs[Len(ms) + 1] = off[Len(ms)] + MSG_SIZE(m)
<1> DEFINE n == Len(ms)
           o == off[n]
           l == Len(m)
           mm == Append(ms, m)
           new == Written(cells, m, (first + o) % BUFFER_SIZE)
           offs == [i \in 0 .. n + 1 |-> IF i <= n THEN off[i] ELSE o + 1 + l]
<1>1. /\ n \in Nat /\ BUFFER_SIZE \in Nat /\ BUFFER_SIZE > 0 /\ off[0] = 0
      /\ \A i \in 0 .. n : off[i] \in Nat /\ off[i] <= o
      /\ o \in Nat
      /\ \A i \in 1 .. n :
            /\ ms[i] \in Bodies /\ Len(ms[i]) \in Nat
            /\ off[i - 1] \in Nat /\ off[i] = off[i - 1] + 1 + Len(ms[i])
  BY Numbers
<1>2. /\ l \in Nat /\ MSG_SIZE(m) = 1 + l
      /\ Packet(m)[1] = l /\ \A j \in 1 .. l : Packet(m)[j + 1] = m[j]
  BY Zenon, Body
<1>3. o + 1 + l <= BUFFER_SIZE
  BY <1>1, <1>2
<1>4. /\ mm \in Seq(Bodies) /\ Len(mm) = n + 1
      /\ \A i \in 1 .. n : mm[i] = ms[i]
      /\ mm[n + 1] = m
  BY SMTT(30), AppendFacts DEF Stored
<1>5. first \in Nat /\ first \in 0 .. BUFFER_SIZE - 1
  BY <1>1 DEF Cells
<1>6. \A i, j \in 0 .. n : j <= i => i - j <= off[i] - off[j]
  BY Zenon DEF Stored
<1>7. \A i \in 1 .. n :
          /\ cells[(first + off[i - 1]) % BUFFER_SIZE] = Len(ms[i])
          /\ \A j \in 1 .. Len(ms[i]) :
                cells[(first + off[i - 1] + j) % BUFFER_SIZE] = ms[i][j]
  BY Zenon DEF Stored
<1> HIDE DEF n, o, mm, new, l
\* The cells that hold the other messages.
<1>8. ASSUME NEW d \in Nat, d < o
      PROVE  new[(first + d) % BUFFER_SIZE] = cells[(first + d) % BUFFER_SIZE]
  <2>1. d \in Cells
    BY <1>1, <1>2, <1>3, <1>8 DEF Cells
  <2>2. o \in Nat /\ o + 1 + Len(m) <= BUFFER_SIZE
    BY Zenon, <1>1, <1>3 DEF l
  <2> QED  BY Zenon, <1>8, <2>1, <2>2, WrittenBefore DEF new
\* The cells that the new one takes.
<1>9. ASSUME NEW k \in 0 .. l
      PROVE  new[(first + (o + k)) % BUFFER_SIZE] = Packet(m)[k + 1]
  <2>1. o \in Nat /\ o + 1 + Len(m) <= BUFFER_SIZE /\ k \in 0 .. Len(m)
    BY Zenon, <1>1, <1>3 DEF l
  <2> QED  BY Zenon, <2>1, WrittenBehind DEF new
<1>10. /\ offs \in [0 .. n + 1 -> Nat] /\ offs[0] = 0
       /\ \A i \in 0 .. n : offs[i] = off[i]
       /\ offs[n + 1] = o + 1 + l
  BY <1>1, <1>2
<1> HIDE DEF offs
<1>11. off[n] = o
  BY Zenon DEF o
<1>12. \A i \in 1 .. n + 1 : offs[i] = offs[i - 1] + 1 + Len(mm[i])
  <2> TAKE i \in 1 .. n + 1
  <2>1. CASE i = n + 1
    <3>1. i - 1 = n /\ n \in 0 .. n
      BY <1>1, <2>1
    <3> QED  BY Zenon, <1>4, <1>10, <1>11, <2>1, <3>1 DEF l
  <2>2. CASE i # n + 1
    <3>1. i \in 1 .. n /\ i \in 0 .. n /\ i - 1 \in 0 .. n
      BY <1>1, <2>2
    <3>2. offs[i] = off[i] /\ offs[i - 1] = off[i - 1] /\ mm[i] = ms[i]
      BY Zenon, <1>4, <1>10, <3>1
    <3>3. off[i] = off[i - 1] + 1 + Len(ms[i])
      BY Zenon, <1>1, <3>1
    <3> QED  BY Zenon, <3>2, <3>3
  <2> QED  BY Zenon, <2>1, <2>2
<1>13. \A i, j \in 0 .. n + 1 : j <= i => i - j <= offs[i] - offs[j]
  <2> SUFFICES ASSUME NEW i \in 0 .. n + 1, NEW j \in 0 .. n + 1, j <= i
               PROVE  i - j <= offs[i] - offs[j]
    BY Zenon
  <2>1. CASE i = n + 1 /\ j = n + 1
    <3> DEFINE q == offs[n + 1]
    <3>1. i = j /\ i \in Nat /\ q = o + 1 + l /\ o \in Nat /\ l \in Nat
      <4>1. q = o + 1 + l
        BY Zenon, <1>10
      <4> QED  BY <1>1, <1>2, <2>1, <4>1
    <3>2. offs[i] = q /\ offs[j] = q
      BY Zenon, <2>1
    <3> HIDE DEF q
    <3>3. i - j <= q - q
      BY <3>1
    <3> QED  BY Zenon, <3>2, <3>3
  <2>2. CASE i = n + 1 /\ j # n + 1
    <3>1. /\ j \in 0 .. n /\ j <= n /\ n \in 0 .. n /\ offs[j] = off[j]
          /\ off[j] \in Nat
      BY SMTT(30), <1>1, <1>10, <2>2
    <3>2. n - j <= o - off[j]
      BY Zenon, <1>6, <1>11, <3>1
    <3>3. offs[i] = o + 1 + l
      BY Zenon, <1>10, <2>2
    <3> DEFINE p == offs[j]
               q == offs[i]
    <3>4. q = o + 1 + l /\ p \in Nat /\ n - j <= o - p
      BY Zenon, <3>1, <3>2, <3>3
    <3> HIDE DEF p, q
    <3>5. /\ n \in Nat /\ o \in Nat /\ l \in Nat /\ j \in Nat /\ i = n + 1
          /\ q = o + 1 + l /\ p \in Nat /\ n - j <= o - p
      BY <1>1, <1>2, <2>2, <3>4
    <3>6. i - j <= q - p
      BY <3>5
    <3> QED  BY Zenon, <3>6 DEF p, q
  <2>3. CASE i # n + 1
    <3>1. i \in 0 .. n /\ j \in 0 .. n
      BY <1>1, <2>3
    <3> QED  BY Zenon, <1>6, <1>10, <3>1
  <2> QED  BY Zenon, <2>1, <2>2, <2>3
<1>14. ASSUME NEW i \in 1 .. n + 1
       PROVE  /\ new[(first + offs[i - 1]) % BUFFER_SIZE] = Len(mm[i])
              /\ \A j \in 1 .. Len(mm[i]) :
                    new[(first + offs[i - 1] + j) % BUFFER_SIZE] = mm[i][j]
  <2>1. CASE i = n + 1
    <3>1. i - 1 = n /\ n \in 0 .. n /\ offs[i - 1] = o /\ mm[i] = m
      BY <1>1, <1>4, <1>10, <1>11, <2>1
    <3>2. new[(first + o) % BUFFER_SIZE] = l
      <4>1. 0 \in 0 .. l /\ o + 0 = o /\ 0 + 1 = 1
        BY <1>1, <1>2
      <4> QED  BY Zenon, <1>2, <1>9, <4>1
    <3>3. ASSUME NEW j \in 1 .. l
          PROVE  new[(first + o + j) % BUFFER_SIZE] = m[j]
      <4>1. j \in 0 .. l /\ first + (o + j) = first + o + j
        BY <1>1, <1>2, <1>5
      <4> QED  BY Zenon, <1>2, <1>9, <4>1
    <3> QED  BY Zenon, <3>1, <3>2, <3>3 DEF l
  <2>2. CASE i # n + 1
    <3>1. i \in 1 .. n /\ i \in 0 .. n /\ i - 1 \in 0 .. n
      BY <1>1, <2>2
    <3> DEFINE p == off[i - 1]
               b == ms[i]
    <3>2. offs[i - 1] = p /\ mm[i] = b
      BY Zenon, <1>4, <1>10, <3>1
    <3>3. p \in Nat /\ Len(b) \in Nat /\ p + 1 + Len(b) <= o
      <4>1. off[i] = p + 1 + Len(b) /\ off[i] <= o
        BY Zenon, <1>1, <3>1
      <4>2. p \in Nat /\ Len(b) \in Nat
        BY Zenon, <1>1, <3>1
      <4> QED  BY Zenon, <4>1, <4>2
    <3>4. /\ cells[(first + p) % BUFFER_SIZE] = Len(b)
          /\ \A j \in 1 .. Len(b) : cells[(first + p + j) % BUFFER_SIZE] = b[j]
      BY Zenon, <1>7, <3>1
    <3> HIDE DEF p, b
    <3>5. new[(first + p) % BUFFER_SIZE] = Len(b)
      <4>1. p < o
        BY <1>1, <3>3
      <4> QED  BY Zenon, <1>8, <3>3, <3>4, <4>1
    <3>6. ASSUME NEW j \in 1 .. Len(b)
          PROVE  new[(first + p + j) % BUFFER_SIZE] = b[j]
      <4>1. p + j \in Nat /\ p + j < o /\ first + (p + j) = first + p + j
        BY <1>1, <1>5, <3>3
      <4> QED  BY Zenon, <1>8, <3>4, <4>1
    <3> QED  BY Zenon, <3>2, <3>5, <3>6
  <2> QED  BY Zenon, <2>1, <2>2
<1>15. Stored(new, first, mm, offs)
  BY Zenon, <1>3, <1>4, <1>10, <1>12, <1>13, <1>14 DEF Stored
<1>16. offs[n + 1] = o + MSG_SIZE(m)
  BY <1>1, <1>2, <1>10
<1> QED  BY <1>15, <1>16, Zenon DEF mm, n, o, new

\* mbox_recv() wraps the tail after the header and again after the body.
LEMMA Wrap ==
    ASSUME NEW x \in Int, NEW y \in Int
    PROVE  ((x % BUFFER_SIZE) + y) % BUFFER_SIZE = (x + y) % BUFFER_SIZE
<1>1. BUFFER_SIZE \in Nat /\ BUFFER_SIZE > 0
  BY MailboxAssumption
<1> QED  BY Zenon, <1>1, ModuloSum

\* buffer_to_msg() gives the header and the body of the first message.
LEMMA FirstMessage ==
    ASSUME NEW cells, NEW first \in Cells, NEW ms, NEW off,
           Stored(cells, first, ms, off), ms # <<>>
    PROVE  /\ ms[1] \in Bodies
           /\ cells[(first + 1 - 1) % BUFFER_SIZE] = Len(ms[1])
           /\ [i \in 1 .. Len(ms[1]) |->
                  cells[(((first + 1) % BUFFER_SIZE) + i - 1) % BUFFER_SIZE]]
                = ms[1]
<1> DEFINE m == ms[1]
           r == (first + 1) % BUFFER_SIZE
<1>1. /\ BUFFER_SIZE \in Nat /\ BUFFER_SIZE > 0 /\ first \in Int /\ off[0] = 0
      /\ 1 \in 1 .. Len(ms) /\ m \in Bodies /\ Len(m) \in Nat
  <2>1. ms \in Seq(Bodies)
    BY Zenon DEF Stored
  <2>2. 1 \in 1 .. Len(ms)
    BY <2>1, SeqFacts
  <2> QED  BY <2>2, Numbers DEF Cells
<1>2. /\ cells[(first + off[1 - 1]) % BUFFER_SIZE] = Len(m)
      /\ \A j \in 1 .. Len(m) :
            cells[(first + off[1 - 1] + j) % BUFFER_SIZE] = m[j]
  BY <1>1, Zenon DEF Stored
<1>3. 1 - 1 = 0 /\ first + off[0] = first /\ first + 1 - 1 = first
  BY <1>1
<1>4. /\ cells[first % BUFFER_SIZE] = Len(m)
      /\ \A j \in 1 .. Len(m) : cells[(first + j) % BUFFER_SIZE] = m[j]
  BY Zenon, <1>2, <1>3
<1> HIDE DEF m
<1>5. ASSUME NEW i \in 1 .. Len(m)
      PROVE  cells[(r + i - 1) % BUFFER_SIZE] = m[i]
  <2>1. i - 1 \in Int /\ first + 1 \in Int /\ first + 1 + (i - 1) = first + i
    BY <1>1
  <2>2. r \in Int
    BY <1>1, <2>1, Division
  <2>3. (r + (i - 1)) % BUFFER_SIZE = (first + 1 + (i - 1)) % BUFFER_SIZE
    BY Zenon, <2>1, Wrap
  <2> HIDE DEF r
  <2>4. r + (i - 1) = r + i - 1
    BY Zenon, <1>1, <2>2
  <2> QED  BY Zenon, <1>4, <2>1, <2>3, <2>4
<1>6. [i \in 1 .. Len(m) |-> cells[(r + i - 1) % BUFFER_SIZE]] =
        [i \in 1 .. Len(m) |-> m[i]]
  BY Zenon, <1>5
<1>7. [i \in 1 .. Len(m) |-> m[i]] = m
  BY Zenon, <1>1, Body
<1> QED  BY <1>1, <1>3, <1>4, <1>6, <1>7, Zenon DEF m

\* Taking it out leaves the others.
LEMMA StoredRecv ==
    ASSUME NEW cells, NEW first \in Cells, NEW ms, NEW off,
           Stored(cells, first, ms, off), ms # <<>>
    PROVE  LET f == (((first + 1) % BUFFER_SIZE) + Len(ms[1])) % BUFFER_SIZE
           IN  /\ f \in Cells /\ Len(Tail(ms)) = Len(ms) - 1
               /\ \E offs :
                     /\ Stored(cells, f, Tail(ms), offs)
                     /\ (f + offs[Len(ms) - 1]) % BUFFER_SIZE
                           = (first + off[Len(ms)]) % BUFFER_SIZE
<1> DEFINE n == Len(ms)
           l1 == Len(ms[1])
           f == (((first + 1) % BUFFER_SIZE) + l1) % BUFFER_SIZE
           s == off[1]
           mm == Tail(ms)
           offs == [i \in 0 .. n - 1 |-> off[i + 1] - s]
<1>1. /\ n \in Nat /\ BUFFER_SIZE \in Nat /\ BUFFER_SIZE > 0 /\ off[0] = 0
      /\ \A i \in 0 .. n : off[i] \in Nat /\ off[i] <= off[n]
      /\ off[n] <= BUFFER_SIZE
      /\ \A i \in 1 .. n :
            /\ ms[i] \in Bodies /\ Len(ms[i]) \in Nat
            /\ off[i - 1] \in Nat /\ off[i] = off[i - 1] + 1 + Len(ms[i])
  BY Numbers
<1>2. /\ n >= 1 /\ mm \in Seq(Bodies) /\ Len(mm) = n - 1
      /\ \A i \in 1 .. n - 1 : mm[i] = ms[i + 1]
  BY Zenon, TailFacts DEF Stored
<1>3. s \in Nat /\ l1 \in Nat /\ s = 1 + l1
  <2>1. 1 \in 1 .. n /\ 1 \in 0 .. n /\ 1 - 1 = 0
    BY <1>1, <1>2
  <2>2. /\ off[1] = off[1 - 1] + 1 + Len(ms[1]) /\ off[1] \in Nat
        /\ Len(ms[1]) \in Nat
    BY Zenon, <1>1, <2>1
  <2>3. off[1] = 0 + 1 + Len(ms[1])
    BY Zenon, <1>1, <2>1, <2>2
  <2> QED  BY <2>2, <2>3
<1>4. first \in Int
  BY <1>1 DEF Cells
<1> HIDE DEF s, l1
<1>5. f = (first + s) % BUFFER_SIZE /\ f \in Cells
  <2>1. first + 1 \in Int /\ first + 1 + l1 = first + s /\ first + s \in Int
    BY <1>3, <1>4
  <2>2. f = (first + 1 + l1) % BUFFER_SIZE
    BY <1>3, <2>1, Wrap
  <2> QED  BY Zenon, <2>1, <2>2, InCells
<1> HIDE DEF f
<1>6. \A i, j \in 0 .. n : j <= i => i - j <= off[i] - off[j]
  BY Zenon DEF Stored
<1>7. \A i \in 1 .. n :
          /\ cells[(first + off[i - 1]) % BUFFER_SIZE] = Len(ms[i])
          /\ \A j \in 1 .. Len(ms[i]) :
                cells[(first + off[i - 1] + j) % BUFFER_SIZE] = ms[i][j]
  BY Zenon DEF Stored
<1> HIDE DEF n, mm
<1>8. \A i \in 0 .. n - 1 : offs[i] = off[i + 1] - s
  BY Zenon
<1>9. ASSUME NEW i \in 0 .. n - 1
      PROVE  off[i + 1] \in Nat /\ off[i + 1] - s \in Nat
  <2> DEFINE p == off[i + 1]
  <2>1. i + 1 \in 0 .. n /\ 1 \in 0 .. n /\ 1 <= i + 1
    BY <1>1, <1>2
  <2>2. p \in Nat /\ i + 1 - 1 <= p - s
    BY <1>1, <1>6, <2>1 DEF s
  <2> HIDE DEF p
  <2>3. p - s \in Nat
    BY <1>3, <2>2
  <2> QED  BY Zenon, <2>2, <2>3 DEF p
<1>10. offs \in [0 .. n - 1 -> Nat]
  BY Zenon, <1>9
<1>11. offs[0] = 0
  <2>1. 0 \in 0 .. n - 1 /\ off[0 + 1] = s
    BY <1>1, <1>2 DEF s
  <2> QED  BY <1>3, <1>8, <2>1
<1> HIDE DEF offs
<1>12. ASSUME NEW i \in 1 .. n - 1
       PROVE  offs[i] = offs[i - 1] + 1 + Len(mm[i])
  <2> DEFINE p == off[i]
             q == off[i + 1]
             l == Len(ms[i + 1])
  <2>1. /\ i \in 0 .. n - 1 /\ i - 1 \in 0 .. n - 1 /\ i - 1 + 1 = i
        /\ i + 1 \in 1 .. n /\ i + 1 - 1 = i
    BY <1>1, <1>2
  <2>2. p \in Nat /\ l \in Nat /\ q = p + 1 + l
    BY <1>1, <2>1
  <2>3. offs[i] = q - s /\ offs[i - 1] = p - s /\ Len(mm[i]) = l
    BY Zenon, <1>2, <1>8, <2>1
  <2> HIDE DEF p, q, l
  <2>4. q - s = p - s + 1 + l
    BY <1>3, <2>2
  <2> QED  BY Zenon, <2>3, <2>4
<1>13. \A i, j \in 0 .. n - 1 : j <= i => i - j <= offs[i] - offs[j]
  <2> SUFFICES ASSUME NEW i \in 0 .. n - 1, NEW j \in 0 .. n - 1, j <= i
               PROVE  i - j <= offs[i] - offs[j]
    BY Zenon
  <2> DEFINE p == off[j + 1]
             q == off[i + 1]
             a == offs[j]
             b == offs[i]
  <2>1. p \in Nat /\ q \in Nat /\ a = p - s /\ b = q - s
    BY Zenon, <1>8, <1>9
  <2>2. i + 1 \in 0 .. n /\ j + 1 \in 0 .. n /\ j + 1 <= i + 1
    BY <1>1
  <2>3. i + 1 - (j + 1) <= q - p
    BY <1>6, <2>2
  <2> HIDE DEF p, q, a, b
  <2>4. i - j <= b - a
    BY <1>1, <1>3, <2>1, <2>3
  <2> QED  BY Zenon, <2>4 DEF a, b
<1>14. offs[n - 1] <= BUFFER_SIZE
  <2> DEFINE p == off[n]
  <2>1. n - 1 \in 0 .. n - 1 /\ n - 1 + 1 = n /\ n \in 0 .. n
    BY <1>1, <1>2
  <2>2. offs[n - 1] = p - s /\ p \in Nat /\ p <= BUFFER_SIZE
    BY Zenon, <1>1, <1>8, <2>1
  <2> HIDE DEF p
  <2>3. p - s <= BUFFER_SIZE
    BY <1>1, <1>3, <2>2
  <2> QED  BY Zenon, <2>2, <2>3
\* The same cells, counted from the new tail.
<1>15. ASSUME NEW k \in Int
       PROVE  (f + (k - s)) % BUFFER_SIZE = (first + k) % BUFFER_SIZE
  <2>1. first + s \in Int /\ k - s \in Int /\ first + s + (k - s) = first + k
    BY <1>3, <1>4
  <2> QED  BY <1>5, <2>1, Wrap
<1>16. ASSUME NEW i \in 1 .. n - 1
       PROVE  /\ cells[(f + offs[i - 1]) % BUFFER_SIZE] = Len(mm[i])
              /\ \A j \in 1 .. Len(mm[i]) :
                    cells[(f + offs[i - 1] + j) % BUFFER_SIZE] = mm[i][j]
  <2> DEFINE p == off[i]
             m == ms[i + 1]
  <2>1. /\ i \in 0 .. n /\ i - 1 \in 0 .. n - 1 /\ i - 1 + 1 = i
        /\ i + 1 \in 1 .. n /\ i + 1 - 1 = i
    BY <1>1, <1>2
  <2>2. p \in Nat /\ mm[i] = m /\ offs[i - 1] = p - s /\ Len(m) \in Nat
    BY Zenon, <1>1, <1>2, <1>8, <2>1
  <2>3. /\ cells[(first + p) % BUFFER_SIZE] = Len(m)
        /\ \A j \in 1 .. Len(m) : cells[(first + p + j) % BUFFER_SIZE] = m[j]
    BY <1>7, <2>1
  <2> HIDE DEF p, m
  <2>4. cells[(f + (p - s)) % BUFFER_SIZE] = Len(m)
    BY <1>15, <2>2, <2>3
  <2>5. ASSUME NEW j \in 1 .. Len(m)
        PROVE  cells[(f + (p - s) + j) % BUFFER_SIZE] = m[j]
    <3> DEFINE k == p + j
               x == f + (p - s) + j
               y == first + p + j
    <3>1. f \in Int /\ p \in Int /\ j \in Int /\ s \in Int
      BY <1>1, <1>3, <1>5, <2>2 DEF Cells
    <3>2. k \in Int /\ f + (k - s) = x /\ first + k = y
      BY <1>4, <3>1
    <3>3. cells[y % BUFFER_SIZE] = m[j]
      BY Zenon, <2>3
    <3> HIDE DEF k, x, y
    <3>4. x % BUFFER_SIZE = y % BUFFER_SIZE
      BY Zenon, <1>15, <3>2
    <3>5. cells[x % BUFFER_SIZE] = m[j]
      BY Zenon, <3>3, <3>4
    <3> QED  BY Zenon, <3>5 DEF x
  <2> QED  BY Zenon, <2>2, <2>4, <2>5
<1>17. Stored(cells, f, mm, offs)
  BY Zenon, <1>2, <1>10, <1>11, <1>12, <1>13, <1>14, <1>16 DEF Stored
<1>18. (f + offs[n - 1]) % BUFFER_SIZE = (first + off[n]) % BUFFER_SIZE
  <2>1. n - 1 \in 0 .. n - 1 /\ n - 1 + 1 = n /\ n \in 0 .. n
    BY <1>1, <1>2
  <2>2. offs[n - 1] = off[n] - s /\ off[n] \in Int
    BY <1>1, <1>8, <2>1
  <2> QED  BY Zenon, <1>15, <2>2
<1> QED  BY <1>2, <1>5, <1>17, <1>18, Zenon DEF mm, n, f, l1

-----------------------------------------------------------------------------
Types ==
    /\ used \in Nat /\ count \in Nat /\ count <= BUFFER_SIZE
    /\ head \in Cells /\ tail \in Cells
    /\ lock \in Callers \cup {Nobody}
    /\ user \in [Callers -> CallSteps]
    /\ msg \in [Callers -> Bodies \cup {NoMessage}]
    /\ moreSpace \in Seq(Callers) /\ moreData \in Seq(Callers)

\* Only who has the lock is between lock_acquire() and lock_release().
HeldBy(u, l) == \A t \in Callers : u[t] \in {"signal", "broadcast"} <=> l = t
Holder == HeldBy(user, lock)

\* A queue holds the threads that block() put there, once each.
Waiting ==
    /\ Distinct(moreSpace) /\ Distinct(moreData)
    /\ Items(moreSpace) = {t \in Callers : user[t] = "sendblocked"}
    /\ Items(moreData) = {t \in Callers : user[t] = "recvblocked"}

\* From the call of mbox_send() to the signal a caller has a message, and so
\* has a reader until it returns.
Sending == {"send", "sendgap", "sendblocked", "signal"}
Carrying ==
    \A t \in Callers :
        user[t] \in Sending \cup {"broadcast"} => msg[t] \in Bodies

\* The field used counts who has the mailbox open.
Users == {t \in Callers : user[t] # "closed"}
Opened == used = Cardinality(Users)

\* The messages that the buffer holds reach from the tail to the head.
Filled ==
    \E ms, off : /\ Stored(buffer, tail, ms, off)
                 /\ Len(ms) = Pending
                 /\ head = (tail + off[Len(ms)]) % BUFFER_SIZE

MailboxInv == Types /\ Holder /\ Waiting /\ Carrying /\ Opened /\ Filled

-----------------------------------------------------------------------------
\* At most one thread is copying, the one that has the lock.
LEMMA Counted ==
    ASSUME LibraryFacts, NEW u, NEW l \in Callers \cup {Nobody}, HeldBy(u, l)
    PROVE  LET S == Cardinality({t \in Callers : u[t] = "signal"})
               B == Cardinality({t \in Callers : u[t] = "broadcast"})
           IN  /\ l = Nobody => S = 0 /\ B = 0
               /\ \A t \in Callers : /\ u[t] = "signal" => S = 1 /\ B = 0
                                     /\ u[t] = "broadcast" => S = 0 /\ B = 1
<1> DEFINE SS == {t \in Callers : u[t] = "signal"}
           BB == {t \in Callers : u[t] = "broadcast"}
<1>1. l = Nobody => SS = {} /\ BB = {}
  BY Zenon, MailboxAssumption DEF HeldBy
<1>2. \A t \in Callers : /\ u[t] = "signal" => SS = {t} /\ BB = {}
                         /\ u[t] = "broadcast" => SS = {} /\ BB = {t}
  BY Zenon DEF HeldBy
<1>3. Cardinality({}) = 0 /\ \A t : Cardinality({t}) = 1
  BY Zenon DEF LibraryFacts
<1> HIDE DEF SS, BB
<1>4. /\ l = Nobody => Cardinality(SS) = 0 /\ Cardinality(BB) = 0
      /\ \A t \in Callers :
            /\ u[t] = "signal" => Cardinality(SS) = 1 /\ Cardinality(BB) = 0
            /\ u[t] = "broadcast" => Cardinality(SS) = 0 /\ Cardinality(BB) = 1
  BY <1>1, <1>2, <1>3, Zenon
<1> QED  BY Zenon, <1>4 DEF SS, BB

\* The counters at the places where the proofs look at them.
LEMMA PendingIs ==
    ASSUME LibraryFacts, Types, Holder
    PROVE  /\ lock = Nobody =>
                Pending = count /\ Signalling = 0 /\ Broadcasting = 0
           /\ \A t \in Callers :
                 /\ user[t] = "signal" =>
                      Pending = count + 1 /\ Broadcasting = 0
                 /\ user[t] = "broadcast" =>
                      Pending = count - 1 /\ Broadcasting = 1
<1>1. /\ lock = Nobody => Signalling = 0 /\ Broadcasting = 0
      /\ \A t \in Callers :
            /\ user[t] = "signal" => Signalling = 1 /\ Broadcasting = 0
            /\ user[t] = "broadcast" => Signalling = 0 /\ Broadcasting = 1
  <2>1. lock \in Callers \cup {Nobody} /\ HeldBy(user, lock)
    BY Zenon DEF Types, Holder
  <2> QED  BY Zenon, <2>1, Counted DEF Signalling, Broadcasting
<1>2. count \in Nat
  BY Zenon DEF Types
<1> QED  BY <1>1, <1>2 DEF Pending

\* The same in the next state.
LEMMA PendingIsThen ==
    ASSUME LibraryFacts, Types', Holder'
    PROVE  /\ lock' = Nobody =>
                 Pending' = count' /\ Signalling' = 0 /\ Broadcasting' = 0
           /\ \A t \in Callers :
                 /\ user'[t] = "signal" =>
                      Pending' = count' + 1 /\ Broadcasting' = 0
                 /\ user'[t] = "broadcast" =>
                      Pending' = count' - 1 /\ Broadcasting' = 1
<1>1. /\ lock' = Nobody => Signalling' = 0 /\ Broadcasting' = 0
      /\ \A t \in Callers :
            /\ user'[t] = "signal" => Signalling' = 1 /\ Broadcasting' = 0
            /\ user'[t] = "broadcast" => Signalling' = 0 /\ Broadcasting' = 1
  <2>1. lock' \in Callers \cup {Nobody} /\ HeldBy(user', lock')
    BY Zenon DEF Types, Holder
  <2> QED  BY Zenon, <2>1, Counted DEF Signalling, Broadcasting
<1>2. count' \in Nat
  BY Zenon DEF Types
<1> QED  BY <1>1, <1>2 DEF Pending

\* A step that leaves the mailbox, the lock and the threads inside alone.
Quiet ==
    /\ UNCHANGED <<box, lock>>
    /\ \A s \in Callers : /\ user'[s] = "closed" <=> user[s] = "closed"
                          /\ user'[s] = "signal" <=> user[s] = "signal"
                          /\ user'[s] = "broadcast" <=> user[s] = "broadcast"

\* Such a step leaves the messages and the users of the mailbox alone.
LEMMA QuietStep ==
    ASSUME MailboxInv, Quiet
    PROVE  /\ Holder' /\ Opened' /\ Filled'
           /\ Users' = Users /\ Pending' = Pending
           /\ Signalling' = Signalling /\ Broadcasting' = Broadcasting
<1>1. Users' = Users
  BY Zenon DEF Quiet, Users
<1>2. Signalling' = Signalling /\ Broadcasting' = Broadcasting
  <2>1. /\ {t \in Callers : user'[t] = "signal"} =
             {t \in Callers : user[t] = "signal"}
        /\ {t \in Callers : user'[t] = "broadcast"}
              = {t \in Callers : user[t] = "broadcast"}
    BY Zenon DEF Quiet
  <2> QED  BY <2>1, Zenon DEF Signalling, Broadcasting
<1>3. Pending' = Pending
  BY Zenon, <1>2 DEF Quiet, Pending, box
<1>4. Holder'
  BY Zenon DEF MailboxInv, Quiet, Holder, HeldBy
<1>5. Opened'
  BY Zenon, <1>1 DEF MailboxInv, Quiet, Opened, box
<1>6. Filled'
  <2>1. /\ buffer' = buffer /\ tail' = tail /\ head' = head
    BY Zenon DEF Quiet, box
  <2>2. PICK ms, off : /\ Stored(buffer, tail, ms, off)
                       /\ Len(ms) = Pending
                       /\ head = (tail + off[Len(ms)]) % BUFFER_SIZE
    BY Zenon DEF MailboxInv, Filled
  <2>3. /\ Stored(buffer', tail', ms, off)
        /\ Len(ms) = Pending'
        /\ head' = (tail' + off[Len(ms)]) % BUFFER_SIZE
    BY Zenon, <1>3, <2>1, <2>2
  <2> QED  BY Zenon, <2>3 DEF Filled
<1> QED  BY Zenon, <1>1, <1>2, <1>3, <1>4, <1>5, <1>6

\* The first of a queue is blocked, and is its only occurrence there.
LEMMA FirstWaits ==
    ASSUME Types, Waiting
    PROVE  /\ moreSpace # <<>> => /\ Head(moreSpace) \in Callers
                                  /\ user[Head(moreSpace)] = "sendblocked"
                                  /\ Tail(moreSpace) \in Seq(Callers)
                                  /\ Distinct(Tail(moreSpace))
                                  /\ Items(Tail(moreSpace))
                                        = Items(moreSpace) \ {Head(moreSpace)}
           /\ moreData # <<>> => /\ Head(moreData) \in Callers
                                 /\ user[Head(moreData)] = "recvblocked"
                                 /\ Tail(moreData) \in Seq(Callers)
                                 /\ Distinct(Tail(moreData))
                                 /\ Items(Tail(moreData))
                                       = Items(moreData) \ {Head(moreData)}
<1>1. moreSpace \in Seq(Callers) /\ moreData \in Seq(Callers)
  BY Zenon DEF Types
<1>2. ASSUME NEW s \in Seq(Callers), s # <<>>, Distinct(s)
      PROVE  /\ Head(s) \in Callers /\ Head(s) \in Items(s)
             /\ Tail(s) \in Seq(Callers) /\ Distinct(Tail(s))
             /\ Items(Tail(s)) = Items(s) \ {Head(s)}
  <2>1. /\ Tail(s) \in Seq(Callers) /\ Head(s) = s[1] /\ Head(s) \in Callers
        /\ Len(s) \in Nat /\ Len(s) >= 1
        /\ Distinct(Tail(s)) /\ Items(Tail(s)) = Items(s) \ {Head(s)}
    BY Zenon, <1>2, TailFacts
  <2>2. Head(s) \in Items(s)
    BY <2>1 DEF Items
  <2> QED  BY Zenon, <2>1, <2>2
<1>3. ASSUME moreSpace # <<>> PROVE user[Head(moreSpace)] = "sendblocked"
  <2>1. Head(moreSpace) \in Items(moreSpace)
    BY Zenon, <1>1, <1>2, <1>3 DEF Waiting
  <2> QED  BY Zenon, <2>1 DEF Waiting
<1>4. ASSUME moreData # <<>> PROVE user[Head(moreData)] = "recvblocked"
  <2>1. Head(moreData) \in Items(moreData)
    BY Zenon, <1>1, <1>2, <1>4 DEF Waiting
  <2> QED  BY Zenon, <2>1 DEF Waiting
<1> QED  BY Zenon, <1>1, <1>2, <1>3, <1>4 DEF Waiting

\* The steps of the threads that are outside.
Outside(t) ==
    \/ \E m \in Bodies : CallSend(t, m)
    \/ SendWaits(t) \/ CallRecv(t) \/ RecvWaits(t) \/ WakeSender(t)
    \/ BlockForSpace(t) \/ BlockForData(t)

\* A thread without the lock changes nothing of the mailbox.
LEMMA OutsideIsQuiet ==
    ASSUME MailboxInv, NEW t \in Callers, Outside(t)
    PROVE  Quiet
<1> USE DEF UserTo, Quiet
<1>1. user \in [Callers -> CallSteps]
  BY Zenon DEF MailboxInv, Types
<1>2. CASE \E m \in Bodies : CallSend(t, m)
  BY Zenon, <1>1, <1>2 DEF CallSend
<1>3. CASE SendWaits(t)
  BY Zenon, <1>1, <1>3 DEF SendWaits
<1>4. CASE CallRecv(t)
  BY Zenon, <1>1, <1>4 DEF CallRecv
<1>5. CASE RecvWaits(t)
  BY Zenon, <1>1, <1>5 DEF RecvWaits
<1>6. CASE WakeSender(t)
  <2>1. user[Head(moreSpace)] = "sendblocked" /\ Head(moreSpace) \in Callers
    BY Zenon, <1>6, FirstWaits DEF WakeSender, MailboxInv
  <2> QED  BY Zenon, <1>1, <1>6, <2>1 DEF WakeSender
<1>7. CASE BlockForSpace(t)
  BY Zenon, <1>1, <1>7 DEF BlockForSpace
<1>8. CASE BlockForData(t)
  BY Zenon, <1>1, <1>8 DEF BlockForData
<1> QED  BY Zenon, <1>2, <1>3, <1>4, <1>5, <1>6, <1>7, <1>8 DEF Outside

\* The calls, the waits, block() and the wake-up of a sender.
LEMMA OutsideStep ==
    ASSUME MailboxInv, NEW t \in Callers, Outside(t)
    PROVE  MailboxInv'
<1> USE DEF UserTo, CallSteps, box
<1>1. Holder' /\ Opened' /\ Filled'
  BY Zenon, OutsideIsQuiet, QuietStep
<1>2. Types /\ Waiting /\ Carrying
  BY Zenon DEF MailboxInv
<1>3. /\ user \in [Callers -> CallSteps]
      /\ msg \in [Callers -> Bodies \cup {NoMessage}]
      /\ moreSpace \in Seq(Callers) /\ moreData \in Seq(Callers)
  BY Zenon, <1>2 DEF Types
<1>4. ASSUME NEW m \in Bodies, CallSend(t, m)
      PROVE  Types' /\ Waiting' /\ Carrying'
  <2>1. Types'
    BY Zenon, <1>2, <1>4 DEF CallSend, Types
  <2>2. Waiting'
    BY Zenon, <1>2, <1>3, <1>4 DEF CallSend, Waiting
  <2>3. Carrying'
    BY Zenon, <1>2, <1>3, <1>4 DEF CallSend, Carrying, Sending
  <2> QED  BY Zenon, <2>1, <2>2, <2>3
<1>5. CASE SendWaits(t)
  <2>1. Types'
    BY Zenon, <1>2, <1>5 DEF SendWaits, Types
  <2>2. Waiting'
    BY Zenon, <1>2, <1>3, <1>5 DEF SendWaits, Waiting
  <2>3. Carrying'
    BY Zenon, <1>2, <1>3, <1>5 DEF SendWaits, Carrying, Sending
  <2> QED  BY Zenon, <1>1, <2>1, <2>2, <2>3 DEF MailboxInv
<1>6. CASE CallRecv(t)
  <2>1. Types'
    BY Zenon, <1>2, <1>6 DEF CallRecv, Types
  <2>2. Waiting'
    BY Zenon, <1>2, <1>3, <1>6 DEF CallRecv, Waiting
  <2>3. Carrying'
    BY Zenon, <1>2, <1>3, <1>6 DEF CallRecv, Carrying, Sending
  <2> QED  BY Zenon, <1>1, <2>1, <2>2, <2>3 DEF MailboxInv
<1>7. CASE RecvWaits(t)
  <2>1. Types'
    BY Zenon, <1>2, <1>7 DEF RecvWaits, Types
  <2>2. Waiting'
    BY Zenon, <1>2, <1>3, <1>7 DEF RecvWaits, Waiting
  <2>3. Carrying'
    BY Zenon, <1>2, <1>3, <1>7 DEF RecvWaits, Carrying, Sending
  <2> QED  BY Zenon, <1>1, <2>1, <2>2, <2>3 DEF MailboxInv
<1>8. CASE WakeSender(t)
  <2> DEFINE h == Head(moreSpace)
  <2>1. /\ h \in Callers /\ user[h] = "sendblocked"
        /\ Tail(moreSpace) \in Seq(Callers) /\ Distinct(Tail(moreSpace))
        /\ Items(Tail(moreSpace)) = Items(moreSpace) \ {h}
    BY Zenon, <1>2, <1>8, FirstWaits DEF WakeSender
  <2>2. /\ user' = [user EXCEPT ![h] = "send"] /\ moreSpace' = Tail(moreSpace)
        /\ UNCHANGED <<box, lock, moreData, msg>>
    BY Zenon, <1>8 DEF WakeSender
  <2> HIDE DEF h
  <2>3. Types'
    BY Zenon, <1>2, <2>1, <2>2 DEF Types
  <2>4. Waiting'
    <3>1. {s \in Callers : user'[s] = "sendblocked"}
            = {s \in Callers : user[s] = "sendblocked"} \ {h}
      BY Zenon, <1>3, <2>1, <2>2
    <3>2. {s \in Callers : user'[s] = "recvblocked"}
            = {s \in Callers : user[s] = "recvblocked"}
      BY Zenon, <1>3, <2>1, <2>2
    <3> QED  BY Zenon, <1>2, <2>1, <2>2, <3>1, <3>2 DEF Waiting
  <2>5. Carrying'
    BY Zenon, <1>2, <1>3, <2>1, <2>2 DEF Carrying, Sending
  <2> QED  BY Zenon, <1>1, <2>3, <2>4, <2>5 DEF MailboxInv
<1>9. CASE BlockForSpace(t)
  <2>1. /\ user' = [user EXCEPT ![t] = "sendblocked"] /\ user[t] = "sendgap"
        /\ moreSpace' = Append(moreSpace, t)
        /\ UNCHANGED <<box, lock, moreData, msg>>
    BY Zenon, <1>9 DEF BlockForSpace
  <2>2. t \notin Items(moreSpace)
    BY Zenon, <1>2, <2>1 DEF Waiting
  <2>3. /\ Append(moreSpace, t) \in Seq(Callers)
        /\ Distinct(Append(moreSpace, t))
        /\ Items(Append(moreSpace, t)) = Items(moreSpace) \cup {t}
    BY <1>2, <1>3, <2>2, AppendFacts DEF Waiting
  <2>4. Types'
    BY Zenon, <1>2, <2>1, <2>3 DEF Types
  <2>5. Waiting'
    <3>1. {s \in Callers : user'[s] = "sendblocked"}
            = {s \in Callers : user[s] = "sendblocked"} \cup {t}
      BY Zenon, <1>3, <2>1
    <3>2. {s \in Callers : user'[s] = "recvblocked"}
            = {s \in Callers : user[s] = "recvblocked"}
      BY Zenon, <1>3, <2>1
    <3> QED  BY Zenon, <1>2, <2>1, <2>3, <3>1, <3>2 DEF Waiting
  <2>6. Carrying'
    BY Zenon, <1>2, <1>3, <2>1 DEF Carrying, Sending
  <2> QED  BY Zenon, <1>1, <2>4, <2>5, <2>6 DEF MailboxInv
<1>10. CASE BlockForData(t)
  <2>1. /\ user' = [user EXCEPT ![t] = "recvblocked"] /\ user[t] = "recvgap"
        /\ moreData' = Append(moreData, t)
        /\ UNCHANGED <<box, lock, moreSpace, msg>>
    BY Zenon, <1>10 DEF BlockForData
  <2>2. t \notin Items(moreData)
    BY Zenon, <1>2, <2>1 DEF Waiting
  <2>3. /\ Append(moreData, t) \in Seq(Callers) /\ Distinct(Append(moreData, t))
        /\ Items(Append(moreData, t)) = Items(moreData) \cup {t}
    BY <1>2, <1>3, <2>2, AppendFacts DEF Waiting
  <2>4. Types'
    BY Zenon, <1>2, <2>1, <2>3 DEF Types
  <2>5. Waiting'
    <3>1. {s \in Callers : user'[s] = "recvblocked"}
            = {s \in Callers : user[s] = "recvblocked"} \cup {t}
      BY Zenon, <1>3, <2>1
    <3>2. {s \in Callers : user'[s] = "sendblocked"}
            = {s \in Callers : user[s] = "sendblocked"}
      BY Zenon, <1>3, <2>1
    <3> QED  BY Zenon, <1>2, <2>1, <2>3, <3>1, <3>2 DEF Waiting
  <2>6. Carrying'
    BY Zenon, <1>2, <1>3, <2>1 DEF Carrying, Sending
  <2> QED  BY Zenon, <1>1, <2>4, <2>5, <2>6 DEF MailboxInv
<1> QED  BY Zenon, <1>1, <1>4, <1>5, <1>6, <1>7, <1>8, <1>9, <1>10
            DEF Outside, MailboxInv

\* head = tail is an empty buffer or a full one, and count tells which.
LEMMA SpaceIs ==
    ASSUME Types, NEW o \in 0 .. BUFFER_SIZE,
           head = (tail + o) % BUFFER_SIZE, count = 0 <=> o = 0
    PROVE  space_available = BUFFER_SIZE - o
<1> DEFINE b == BUFFER_SIZE
<1>1. /\ b \in Nat /\ b > 0 /\ o \in 0 .. b
      /\ tail \in 0 .. b - 1 /\ head \in 0 .. b - 1
  BY MailboxAssumption DEF Types, Cells
<1>2. head = (tail + o) % b
  BY Zenon
<1>3. space_available = IF tail = head /\ count # 0 THEN 0
                        ELSE IF tail > head
                             THEN tail - head ELSE tail + b - head
  BY Zenon DEF space_available
<1> HIDE DEF b
<1>4. head = (IF tail + o < b THEN tail + o ELSE tail + o - b)
  BY <1>1, <1>2, Modulo
<1>5. CASE o = 0
  <2>1. head = tail /\ count = 0
    BY <1>1, <1>4, <1>5
  <2> QED  BY <1>1, <1>3, <1>5, <2>1 DEF b
<1>6. CASE o # 0 /\ tail + o < b
  <2>1. head = tail + o
    BY Zenon, <1>4, <1>6
  <2>2. space_available = tail + b - head
    BY <1>1, <1>3, <1>6, <2>1
  <2>3. space_available = b - o
    BY <1>1, <2>1, <2>2
  <2> QED  BY Zenon, <2>3 DEF b
<1>7. CASE o # 0 /\ tail + o >= b /\ o < b
  <2>1. head = tail + o - b
    BY <1>1, <1>4, <1>7
  <2>2. space_available = tail - head
    BY <1>1, <1>3, <1>7, <2>1
  <2>3. space_available = b - o
    BY <1>1, <2>1, <2>2
  <2> QED  BY Zenon, <2>3 DEF b
<1>8. CASE o # 0 /\ o = b
  <2>1. head = tail /\ count # 0
    BY <1>1, <1>4, <1>8
  <2>2. space_available = b - o
    BY <1>1, <1>3, <1>8, <2>1
  <2> QED  BY Zenon, <2>2 DEF b
<1> QED  BY <1>1, <1>5, <1>6, <1>7, <1>8

\* The messages in the buffer, named.
InBuffer(ms, off) ==
    /\ Stored(buffer, tail, ms, off)
    /\ Len(ms) = Pending
    /\ head = (tail + off[Len(ms)]) % BUFFER_SIZE

\* What is free when nobody has the lock.
LEMMA FreeIs ==
    ASSUME LibraryFacts, MailboxInv, NEW ms, NEW off, InBuffer(ms, off),
           lock = Nobody
    PROVE  space_available = BUFFER_SIZE - off[Len(ms)] /\ Len(ms) = count
<1>1. Len(ms) = count
  BY Zenon, PendingIs DEF MailboxInv, InBuffer
<1>2. /\ off[Len(ms)] \in 0 .. BUFFER_SIZE
      /\ Len(ms) = 0 <=> off[Len(ms)] = 0
  BY Numbers DEF InBuffer
<1>3. Types /\ head = (tail + off[Len(ms)]) % BUFFER_SIZE
  BY Zenon DEF MailboxInv, InBuffer
<1>4. space_available = BUFFER_SIZE - off[Len(ms)]
  BY Zenon, <1>1, <1>2, <1>3, SpaceIs
<1> QED  BY Zenon, <1>1, <1>4

\* Send() puts its message behind those in the buffer ...
LEMMA SendFacts ==
    ASSUME LibraryFacts, MailboxInv, NEW t \in Callers, Send(t),
           NEW ms, NEW off, InBuffer(ms, off)
    PROVE  /\ msg[t] \in Bodies /\ Append(ms, msg[t]) \in Seq(Bodies)
           /\ Len(Append(ms, msg[t])) = Len(ms) + 1 /\ Len(ms) = count
           /\ \E offs :
                 /\ Stored(buffer', tail, Append(ms, msg[t]), offs)
                 /\ offs[Len(ms) + 1] = off[Len(ms)] + MSG_SIZE(msg[t])
                 /\ head' = (tail + offs[Len(ms) + 1]) % BUFFER_SIZE
<1> DEFINE m == msg[t]
           n == Len(ms)
           o == off[n]
           z == MSG_SIZE(m)
<1>1. m \in Bodies
  BY Zenon DEF MailboxInv, Carrying, Sending, Send
<1>2. Stored(buffer, tail, ms, off) /\ head = (tail + o) % BUFFER_SIZE
  BY Zenon DEF InBuffer
<1>3. tail \in Cells /\ tail \in Int
  BY MailboxAssumption DEF MailboxInv, Types, Cells
<1>4. o \in Int /\ z \in Int /\ BUFFER_SIZE \in Int
  BY <1>1, <1>2, Numbers, Body
<1>5. space_available = BUFFER_SIZE - o /\ n = count
  BY Zenon, FreeIs DEF Send
<1>6. space_available >= z
  BY Zenon DEF Send
<1>7. buffer' = Written(buffer, m, (tail + o) % BUFFER_SIZE)
  <2>1. buffer' = msg_to_buffer(m, head)
    BY Zenon DEF Send
  <2>2. msg_to_buffer(m, head) = Written(buffer, m, head)
    BY Zenon DEF msg_to_buffer, Written
  <2> QED  BY Zenon, <1>2, <2>1, <2>2
<1>8. head' = (head + z) % BUFFER_SIZE
  BY Zenon DEF Send
<1>9. /\ Append(ms, m) \in Seq(Bodies) /\ Len(Append(ms, m)) = n + 1
  BY <1>1, <1>2, AppendFacts DEF Stored
<1> HIDE DEF m, o, z
<1>10. o + z <= BUFFER_SIZE
  BY <1>4, <1>5, <1>6
<1>11. PICK offs : /\ Stored(buffer', tail, Append(ms, m), offs)
                   /\ offs[n + 1] = o + z
  <2>1. off[Len(ms)] + MSG_SIZE(m) <= BUFFER_SIZE
    BY Zenon, <1>10 DEF o, z
  <2>2. \E offs :
            /\ Stored(Written(buffer, m, (tail + off[Len(ms)]) % BUFFER_SIZE),
                      tail, Append(ms, m), offs)
            /\ offs[Len(ms) + 1] = off[Len(ms)] + MSG_SIZE(m)
    <3>1. tail \in Cells /\ Stored(buffer, tail, ms, off)
      BY Zenon, <1>2, <1>3
    <3> QED  BY <1>1, <2>1, <3>1, StoredSend
  <2> QED  BY Zenon, <1>7, <2>2 DEF o, z
<1>12. head' = (tail + offs[n + 1]) % BUFFER_SIZE
  <2> DEFINE x == tail + o
  <2>1. x \in Int /\ x + z = tail + (o + z)
    BY <1>3, <1>4
  <2>2. head' = ((x % BUFFER_SIZE) + z) % BUFFER_SIZE
    BY Zenon, <1>2, <1>8
  <2> HIDE DEF x
  <2>3. head' = (x + z) % BUFFER_SIZE
    BY Zenon, <1>4, <2>1, <2>2, Wrap
  <2> QED  BY Zenon, <1>11, <2>1, <2>3
<1> QED  BY Zenon, <1>1, <1>5, <1>9, <1>11, <1>12 DEF m, o, z

\* ... and Recv() takes the first one.
LEMMA RecvFacts ==
    ASSUME LibraryFacts, MailboxInv, NEW t \in Callers, Recv(t),
           NEW ms, NEW off, InBuffer(ms, off)
    PROVE  /\ ms # <<>> /\ ms[1] \in Bodies /\ Len(ms) = count
           /\ msg' = [msg EXCEPT ![t] = ms[1]]
           /\ tail' \in Cells /\ Len(Tail(ms)) = Len(ms) - 1
           /\ \E offs :
                 /\ Stored(buffer, tail', Tail(ms), offs)
                 /\ head = (tail' + offs[Len(ms) - 1]) % BUFFER_SIZE
<1> DEFINE n == Len(ms)
           r == (tail + 1) % BUFFER_SIZE
           size == buffer[(tail + 1 - 1) % BUFFER_SIZE]
<1>1. Stored(buffer, tail, ms, off) /\ head = (tail + off[n]) % BUFFER_SIZE
  BY Zenon DEF InBuffer
<1>2. tail \in Cells
  BY Zenon DEF MailboxInv, Types
<1>3. n = count
  BY Zenon, FreeIs DEF Recv
<1>4. ms # <<>>
  <2>1. n # 0
    BY Zenon, <1>3 DEF Recv
  <2> QED  BY <2>1
<1>5. buffer_to_msg(tail, 1)[1] = size
  BY DEF buffer_to_msg
<1>6. /\ ms[1] \in Bodies /\ size = Len(ms[1])
      /\ [i \in 1 .. Len(ms[1]) |-> buffer[(r + i - 1) % BUFFER_SIZE]] = ms[1]
  BY <1>1, <1>2, <1>4, FirstMessage
<1>7. /\ msg' = [msg EXCEPT ![t] = buffer_to_msg(r, size)]
      /\ tail' = (r + size) % BUFFER_SIZE
  BY Zenon, <1>5 DEF Recv
<1>8. buffer_to_msg(r, Len(ms[1])) = ms[1]
  BY Zenon, <1>6 DEF buffer_to_msg
<1> HIDE DEF size
<1>9. msg' = [msg EXCEPT ![t] = ms[1]]
  BY Zenon, <1>6, <1>7, <1>8
<1>10. tail' = (r + Len(ms[1])) % BUFFER_SIZE
  BY Zenon, <1>6, <1>7
<1>11. /\ tail' \in Cells /\ Len(Tail(ms)) = n - 1
       /\ \E offs : /\ Stored(buffer, tail', Tail(ms), offs)
                    /\ (tail' + offs[n - 1]) % BUFFER_SIZE
                          = (tail + off[n]) % BUFFER_SIZE
  BY <1>1, <1>2, <1>4, <1>10, StoredRecv
<1> QED  BY Zenon, <1>1, <1>3, <1>4, <1>6, <1>9, <1>11

\* Threads can be counted.
LEMMA Sizes ==
    ASSUME LibraryFacts, NEW S \in SUBSET Callers
    PROVE  /\ Cardinality(S) \in Nat /\ Cardinality(S) <= Cardinality(Callers)
           /\ Cardinality(Callers) \in Nat
           /\ Cardinality(S) = 0 <=> S = {}
           /\ \A t \in Callers :
                 /\ t \notin S => Cardinality(S \cup {t}) = Cardinality(S) + 1
                 /\ t \in S => Cardinality(S \ {t}) = Cardinality(S) - 1
  BY Zenon DEF LibraryFacts

\* Who has the mailbox open is a caller.
LEMMA UsersAre == Users \in SUBSET Callers
  BY Zenon DEF Users

\* A message takes a cell at least.
LEMMA Fits ==
    ASSUME NEW ms, NEW off, InBuffer(ms, off)
    PROVE  Len(ms) <= BUFFER_SIZE
<1>1. Stored(buffer, tail, ms, off)
  BY Zenon DEF InBuffer
<1>2. /\ Len(ms) \in Nat /\ BUFFER_SIZE \in Nat /\ Len(ms) <= off[Len(ms)]
      /\ off[Len(ms)] \in 0 .. BUFFER_SIZE
  BY Zenon, <1>1, Numbers
<1> QED  BY <1>2

\* mbox_open().
LEMMA OpenStep ==
    ASSUME LibraryFacts, MailboxInv, NEW t \in Callers, Open(t)
    PROVE  MailboxInv' /\ Users' = Users \cup {t}
<1> USE DEF UserTo, CallSteps, box
<1>1. Types /\ Holder /\ Waiting /\ Carrying
  BY Zenon DEF MailboxInv
<1>2. user \in [Callers -> CallSteps] /\ Nobody \notin Callers
  BY Zenon, <1>1, MailboxAssumption DEF Types
<1>3. Types'
  <2>1. 0 \in Cells /\ 0 <= BUFFER_SIZE
    BY MailboxAssumption DEF Cells
  <2> QED  BY <1>1, <2>1 DEF Open, Types
<1>4. Holder'
  BY Zenon, <1>1, <1>2 DEF Open, Holder, HeldBy
<1>5. Waiting'
  BY Zenon, <1>1, <1>2 DEF Open, Waiting
<1>6. Carrying'
  BY Zenon, <1>1, <1>2 DEF Open, Carrying, Sending
<1>7. Users' = Users \cup {t} /\ t \notin Users
  BY Zenon, <1>2 DEF Open, Users
<1>8. Opened'
  <2>1. Cardinality(Users \cup {t}) = Cardinality(Users) + 1
    BY Zenon, <1>7, UsersAre, Sizes
  <2> QED  BY Zenon, <1>7, <2>1 DEF Open, Opened, MailboxInv
<1>9. Filled'
  <2>1. Pending' = count' /\ Pending = count
    BY Zenon, <1>1, <1>3, <1>4, PendingIs, PendingIsThen DEF Open
  <2>2. CASE used = 0
    <3> DEFINE off == [i \in 0 .. 0 |-> 0]
    <3>1. /\ Stored(buffer', tail', <<>>, off) /\ Len(<<>>) = 0 /\ off[0] = 0
      BY StoredNone, EmptyFacts
    <3>2. tail' = 0 /\ head' = 0 /\ Pending' = 0
      BY Zenon, <2>1, <2>2 DEF Open
    <3>3. head' = (tail' + off[Len(<<>>)]) % BUFFER_SIZE
      <4>1. 0 % BUFFER_SIZE = 0
        BY MailboxAssumption, Modulo
      <4> QED  BY <3>1, <3>2, <4>1
    <3> HIDE DEF off
    <3> QED  BY Zenon, <3>1, <3>2, <3>3 DEF Filled
  <2>3. CASE used # 0
    <3>1. /\ buffer' = buffer /\ tail' = tail /\ head' = head
          /\ Pending' = Pending
      BY Zenon, <2>1, <2>3 DEF Open
    <3>2. PICK ms, off : InBuffer(ms, off)
      BY Zenon DEF MailboxInv, Filled, InBuffer
    <3>3. /\ Stored(buffer', tail', ms, off) /\ Len(ms) = Pending'
          /\ head' = (tail' + off[Len(ms)]) % BUFFER_SIZE
      BY Zenon, <3>1, <3>2 DEF InBuffer
    <3> QED  BY Zenon, <3>3 DEF Filled
  <2> QED  BY Zenon, <2>2, <2>3
<1> QED  BY Zenon, <1>3, <1>4, <1>5, <1>6, <1>7, <1>8, <1>9 DEF MailboxInv

\* A step that leaves the buffer alone and the number of messages in it.
LEMMA FilledStays ==
    ASSUME Filled, UNCHANGED <<buffer, tail, head>>, Pending' = Pending
    PROVE  Filled'
<1>1. PICK ms, off : InBuffer(ms, off)
  BY Zenon DEF Filled, InBuffer
<1>2. /\ Stored(buffer', tail', ms, off) /\ Len(ms) = Pending'
      /\ head' = (tail' + off[Len(ms)]) % BUFFER_SIZE
  BY Zenon, <1>1 DEF InBuffer
<1> QED  BY Zenon, <1>2 DEF Filled

\* mbox_close().
LEMMA CloseStep ==
    ASSUME LibraryFacts, MailboxInv, NEW t \in Callers, Close(t)
    PROVE  MailboxInv' /\ Users' = Users \ {t} /\ Pending' = Pending
<1> USE DEF UserTo, CallSteps
<1>1. Types /\ Holder /\ Waiting /\ Carrying /\ Opened /\ Filled
  BY Zenon DEF MailboxInv
<1>2. user \in [Callers -> CallSteps] /\ Nobody \notin Callers
  BY Zenon, <1>1, MailboxAssumption DEF Types
<1>3. Users' = Users \ {t} /\ t \in Users
  BY Zenon, <1>2 DEF Close, Users
<1>4. Opened' /\ used' \in Nat
  <2>1. Cardinality(Users \ {t}) = Cardinality(Users) - 1
    BY Zenon, <1>3, UsersAre, Sizes
  <2>2. Cardinality(Users \ {t}) \in Nat
    <3>1. Users \ {t} \in SUBSET Callers
      BY Zenon, UsersAre
    <3> QED  BY Zenon, <3>1, Sizes
  <2> QED  BY Zenon, <1>1, <1>3, <2>1, <2>2 DEF Close, Opened
<1>5. Types'
  BY Zenon, <1>1, <1>4 DEF Close, Types
<1>6. Holder'
  BY Zenon, <1>1, <1>2 DEF Close, Holder, HeldBy
<1>7. Waiting'
  BY Zenon, <1>1, <1>2 DEF Close, Waiting
<1>8. Carrying'
  BY Zenon, <1>1, <1>2 DEF Close, Carrying, Sending
<1>9. Pending' = Pending
  BY Zenon, <1>1, <1>5, <1>6, PendingIs, PendingIsThen DEF Close
<1>10. Filled'
  BY Zenon, <1>1, <1>9, FilledStays DEF Close
<1> QED  BY Zenon, <1>3, <1>4, <1>5, <1>6, <1>7, <1>8, <1>9, <1>10
            DEF MailboxInv

\* mbox_send() up to the signal.
LEMMA SendStep ==
    ASSUME LibraryFacts, MailboxInv, NEW t \in Callers, Send(t)
    PROVE  MailboxInv' /\ Users' = Users /\ Pending' = Pending + 1
<1> USE DEF UserTo, CallSteps
<1>1. Types /\ Holder /\ Waiting /\ Carrying /\ Opened /\ Filled
  BY Zenon DEF MailboxInv
<1>2. user \in [Callers -> CallSteps] /\ Nobody \notin Callers
  BY Zenon, <1>1, MailboxAssumption DEF Types
<1>3. Users' = Users
  BY Zenon, <1>2 DEF Send, Users
<1>4. Opened'
  BY Zenon, <1>1, <1>3 DEF Send, Opened
<1>5. Types'
  <2>1. head' \in Cells
    <3>1. msg[t] \in Bodies
      BY Zenon, <1>1 DEF Carrying, Sending, Send
    <3>2. head + MSG_SIZE(msg[t]) \in Int
      BY <1>1, <3>1, Body, MailboxAssumption DEF Types, Cells
    <3> QED  BY Zenon, <3>2, InCells DEF Send
  <2> QED  BY Zenon, <1>1, <2>1 DEF Send, Types
<1>6. Holder'
  BY Zenon, <1>1, <1>2 DEF Send, Holder, HeldBy
<1>7. Waiting'
  BY Zenon, <1>1, <1>2 DEF Send, Waiting
<1>8. Carrying'
  BY Zenon, <1>1, <1>2 DEF Send, Carrying, Sending
<1>9. Pending' = count + 1 /\ Pending = count
  <2>1. user'[t] = "signal" /\ count' = count
    BY Zenon, <1>2 DEF Send
  <2> QED  BY Zenon, <1>1, <1>5, <1>6, <2>1, PendingIs, PendingIsThen DEF Send
<1>10. Filled'
  <2>1. PICK ms, off : InBuffer(ms, off)
    BY Zenon, <1>1 DEF Filled, InBuffer
  <2>2. PICK offs : /\ Stored(buffer', tail, Append(ms, msg[t]), offs)
                    /\ head' = (tail + offs[Len(ms) + 1]) % BUFFER_SIZE
    BY Zenon, <2>1, SendFacts
  <2>3. Len(Append(ms, msg[t])) = Len(ms) + 1 /\ Len(ms) = count /\ tail' = tail
    BY Zenon, <2>1, SendFacts DEF Send
  <2>4. /\ Stored(buffer', tail', Append(ms, msg[t]), offs)
        /\ Len(Append(ms, msg[t])) = Pending'
        /\ head' = (tail' + offs[Len(Append(ms, msg[t]))]) % BUFFER_SIZE
    BY Zenon, <1>9, <2>2, <2>3
  <2> QED  BY Zenon, <2>4 DEF Filled
<1> QED  BY Zenon, <1>3, <1>4, <1>5, <1>6, <1>7, <1>8, <1>9, <1>10
            DEF MailboxInv

\* mbox_recv() up to the broadcast.
LEMMA RecvStep ==
    ASSUME LibraryFacts, MailboxInv, NEW t \in Callers, Recv(t)
    PROVE  MailboxInv' /\ Users' = Users /\ Pending' = Pending - 1
<1> USE DEF UserTo, CallSteps
<1>1. Types /\ Holder /\ Waiting /\ Carrying /\ Opened /\ Filled
  BY Zenon DEF MailboxInv
<1>2. user \in [Callers -> CallSteps] /\ Nobody \notin Callers
  BY Zenon, <1>1, MailboxAssumption DEF Types
<1>3. PICK ms, off : InBuffer(ms, off)
  BY Zenon, <1>1 DEF Filled, InBuffer
<1>4. /\ ms[1] \in Bodies /\ Len(ms) = count /\ msg' = [msg EXCEPT ![t] = ms[1]]
      /\ tail' \in Cells /\ Len(Tail(ms)) = Len(ms) - 1
  BY Zenon, <1>3, RecvFacts
<1>5. PICK offs : /\ Stored(buffer, tail', Tail(ms), offs)
                  /\ head = (tail' + offs[Len(ms) - 1]) % BUFFER_SIZE
  BY Zenon, <1>3, RecvFacts
<1>6. /\ user' = [user EXCEPT ![t] = "broadcast"] /\ user[t] = "recv"
      /\ lock = Nobody /\ lock' = t
      /\ UNCHANGED <<used, count, head, buffer, moreSpace, moreData>>
  BY Zenon DEF Recv
<1>7. Users' = Users
  BY Zenon, <1>2, <1>6 DEF Users
<1>8. Opened'
  BY Zenon, <1>1, <1>6, <1>7 DEF Opened
<1>9. Types'
  BY Zenon, <1>1, <1>4, <1>6 DEF Types
<1>10. Holder'
  BY Zenon, <1>1, <1>2, <1>6 DEF Holder, HeldBy
<1>11. Waiting'
  BY Zenon, <1>1, <1>2, <1>6 DEF Waiting
<1>12. Carrying'
  BY Zenon, <1>1, <1>2, <1>4, <1>6 DEF Carrying, Sending, Types
<1>13. Pending' = count - 1 /\ Pending = count
  <2>1. user'[t] = "broadcast" /\ count' = count
    BY Zenon, <1>2, <1>6
  <2> QED  BY Zenon, <1>1, <1>6, <1>9, <1>10, <2>1, PendingIs, PendingIsThen
<1>14. Filled'
  <2>1. /\ Stored(buffer', tail', Tail(ms), offs) /\ Len(Tail(ms)) = Pending'
        /\ head' = (tail' + offs[Len(Tail(ms))]) % BUFFER_SIZE
    BY Zenon, <1>4, <1>5, <1>6, <1>13
  <2> QED  BY Zenon, <2>1 DEF Filled
<1> QED  BY Zenon, <1>7, <1>8, <1>9, <1>10, <1>11, <1>12, <1>13, <1>14
            DEF MailboxInv

\* The signal and the end of mbox_send().
LEMMA SignalStep ==
    ASSUME LibraryFacts, MailboxInv, NEW t \in Callers, Signal(t)
    PROVE  MailboxInv' /\ Users' = Users /\ Pending' = Pending
<1> USE DEF CallSteps
<1>1. Types /\ Holder /\ Waiting /\ Carrying /\ Opened /\ Filled
  BY Zenon DEF MailboxInv
<1>2. /\ user \in [Callers -> CallSteps] /\ Nobody \notin Callers
      /\ msg \in [Callers -> Bodies \cup {NoMessage}]
  BY Zenon, <1>1, MailboxAssumption DEF Types
<1>3. user[t] = "signal" /\ lock = t
  BY Zenon, <1>1 DEF Signal, Holder, HeldBy
<1>4. \A s \in Callers :
          user'[s] = IF s = t THEN "open"
                     ELSE IF moreData # <<>> /\ s = Head(moreData) THEN "recv"
                     ELSE user[s]
  BY Zenon DEF Signal, WakeFirst
<1>5. user' \in [Callers -> CallSteps]
  BY Zenon, <1>2 DEF Signal, WakeFirst
<1>6. moreData # <<>> => /\ Head(moreData) \in Callers
                         /\ user[Head(moreData)] = "recvblocked"
                         /\ Tail(moreData) \in Seq(Callers)
                         /\ Distinct(Tail(moreData))
                         /\ Items(Tail(moreData)) =
                              Items(moreData) \ {Head(moreData)}
  BY Zenon, <1>1, FirstWaits
<1>7. Users' = Users
  BY Zenon, <1>3, <1>4, <1>6 DEF Users
<1>8. Opened'
  BY Zenon, <1>1, <1>7 DEF Signal, Opened
<1>9. Types'
  <2>1. PICK ms, off : InBuffer(ms, off)
    BY Zenon, <1>1 DEF Filled, InBuffer
  <2>2. Len(ms) = count + 1
    BY Zenon, <1>1, <1>3, <2>1, PendingIs DEF InBuffer
  <2>3. count' <= BUFFER_SIZE
    BY Zenon, <2>1, <2>2, Fits DEF Signal
  <2> QED  BY <1>1, <1>5, <1>6, <2>3, EmptyFacts DEF Signal, Types
<1>10. Holder'
  <2>1. lock' = Nobody
    BY Zenon DEF Signal
  <2>2. \A s \in Callers : user'[s] \notin {"signal", "broadcast"}
    BY Zenon, <1>1, <1>3, <1>4 DEF Holder, HeldBy
  <2> QED  BY Zenon, <1>2, <2>1, <2>2 DEF Holder, HeldBy
<1>11. Waiting'
  <2>1. /\ moreSpace' = moreSpace
        /\ {s \in Callers : user'[s] = "sendblocked"}
              = {s \in Callers : user[s] = "sendblocked"}
    BY Zenon, <1>3, <1>4, <1>6 DEF Signal
  <2>2. CASE moreData = <<>>
    <3>1. /\ moreData' = moreData
          /\ {s \in Callers : user'[s] = "recvblocked"}
                = {s \in Callers : user[s] = "recvblocked"}
      BY Zenon, <1>3, <1>4, <2>2 DEF Signal
    <3> QED  BY Zenon, <1>1, <2>1, <3>1 DEF Waiting
  <2>3. CASE moreData # <<>>
    <3>1. /\ moreData' = Tail(moreData)
          /\ {s \in Callers : user'[s] = "recvblocked"}
                = {s \in Callers : user[s] = "recvblocked"} \ {Head(moreData)}
      BY Zenon, <1>3, <1>4, <2>3 DEF Signal
    <3> QED  BY Zenon, <1>1, <1>6, <2>1, <2>3, <3>1 DEF Waiting
  <2> QED  BY Zenon, <2>2, <2>3
<1>12. Carrying'
  <2>1. msg' = [msg EXCEPT ![t] = NoMessage]
    BY Zenon DEF Signal
  <2>2. \A s \in Callers : user'[s] \in Sending \cup {"broadcast"} =>
                             s # t /\ user'[s] = user[s]
    BY Zenon, <1>4 DEF Sending
  <2>3. \A s \in Callers : s # t => msg'[s] = msg[s]
    BY Zenon, <1>2, <2>1
  <2> QED  BY Zenon, <1>1, <2>2, <2>3 DEF Carrying
<1>13. Pending' = Pending
  <2>1. lock' = Nobody /\ count' = count + 1
    BY Zenon DEF Signal
  <2>2. Pending' = count'
    BY Zenon, <1>9, <1>10, <2>1, PendingIsThen
  <2>3. Pending = count + 1
    BY Zenon, <1>1, <1>3, PendingIs
  <2> QED  BY Zenon, <2>1, <2>2, <2>3
<1>14. Filled'
  BY Zenon, <1>1, <1>13, FilledStays DEF Signal
<1> QED  BY Zenon, <1>7, <1>8, <1>9, <1>10, <1>11, <1>12, <1>13, <1>14
            DEF MailboxInv

\* The end of the broadcast and of mbox_recv().
LEMMA EndRecvStep ==
    ASSUME LibraryFacts, MailboxInv, NEW t \in Callers, EndRecv(t)
    PROVE  MailboxInv' /\ Users' = Users /\ Pending' = Pending
<1> USE DEF UserTo, CallSteps
<1>1. Types /\ Holder /\ Waiting /\ Carrying /\ Opened /\ Filled
  BY Zenon DEF MailboxInv
<1>2. /\ user \in [Callers -> CallSteps] /\ Nobody \notin Callers
      /\ msg \in [Callers -> Bodies \cup {NoMessage}]
  BY Zenon, <1>1, MailboxAssumption DEF Types
<1>3. user[t] = "broadcast" /\ lock = t
  BY Zenon, <1>1 DEF EndRecv, Holder, HeldBy
<1>4. Pending = count - 1
  BY Zenon, <1>1, <1>3, PendingIs
<1>5. count' \in Nat /\ count' = count - 1 /\ count' <= BUFFER_SIZE
  <2>1. PICK ms, off : InBuffer(ms, off)
    BY Zenon, <1>1 DEF Filled, InBuffer
  <2>2. Len(ms) = Pending /\ Len(ms) \in Nat
    BY Zenon, <2>1, Numbers DEF InBuffer
  <2>3. Len(ms) <= BUFFER_SIZE
    BY Zenon, <2>1, Fits
  <2> QED  BY Zenon, <1>4, <2>2, <2>3 DEF EndRecv
<1>6. Types'
  BY Zenon, <1>1, <1>5 DEF EndRecv, Types
<1>7. Users' = Users
  BY Zenon, <1>2, <1>3 DEF EndRecv, Users
<1>8. Opened'
  BY Zenon, <1>1, <1>7 DEF EndRecv, Opened
<1>9. Holder'
  <2>1. lock' = Nobody
    BY Zenon DEF EndRecv
  <2>2. \A s \in Callers : user'[s] \notin {"signal", "broadcast"}
    BY Zenon, <1>1, <1>2, <1>3 DEF Holder, HeldBy, EndRecv
  <2> QED  BY Zenon, <1>2, <2>1, <2>2 DEF Holder, HeldBy
<1>10. Waiting'
  BY Zenon, <1>1, <1>2, <1>3 DEF EndRecv, Waiting
<1>11. Carrying'
  BY Zenon, <1>1, <1>2, <1>3 DEF EndRecv, Carrying, Sending
<1>12. Pending' = Pending
  <2>1. lock' = Nobody
    BY Zenon DEF EndRecv
  <2>2. Pending' = count'
    BY Zenon, <1>6, <1>9, <2>1, PendingIsThen
  <2> QED  BY Zenon, <1>4, <1>5, <2>2
<1>13. Filled'
  BY Zenon, <1>1, <1>12, FilledStays DEF EndRecv
<1> QED  BY Zenon, <1>6, <1>7, <1>8, <1>9, <1>10, <1>11, <1>12, <1>13
            DEF MailboxInv

\* Every step is one of a thread outside or of the one that has the lock.
LEMMA Steps ==
    ASSUME MailboxNext
    PROVE  \E t \in Callers : \/ Outside(t) \/ Open(t) \/ Close(t) \/ Send(t)
                              \/ Signal(t) \/ Recv(t) \/ EndRecv(t)
  BY Zenon DEF MailboxNext, Outside, MailboxBlock

\* mbox_init() leaves an empty buffer.
LEMMA InvInit ==
    ASSUME LibraryFacts
    PROVE  MailboxInit => MailboxInv
<1> SUFFICES ASSUME MailboxInit PROVE MailboxInv
  BY Zenon
<1> USE DEF MailboxInit
<1>1. Types
  BY MailboxAssumption, EmptyFacts DEF Types, Cells, CallSteps
<1>2. Holder
  BY Zenon, MailboxAssumption DEF Holder, HeldBy
<1>3. Waiting
  BY DEF Waiting, Distinct, Items
<1>4. Carrying
  BY Zenon DEF Carrying, Sending
<1>5. Opened
  <2>1. Users = {}
    BY Zenon DEF Users
  <2> QED  BY Zenon, <2>1, UsersAre, Sizes DEF Opened
<1>6. Filled
  <2> DEFINE off == [i \in 0 .. 0 |-> 0]
  <2>1. /\ Stored(buffer, tail, <<>>, off) /\ Len(<<>>) = 0 /\ off[0] = 0
    BY StoredNone, EmptyFacts
  <2>2. Pending = 0
    BY Zenon, <1>1, <1>2, PendingIs
  <2>3. head = (tail + off[Len(<<>>)]) % BUFFER_SIZE
    <3>1. 0 % BUFFER_SIZE = 0
      BY MailboxAssumption, Modulo
    <3> QED  BY <2>1, <3>1
  <2> HIDE DEF off
  <2> QED  BY Zenon, <2>1, <2>2, <2>3 DEF Filled
<1> QED  BY Zenon, <1>1, <1>2, <1>3, <1>4, <1>5, <1>6 DEF MailboxInv

\* A step of something else.
LEMMA InvStutter ==
    ASSUME MailboxInv, UNCHANGED mailboxVars
    PROVE  MailboxInv' /\ Users' = Users /\ Pending' = Pending
<1>1. Quiet
  BY Zenon DEF Quiet, mailboxVars, box
<1>2. Types'
  BY Zenon DEF MailboxInv, Types, mailboxVars, box
<1>3. Waiting'
  BY Zenon DEF MailboxInv, Waiting, mailboxVars, box
<1>4. Carrying'
  BY Zenon DEF MailboxInv, Carrying, mailboxVars, box
<1> QED  BY Zenon, <1>1, <1>2, <1>3, <1>4, QuietStep DEF MailboxInv

\* Every step keeps the invariant.
LEMMA InvStep ==
    ASSUME LibraryFacts
    PROVE  MailboxInv /\ [MailboxNext]_mailboxVars => MailboxInv'
<1> SUFFICES ASSUME MailboxInv, [MailboxNext]_mailboxVars PROVE MailboxInv'
  BY Zenon
<1>1. CASE MailboxNext
  BY Zenon, <1>1, Steps, OutsideStep, OpenStep, CloseStep, SendStep, SignalStep,
     RecvStep, EndRecvStep
<1>2. CASE UNCHANGED mailboxVars
  BY Zenon, <1>2, InvStutter
<1> QED  BY Zenon, <1>1, <1>2

\* What the invariant says of Contents and FreeCells.
LEMMA ContentsAre ==
    ASSUME LibraryFacts, MailboxInv, NEW ms, NEW off, InBuffer(ms, off)
    PROVE  Contents = ms /\ FreeCells = BUFFER_SIZE - off[Len(ms)]
<1>1. tail \in Cells /\ Stored(buffer, tail, ms, off) /\ Pending = Len(ms)
  BY Zenon DEF MailboxInv, Types, InBuffer
<1>2. MessagesFrom(buffer, tail, Len(ms)) = ms
  BY Zenon, <1>1, Decoded
<1>3. Contents = ms
  BY <1>1, <1>2, Zenon DEF Contents
<1>4. CellsLeft(ms) = BUFFER_SIZE - off[Len(ms)]
  BY Zenon, <1>1, Left
<1> QED  BY <1>3, <1>4, Zenon DEF FreeCells

\* The same in the next state.
LEMMA ContentsAreThen ==
    ASSUME LibraryFacts, tail' \in Cells, NEW ms, NEW off,
           Stored(buffer', tail', ms, off),
           Pending' = Len(ms)
    PROVE  Contents' = ms /\ FreeCells' = BUFFER_SIZE - off[Len(ms)]
<1>1. MessagesFrom(buffer', tail', Len(ms)) = ms
  BY Zenon, Decoded
<1>2. Contents' = ms
  BY <1>1, Zenon DEF Contents
<1>3. CellsLeft(ms) = BUFFER_SIZE - off[Len(ms)]
  BY Zenon, Left
<1> QED  BY <1>2, <1>3, Zenon DEF FreeCells

\* What the invariant says of space_available().
LEMMA InvImplies ==
    ASSUME LibraryFacts
    PROVE  MailboxInv => SpaceAccounts
<1> SUFFICES ASSUME MailboxInv PROVE SpaceAccounts
  BY Zenon
<1>1. Types /\ Holder /\ Opened /\ Filled
  BY Zenon DEF MailboxInv
<1>2. PICK ms, off : InBuffer(ms, off)
  BY Zenon, <1>1 DEF Filled, InBuffer
<1>3. used \in 0 .. Cardinality(Callers)
  <2>1. /\ Cardinality(Users) <= Cardinality(Callers)
        /\ Cardinality(Callers) \in Nat
    BY Zenon, UsersAre, Sizes
  <2> QED  BY <1>1, <2>1 DEF Types, Opened
<1>4. count \in 0 .. BUFFER_SIZE
  BY <1>1, MailboxAssumption DEF Types
<1>5. MailboxTypeOK
  BY Zenon, <1>1, <1>3, <1>4 DEF Types, MailboxTypeOK
<1>6. ASSUME lock = Nobody PROVE space_available = FreeCells
  BY <1>2, <1>6, FreeIs, ContentsAre
<1> QED  BY Zenon, <1>5, <1>6 DEF SpaceAccounts

\* The message that a thread has just received.
Received ==
    [t \in Callers |-> IF user[t] = "broadcast" THEN msg[t] ELSE NoMessage]

\* The messages depend on the buffer, the tail and their number only.
LEMMA ContentsStay ==
    ASSUME UNCHANGED <<buffer, tail>>, Pending' = Pending
    PROVE  Contents' = Contents /\ FreeCells' = FreeCells
<1>1. Contents' = Contents
  BY Zenon DEF Contents
<1> QED  BY <1>1, Zenon DEF FreeCells

\* The threads outside change nothing that a user of the mailbox sees.
LEMMA OutsideMaps ==
    ASSUME MailboxInv, NEW t \in Callers, Outside(t)
    PROVE  UNCHANGED <<Users, Contents, Received>>
<1>1. Quiet
  BY Zenon, OutsideIsQuiet
<1>2. Users' = Users /\ Pending' = Pending
  BY Zenon, <1>1, QuietStep
<1>3. Contents' = Contents
  BY Zenon, <1>1, <1>2, ContentsStay DEF Quiet, box
<1>4. \A s \in Callers : user[s] = "broadcast" => msg'[s] = msg[s]
  <2>1. msg \in [Callers -> Bodies \cup {NoMessage}]
    BY Zenon DEF MailboxInv, Types
  <2> QED  BY Zenon, <2>1 DEF Outside, CallSend, SendWaits, CallRecv, RecvWaits,
              WakeSender, BlockForSpace, BlockForData
<1>5. Received' = Received
  BY Zenon, <1>1, <1>4 DEF Received, Quiet
<1> QED  BY Zenon, <1>2, <1>3, <1>5

\* The first one to open the mailbox finds it empty.
LEMMA OpenMaps ==
    ASSUME LibraryFacts, MailboxInv, NEW t \in Callers, Open(t)
    PROVE  /\ Contents' = IF Users = {} THEN <<>> ELSE Contents
           /\ Users' = Users \cup {t} /\ Received' = Received
<1>1. MailboxInv' /\ Users' = Users \cup {t}
  BY Zenon, OpenStep
<1>2. user \in [Callers -> CallSteps]
  BY Zenon DEF MailboxInv, Types
<1>3. Received' = Received
  BY Zenon, <1>2 DEF Received, Open, UserTo
<1>4. used = 0 <=> Users = {}
  BY Zenon, UsersAre, Sizes DEF MailboxInv, Opened
<1>5. Pending' = count' /\ Pending = count
  BY Zenon, <1>1, PendingIs, PendingIsThen DEF MailboxInv, Open
<1>6. CASE used = 0
  <2> DEFINE off == [i \in 0 .. 0 |-> 0]
  <2>1. Stored(buffer', tail', <<>>, off) /\ Len(<<>>) = 0
    BY Zenon, StoredNone, EmptyFacts
  <2>2. tail' \in Cells /\ Pending' = 0
    BY Zenon, <1>1, <1>5, <1>6 DEF Open, MailboxInv, Types
  <2>3. Contents' = <<>>
    BY Zenon, <2>1, <2>2, ContentsAreThen
  <2> QED  BY Zenon, <1>1, <1>3, <1>4, <1>6, <2>3
<1>7. CASE used # 0
  <2>1. Contents' = Contents
    BY Zenon, <1>5, <1>7, ContentsStay DEF Open
  <2> QED  BY Zenon, <1>1, <1>3, <1>4, <1>7, <2>1
<1> QED  BY Zenon, <1>6, <1>7

\* mbox_close() leaves the messages.
LEMMA CloseMaps ==
    ASSUME LibraryFacts, MailboxInv, NEW t \in Callers, Close(t)
    PROVE  Contents' = Contents /\ Users' = Users \ {t} /\ Received' = Received
<1>1. Users' = Users \ {t} /\ Pending' = Pending
  BY Zenon, CloseStep
<1>2. user \in [Callers -> CallSteps]
  BY Zenon DEF MailboxInv, Types
<1>3. Received' = Received
  BY Zenon, <1>2 DEF Received, Close, UserTo
<1>4. Contents' = Contents
  BY Zenon, <1>1, ContentsStay DEF Close
<1> QED  BY Zenon, <1>1, <1>3, <1>4

\* mbox_send() puts its message last, in cells that were free.
LEMMA SendMaps ==
    ASSUME LibraryFacts, MailboxInv, NEW t \in Callers, Send(t)
    PROVE  /\ msg[t] \in Bodies /\ Users # {}
           /\ Contents' = Append(Contents, msg[t])
           /\ FreeCells' = FreeCells - MSG_SIZE(msg[t])
           /\ Users' = Users /\ Received' = Received
<1>1. MailboxInv' /\ Users' = Users /\ Pending' = Pending + 1
  BY Zenon, SendStep
<1>2. user \in [Callers -> CallSteps]
  BY Zenon DEF MailboxInv, Types
<1>3. Received' = Received
  BY Zenon, <1>2 DEF Received, Send, UserTo
<1>4. PICK ms, off : InBuffer(ms, off)
  BY Zenon DEF MailboxInv, Filled, InBuffer
<1>5. /\ Contents = ms /\ FreeCells = BUFFER_SIZE - off[Len(ms)]
      /\ Len(ms) = Pending
  BY Zenon, <1>4, ContentsAre DEF InBuffer
<1>6. /\ msg[t] \in Bodies /\ Len(Append(ms, msg[t])) = Len(ms) + 1
      /\ \E offs : /\ Stored(buffer', tail, Append(ms, msg[t]), offs)
                   /\ offs[Len(ms) + 1] = off[Len(ms)] + MSG_SIZE(msg[t])
  BY <1>4, SendFacts
<1>7. PICK offs : /\ Stored(buffer', tail, Append(ms, msg[t]), offs)
                  /\ offs[Len(ms) + 1] = off[Len(ms)] + MSG_SIZE(msg[t])
  BY Zenon, <1>6
<1>8. tail' = tail /\ tail' \in Cells
  BY Zenon, <1>1 DEF Send, MailboxInv, Types
<1>9. /\ Contents' = Append(ms, msg[t])
      /\ FreeCells' = BUFFER_SIZE - offs[Len(Append(ms, msg[t]))]
  BY Zenon, <1>1, <1>5, <1>6, <1>7, <1>8, ContentsAreThen
<1>10. FreeCells' = FreeCells - MSG_SIZE(msg[t])
  <2> DEFINE o == off[Len(ms)]
             z == MSG_SIZE(msg[t])
             q == offs[Len(ms) + 1]
  <2>1. o \in Int /\ z \in Int /\ BUFFER_SIZE \in Int /\ q = o + z
    BY <1>4, <1>6, <1>7, Numbers, Body DEF InBuffer
  <2>2. FreeCells' = BUFFER_SIZE - q /\ FreeCells = BUFFER_SIZE - o
    BY Zenon, <1>5, <1>6, <1>9
  <2> HIDE DEF o, z, q
  <2>3. FreeCells' = FreeCells - z
    BY <2>1, <2>2
  <2> QED  BY Zenon, <2>3 DEF z
<1>11. Users # {}
  BY Zenon, <1>2 DEF Users, Send
<1> QED  BY Zenon, <1>1, <1>3, <1>5, <1>6, <1>9, <1>10, <1>11

\* The signal counts a message that is there already.
LEMMA SignalMaps ==
    ASSUME LibraryFacts, MailboxInv, NEW t \in Callers, Signal(t)
    PROVE  UNCHANGED <<Users, Contents, FreeCells, Received>>
<1>1. MailboxInv' /\ Users' = Users /\ Pending' = Pending
  BY Zenon, SignalStep
<1>2. Contents' = Contents /\ FreeCells' = FreeCells
  BY Zenon, <1>1, ContentsStay DEF Signal
<1>3. Holder /\ Holder' /\ Nobody \notin Callers
  BY Zenon, <1>1, MailboxAssumption DEF MailboxInv
<1>4. \A s \in Callers : user[s] # "broadcast" /\ user'[s] # "broadcast"
  BY Zenon, <1>3 DEF Signal, Holder, HeldBy
<1>5. Received' = Received
  BY Zenon, <1>4 DEF Received
<1> QED  BY Zenon, <1>1, <1>2, <1>5

\* mbox_recv() takes the first message.
LEMMA RecvMaps ==
    ASSUME LibraryFacts, MailboxInv, NEW t \in Callers, Recv(t)
    PROVE  /\ t \in Users /\ Contents # <<>>
           /\ Received' = [Received EXCEPT ![t] = Head(Contents)]
           /\ Contents' = Tail(Contents) /\ Users' = Users
<1>1. MailboxInv' /\ Users' = Users /\ Pending' = Pending - 1
  BY Zenon, RecvStep
<1>2. /\ user \in [Callers -> CallSteps] /\ Holder /\ Nobody \notin Callers
      /\ msg \in [Callers -> Bodies \cup {NoMessage}]
  BY Zenon, MailboxAssumption DEF MailboxInv, Types
<1>3. PICK ms, off : InBuffer(ms, off)
  BY Zenon DEF MailboxInv, Filled, InBuffer
<1>4. Contents = ms /\ Len(ms) = Pending
  BY Zenon, <1>3, ContentsAre DEF InBuffer
<1>5. /\ ms # <<>> /\ msg' = [msg EXCEPT ![t] = ms[1]]
      /\ tail' \in Cells /\ Len(Tail(ms)) = Len(ms) - 1
      /\ \E offs : Stored(buffer, tail', Tail(ms), offs)
  BY Zenon, <1>3, RecvFacts
<1>6. PICK offs : Stored(buffer', tail', Tail(ms), offs)
  BY Zenon, <1>5 DEF Recv
<1>7. Contents' = Tail(ms)
  BY Zenon, <1>1, <1>4, <1>5, <1>6, ContentsAreThen
<1>8. Head(ms) = ms[1]
  OBVIOUS
<1>9. /\ user' = [user EXCEPT ![t] = "broadcast"] /\ user[t] = "recv"
  BY Zenon DEF Recv, UserTo
<1>10. Received' = [Received EXCEPT ![t] = ms[1]]
  BY Zenon, <1>2, <1>5, <1>9 DEF Received
<1>11. t \in Users
  BY Zenon, <1>9 DEF Users
<1> QED  BY Zenon, <1>1, <1>4, <1>5, <1>7, <1>8, <1>10, <1>11

\* The message is its reader's.
LEMMA EndRecvMaps ==
    ASSUME LibraryFacts, MailboxInv, NEW t \in Callers, EndRecv(t)
    PROVE  /\ Received' = [Received EXCEPT ![t] = NoMessage]
           /\ UNCHANGED <<Users, Contents, FreeCells>>
<1>1. Users' = Users /\ Pending' = Pending
  BY Zenon, EndRecvStep
<1>2. Contents' = Contents /\ FreeCells' = FreeCells
  BY Zenon, <1>1, ContentsStay DEF EndRecv
<1>3. /\ user \in [Callers -> CallSteps]
      /\ msg \in [Callers -> Bodies \cup {NoMessage}]
  BY Zenon DEF MailboxInv, Types
<1>4. Received' = [Received EXCEPT ![t] = NoMessage]
  BY Zenon, <1>3 DEF Received, EndRecv, UserTo
<1> QED  BY Zenon, <1>1, <1>2, <1>4

\* An initial mailbox is an empty queue of messages.
LEMMA InitMaps ==
    ASSUME LibraryFacts
    PROVE  MailboxInit => AsMessageQueue!Init
<1> SUFFICES ASSUME MailboxInit PROVE AsMessageQueue!Init
  BY Zenon
<1>1. MailboxInv
  BY Zenon, InvInit
<1>2. Users = {} /\ Received = [t \in Callers |-> NoMessage]
  BY Zenon DEF MailboxInit, Users, Received
<1>3. Contents = <<>>
  <2>1. PICK ms, off : InBuffer(ms, off)
    BY Zenon, <1>1 DEF MailboxInv, Filled, InBuffer
  <2>2. Contents = ms
    BY Zenon, <1>1, <2>1, ContentsAre
  <2>3. Len(ms) = 0 /\ ms \in Seq(Bodies)
    BY Zenon, <1>1, <2>1, PendingIs
       DEF MailboxInit, MailboxInv, InBuffer, Stored
  <2> QED  BY <2>2, <2>3
<1> QED  BY Zenon, <1>2, <1>3 DEF AsMessageQueue!Init, Users, Received

\* A step of the mailbox is one of the queue of messages, or none.
LEMMA StepMaps ==
    ASSUME LibraryFacts
    PROVE  MailboxInv /\ [MailboxNext]_mailboxVars
             => [AsMessageQueue!Next]_AsMessageQueue!vars
<1> DEFINE View == <<Users, Contents, Received>>
<1> SUFFICES ASSUME MailboxInv, [MailboxNext]_mailboxVars
             PROVE  [AsMessageQueue!Next]_AsMessageQueue!vars
  BY Zenon
<1>1. ASSUME UNCHANGED View PROVE UNCHANGED AsMessageQueue!vars
  BY Zenon, <1>1 DEF AsMessageQueue!vars, Users, Received
<1>2. ASSUME NEW t \in Callers, Outside(t) PROVE UNCHANGED View
  BY Zenon, <1>2, OutsideMaps
<1>3. ASSUME NEW t \in Callers, Open(t) PROVE AsMessageQueue!Open(t)
  BY Zenon, <1>3, OpenMaps DEF AsMessageQueue!Open, Users, Received
<1>4. ASSUME NEW t \in Callers, Close(t) PROVE AsMessageQueue!Close(t)
  BY Zenon, <1>4, CloseMaps DEF AsMessageQueue!Close, Users, Received
<1>5. ASSUME NEW t \in Callers, Send(t)
      PROVE  msg[t] \in Bodies /\ AsMessageQueue!Send(msg[t])
  BY Zenon, <1>5, SendMaps DEF AsMessageQueue!Send, Users, Received
<1>6. ASSUME NEW t \in Callers, Signal(t) PROVE UNCHANGED View
  BY Zenon, <1>6, SignalMaps
<1>7. ASSUME NEW t \in Callers, Recv(t) PROVE AsMessageQueue!Receive(t)
  BY Zenon, <1>7, RecvMaps DEF AsMessageQueue!Receive, Users, Received
<1>8. ASSUME NEW t \in Callers, EndRecv(t) PROVE AsMessageQueue!Return(t)
  BY Zenon, <1>8, EndRecvMaps DEF AsMessageQueue!Return, Users, Received
<1>9. CASE UNCHANGED mailboxVars
  <2>1. Users' = Users /\ Pending' = Pending
    BY Zenon, <1>9, InvStutter
  <2>2. Contents' = Contents
    BY Zenon, <1>9, <2>1, ContentsStay DEF mailboxVars, box
  <2>3. Received' = Received
    BY Zenon, <1>9 DEF mailboxVars, Received
  <2> QED  BY Zenon, <1>1, <2>1, <2>2, <2>3
<1>10. CASE MailboxNext
  <2>1. PICK t \in Callers : \/ Outside(t) \/ Open(t) \/ Close(t) \/ Send(t)
                             \/ Signal(t) \/ Recv(t) \/ EndRecv(t)
    BY Zenon, <1>10, Steps
  <2> HIDE DEF View
  <2> QED
    BY Zenon, <1>1, <1>2, <1>3, <1>4, <1>5, <1>6, <1>7, <1>8, <2>1
    DEF AsMessageQueue!Next
<1> QED  BY Zenon, <1>9, <1>10

-----------------------------------------------------------------------------
(* Wake-ups *)

Readers == {t \in Callers : user[t] = "recv"}

\* A step that does not touch what decides whether a reader is stranded.
LEMMA ReadersAlone ==
    ASSUME UNCHANGED <<moreData, count>>, Broadcasting' = Broadcasting,
           Readers' = Readers
    PROVE  ReaderStranded' => ReaderStranded
<1>1. Cardinality({t \in Callers : user'[t] = "recv"})
        = Cardinality({t \in Callers : user[t] = "recv"})
  BY Zenon DEF Readers
<1> QED  BY <1>1, Zenon DEF ReaderStranded

\* Only block() makes a reader sleep with a message nobody fetches.
LEMMA ReaderStep ==
    ASSUME LibraryFacts, MailboxInv, NEW t \in Callers,
           \/ Outside(t) /\ ~ BlockForData(t)
           \/ Open(t) \/ Close(t) \/ Send(t)
           \/ Signal(t) \/ Recv(t) \/ EndRecv(t)
    PROVE  ReaderStranded' => ReaderStranded
<1> USE DEF UserTo
<1> DEFINE n == Cardinality(Readers)
           k == Cardinality(Readers')
<1>1. /\ user \in [Callers -> CallSteps] /\ count \in Nat
      /\ Types /\ Holder /\ Waiting
  BY Zenon DEF MailboxInv, Types
<1>2. /\ ReaderStranded <=> moreData # <<>> /\ count - Broadcasting > n
      /\ ReaderStranded' <=> moreData' # <<>> /\ count' - Broadcasting' > k
  BY Zenon DEF ReaderStranded, Readers
<1>3. /\ Readers \in SUBSET Callers /\ n \in Nat
      /\ Readers' \in SUBSET Callers /\ k \in Nat
  <2>1. Readers \in SUBSET Callers /\ Readers' \in SUBSET Callers
    BY Zenon DEF Readers
  <2> QED  BY Zenon, <2>1, Sizes
<1> HIDE DEF n, k
<1>4. CASE Outside(t) /\ ~ BlockForData(t)
  <2>1. Broadcasting' = Broadcasting /\ count' = count /\ Quiet
    BY Zenon, <1>4, OutsideIsQuiet, QuietStep DEF Quiet, box
  <2>2. CASE CallRecv(t)
    <3>1. /\ Readers' = Readers \cup {t} /\ t \notin Readers
          /\ moreData' = moreData
      BY Zenon, <1>1, <2>2 DEF CallRecv, Readers
    <3>2. k = n + 1
      BY Zenon, <3>1, <1>3, Sizes DEF n, k
    <3>3. Broadcasting \in Int
      <4>1. {s \in Callers : user[s] = "broadcast"} \in SUBSET Callers
        BY Zenon
      <4> QED  BY <4>1, Sizes DEF Broadcasting
    <3> QED  BY <1>1, <1>2, <1>3, <2>1, <3>1, <3>2, <3>3
  <2>3. CASE RecvWaits(t)
    <3>1. count = 0 /\ Broadcasting = 0
      BY Zenon, <1>1, <2>3, PendingIs DEF RecvWaits
    <3> QED  BY <1>2, <1>3, <2>1, <3>1
  <2>4. CASE ~ CallRecv(t) /\ ~ RecvWaits(t)
    <3>1. moreData' = moreData /\ Readers' = Readers
      <4>1. CASE WakeSender(t)
        <5>1. /\ user[Head(moreSpace)] = "sendblocked"
              /\ Head(moreSpace) \in Callers
          BY Zenon, <1>1, <4>1, FirstWaits DEF WakeSender
        <5>2. moreData' = moreData
          BY Zenon, <4>1 DEF WakeSender
        <5> QED  BY Zenon, <1>1, <4>1, <5>1, <5>2 DEF WakeSender, Readers
      <4>2. CASE \E m \in Bodies : CallSend(t, m)
        BY Zenon, <1>1, <4>2 DEF CallSend, Readers
      <4>3. CASE SendWaits(t)
        BY Zenon, <1>1, <4>3 DEF SendWaits, Readers
      <4>4. CASE BlockForSpace(t)
        BY Zenon, <1>1, <4>4 DEF BlockForSpace, Readers
      <4> QED  BY Zenon, <1>4, <2>4, <4>1, <4>2, <4>3, <4>4 DEF Outside
    <3> QED  BY Zenon, <2>1, <3>1, ReadersAlone
  <2> QED  BY Zenon, <2>2, <2>3, <2>4
<1>5. CASE Open(t)
  <2>1. MailboxInv'
    BY Zenon, <1>5, OpenStep
  <2>2. lock = Nobody /\ lock' = Nobody
    BY Zenon, <1>5 DEF Open
  <2>3. Broadcasting = 0 /\ Broadcasting' = 0
    BY Zenon, <1>1, <2>1, <2>2, PendingIs, PendingIsThen DEF MailboxInv
  <2>4. CASE used = 0
    <3>1. count' = 0
      BY Zenon, <1>5, <2>4 DEF Open
    <3> QED  BY <1>2, <1>3, <2>3, <3>1
  <2>5. CASE used # 0
    <3>1. Readers' = Readers /\ count' = count /\ moreData' = moreData
      BY Zenon, <1>1, <1>5, <2>5 DEF Open, Readers
    <3> QED  BY Zenon, <2>3, <3>1, ReadersAlone
  <2> QED  BY Zenon, <2>4, <2>5
<1>6. CASE Close(t)
  <2>1. MailboxInv'
    BY Zenon, <1>6, CloseStep
  <2>2. Broadcasting = 0 /\ Broadcasting' = 0
    BY Zenon, <1>1, <1>6, <2>1, PendingIs, PendingIsThen DEF MailboxInv, Close
  <2>3. Readers' = Readers /\ count' = count /\ moreData' = moreData
    BY Zenon, <1>1, <1>6 DEF Close, Readers
  <2> QED  BY Zenon, <2>2, <2>3, ReadersAlone
<1>7. CASE Send(t)
  <2>1. MailboxInv' /\ user'[t] = "signal"
    BY Zenon, <1>1, <1>7, SendStep DEF Send
  <2>2. Broadcasting = 0 /\ Broadcasting' = 0
    BY Zenon, <1>1, <1>7, <2>1, PendingIs, PendingIsThen DEF MailboxInv, Send
  <2>3. Readers' = Readers /\ count' = count /\ moreData' = moreData
    BY Zenon, <1>1, <1>7 DEF Send, Readers
  <2> QED  BY Zenon, <2>2, <2>3, ReadersAlone
<1>8. CASE Signal(t)
  <2>1. MailboxInv' /\ user[t] = "signal" /\ lock' = Nobody
    BY Zenon, <1>8, SignalStep DEF Signal
  <2>2. Broadcasting = 0 /\ Broadcasting' = 0
    BY Zenon, <1>1, <2>1, PendingIs, PendingIsThen DEF MailboxInv
  <2>3. CASE moreData = <<>>
    <3>1. moreData' = <<>>
      BY Zenon, <1>8, <2>3 DEF Signal
    <3> QED  BY Zenon, <1>2, <3>1
  <2>4. CASE moreData # <<>>
    <3> DEFINE h == Head(moreData)
    <3>1. h \in Callers /\ user[h] = "recvblocked"
      BY Zenon, <1>1, <2>4, FirstWaits
    <3>2. Readers' = Readers \cup {h} /\ h \notin Readers
      BY Zenon, <1>8, <2>1, <2>4, <3>1 DEF Signal, WakeFirst, Readers
    <3>3. k = n + 1
      BY Zenon, <1>3, <3>2, Sizes DEF n, k
    <3>4. count' = count + 1
      BY Zenon, <1>8 DEF Signal
    <3> QED  BY <1>1, <1>2, <1>3, <2>2, <2>4, <3>3, <3>4
  <2> QED  BY Zenon, <2>3, <2>4
<1>9. CASE Recv(t)
  <2>1. MailboxInv' /\ user'[t] = "broadcast" /\ lock = Nobody
    BY Zenon, <1>1, <1>9, RecvStep DEF Recv
  <2>2. Broadcasting = 0 /\ Broadcasting' = 1
    BY Zenon, <1>1, <2>1, PendingIs, PendingIsThen DEF MailboxInv
  <2>3. /\ Readers' = Readers \ {t} /\ t \in Readers
        /\ count' = count /\ moreData' = moreData
    BY Zenon, <1>1, <1>9 DEF Recv, Readers
  <2>4. k = n - 1
    BY Zenon, <1>3, <2>3, Sizes DEF n, k
  <2> QED  BY <1>1, <1>2, <1>3, <2>2, <2>3, <2>4
<1>10. CASE EndRecv(t)
  <2>1. MailboxInv' /\ user[t] = "broadcast" /\ lock' = Nobody
    BY Zenon, <1>1, <1>10, EndRecvStep DEF EndRecv
  <2>2. Broadcasting = 1 /\ Broadcasting' = 0
    BY Zenon, <1>1, <2>1, PendingIs, PendingIsThen DEF MailboxInv
  <2>3. Readers' = Readers /\ count' = count - 1 /\ moreData' = moreData
    BY Zenon, <1>1, <1>10 DEF EndRecv, Readers
  <2>4. k = n
    BY Zenon, <2>3 DEF n, k
  <2> QED  BY <1>1, <1>2, <1>3, <2>2, <2>3, <2>4
<1> QED  BY Zenon, <1>4, <1>5, <1>6, <1>7, <1>8, <1>9, <1>10

\* Only block() makes a sender sleep with room for its message.
LEMMA SenderStep ==
    ASSUME LibraryFacts, MailboxInv, NEW t \in Callers,
           \/ Outside(t) /\ ~ BlockForSpace(t)
           \/ Open(t) \/ Close(t) \/ Send(t)
           \/ Signal(t) \/ Recv(t) \/ EndRecv(t)
    PROVE  SenderStranded' => SenderStranded
<1> USE DEF UserTo
<1>1. /\ user \in [Callers -> CallSteps]
      /\ msg \in [Callers -> Bodies \cup {NoMessage}]
      /\ Types /\ Holder /\ Waiting
  BY Zenon DEF MailboxInv, Types
<1>2. \A s \in Items(moreSpace) : s \in Callers /\ user[s] = "sendblocked"
  BY Zenon, <1>1 DEF Waiting
<1>3. ASSUME Broadcasting' = Broadcasting, FreeCells' = FreeCells,
             moreSpace' = moreSpace,
             \A s \in Items(moreSpace) : msg'[s] = msg[s]
      PROVE  SenderStranded' => SenderStranded
  BY <1>3, Zenon DEF SenderStranded
<1>4. Items(<<>>) = {}
  BY DEF Items
<1>5. CASE Outside(t) /\ ~ BlockForSpace(t)
  <2>1. Quiet /\ Broadcasting' = Broadcasting /\ Pending' = Pending
    BY Zenon, <1>5, OutsideIsQuiet, QuietStep
  <2>2. FreeCells' = FreeCells
    BY Zenon, <2>1, ContentsStay DEF Quiet, box
  <2>3. CASE WakeSender(t)
    <3>1. Broadcasting = 1
      BY Zenon, <1>1, <2>3, PendingIs DEF WakeSender
    <3> QED  BY <2>1, <3>1 DEF SenderStranded
  <2>4. CASE ~ WakeSender(t)
    <3>1. /\ moreSpace' = moreSpace
          /\ \A s \in Callers : user[s] = "sendblocked" => msg'[s] = msg[s]
      BY Zenon, <1>1, <1>5, <2>4
      DEF Outside, CallSend, SendWaits, CallRecv, RecvWaits, BlockForData
    <3> QED  BY Zenon, <1>2, <1>3, <2>1, <2>2, <3>1
  <2> QED  BY Zenon, <2>3, <2>4
<1>6. CASE Open(t)
  <2>1. MailboxInv' /\ moreSpace' = moreSpace /\ msg' = msg
    BY Zenon, <1>6, OpenStep DEF Open
  <2>2. CASE used = 0
    <3>1. Users = {}
      BY Zenon, <2>2, UsersAre, Sizes DEF MailboxInv, Opened
    <3>2. Items(moreSpace) = {}
      BY Zenon, <1>2, <3>1 DEF Users
    <3> QED  BY Zenon, <2>1, <3>2 DEF SenderStranded
  <2>3. CASE used # 0
    <3>1. /\ lock = Nobody /\ lock' = Nobody
          /\ count' = count /\ buffer' = buffer /\ tail' = tail
      BY Zenon, <1>6, <2>3 DEF Open
    <3>2. /\ Broadcasting = 0 /\ Broadcasting' = 0 /\ Pending' = Pending
      BY Zenon, <1>1, <2>1, <3>1, PendingIs, PendingIsThen DEF MailboxInv
    <3>3. FreeCells' = FreeCells
      BY Zenon, <3>1, <3>2, ContentsStay
    <3> QED  BY Zenon, <1>3, <2>1, <3>2, <3>3
  <2> QED  BY Zenon, <2>2, <2>3
<1>7. CASE Close(t)
  <2>1. MailboxInv' /\ Pending' = Pending
    BY Zenon, <1>7, CloseStep
  <2>2. /\ lock = Nobody /\ lock' = Nobody /\ moreSpace' = moreSpace
        /\ msg' = msg /\ buffer' = buffer /\ tail' = tail
    BY Zenon, <1>7 DEF Close
  <2>3. Broadcasting = 0 /\ Broadcasting' = 0
    BY Zenon, <1>1, <2>1, <2>2, PendingIs, PendingIsThen DEF MailboxInv
  <2>4. FreeCells' = FreeCells
    BY Zenon, <2>1, <2>2, ContentsStay
  <2> QED  BY Zenon, <1>3, <2>2, <2>3, <2>4
<1>8. CASE Send(t)
  <2>1. /\ lock = Nobody /\ moreSpace' = moreSpace /\ msg' = msg
    BY Zenon, <1>8 DEF Send
  <2>2. Broadcasting = 0
    BY Zenon, <1>1, <2>1, PendingIs
  <2>3. msg[t] \in Bodies /\ FreeCells' = FreeCells - MSG_SIZE(msg[t])
    BY Zenon, <1>8, SendMaps
  <2>4. FreeCells \in Int
    <3>1. PICK ms, off : InBuffer(ms, off)
      BY Zenon DEF MailboxInv, Filled, InBuffer
    <3>2. FreeCells = BUFFER_SIZE - off[Len(ms)]
      BY Zenon, <3>1, ContentsAre
    <3>3. off[Len(ms)] \in Int /\ BUFFER_SIZE \in Int
      BY <3>1, Numbers DEF InBuffer
    <3> QED  BY <3>2, <3>3
  <2>5. \A m \in Bodies : MSG_SIZE(m) \in Nat
    BY Body
  <2>6. \A s \in Items(moreSpace) : msg[s] \in Bodies
    BY Zenon, <1>2 DEF MailboxInv, Carrying, Sending
  <2>7. \A s \in Items(moreSpace) :
            FreeCells' >= MSG_SIZE(msg[s]) => FreeCells >= MSG_SIZE(msg[s])
    <3> SUFFICES ASSUME NEW s \in Items(moreSpace),
                        FreeCells' >= MSG_SIZE(msg[s])
                 PROVE  FreeCells >= MSG_SIZE(msg[s])
      BY Zenon
    <3> DEFINE z == MSG_SIZE(msg[t])
               y == MSG_SIZE(msg[s])
    <3>1. /\ z \in Nat /\ y \in Nat /\ FreeCells' = FreeCells - z
          /\ FreeCells' >= y
      BY Zenon, <2>3, <2>5, <2>6
    <3> HIDE DEF z, y
    <3>2. FreeCells >= y
      BY <2>4, <3>1
    <3> QED  BY Zenon, <3>2 DEF y
  <2> QED  BY Zenon, <2>1, <2>2, <2>7 DEF SenderStranded
<1>9. CASE Signal(t)
  <2>1. MailboxInv' /\ FreeCells' = FreeCells
    BY Zenon, <1>9, SignalStep, SignalMaps
  <2>2. /\ user[t] = "signal" /\ lock' = Nobody /\ moreSpace' = moreSpace
        /\ msg' = [msg EXCEPT ![t] = NoMessage]
    BY Zenon, <1>9 DEF Signal
  <2>3. Broadcasting = 0 /\ Broadcasting' = 0
    BY Zenon, <1>1, <2>1, <2>2, PendingIs, PendingIsThen DEF MailboxInv
  <2>4. \A s \in Items(moreSpace) : msg'[s] = msg[s]
    BY Zenon, <1>1, <1>2, <2>2
  <2> QED  BY Zenon, <1>3, <2>1, <2>2, <2>3, <2>4
<1>10. CASE Recv(t)
  <2>1. MailboxInv' /\ user'[t] = "broadcast"
    BY Zenon, <1>1, <1>10, RecvStep DEF Recv
  <2>2. Broadcasting' = 1
    BY Zenon, <2>1, PendingIsThen DEF MailboxInv
  <2> QED  BY <2>2 DEF SenderStranded
<1>11. CASE EndRecv(t)
  <2>1. moreSpace' = <<>>
    BY Zenon, <1>11 DEF EndRecv
  <2> QED  BY Zenon, <1>4, <2>1 DEF SenderStranded
<1> QED  BY Zenon, <1>5, <1>6, <1>7, <1>8, <1>9, <1>10, <1>11

\* Both, for every step.
LEMMA StrandedStep ==
    ASSUME LibraryFacts
    PROVE  MailboxInv /\ [MailboxNext]_mailboxVars
             => [/\ \/ ReaderStranded' => ReaderStranded
                    \/ \E t \in Callers : BlockForData(t)
                 /\ \/ SenderStranded' => SenderStranded
                    \/ \E t \in Callers : BlockForSpace(t)]_mailboxVars
<1> DEFINE A == /\ \/ ReaderStranded' => ReaderStranded
                   \/ \E t \in Callers : BlockForData(t)
                /\ \/ SenderStranded' => SenderStranded
                   \/ \E t \in Callers : BlockForSpace(t)
<1> SUFFICES ASSUME MailboxInv, MailboxNext PROVE A
  BY Zenon
<1>1. PICK t \in Callers : \/ Outside(t) \/ Open(t) \/ Close(t) \/ Send(t)
                           \/ Signal(t) \/ Recv(t) \/ EndRecv(t)
  BY Zenon, Steps
<1>2. (ReaderStranded' => ReaderStranded) \/ BlockForData(t)
  BY Zenon, <1>1, ReaderStep
<1>3. (SenderStranded' => SenderStranded) \/ BlockForSpace(t)
  BY Zenon, <1>1, SenderStep
<1> QED  BY Zenon, <1>2, <1>3

-----------------------------------------------------------------------------
(* The theorems *)

INSTANCE FiniteSetTheorems

\* The library's theorems, for the callers.
LEMMA Library == LibraryFacts
<1>1. ASSUME NEW T \in SUBSET Nat, T # {}
      PROVE  \E n \in T : \A m \in T : n <= m
  <2>1. PICK x \in T : \A y \in T : ~ (<<y, x>> \in OpToRel(<, Nat))
    BY Zenon, <1>1, NatLessThanWellFounded, WFMin
  <2>2. ASSUME NEW y \in T PROVE x <= y
    <3>1. <<y, x>> \in Nat \X Nat
      BY Zenon
    <3>2. ~ (y < x)
      BY Zenon, <2>1, <3>1 DEF OpToRel
    <3> QED  BY SMTT(30), <3>2
  <2> QED  BY Zenon, <2>2
<1>2. Cardinality({}) = 0 /\ \A x : Cardinality({x}) = 1
  BY Zenon, FS_EmptySet, FS_Singleton
<1>3. IsFiniteSet(Callers)
  BY Zenon, MailboxAssumption
<1>4. Cardinality(Callers) \in Nat
  BY Zenon, <1>3, FS_CardinalityType
<1>5. ASSUME NEW S \in SUBSET Callers
      PROVE  /\ Cardinality(S) \in Nat /\ Cardinality(S) <= Cardinality(Callers)
             /\ Cardinality(S) = 0 <=> S = {}
             /\ \A t \in Callers :
                   /\ t \notin S => Cardinality(S \cup {t}) = Cardinality(S) + 1
                   /\ t \in S => Cardinality(S \ {t}) = Cardinality(S) - 1
  <2>1. IsFiniteSet(S) /\ Cardinality(S) <= Cardinality(Callers)
    BY Zenon, <1>3, FS_Subset
  <2>2. Cardinality(S) \in Nat
    BY Zenon, <2>1, FS_CardinalityType
  <2>3. Cardinality(S) = 0 <=> S = {}
    BY Zenon, <2>1, FS_EmptySet
  <2>4. ASSUME NEW t \in Callers
        PROVE  /\ t \notin S => Cardinality(S \cup {t}) = Cardinality(S) + 1
               /\ t \in S => Cardinality(S \ {t}) = Cardinality(S) - 1
    BY Zenon, <2>1, FS_AddElement, FS_RemoveElement
  <2> QED  BY Zenon, <2>1, <2>2, <2>3, <2>4
<1> QED  BY Zenon, <1>1, <1>2, <1>4, <1>5 DEF LibraryFacts

\* The invariant holds, for any number of threads, any messages and any size
\* of the buffer.
THEOREM MailboxInvariant == MailboxSpec => []MailboxInv
  BY Library, InvInit, InvStep, PTL DEF MailboxSpec

\* space_available() of kernel/mbox.c is the number of cells the messages
\* leave whenever the lock is free, for every size of the buffer: the rule
\* that tells a full buffer from an empty one is right.
THEOREM SpaceStaysAccounted == MailboxSpec => []SpaceAccounts
  BY MailboxInvariant, Library, InvImplies, PTL

\* mbox_open(), mbox_close(), mbox_send() and mbox_recv() are a queue of
\* messages: what comes out is what went in, unchanged and in that order,
\* wherever a message lies across the end of the buffer.
THEOREM MailboxIsAMessageQueue == MailboxSpec => ImplementsMessageQueue
  BY MailboxInvariant, Library, InitMaps, StepMaps, PTL
  DEF MailboxSpec, ImplementsMessageQueue, AsMessageQueue!Spec

\* One condition_signal() for a message and one condition_broadcast() for the
\* space of one are enough; only the gap before block() loses a wake-up.
THEOREM OnlyTheGapStrands == MailboxSpec => MailboxStrandedOnlyByBlock
  BY MailboxInvariant, Library, StrandedStep, PTL
  DEF MailboxSpec, MailboxStrandedOnlyByBlock

=============================================================================
