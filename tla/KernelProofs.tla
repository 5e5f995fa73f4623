---------------------------- MODULE KernelProofs ----------------------------
(***************************************************************************)
(* Interrupts and context switches, for any number of threads, processes   *)
(* and lines; and the gate of create_process(), for any number of frames,  *)
(* pages per process, stacks and callers, whatever exits meanwhile.        *)
(*                                                                         *)
(* Interrupts.  Every step of the entry code pushes a frame on the stack   *)
(* of the task that runs, or takes one away (Pushed, Popped), and moves    *)
(* nested_count, the mask and the count of critical sections along with it *)
(* (OwnStack).  A switch exchanges the counts and masks of two tasks       *)
(* (Switches).  NestingInv says which frame may lie on which, and what a   *)
(* task that does not run has saved.                                       *)
(*                                                                         *)
(* The gate.  running_processes grows in one step only, and under the      *)
(* lock.  So the space that the holder has computed can be out of date in  *)
(* one direction: processes may have exited since.  Budget says so at each *)
(* place between the computation and the increment; Exclusive, that nobody *)
(* else is there.  Newborn ties the number of a new process to the PCB it  *)
(* gets.                                                                   *)
(***************************************************************************)
EXTENDS Launch, Interrupts, QueueLemmas, TLAPS

-----------------------------------------------------------------------------
(* Interrupts: frames on a stack *)

\* What the library says of the numbers of frames.
FramesCount ==
    /\ Cardinality({}) = 0 /\ Cardinality({2}) = 1
    /\ \A n \in Nat : \A S \in SUBSET (1 .. n) :
        /\ Cardinality(S) \in Nat
        /\ Cardinality(S \cup {n + 1}) = Cardinality(S) + 1
        /\ n \in S => Cardinality(S \ {n}) = Cardinality(S) - 1

\* The numbers on a stack are told apart.
LEMMA FrameKinds ==
    /\ Irqs \cap {USER, THREAD, SYSCALL, FAULT, CRITICAL} = {}
    /\ IRQ_TIMER \in Irqs /\ Closed \cap {USER, THREAD, SYSCALL, FAULT} = {}
    /\ \A k \in Irqs : k \in Closed <=> k = IRQ_TIMER
    /\ SYSCALL \notin {USER, THREAD, FAULT, CRITICAL} /\ USER # THREAD
    /\ FAULT \notin {USER, THREAD, CRITICAL} /\ CRITICAL \notin {USER, THREAD}
    /\ CRITICAL \in Closed /\ Irqs \subseteq Frames
    /\ {USER, THREAD, SYSCALL, FAULT, CRITICAL} \subseteq Frames
  BY InterruptsAssumption DEF USER, THREAD, SYSCALL, FAULT, CRITICAL, Closed,
        IRQ_TIMER, Frames

\* A stack with a frame more.
LEMMA Pushed ==
    ASSUME FramesCount, NEW s, Ordered(s), Innermost(s) \notin Closed,
           NEW f \in Frames \ {USER, THREAD}, f \notin Irqs \cap Items(s),
           f = SYSCALL => Innermost(s) = USER
    PROVE  /\ Append(s, f) \in Seq(Frames) /\ Ordered(Append(s, f))
           /\ Innermost(Append(s, f)) = f
           /\ Items(Append(s, f)) = Items(s) \cup {f}
           /\ Cardinality(KernelFrames(Append(s, f))) =
                Cardinality(KernelFrames(s)) + (IF f = CRITICAL THEN 0 ELSE 1)
           /\ Cardinality(KernelFrames(s)) \in Nat
<1> DEFINE r == Append(s, f)
           n == Len(s)
<1>1. /\ s \in Seq(Frames) /\ n \in Nat /\ n >= 1 /\ s[1] \in {USER, THREAD}
  BY SeqFacts DEF Ordered
<1>2. /\ r \in Seq(Frames) /\ Items(r) = Items(s) \cup {f} /\ Len(r) = n + 1
      /\ \A i \in 1 .. n : r[i] = s[i] /\ r[n + 1] = f
  BY <1>1, AppendFacts
<1>3. Innermost(r) = f /\ r # <<>> /\ r[1] = s[1]
  BY <1>1, <1>2 DEF Innermost
<1>4. \A i \in 1 .. n + 1 : i \in 1 .. n \/ i = n + 1
  BY <1>1
<1>5. /\ \A i \in 1 .. n : s[i] \in Items(s)
      /\ s[n] = Innermost(s) /\ n \in 1 .. n /\ 1 \in 1 .. n
  BY <1>1 DEF Items, Innermost
<1>6. \A i \in 1 .. n : /\ i > 1 => s[i] \notin {USER, THREAD}
                        /\ s[i] \in Closed => i = n
                        /\ s[i] = SYSCALL => i = 2 /\ s[1] = USER
  BY Zenon DEF Ordered
<1>7. \A i, j \in 1 .. n : s[i] \in Irqs /\ s[i] = s[j] => i = j
  BY Zenon DEF Ordered
<1>8. \A i \in 1 .. n + 1 : /\ i > 1 => r[i] \notin {USER, THREAD}
                            /\ r[i] \in Closed => i = n + 1
                            /\ r[i] = SYSCALL => i = 2 /\ r[1] = USER
  <2>1. ASSUME NEW i \in 1 .. n
        PROVE  /\ i > 1 => r[i] \notin {USER, THREAD}
               /\ r[i] \notin Closed
               /\ r[i] = SYSCALL => i = 2 /\ r[1] = USER
    BY Zenon, <1>2, <1>3, <1>5, <1>6
  <2>2. f = SYSCALL => n = 1 /\ s[1] = USER
    <3>1. n > 1 => s[n] # USER
      BY Zenon, <1>5, <1>6
    <3> HIDE DEF n
    <3> QED  BY <1>1, <1>5, <3>1
  <2> QED  BY <1>1, <1>2, <1>3, <1>4, <2>1, <2>2
<1>9. \A i, j \in 1 .. n + 1 : r[i] \in Irqs /\ r[i] = r[j] => i = j
  <2>1. ASSUME NEW i \in 1 .. n PROVE ~(r[i] \in Irqs /\ r[i] = f)
    BY Zenon, <1>2, <1>5
  <2>2. ASSUME NEW i \in 1 .. n, NEW j \in 1 .. n, r[i] \in Irqs, r[i] = r[j]
        PROVE  i = j
    BY Zenon, <1>2, <1>7, <2>2
  <2>3. r[n + 1] = f
    BY <1>1, <1>2
  <2> HIDE DEF r, n
  <2> QED  BY Zenon, <1>4, <2>1, <2>2, <2>3
<1>10. Ordered(r)
  BY Zenon, <1>1, <1>2, <1>3, <1>8, <1>9 DEF Ordered
<1>11. /\ KernelFrames(s) \in SUBSET (1 .. n)
       /\ KernelFrames(r) = KernelFrames(s) \cup (IF f = CRITICAL THEN {} ELSE {n + 1})
  <2>1. ASSUME NEW i \in 1 .. n PROVE i \in KernelFrames(r) <=> i \in KernelFrames(s)
    BY <1>1, <1>2 DEF KernelFrames
  <2>2. n + 1 \in KernelFrames(r) <=> f # CRITICAL
    BY <1>1, <1>2 DEF KernelFrames
  <2>3. KernelFrames(r) \subseteq 1 .. n + 1 /\ KernelFrames(s) \subseteq 1 .. n
    BY Zenon, <1>2 DEF KernelFrames
  <2>4. 1 .. n \subseteq 1 .. n + 1
    BY <1>1
  <2> QED  BY Zenon, <1>4, <2>1, <2>2, <2>3, <2>4
<1>12. /\ Cardinality(KernelFrames(s)) \in Nat
       /\ Cardinality(KernelFrames(s) \cup {n + 1}) = Cardinality(KernelFrames(s)) + 1
  BY Zenon, <1>1, <1>11 DEF FramesCount
<1>13. Cardinality(KernelFrames(r)) =
          Cardinality(KernelFrames(s)) + (IF f = CRITICAL THEN 0 ELSE 1)
  <2>1. CASE f = CRITICAL
    <3>1. KernelFrames(r) = KernelFrames(s)
      BY Zenon, <1>11, <2>1
    <3> QED  BY <1>12, <2>1, <3>1
  <2>2. CASE f # CRITICAL
    <3>1. KernelFrames(r) = KernelFrames(s) \cup {n + 1}
      BY Zenon, <1>11, <2>2
    <3> QED  BY <1>12, <2>2, <3>1
  <2> QED  BY Zenon, <2>1, <2>2
<1> QED  BY Zenon, <1>2, <1>3, <1>10, <1>12, <1>13

\* A stack without its innermost frame.
LEMMA Popped ==
    ASSUME FramesCount, NEW s, Ordered(s), Innermost(s) \notin {USER, THREAD}
    PROVE  /\ Outside(s) \in Seq(Frames) /\ Ordered(Outside(s))
           /\ Innermost(Outside(s)) \notin Closed
           /\ Irqs \cap Items(Outside(s)) = (Irqs \cap Items(s)) \ {Innermost(s)}
           /\ Cardinality(KernelFrames(Outside(s))) =
                Cardinality(KernelFrames(s)) - (IF Innermost(s) = CRITICAL THEN 0 ELSE 1)
           /\ Cardinality(KernelFrames(s)) \in Nat
<1> DEFINE r == Outside(s)
           n == Len(s)
<1>1. /\ s \in Seq(Frames) /\ n \in Nat /\ n >= 1 /\ s[1] \in {USER, THREAD}
  BY SeqFacts DEF Ordered
<1>2. n >= 2
  BY <1>1 DEF Innermost
<1>3. /\ r \in Seq(Frames) /\ Len(r) = n - 1
      /\ \A i \in 1 .. n - 1 : r[i] = s[i]
  BY <1>1, <1>2 DEF Outside
<1>4. Innermost(r) = s[n - 1] /\ Innermost(s) = s[n] /\ r # <<>> /\ r[1] = s[1]
  BY <1>1, <1>2, <1>3 DEF Innermost
<1>5. /\ \A i \in 1 .. n : i \in 1 .. n - 1 \/ i = n
      /\ \A i \in 1 .. n - 1 : i \in 1 .. n /\ i # n
      /\ n - 1 \in 1 .. n - 1 /\ n \in 1 .. n
  BY <1>1, <1>2
<1>6. \A i \in 1 .. n : /\ i > 1 => s[i] \notin {USER, THREAD}
                        /\ s[i] \in Closed => i = n
                        /\ s[i] = SYSCALL => i = 2 /\ s[1] = USER
  BY Zenon DEF Ordered
<1>7. \A i, j \in 1 .. n : s[i] \in Irqs /\ s[i] = s[j] => i = j
  BY Zenon DEF Ordered
<1>8. Ordered(r) /\ Innermost(r) \notin Closed
  <2>1. \A i \in 1 .. n - 1 : /\ i > 1 => r[i] \notin {USER, THREAD}
                              /\ r[i] \notin Closed
                              /\ r[i] = SYSCALL => i = 2 /\ r[1] = USER
    BY Zenon, <1>3, <1>4, <1>5, <1>6
  <2>2. \A i, j \in 1 .. n - 1 : r[i] \in Irqs /\ r[i] = r[j] => i = j
    BY Zenon, <1>3, <1>5, <1>7
  <2>3. Innermost(r) \notin Closed
    BY Zenon, <1>4, <1>5, <1>6
  <2> QED  BY Zenon, <1>1, <1>3, <1>4, <2>1, <2>2, <2>3 DEF Ordered
<1>9. Irqs \cap Items(r) = (Irqs \cap Items(s)) \ {Innermost(s)}
  <2>1. /\ Items(s) = {s[i] : i \in 1 .. n}
        /\ \A x : x \in Items(r) <=> \E i \in 1 .. n - 1 : x = s[i]
    BY Zenon, <1>3 DEF Items
  <2>2. ASSUME NEW x \in Irqs \cap Items(r)
        PROVE  x \in Items(s) /\ x # Innermost(s)
    <3>1. PICK i \in 1 .. n - 1 : x = s[i]
      BY Zenon, <2>1
    <3>2. i \in 1 .. n /\ i # n /\ n \in 1 .. n
      BY Zenon, <1>5
    <3>3. x # s[n]
      BY Zenon, <1>7, <3>1, <3>2
    <3> QED  BY Zenon, <1>4, <2>1, <3>1, <3>2, <3>3
  <2>3. ASSUME NEW x \in Irqs \cap Items(s), x # Innermost(s)
        PROVE  x \in Items(r)
    BY Zenon, <1>4, <1>5, <2>1, <2>3
  <2> HIDE DEF r
  <2> QED  BY Zenon, <2>2, <2>3
<1>10. /\ KernelFrames(s) \in SUBSET (1 .. n)
       /\ KernelFrames(r) = KernelFrames(s) \ {n}
       /\ n \in KernelFrames(s) <=> s[n] # CRITICAL
  <2>1. /\ KernelFrames(s) \in SUBSET (1 .. n)
        /\ n \in KernelFrames(s) <=> s[n] # CRITICAL
    BY Zenon, <1>4, <1>5 DEF KernelFrames
  <2>2. KernelFrames(r) = KernelFrames(s) \ {n}
    BY Zenon, <1>3, <1>5 DEF KernelFrames
  <2> QED  BY Zenon, <2>1, <2>2
<1>11. /\ Cardinality(KernelFrames(s)) \in Nat
       /\ n \in KernelFrames(s) =>
            Cardinality(KernelFrames(s) \ {n}) = Cardinality(KernelFrames(s)) - 1
  BY Zenon, <1>1, <1>10 DEF FramesCount
<1>12. Cardinality(KernelFrames(r)) =
          Cardinality(KernelFrames(s)) - (IF Innermost(s) = CRITICAL THEN 0 ELSE 1)
  <2>1. CASE Innermost(s) = CRITICAL
    <3>1. KernelFrames(r) = KernelFrames(s)
      BY Zenon, <1>4, <1>10, <2>1
    <3> QED  BY <1>11, <2>1, <3>1
  <2>2. CASE Innermost(s) # CRITICAL
    <3>1. Cardinality(KernelFrames(r)) = Cardinality(KernelFrames(s)) - 1
      BY Zenon, <1>4, <1>10, <1>11, <2>2
    <3> QED  BY <1>11, <2>2, <3>1
  <2> QED  BY Zenon, <2>1, <2>2
<1> QED  BY Zenon, <1>3, <1>8, <1>9, <1>11, <1>12

\* A kernel thread runs with interrupts enabled and nothing masked; every
\* other task has one frame and has not run.
LEMMA InterruptsStart == FramesCount /\ InterruptsInit => NestingInv
<1> SUFFICES ASSUME FramesCount, InterruptsInit PROVE NestingInv
  BY Zenon
<1>1. /\ current \in Tasks /\ count = 0 /\ enabled = TRUE /\ mask = {}
      /\ isr = {}
      /\ cpu = "run"
      /\ stack = [t \in Tasks |-> <<IF t \in Threads THEN THREAD ELSE USER>>]
      /\ nested = [t \in Tasks |-> IF t \in Threads THEN 1 ELSE 0]
      /\ saved = [t \in Tasks |-> [count |-> 0, mask |-> {},
                    status |-> IF t = current THEN "ready" ELSE "first"]]
  BY Zenon DEF InterruptsInit, Tasks
<1>2. ASSUME NEW f \in {USER, THREAD}
      PROVE  /\ <<f>> \in Seq(Frames) /\ Len(<<f>>) = 1 /\ Innermost(<<f>>) = f
             /\ Ordered(<<f>>) /\ Items(<<f>>) = {f}
             /\ Cardinality(KernelFrames(<<f>>)) = IF f = USER THEN 0 ELSE 1
  <2>1. /\ <<f>> \in Seq(Frames) /\ Len(<<f>>) = 1 /\ <<f>>[1] = f
        /\ 1 .. 1 = {1} /\ <<f>> # <<>> /\ ~(1 > 1)
    BY FrameKinds
  <2>2. Innermost(<<f>>) = f /\ Items(<<f>>) = {f}
    BY <2>1 DEF Innermost, Items
  <2>3. Ordered(<<f>>)
    BY <2>1, FrameKinds DEF Ordered
  <2>4. CASE f = USER
    <3>1. KernelFrames(<<f>>) = {}
      BY <2>1, <2>4 DEF KernelFrames
    <3> QED  BY Zenon, <2>1, <2>2, <2>3, <2>4, <3>1 DEF FramesCount
  <2>5. CASE f = THREAD
    <3>1. KernelFrames(<<f>>) = {} \cup {0 + 1} /\ f # USER
      BY <2>1, <2>5, FrameKinds DEF KernelFrames
    <3>2. Cardinality({} \cup {0 + 1}) = Cardinality({}) + 1
      <4>1. 0 \in Nat /\ {} \in SUBSET (1 .. 0)
        OBVIOUS
      <4> QED  BY Zenon, <4>1 DEF FramesCount
    <3>3. Cardinality(KernelFrames(<<f>>)) = 1
      BY <3>1, <3>2 DEF FramesCount
    <3> QED  BY Zenon, <2>1, <2>2, <2>3, <3>1, <3>3
  <2> QED  BY Zenon, <2>4, <2>5
<1>3. ASSUME NEW t \in Tasks
      PROVE  /\ stack[t] \in Seq(Frames) /\ Ordered(stack[t])
             /\ Len(stack[t]) = 1
             /\ nested[t] = Cardinality(KernelFrames(stack[t]))
             /\ nested[t] \in Int
             /\ Depth(t) = 0 /\ InterruptsOf(t) = {}
             /\ Innermost(stack[t]) \in {USER, THREAD}
  <2>1. PICK f \in {USER, THREAD} :
            stack[t] = <<f>> /\ nested[t] = IF f = USER THEN 0 ELSE 1
    BY <1>1, FrameKinds
  <2>2. f \notin Irqs /\ f \notin Closed /\ nested[t] \in Int
    BY <2>1, FrameKinds
  <2> QED  BY Zenon, <1>2, <2>1, <2>2 DEF Depth, InterruptsOf
<1>4. stack \in [Tasks -> Seq(Frames)] /\ nested \in [Tasks -> Int]
  BY Zenon, <1>1, <1>3
<1>5. /\ saved \in [Tasks -> [count : Int, mask : SUBSET Irqs,
                            status : {"first", "ready", "exited"}]]
      /\ saved[current].status = "ready"
      /\ \A t \in Tasks : saved[t].mask = {} /\ (t # current => saved[t].status = "first")
  BY <1>1
<1>6. NestingSound
  BY ZenonT(30), <1>1, <1>3, <1>5 DEF NestingSound
<1>7. count = Depth(current) + 0 /\ count \in Int
  BY <1>1, <1>3
<1> QED  BY Zenon, <1>1, <1>3, <1>4, <1>5, <1>6, <1>7 DEF NestingInv

\* A step of the task that runs, which leaves the stack s behind.
LEMMA OwnStack ==
    ASSUME NestingInv, NEW s \in Seq(Frames), Ordered(s),
           stack' = [stack EXCEPT ![current] = s],
           nested' = [nested EXCEPT ![current] = Cardinality(KernelFrames(s))],
           Cardinality(KernelFrames(s)) \in Int,
           current' = current, isr' = {}, mask' = Irqs \cap Items(s),
           cpu' \in {"run", "switch"}, enabled' \in BOOLEAN,
           cpu' = "run" => enabled' = (count' = 0),
           count' = (IF Innermost(s) \in Closed THEN 1 ELSE 0)
                    + (IF cpu' = "run" THEN 0 ELSE 1),
           saved[current].status = "ready",
           \/ saved' = saved
           \/ cpu' = "switch" /\ saved' = [saved EXCEPT ![current].status = "exited"]
    PROVE  NestingInv'
<1> DEFINE Statuses == {"first", "ready", "exited"}
           Saved == [count : Int, mask : SUBSET Irqs, status : Statuses]
<1>1. /\ stack \in [Tasks -> Seq(Frames)] /\ nested \in [Tasks -> Int]
      /\ current \in Tasks /\ saved \in [Tasks -> Saved]
  BY Zenon DEF NestingInv
<1>2. /\ stack' \in [Tasks -> Seq(Frames)] /\ nested' \in [Tasks -> Int]
      /\ stack'[current] = s /\ nested'[current] = Cardinality(KernelFrames(s))
      /\ \A t \in Tasks \ {current} : stack'[t] = stack[t] /\ nested'[t] = nested[t]
  BY Zenon, <1>1
<1>3. /\ saved' \in [Tasks -> Saved]
      /\ \A t \in Tasks \ {current} : saved'[t] = saved[t]
      /\ saved'[current].status \in (IF cpu' = "switch"
                                     THEN {"ready", "exited"} ELSE {"ready"})
      /\ saved'[current].status # "first"
  <2>1. CASE saved' = saved
    BY Zenon, <1>1, <2>1
  <2>2. CASE /\ cpu' = "switch"
             /\ saved' = [saved EXCEPT ![current].status = "exited"]
    <3>1. /\ saved' = [saved EXCEPT ![current] = [saved[current] EXCEPT !.status = "exited"]]
          /\ [saved[current] EXCEPT !.status = "exited"] \in Saved
          /\ [saved[current] EXCEPT !.status = "exited"].status = "exited"
      BY ZenonT(30), <1>1, <2>2
    <3>2. PICK e \in Saved :
              e.status = "exited" /\ saved' = [saved EXCEPT ![current] = e]
      BY Zenon, <3>1
    <3>3. /\ saved' \in [Tasks -> Saved] /\ saved'[current] = e
          /\ \A t \in Tasks \ {current} : saved'[t] = saved[t]
      <4> HIDE DEF Saved
      <4> QED  BY Zenon, <1>1, <3>2
    <3>4. saved'[current].status = "exited" /\ cpu' = "switch"
      BY Zenon, <2>2, <3>2, <3>3
    <3> QED  BY Zenon, <3>3, <3>4
  <2> QED  BY Zenon, <2>1, <2>2
<1>4. /\ \A t \in Tasks \ {current} : /\ Ordered(stack'[t])
                                      /\ nested'[t] = Cardinality(KernelFrames(stack'[t]))
                                      /\ Depth(t)' = Depth(t)
                                      /\ InterruptsOf(t)' = InterruptsOf(t)
      /\ Depth(current)' = (IF Innermost(s) \in Closed THEN 1 ELSE 0)
      /\ InterruptsOf(current)' = Irqs \cap Items(s)
  BY Zenon, <1>1, <1>2 DEF NestingInv, NestingSound, Depth, InterruptsOf
<1>5. count' \in Int
  <2>1. count' \in {0, 1, 2}
    OBVIOUS
  <2> QED  BY <2>1
<1>6. cpu' = "run" /\ In({USER})' => enabled'
  <2>1. cpu' = "run" /\ Innermost(s) = USER => count' = 0
    BY FrameKinds
  <2> QED  BY Zenon, <1>2, <2>1 DEF In, Top
<1>7. NestingSound'
  <2>1. \A t \in Tasks : nested'[t] = Cardinality(KernelFrames(stack'[t]))
    BY Zenon, <1>2, <1>4
  <2>2. \A t \in Tasks \ {current'} :
            saved'[t].status = "ready" => saved'[t].mask = InterruptsOf(t)'
    <3> SUFFICES ASSUME NEW t \in Tasks \ {current}, saved'[t].status = "ready"
                 PROVE  saved'[t].mask = InterruptsOf(t)'
      BY Zenon
    <3>1. saved'[t] = saved[t] /\ InterruptsOf(t)' = InterruptsOf(t)
      BY Zenon, <1>3, <1>4
    <3>2. saved[t].status = "ready" => saved[t].mask = InterruptsOf(t)
      BY Zenon DEF NestingInv, NestingSound
    <3> QED  BY Zenon, <3>1, <3>2
  <2>3. mask' = InterruptsOf(current)'
    BY Zenon, <1>4
  <2>4. cpu' # "panic"
    OBVIOUS
  <2> QED  BY Zenon, <1>6, <2>1, <2>2, <2>3, <2>4 DEF NestingSound
<1>8. ASSUME NEW t \in Tasks
      PROVE  /\ Ordered(stack'[t])
             /\ saved'[t].status = "first" => Len(stack'[t]) = 1 /\ saved'[t].mask = {}
             /\ t # current' /\ saved'[t].status = "ready" =>
                    saved'[t].count = Depth(t)' + 1
  <2>1. CASE t = current
    BY Zenon, <1>2, <1>3, <2>1
  <2>2. CASE t # current
    BY ZenonT(30), <1>2, <1>3, <1>4, <2>2 DEF NestingInv
  <2> QED  BY Zenon, <2>1, <2>2
<1>9. count' = Depth(current)' + (IF cpu' = "run" THEN 0 ELSE 1)
  BY Zenon, <1>4
<1>10. /\ mask' \subseteq Irqs /\ current' \in Tasks
       /\ cpu' \in {"run", "switch", "back"}
  BY Zenon, <1>1
<1> QED  BY Zenon, <1>2, <1>3, <1>5, <1>7, <1>8, <1>9, <1>10 DEF NestingInv

\* The task that runs, between two steps.
LEMMA Running ==
    ASSUME FramesCount, NestingInv, cpu = "run"
    PROVE  /\ current \in Tasks /\ Ordered(stack[current])
           /\ stack[current] \in Seq(Frames) /\ Top = Innermost(stack[current])
           /\ Top \in Frames /\ saved[current].status = "ready" /\ isr = {}
           /\ count = (IF Top \in Closed THEN 1 ELSE 0) /\ enabled = (count = 0)
           /\ nested[current] = Cardinality(KernelFrames(stack[current]))
           /\ nested[current] \in Nat /\ mask = Irqs \cap Items(stack[current])
           /\ Top = USER => nested[current] = 0
           /\ Top = SYSCALL => nested[current] = 1
<1> DEFINE s == stack[current]
           n == Len(s)
<1>1. /\ current \in Tasks /\ Ordered(s) /\ s \in Seq(Frames)
      /\ Top = Innermost(s)
      /\ saved[current].status = "ready" /\ isr = {}
      /\ count = Depth(current) + 0
      /\ enabled = (count = 0) /\ nested[current] = Cardinality(KernelFrames(s))
      /\ mask = Irqs \cap Items(s)
  BY Zenon DEF NestingInv, NestingSound, Top, InterruptsOf
<1>2. count = (IF Top \in Closed THEN 1 ELSE 0)
  BY <1>1 DEF Depth
<1>3. /\ n \in Nat /\ n \in 1 .. n /\ Top = s[n] /\ 1 \in 1 .. n /\ n >= 1
      /\ s[1] \in {USER, THREAD} /\ Top \in Frames
  <2>1. n \in Nat /\ n >= 1 /\ \A i \in 1 .. n : s[i] \in Frames
    BY Zenon, <1>1, SeqFacts DEF Ordered
  <2>2. n \in 1 .. n /\ 1 \in 1 .. n
    BY <2>1
  <2> QED  BY Zenon, <1>1, <2>1, <2>2 DEF Ordered, Innermost
<1>4. /\ n > 1 => s[n] \notin {USER, THREAD}
      /\ s[n] = SYSCALL => n = 2 /\ s[1] = USER
  BY Zenon, <1>1, <1>3 DEF Ordered
<1>5. Cardinality(KernelFrames(s)) \in Nat
  <2>1. KernelFrames(s) \in SUBSET (1 .. n)
    BY Zenon DEF KernelFrames
  <2> QED  BY Zenon, <1>3, <2>1 DEF FramesCount
<1>6. ASSUME Top = USER PROVE nested[current] = 0
  <2>1. n = 1 /\ 1 .. 1 = {1}
    <3>1. ~(n > 1)
      BY Zenon, <1>3, <1>4, <1>6
    <3> HIDE DEF n
    <3> QED  BY <1>3, <3>1
  <2>2. KernelFrames(s) = {}
    BY Zenon, <1>3, <1>6, <2>1 DEF KernelFrames
  <2> QED  BY Zenon, <1>1, <2>2 DEF FramesCount
<1>7. ASSUME Top = SYSCALL PROVE nested[current] = 1
  <2>1. n = 2 /\ s[1] = USER /\ s[2] = SYSCALL /\ 1 .. 2 = {1, 2}
    <3>1. n = 2 /\ s[1] = USER /\ s[2] = SYSCALL
      BY Zenon, <1>3, <1>4, <1>7
    <3>2. 1 .. 2 = {1, 2}
      OBVIOUS
    <3> QED  BY Zenon, <3>1, <3>2
  <2>2. KernelFrames(s) = {2}
    BY <2>1, FrameKinds DEF KernelFrames
  <2> QED  BY Zenon, <1>1, <2>2 DEF FramesCount
<1> QED  BY Zenon, <1>1, <1>2, <1>3, <1>5, <1>6, <1>7

\* Interrupts, system calls, faults and critical sections.
LEMMA EntersAndLeaves ==
    ASSUME FramesCount, NestingInv,
           \/ \E k \in Irqs : IrqEntry(k) \/ IrqExit(k)
           \/ Syscall \/ SyscallReturn \/ Fault \/ FaultReturn
           \/ Enter \/ LeaveCritical
    PROVE  NestingInv'
<1> DEFINE s == stack[current]
<1>1. /\ cpu = "run" /\ current' = current /\ saved' = saved
  BY Zenon DEF IrqEntry, IrqExit, Syscall, SyscallReturn, Fault, FaultReturn,
        Enter, LeaveCritical, Runs, Delivered
<1>2. /\ current \in Tasks /\ Ordered(s) /\ s \in Seq(Frames)
      /\ Top = Innermost(s)
      /\ Top \in Frames /\ saved[current].status = "ready" /\ isr = {}
      /\ count = (IF Top \in Closed THEN 1 ELSE 0) /\ enabled = (count = 0)
      /\ nested[current] = Cardinality(KernelFrames(s))
      /\ nested[current] \in Nat /\ mask = Irqs \cap Items(s)
      /\ Top = USER => nested[current] = 0
      /\ Top = SYSCALL => nested[current] = 1
  BY Zenon, <1>1, Running
<1>20. count = (IF Top \in Closed THEN 1 ELSE 0)
  BY Zenon, <1>1, Running
<1>21. /\ Top \notin Closed => count = 0
       /\ Top \in Closed => count = 1
       /\ count = 0 => Top \notin Closed
  BY <1>20
<1>3. nested \in [Tasks -> Int]
  BY Zenon DEF NestingInv
<1>4. ASSUME NEW f \in Frames \ {USER, THREAD}, f \notin mask, Top \notin Closed,
             f = SYSCALL => Top = USER, Push(f),
             mask' = mask \cup (Irqs \cap {f}), isr' = {},
             IF f = CRITICAL THEN nested' = nested ELSE Nest(1),
             cpu' \in {"run", "switch"}, enabled' \in BOOLEAN,
             cpu' = "run" => enabled' = (count' = 0),
             count' = (IF f \in Closed THEN 1 ELSE 0)
                      + (IF cpu' = "run" THEN 0 ELSE 1)
      PROVE  NestingInv'
  <2> DEFINE r == Append(s, f)
  <2>1. /\ r \in Seq(Frames) /\ Ordered(r) /\ Innermost(r) = f
        /\ Items(r) = Items(s) \cup {f}
        /\ Cardinality(KernelFrames(r)) =
              Cardinality(KernelFrames(s)) + (IF f = CRITICAL THEN 0 ELSE 1)
    BY Zenon, <1>2, <1>4, Pushed
  <2>2. stack' = [stack EXCEPT ![current] = r]
    BY Zenon, <1>4 DEF Push
  <2>3. /\ nested' = [nested EXCEPT ![current] = Cardinality(KernelFrames(r))]
        /\ Cardinality(KernelFrames(r)) \in Int
    <3>1. CASE f = CRITICAL
      <4>1. Cardinality(KernelFrames(r)) = nested[current]
        BY <1>2, <2>1, <3>1
      <4> HIDE DEF r
      <4> QED  BY SMTT(30), <1>2, <1>3, <1>4, <3>1, <4>1
    <3>2. CASE f # CRITICAL
      <4>1. Cardinality(KernelFrames(r)) = nested[current] + 1
        BY <1>2, <2>1, <3>2
      <4>2. nested' = [nested EXCEPT ![current] = nested[current] + 1]
        BY Zenon, <1>4, <3>2 DEF Nest
      <4> HIDE DEF r
      <4> QED  BY SMTT(30), <1>2, <1>3, <4>1, <4>2
    <3> QED  BY Zenon, <3>1, <3>2
  <2>4. mask' = Irqs \cap Items(r)
    BY Zenon, <1>2, <1>4, <2>1
  <2> HIDE DEF r
  <2> QED  BY Zenon, <1>1, <1>2, <1>4, <2>1, <2>2, <2>3, <2>4, OwnStack
<1>5. ASSUME Top \notin {USER, THREAD}, Pop, mask' = mask \ {Top}, isr' = {},
             IF Top = CRITICAL THEN nested' = nested ELSE Nest(-1),
             cpu' = "run", enabled' = TRUE, count' = 0
      PROVE  NestingInv'
  <2> DEFINE r == Outside(s)
  <2>1. /\ r \in Seq(Frames) /\ Ordered(r) /\ Innermost(r) \notin Closed
        /\ Irqs \cap Items(r) = (Irqs \cap Items(s)) \ {Innermost(s)}
        /\ Cardinality(KernelFrames(r)) =
              Cardinality(KernelFrames(s)) - (IF Innermost(s) = CRITICAL THEN 0 ELSE 1)
    BY Zenon, <1>2, <1>5, Popped
  <2>2. stack' = [stack EXCEPT ![current] = r]
    BY Zenon, <1>5 DEF Pop
  <2>3. /\ nested' = [nested EXCEPT ![current] = Cardinality(KernelFrames(r))]
        /\ Cardinality(KernelFrames(r)) \in Int
    <3>1. CASE Top = CRITICAL
      <4>1. Cardinality(KernelFrames(r)) = nested[current]
        BY <1>2, <2>1, <3>1
      <4> HIDE DEF r
      <4> QED  BY SMTT(30), <1>2, <1>3, <1>5, <3>1, <4>1
    <3>2. CASE Top # CRITICAL
      <4>1. Cardinality(KernelFrames(r)) = nested[current] - 1
        BY <1>2, <2>1, <3>2
      <4>2. nested' = [nested EXCEPT ![current] = nested[current] + (-1)]
        BY Zenon, <1>5, <3>2 DEF Nest
      <4>3. /\ nested[current] + (-1) = nested[current] - 1
            /\ nested[current] - 1 \in Int
        BY <1>2
      <4> HIDE DEF r
      <4> QED  BY Zenon, <4>1, <4>2, <4>3
    <3> QED  BY Zenon, <3>1, <3>2
  <2>4. mask' = Irqs \cap Items(r)
    BY Zenon, <1>2, <1>5, <2>1
  <2>5. count' = (IF Innermost(r) \in Closed THEN 1 ELSE 0)
                 + (IF cpu' = "run" THEN 0 ELSE 1)
    BY <1>5, <2>1
  <2>6. /\ enabled' = (count' = 0) /\ enabled' \in BOOLEAN
        /\ cpu' \in {"run", "switch"}
    BY Zenon, <1>5
  <2> HIDE DEF r
  <2> QED  BY Zenon, <1>1, <1>2, <1>5, <2>1, <2>2, <2>3, <2>4, <2>5, <2>6,
              OwnStack
<1>6. ASSUME NEW k \in Irqs, IrqEntry(k) PROVE NestingInv'
  <2>1. /\ k \notin mask /\ enabled /\ Push(k) /\ Nest(1)
        /\ mask' = mask \cup {k}
        /\ isr' = Eoi(k)
        /\ IF k = IRQ_TIMER
           THEN count' = count + 2 /\ enabled' = FALSE /\ cpu' = "switch"
           ELSE count' = (count + 1) - 1 /\ enabled' = ((count + 1) - 1 = 0) /\ cpu' = cpu
    BY Zenon, <1>6 DEF IrqEntry, Delivered, nointerrupt_leave
  <2>2. count = 0 /\ Top \notin Closed
    BY Zenon, <1>2, <1>21, <2>1
  <2>3. isr' = {}
    BY Zenon, <1>2, <2>1 DEF Eoi
  <2>4. /\ k \in Frames \ {USER, THREAD} /\ k # SYSCALL /\ k # CRITICAL
        /\ k \in Closed <=> k = IRQ_TIMER
    BY Zenon, FrameKinds
  <2>5. /\ cpu' \in {"run", "switch"} /\ enabled' \in BOOLEAN
        /\ cpu' = "run" => enabled' = (count' = 0)
        /\ count' = (IF k \in Closed THEN 1 ELSE 0)
                    + (IF cpu' = "run" THEN 0 ELSE 1)
    <3>1. CASE k = IRQ_TIMER
      <4>1. count' = 2 /\ enabled' = FALSE /\ cpu' = "switch" /\ k \in Closed
        BY <2>1, <2>2, <2>4, <3>1
      <4>2. count' = (IF k \in Closed THEN 1 ELSE 0)
                     + (IF cpu' = "run" THEN 0 ELSE 1)
        BY <4>1
      <4> QED  BY Zenon, <4>1, <4>2
    <3>2. CASE k # IRQ_TIMER
      <4>1. count' = (count + 1) - 1 /\ cpu' = "run" /\ k \notin Closed
        BY Zenon, <1>1, <2>1, <2>4, <3>2
      <4>2. count' = 0 /\ (count + 1) - 1 = 0
        BY <2>2, <4>1
      <4>3. enabled' = TRUE
        BY Zenon, <2>1, <3>2, <4>2
      <4>4. count' = (IF k \in Closed THEN 1 ELSE 0)
                     + (IF cpu' = "run" THEN 0 ELSE 1)
        BY <4>1, <4>2
      <4>5. enabled' = (count' = 0)
        BY Zenon, <4>2, <4>3
      <4> QED  BY Zenon, <4>1, <4>3, <4>4, <4>5
    <3> QED  BY Zenon, <3>1, <3>2
  <2>6. mask' = mask \cup (Irqs \cap {k})
    BY Zenon, <2>1
  <2> QED  BY Zenon, <1>4, <2>1, <2>2, <2>3, <2>4, <2>5, <2>6
<1>7. ASSUME NEW k \in Irqs, IrqExit(k) PROVE NestingInv'
  <2>1. /\ Top = k /\ Pop /\ Nest(-1) /\ mask' = mask \ {Top} /\ isr' = isr
        /\ leave_delayed(IF k = IRQ_TIMER THEN count ELSE count + 1)
    BY Zenon, <1>7 DEF IrqExit
  <2>2. (IF k = IRQ_TIMER THEN count ELSE count + 1) = 1
    BY SMTT(30), <1>2, <2>1, FrameKinds
  <2>3. count' = 0 /\ enabled' = TRUE /\ cpu' = "run"
    BY <2>1, <2>2 DEF leave_delayed
  <2>4. Top \notin {USER, THREAD} /\ Top # CRITICAL
    BY Zenon, <2>1, FrameKinds
  <2> QED  BY Zenon, <1>2, <1>5, <2>1, <2>3, <2>4
<1>8. CASE Syscall
  <2>1. /\ Top = USER /\ Push(SYSCALL) /\ Nest(1) /\ count' = (count + 1) - 1
        /\ enabled' = ((count + 1) - 1 = 0) /\ mask' = mask /\ isr' = isr
        /\ cpu' = IF nested[current] = 0 THEN "run" ELSE "panic"
    BY Zenon, <1>8 DEF Syscall, In, nointerrupt_leave
  <2>2. /\ SYSCALL \in Frames \ {USER, THREAD} /\ SYSCALL \notin Irqs
        /\ SYSCALL \notin Closed /\ SYSCALL # CRITICAL /\ Top \notin Closed
    BY Zenon, <2>1, FrameKinds
  <2>3. count = 0 /\ cpu' = "run"
    BY Zenon, <1>2, <1>21, <2>1, <2>2
  <2>4. /\ count' = (IF SYSCALL \in Closed THEN 1 ELSE 0)
                    + (IF cpu' = "run" THEN 0 ELSE 1)
        /\ enabled' \in BOOLEAN /\ enabled' = (count' = 0)
        /\ cpu' \in {"run", "switch"}
    BY <2>1, <2>2, <2>3
  <2>5. mask' = mask \cup (Irqs \cap {SYSCALL}) /\ SYSCALL \notin mask
    BY Zenon, <1>2, <2>1, <2>2
  <2> QED  BY Zenon, <1>2, <1>4, <2>1, <2>2, <2>4, <2>5
<1>9. CASE SyscallReturn
  <2>1. /\ Top = SYSCALL /\ Pop /\ Nest(-1) /\ mask' = mask /\ isr' = isr
        /\ nested[current] = 1 => leave_delayed(count + 1)
    BY Zenon, <1>9 DEF SyscallReturn, In
  <2>2. /\ Top \notin {USER, THREAD} /\ Top # CRITICAL /\ Top \notin Irqs
        /\ Top \notin Closed
    BY Zenon, <2>1, FrameKinds
  <2>3. count = 0 /\ nested[current] = 1
    BY Zenon, <1>2, <2>1, <2>2
  <2>4. count' = 0 /\ enabled' = TRUE /\ cpu' = "run"
    BY <2>1, <2>3 DEF leave_delayed
  <2>5. mask' = mask \ {Top}
    BY Zenon, <1>2, <2>1, <2>2
  <2> QED  BY Zenon, <1>2, <1>5, <2>1, <2>2, <2>4, <2>5
<1>10. CASE Fault
  <2>1. /\ Top \in {USER, SYSCALL} /\ Push(FAULT) /\ Nest(1)
        /\ count' = (count + 1) - 1
        /\ enabled' = ((count + 1) - 1 = 0) /\ mask' = mask /\ isr' = isr
        /\ cpu' = cpu
    BY Zenon, <1>10 DEF Fault, In, nointerrupt_leave
  <2>2. /\ FAULT \in Frames \ {USER, THREAD} /\ FAULT \notin Irqs
        /\ FAULT # SYSCALL
        /\ FAULT \notin Closed /\ FAULT # CRITICAL /\ Top \notin Closed
    BY Zenon, <2>1, FrameKinds
  <2>3. count = 0 /\ cpu' = "run"
    BY Zenon, <1>1, <1>21, <2>1, <2>2
  <2>4. /\ count' = (IF FAULT \in Closed THEN 1 ELSE 0)
                    + (IF cpu' = "run" THEN 0 ELSE 1)
        /\ enabled' \in BOOLEAN /\ enabled' = (count' = 0)
        /\ cpu' \in {"run", "switch"}
    BY <2>1, <2>2, <2>3
  <2>5. mask' = mask \cup (Irqs \cap {FAULT}) /\ FAULT \notin mask
    BY Zenon, <1>2, <2>1, <2>2
  <2> QED  BY Zenon, <1>2, <1>4, <2>1, <2>2, <2>4, <2>5
<1>11. CASE FaultReturn
  <2>1. /\ Top = FAULT /\ Pop /\ Nest(-1) /\ mask' = mask /\ isr' = isr
        /\ leave_delayed(count + 1)
    BY Zenon, <1>11 DEF FaultReturn, In
  <2>2. /\ Top \notin {USER, THREAD} /\ Top # CRITICAL /\ Top \notin Irqs
        /\ Top \notin Closed
    BY Zenon, <2>1, FrameKinds
  <2>3. count' = 0 /\ enabled' = TRUE /\ cpu' = "run"
    <3>1. count = 0
      BY Zenon, <1>21, <2>2
    <3> QED  BY <2>1, <3>1 DEF leave_delayed
  <2>4. mask' = mask \ {Top}
    BY Zenon, <1>2, <2>1, <2>2
  <2> QED  BY Zenon, <1>2, <1>5, <2>1, <2>2, <2>3, <2>4
<1>12. CASE Enter
  <2>1. /\ Top \in {SYSCALL} \cup (Irqs \ {IRQ_TIMER}) /\ Push(CRITICAL)
        /\ count' = count + 1 /\ enabled' = FALSE
        /\ nested' = nested /\ mask' = mask /\ isr' = isr /\ cpu' = cpu
    BY Zenon, <1>12 DEF Enter, In, nointerrupt_enter
  <2>2. /\ CRITICAL \in Frames \ {USER, THREAD} /\ CRITICAL \notin Irqs
        /\ CRITICAL # SYSCALL /\ CRITICAL \in Closed /\ Top \notin Closed
    BY Zenon, <2>1, FrameKinds
  <2>3. count = 0 /\ cpu' = "run"
    BY Zenon, <1>1, <1>21, <2>1, <2>2
  <2>4. /\ count' = (IF CRITICAL \in Closed THEN 1 ELSE 0)
                    + (IF cpu' = "run" THEN 0 ELSE 1)
        /\ enabled' \in BOOLEAN /\ enabled' = (count' = 0)
        /\ cpu' \in {"run", "switch"}
    <3>1. count' = 1 /\ enabled' = FALSE
      BY <2>1, <2>3
    <3>2. count' = (IF CRITICAL \in Closed THEN 1 ELSE 0)
                   + (IF cpu' = "run" THEN 0 ELSE 1)
      BY <2>2, <2>3, <3>1
    <3>3. ~(count' = 0)
      BY <3>1
    <3> QED  BY Zenon, <2>3, <3>1, <3>2, <3>3
  <2>5. mask' = mask \cup (Irqs \cap {CRITICAL}) /\ CRITICAL \notin mask
    BY Zenon, <1>2, <2>1, <2>2
  <2> QED  BY Zenon, <1>2, <1>4, <2>1, <2>2, <2>4, <2>5
<1>13. CASE LeaveCritical
  <2>1. /\ Top = CRITICAL /\ Pop /\ count' = count - 1
        /\ enabled' = (count - 1 = 0)
        /\ nested' = nested /\ mask' = mask /\ isr' = isr /\ cpu' = cpu
    BY Zenon, <1>13 DEF LeaveCritical, In, nointerrupt_leave
  <2>2. Top \notin {USER, THREAD} /\ Top \notin Irqs /\ Top \in Closed
    BY Zenon, <2>1, FrameKinds
  <2>3. count' = 0 /\ enabled' = TRUE /\ cpu' = "run"
    <3>1. count = 1 /\ cpu' = "run"
      BY Zenon, <1>1, <1>21, <2>1, <2>2
    <3>2. count - 1 = 0
      BY <3>1
    <3> QED  BY Zenon, <2>1, <3>1, <3>2
  <2>4. mask' = mask \ {Top}
    BY Zenon, <1>2, <2>1, <2>2
  <2> QED  BY Zenon, <1>2, <1>5, <2>1, <2>2, <2>3, <2>4
<1> QED  BY Zenon, <1>6, <1>7, <1>8, <1>9, <1>10, <1>11, <1>12, <1>13

\* yield(), block() and exit() leave the stack as it is.
LEMMA CallsScheduler ==
    ASSUME FramesCount, NestingInv, Yield \/ ExitTask
    PROVE  NestingInv'
<1> DEFINE s == stack[current]
<1>1. /\ cpu = "run" /\ cpu' = "switch" /\ count' = count + 1
      /\ enabled' = FALSE
      /\ current' = current /\ stack' = stack /\ nested' = nested
      /\ mask' = mask
      /\ isr' = isr
      /\ \/ saved' = saved
         \/ saved' = [saved EXCEPT ![current].status = "exited"]
  BY Zenon DEF Yield, ExitTask, Runs, nointerrupt_enter
<1>2. /\ current \in Tasks /\ Ordered(s) /\ s \in Seq(Frames)
      /\ Top = Innermost(s)
      /\ saved[current].status = "ready" /\ isr = {}
      /\ nested[current] = Cardinality(KernelFrames(s))
      /\ nested[current] \in Nat /\ mask = Irqs \cap Items(s)
  BY Zenon, <1>1, Running
<1>3. count = (IF Innermost(s) \in Closed THEN 1 ELSE 0)
  BY Zenon, <1>1, <1>2, Running
<1>4. stack \in [Tasks -> Seq(Frames)] /\ nested \in [Tasks -> Int]
  BY Zenon DEF NestingInv
<1>5. /\ stack' = [stack EXCEPT ![current] = s]
      /\ nested' = [nested EXCEPT ![current] = Cardinality(KernelFrames(s))]
      /\ Cardinality(KernelFrames(s)) \in Int
  BY Zenon, <1>1, <1>2, <1>4
<1>6. count' = (IF Innermost(s) \in Closed THEN 1 ELSE 0)
               + (IF cpu' = "run" THEN 0 ELSE 1)
  <2>1. cpu' # "run" /\ count' = count + 1
    BY Zenon, <1>1
  <2> QED  BY <1>3, <2>1
<1> QED  BY Zenon, <1>1, <1>2, <1>5, <1>6, OwnStack

\* The end of yield(), block() and preempt().
LEMMA ComesBack == ASSUME NestingInv, SwitchedBack PROVE NestingInv'
<1>1. /\ cpu = "back" /\ cpu' = "run" /\ count' = count - 1
      /\ enabled' = (count - 1 = 0)
      /\ UNCHANGED <<current, stack, nested, mask, isr, saved>>
  BY Zenon DEF SwitchedBack, nointerrupt_leave
<1>2. count = Depth(current) + 1 /\ Depth(current) \in {0, 1}
  BY Zenon, <1>1 DEF NestingInv, Depth
<1>3. /\ count' = Depth(current) + 0 /\ count' \in Int /\ count' = count - 1
      /\ Depth(current) = 0 => count' = 0
  BY <1>1, <1>2
<1>4. enabled' = (count' = 0) /\ enabled' \in BOOLEAN
  BY Zenon, <1>1, <1>3
<1>5. \A t \in Tasks : Depth(t)' = Depth(t) /\ InterruptsOf(t)' = InterruptsOf(t)
  BY Zenon, <1>1 DEF Depth, InterruptsOf
<1>6. current \in Tasks /\ Depth(current)' = Depth(current)
  BY Zenon, <1>1 DEF NestingInv, Depth
<1>7. In({USER})' => enabled'
  <2>1. In({USER})' => Innermost(stack[current]) \notin Closed
    BY Zenon, <1>1, FrameKinds DEF In, Top
  <2> QED  BY Zenon, <1>3, <1>4, <2>1 DEF Depth
<1>8. NestingSound'
  <2>1. InterruptsOf(current)' = InterruptsOf(current) /\ cpu' # "panic"
    BY Zenon, <1>1 DEF InterruptsOf
  <2>2. \A t \in Tasks \ {current'} :
            saved'[t].status = "ready" => saved'[t].mask = InterruptsOf(t)'
    BY ZenonT(30), <1>1, <1>5 DEF NestingInv, NestingSound
  <2>3. /\ \A t \in Tasks : nested'[t] = Cardinality(KernelFrames(stack'[t]))
        /\ isr' = {} /\ mask' = InterruptsOf(current)
    BY Zenon, <1>1 DEF NestingInv, NestingSound
  <2> QED  BY Zenon, <1>4, <1>7, <2>1, <2>2, <2>3 DEF NestingSound
<1>9. saved'[current'].status = "ready"
  BY Zenon, <1>1 DEF NestingInv
<1>10. count' = Depth(current)' + (IF cpu' = "run" THEN 0 ELSE 1)
  BY Zenon, <1>1, <1>3, <1>6
<1>11. \A t \in Tasks :
        /\ Ordered(stack'[t])
        /\ saved'[t].status = "first" => Len(stack'[t]) = 1 /\ saved'[t].mask = {}
        /\ t # current' /\ saved'[t].status = "ready"
            => saved'[t].count = Depth(t)' + 1
  BY Zenon, <1>1, <1>5 DEF NestingInv
<1>12. /\ current' \in Tasks /\ mask' \subseteq Irqs
       /\ stack' \in [Tasks -> Seq(Frames)] /\ nested' \in [Tasks -> Int]
       /\ saved' \in [Tasks -> [count : Int, mask : SUBSET Irqs,
                              status : {"first", "ready", "exited"}]]
  BY Zenon, <1>1 DEF NestingInv
<1> QED  BY Zenon, <1>1, <1>3, <1>4, <1>8, <1>9, <1>10, <1>11, <1>12
            DEF NestingInv

\* scheduler_entry(): the counts and masks of two tasks change places.
LEMMA Switches == ASSUME NestingInv, NEW t \in Tasks, Switch(t) PROVE NestingInv'
<1> DEFINE Saved == [count : Int, mask : SUBSET Irqs,
                     status : {"first", "ready", "exited"}]
           c == current
           mine == [saved[c] EXCEPT !.count = count, !.mask = mask]
<1>1. /\ c \in Tasks /\ saved \in [Tasks -> Saved] /\ count \in Int
      /\ mask \in SUBSET Irqs
      /\ cpu = "switch" /\ saved[c].status \in {"ready", "exited"}
      /\ mask = InterruptsOf(c) /\ isr = {}
      /\ stack \in [Tasks -> Seq(Frames)] /\ nested \in [Tasks -> Int]
  BY Zenon DEF NestingInv, NestingSound, Switch
<1>2. /\ saved[t].status # "exited" /\ current' = t /\ mask' = saved'[t].mask
      /\ saved' = [saved EXCEPT ![c] = mine, ![t].status = "ready"]
      /\ UNCHANGED <<stack, nested, isr>>
      /\ IF saved[t].status = "first"
         THEN count' = 0 /\ enabled' = TRUE /\ cpu' = "run"
         ELSE count' = saved'[t].count /\ enabled' = FALSE /\ cpu' = "back"
  BY Zenon DEF Switch
<1>3. /\ mine \in Saved /\ mine.count = count /\ mine.mask = mask
      /\ mine.status = saved[c].status
  BY ZenonT(30), <1>1
<1>4. count = Depth(c) + 1
  BY Zenon, <1>1 DEF NestingInv
<1>5. \A u \in Tasks : Depth(u)' = Depth(u) /\ InterruptsOf(u)' = InterruptsOf(u)
  BY Zenon, <1>2 DEF Depth, InterruptsOf
<1> HIDE DEF mine
<1>6. PICK e \in Saved :
        /\ saved' = [saved EXCEPT ![c] = mine, ![t] = e] /\ e.status = "ready"
        /\ t = c => e.count = count /\ e.mask = mask
        /\ t # c => e.count = saved[t].count /\ e.mask = saved[t].mask
  <2>1. CASE t = c
    <3>1. [mine EXCEPT !.status = "ready"] \in Saved
      BY <1>3
    <3>2. /\ [mine EXCEPT !.status = "ready"].status = "ready"
          /\ [mine EXCEPT !.status = "ready"].count = count
          /\ [mine EXCEPT !.status = "ready"].mask = mask
      BY <1>3
    <3>3. saved' = [saved EXCEPT ![c] = mine, ![t] = [mine EXCEPT !.status = "ready"]]
      BY <1>1, <1>2, <1>3, <2>1
    <3> QED  BY Zenon, <2>1, <3>1, <3>2, <3>3
  <2>2. CASE t # c
    <3>1. [saved[t] EXCEPT !.status = "ready"] \in Saved
      BY Zenon, <1>1
    <3>2. /\ [saved[t] EXCEPT !.status = "ready"].status = "ready"
          /\ [saved[t] EXCEPT !.status = "ready"].count = saved[t].count
          /\ [saved[t] EXCEPT !.status = "ready"].mask = saved[t].mask
      BY <1>1
    <3>3. saved' = [saved EXCEPT ![c] = mine, ![t] = [saved[t] EXCEPT !.status = "ready"]]
      BY <1>1, <1>2, <1>3, <2>2
    <3> QED  BY Zenon, <2>2, <3>1, <3>2, <3>3
  <2> QED  BY Zenon, <2>1, <2>2
<1> HIDE DEF Saved
<1>7. /\ saved' \in [Tasks -> Saved] /\ saved'[t] = e
      /\ (c # t => saved'[c] = mine)
      /\ \A u \in Tasks \ {c, t} : saved'[u] = saved[u]
  BY Zenon, <1>1, <1>3, <1>6
<1>8. /\ mask' = e.mask /\ e.mask \in SUBSET Irqs /\ e.count \in Int
      /\ saved'[current'].status = "ready"
  BY Zenon, <1>2, <1>6, <1>7 DEF Saved
<1>9. /\ mask' = InterruptsOf(t) /\ count' \in Int /\ enabled' \in BOOLEAN
      /\ count' = Depth(t) + (IF cpu' = "run" THEN 0 ELSE 1)
      /\ cpu' = "run" => count' = 0 /\ enabled' = TRUE
      /\ cpu' \in {"run", "back"}
  <2>1. CASE saved[t].status = "first"
    <3>1. t # c /\ Ordered(stack[t]) /\ Len(stack[t]) = 1 /\ saved[t].mask = {}
      BY Zenon, <1>1, <2>1 DEF NestingInv
    <3>2. stack[t][1] \in {USER, THREAD} /\ 1 .. 1 = {1}
      <4>1. 1 .. 1 = {1}
        OBVIOUS
      <4> QED  BY Zenon, <3>1, <4>1 DEF Ordered
    <3>3. Items(stack[t]) = {stack[t][1]} /\ Innermost(stack[t]) = stack[t][1]
      BY <3>1, <3>2 DEF Items, Innermost
    <3>4. InterruptsOf(t) = {} /\ Depth(t) = 0
      BY Zenon, <3>2, <3>3, FrameKinds DEF InterruptsOf, Depth
    <3>5. mask' = {}
      BY Zenon, <1>6, <1>8, <3>1
    <3>6. count' = 0 /\ enabled' = TRUE /\ cpu' = "run"
      BY Zenon, <1>2, <2>1
    <3>7. count' = Depth(t) + (IF cpu' = "run" THEN 0 ELSE 1) /\ count' \in Int
      BY <3>4, <3>6
    <3> QED  BY Zenon, <3>4, <3>5, <3>6, <3>7
  <2>2. CASE saved[t].status # "first"
    <3>1. count' = e.count /\ enabled' = FALSE /\ cpu' = "back"
      BY Zenon, <1>2, <1>7, <2>2
    <3>2. e.count = Depth(t) + 1 /\ e.mask = InterruptsOf(t)
      <4>1. CASE t = c
        BY Zenon, <1>1, <1>4, <1>6, <4>1
      <4>2. CASE t # c
        <5>1. saved[t].status = "ready"
          BY Zenon, <1>1, <1>2, <2>2 DEF Saved
        <5>2. saved[t].count = Depth(t) + 1 /\ saved[t].mask = InterruptsOf(t)
          BY Zenon, <4>2, <5>1 DEF NestingInv, NestingSound
        <5> QED  BY Zenon, <1>6, <4>2, <5>2
      <4> QED  BY Zenon, <4>1, <4>2
    <3> QED  BY Zenon, <1>8, <3>1, <3>2
  <2> QED  BY Zenon, <2>1, <2>2
<1>10. ASSUME NEW u \in Tasks
       PROVE  /\ Ordered(stack'[u])
              /\ saved'[u].status = "first" => Len(stack'[u]) = 1 /\ saved'[u].mask = {}
              /\ u # current' /\ saved'[u].status = "ready" =>
                    /\ saved'[u].count = Depth(u)' + 1
                    /\ saved'[u].mask = InterruptsOf(u)'
  <2>1. CASE u = t
    BY Zenon, <1>2, <1>6, <1>7, <2>1 DEF NestingInv
  <2>2. CASE u = c /\ u # t
    BY Zenon, <1>1, <1>2, <1>3, <1>4, <1>5, <1>7, <2>2 DEF NestingInv
  <2>3. CASE u \in Tasks \ {c, t}
    <3>1. /\ saved'[u] = saved[u] /\ Depth(u)' = Depth(u)
          /\ InterruptsOf(u)' = InterruptsOf(u)
      BY Zenon, <1>5, <1>7, <2>3
    <3>2. /\ Ordered(stack[u])
          /\ saved[u].status = "first" => Len(stack[u]) = 1 /\ saved[u].mask = {}
          /\ saved[u].status = "ready" =>
                saved[u].count = Depth(u) + 1 /\ saved[u].mask = InterruptsOf(u)
      BY Zenon, <2>3 DEF NestingInv, NestingSound
    <3> QED  BY Zenon, <1>2, <3>1, <3>2
  <2> QED  BY Zenon, <2>1, <2>2, <2>3
<1>11. NestingSound'
  <2>1. cpu' = "run" => enabled' = (count' = 0)
    <3>1. CASE cpu' = "run"
      <4>1. count' = 0 /\ enabled' = TRUE
        BY Zenon, <1>9, <3>1
      <4> QED  BY ZenonT(30), <4>1
    <3> QED  BY Zenon, <3>1
  <2>2. InterruptsOf(t)' = InterruptsOf(t) /\ cpu' # "panic"
    BY Zenon, <1>5, <1>9
  <2>3. InterruptsOf(current)' = InterruptsOf(t)'
    BY Zenon, <1>2 DEF InterruptsOf
  <2>4. \A u \in Tasks : nested'[u] = Cardinality(KernelFrames(stack'[u]))
    BY Zenon, <1>2 DEF NestingInv, NestingSound
  <2> QED  BY Zenon, <1>1, <1>2, <1>9, <1>10, <2>1, <2>2, <2>3, <2>4
              DEF NestingSound
<1>12. count' = Depth(current)' + (IF cpu' = "run" THEN 0 ELSE 1)
  <2>1. Depth(current)' = Depth(t)
    BY Zenon, <1>2 DEF Depth
  <2> QED  BY Zenon, <1>9, <2>1
<1> QED  BY ZenonT(30), <1>1, <1>2, <1>7, <1>8, <1>9, <1>10, <1>11, <1>12
            DEF NestingInv, Saved

\* Every step keeps the frames, the counts and the masks in agreement.
LEMMA InterruptsStep ==
    FramesCount /\ NestingInv /\ [InterruptsNext]_interruptVars => NestingInv'
<1> SUFFICES ASSUME FramesCount, NestingInv, [InterruptsNext]_interruptVars
             PROVE  NestingInv'
  BY Zenon
<1>1. CASE UNCHANGED interruptVars
  <2>1. /\ \A t \in Tasks : Depth(t)' = Depth(t) /\ InterruptsOf(t)' = InterruptsOf(t)
        /\ InterruptsOf(current)' = InterruptsOf(current)
        /\ Depth(current)' = Depth(current) /\ In({USER})' = In({USER})
    BY Zenon, <1>1 DEF interruptVars, Depth, InterruptsOf, In, Top
  <2> QED  BY ZenonT(30), <1>1, <2>1 DEF interruptVars, NestingInv, NestingSound
<1>2. CASE InterruptsNext
  BY Zenon, <1>2, EntersAndLeaves, CallsScheduler, ComesBack, Switches
     DEF InterruptsNext
<1> QED  BY Zenon, <1>1, <1>2

-----------------------------------------------------------------------------
(* The gate of create_process() *)

Inside == Launching \ {"lock"}
Alive == {p \in Processes : Exists(p)}
Born == {t \in Callers : place[t] \in {"alloc", "vmem"}}
Used == running_processes * AVERAGE_PAGES_PER_PROCESS

\* Every variable of Launch keeps its type; the uint32_t space is a natural number.
TypeOK ==
    /\ place \in [Callers -> Launching \cup {"boot", "none", "run", "exited", "panic"}]
    /\ queue \in Seq(Callers)
    /\ running_processes \in Nat
    /\ wait_load \in BOOLEAN
    /\ gate \in [space : Nat, waits : Nat]
    /\ created \in 0 .. NStacks

\* Whoever is between lock_acquire() and lock_release() is first in the queue.
Exclusive == \A t \in Callers : place[t] \in Inside => Holds(t)

\* alloc_pcb() hands out PCBs in order, each to a process that is not yet there.
Newborn ==
    /\ \A p \in Processes : p > created => place[p] = "none"
    /\ \A t \in Callers :
          place[t] = "vmem" => created \in Processes /\ place[created] = "none"

\* running_processes counts the processes that exist and those about to.
Counted == running_processes = Cardinality(Alive) + Cardinality(Born)

\* The space computed at pcb.c:307 or 311 is there, or more since an exit().
Budget ==
    /\ Used < PAGEABLE_PAGES
    /\ \A t \in Callers :
        /\ place[t] \in {"gate", "sleep"} => gate.space + Used <= PAGEABLE_PAGES
        /\ place[t] \in {"nap", "count"} =>
              AVERAGE_PAGES_PER_PROCESS + 1 + Used <= PAGEABLE_PAGES

\* The inductive invariant; a panic, when the stacks run out, stops everybody.
Sound == Exclusive /\ Newborn /\ Counted /\ Budget
Panic == \A t \in Callers : place[t] = "panic"
LaunchInv == TypeOK /\ (Panic \/ Sound)

-----------------------------------------------------------------------------
(* Arithmetic, and the number of elements *)

\* The product of pcb.c:307 when a process comes or goes.
LEMMA Product ==
    \A r, a \in Nat :
        /\ r * a \in Nat
        /\ (r + 1) * a = r * a + a
        /\ r > 0 => (r - 1) * a = r * a - a
  BY SMT

\* A uint32_t that does not overflow.
LEMMA Modulo ==
    \A n, w \in Nat : n < w => n % w = n /\ (n + w) % w = n
  BY SMT

\* There are fewer processes than frames.
LEMMA Fewer == \A r, a, p \in Nat : a > 0 /\ r * a < p => r < p
  BY SMT

\* A new waiter does not take the holder's place.
LEMMA AppendHead ==
    ASSUME NEW S, NEW s \in Seq(S), NEW e \in S, s # <<>>
    PROVE  Append(s, e) # <<>> /\ Head(Append(s, e)) = Head(s)
<1>1. Len(s) \in Nat /\ Len(s) # 0
  OBVIOUS
<1>2. Append(s, e) # <<>> /\ Append(s, e)[1] = s[1]
  BY <1>1
<1> QED  BY <1>2

\* What the library says of the callers: the processes that exist or are
\* about to can be counted.
CallersCount ==
    \A T \in SUBSET Callers :
        /\ Cardinality(T) \in Nat /\ (Cardinality(T) = 0 <=> T = {})
        /\ \A t \in Callers :
               /\ t \notin T => Cardinality(T \cup {t}) = Cardinality(T) + 1
               /\ t \in T => Cardinality(T \ {t}) = Cardinality(T) - 1

\* The processes that exist, and those with a PCB, are callers.
LEMMA Countable ==
    ASSUME CallersCount
    PROVE  /\ Alive \in SUBSET Callers /\ Born \in SUBSET Callers
           /\ Cardinality(Alive) \in Nat /\ Cardinality(Born) \in Nat
<1>1. Alive \in SUBSET Callers /\ Born \in SUBSET Callers
  BY Zenon DEF Alive, Born, Callers
<1> QED  BY Zenon, <1>1 DEF CallersCount

\* While the gate holds, the unsigned arithmetic of the code is exact.
LEMMA Exact ==
    ASSUME TypeOK, Budget
    PROVE  /\ running_processes < PAGEABLE_PAGES
           /\ Used \in Nat
           /\ Space = PAGEABLE_PAGES - Used
           /\ (running_processes + 1) % Word = running_processes + 1
           /\ running_processes > 0 =>
                (running_processes + Word - 1) % Word = running_processes - 1
<1> DEFINE a == AVERAGE_PAGES_PER_PROCESS
           r == running_processes
<1>1. /\ a \in Nat /\ a > 0 /\ r \in Nat /\ PAGEABLE_PAGES \in Nat
      /\ Word \in Nat
      /\ PAGEABLE_PAGES < Word
  BY SMTT(30), LaunchAssumption DEF TypeOK
<1>2. Used \in Nat /\ Used < PAGEABLE_PAGES
  BY <1>1, Product DEF Used, Budget
<1>3. r < PAGEABLE_PAGES
  BY <1>1, <1>2, Fewer DEF Used
<1>4. Used % Word = Used
  BY <1>1, <1>2, Modulo
<1>5. Space = PAGEABLE_PAGES - Used
  <2>1. Space = ((PAGEABLE_PAGES - Used) + Word) % Word
    BY <1>1, <1>2, <1>4 DEF Space, Used
  <2> QED  BY <1>1, <1>2, <2>1, Modulo
<1>6. (r + 1) % Word = r + 1
  BY <1>1, <1>3, Modulo
<1>7. ASSUME r > 0 PROVE (r + Word - 1) % Word = r - 1
  <2>1. r + Word - 1 = (r - 1) + Word
    BY <1>1
  <2> QED  BY <1>1, <1>3, <1>7, <2>1, Modulo
<1> QED  BY <1>2, <1>3, <1>5, <1>6, <1>7

-----------------------------------------------------------------------------
(* The steps *)

\* lock_acquire() and lock_release() of load_process_lock_debug: Append and
\* Tail keep the holder in front, and the type.
LEMMA TypeStep ==
    ASSUME TypeOK, Sound, Next
    PROVE  TypeOK'
<1> USE DEF TypeOK, Launching, Goes
<1>1. Word \in Nat /\ Word > 0 /\ NStacks \in Nat /\ Loader \in Callers
  BY LaunchAssumption DEF Callers
<1>2. \A n \in Nat : n % Word \in Nat
  BY <1>1
<1>3. Space \in Nat
  <2>1. Budget /\ Used < PAGEABLE_PAGES /\ PAGEABLE_PAGES \in Nat
    BY LaunchAssumption DEF Sound, Budget
  <2>2. Used \in Nat /\ Space = PAGEABLE_PAGES - Used
    BY <2>1, Exact
  <2> QED  BY <2>1, <2>2
<1>4. \A t \in Callers :
        place[t] \in Inside => queue # <<>> /\ Tail(queue) \in Seq(Callers)
  BY DEF Sound, Exclusive, Holds, Inside
<1>5. ASSUME LoaderStarts PROVE TypeOK'
  BY <1>1, <1>5 DEF LoaderStarts
<1>6. ASSUME NEW p \in Processes, Loadproc(p) PROVE TypeOK'
  BY <1>1, <1>6 DEF Loadproc, Callers
<1>7. ASSUME NEW p \in Processes, Exit(p) PROVE TypeOK'
  BY SMTT(30), <1>1, <1>2, <1>7 DEF Exit, Callers
<1>8. ASSUME NEW t \in Callers, Step(t) PROVE TypeOK'
  <2>1. CASE Acquire(t)  BY <2>1 DEF Acquire
  <2>2. CASE Look(t)  BY <1>3, <2>2 DEF Look
  <2>3. CASE Wait(t)  BY <1>3, <2>3 DEF Wait
  <2>4. CASE Woken(t)
    <3>1. gate' \in [space : Nat, waits : Nat]
      <4>1. gate' = [gate EXCEPT !.waits = gate.waits + 1]
        BY <2>4 DEF Woken
      <4>2. gate.waits + 1 \in Nat
        OBVIOUS
      <4> QED  BY <4>1, <4>2
    <3>2. queue' \in Seq(Callers)
      BY Zenon, <1>4, <2>4 DEF Woken, Inside
    <3> QED  BY Zenon, <2>4, <3>1, <3>2 DEF Woken, Back
  <2>5. CASE Pass(t)  BY <2>5 DEF Pass
  <2>6. CASE NapOver(t)  BY Zenon, <2>6 DEF NapOver
  <2>7. CASE Count(t)  BY <1>2, <2>7 DEF Count
  <2>8. CASE Alloc(t)  BY <1>1, <2>8 DEF Alloc
  <2>9. CASE Insert(t)  BY Zenon, <1>4, <2>9 DEF Insert, Back, Inside
  <2> QED
    BY <1>8, <2>1, <2>2, <2>3, <2>4, <2>5, <2>6, <2>7, <2>8, <2>9 DEF Step
<1> QED  BY <1>5, <1>6, <1>7, <1>8 DEF Next

\* The lock admits one task to what follows it in create_process().
LEMMA ExclusiveStep ==
    ASSUME TypeOK, Sound, Next, TypeOK', ~Panic'
    PROVE  Exclusive'
<1> USE DEF TypeOK, Launching, Goes, Inside, Holds
<1>1. Exclusive /\ Newborn
  BY DEF Sound
<1>2. \A t \in Callers : queue # <<>> => /\ Append(queue, t) # <<>>
                                        /\ Head(Append(queue, t)) = Head(queue)
  BY SMTT(20), AppendHead
<1>3. ASSUME LoaderStarts PROVE Exclusive'
  BY SMTT(30), <1>1, <1>2, <1>3 DEF LoaderStarts, Exclusive, Callers
<1>4. ASSUME NEW p \in Processes, Loadproc(p) PROVE Exclusive'
  BY SMTT(30), <1>1, <1>2, <1>4 DEF Loadproc, Exclusive, Callers
<1>5. ASSUME NEW p \in Processes, Exit(p) PROVE Exclusive'
  BY SMTT(30), <1>1, <1>5 DEF Exit, Exclusive, Callers
<1>6. ASSUME NEW t \in Callers, Step(t) PROVE Exclusive'
  <2>1. CASE Acquire(t)  BY SMTT(30), <1>1, <2>1 DEF Acquire, Exclusive
  <2>2. CASE Look(t)  BY <1>1, <2>2 DEF Look, Exclusive
  <2>3. CASE Wait(t)  BY SMTT(30), <1>1, <2>3 DEF Wait, Exclusive
  <2>4. CASE Woken(t)
    <3>1. place[t] \in Inside /\ \A u \in Callers : place[u] \in Inside => u = t
      BY SMTT(30), <1>1, <2>4 DEF Woken, Exclusive
    <3>2. CASE Goes(t, "sleep", "gate") /\ queue' = queue
      BY SMTT(30), <1>1, <3>2 DEF Exclusive
    <3>3. CASE Goes(t, "sleep", Back(t))
      <4>1. \A u \in Callers : place'[u] \notin Inside
        BY <3>1, <3>3 DEF Back
      <4> QED  BY SMTT(30), <4>1 DEF Exclusive
    <3>4. \/ Goes(t, "sleep", "gate") /\ queue' = queue
          \/ Goes(t, "sleep", Back(t))
      BY <2>4, Zenon DEF Woken
    <3> QED  BY <3>2, <3>3, <3>4
  <2>5. CASE Pass(t)  BY SMTT(30), <1>1, <2>5 DEF Pass, Exclusive
  <2>6. CASE NapOver(t)  BY <1>1, <2>6 DEF NapOver, Exclusive
  <2>7. CASE Count(t)  BY SMTT(30), <1>1, <2>7 DEF Count, Exclusive
  <2>8. CASE Alloc(t)  BY SMTT(30), <1>1, <2>8 DEF Alloc, Exclusive, Panic
  <2>9. CASE Insert(t)  BY <1>1, <2>9 DEF Insert, Back, Exclusive, Newborn
  <2> QED
    BY SMTT(30), <1>6, <2>1, <2>2, <2>3, <2>4, <2>5, <2>6, <2>7, <2>8, <2>9
       DEF Step
<1> QED  BY <1>3, <1>4, <1>5, <1>6 DEF Next

\* alloc_pcb() takes the next process, which is not there before Insert.
LEMMA NewbornStep ==
    ASSUME TypeOK, Sound, Next, TypeOK', ~Panic'
    PROVE  Newborn'
<1> USE DEF TypeOK, Launching, Goes
<1>1. Exclusive /\ Newborn
  BY DEF Sound
<1>2. NStacks \in Nat /\ Processes \subseteq Callers /\ Loader \notin Processes
  BY SMTT(30), LaunchAssumption DEF Processes, Callers, Loader
<1>3. \A t, u \in Callers : place[t] \in Inside /\ place[u] \in Inside => t = u
  BY SMTT(30), <1>1 DEF Exclusive, Holds
<1>4. ASSUME LoaderStarts PROVE Newborn'
  BY SMTT(30), <1>1, <1>2, <1>4 DEF LoaderStarts, Newborn
<1>5. ASSUME NEW p \in Processes, Loadproc(p) PROVE Newborn'
  BY SMTT(30), <1>1, <1>2, <1>5 DEF Loadproc, Newborn
<1>6. ASSUME NEW p \in Processes, Exit(p) PROVE Newborn'
  BY SMTT(30), <1>1, <1>2, <1>6 DEF Exit, Newborn
<1>7. ASSUME NEW t \in Callers, Step(t) PROVE Newborn'
  <2>1. CASE Acquire(t)  BY SMTT(30), <1>1, <1>2, <2>1 DEF Acquire, Newborn
  <2>2. CASE Look(t)  BY <1>1, <1>2, <2>2 DEF Look, Newborn
  <2>3. CASE Wait(t)  BY <1>1, <1>2, <2>3 DEF Wait, Newborn
  <2>4. CASE Woken(t)  BY SMTT(30), <1>1, <1>2, <2>4 DEF Woken, Back, Newborn
  <2>5. CASE Pass(t)  BY SMTT(30), <1>1, <1>2, <2>5 DEF Pass, Newborn
  <2>6. CASE NapOver(t)  BY SMTT(30), <1>1, <1>2, <2>6 DEF NapOver, Newborn
  <2>7. CASE Count(t)  BY SMTT(30), <1>1, <1>2, <2>7 DEF Count, Newborn
  <2>8. CASE Alloc(t)
    <3>1. /\ place[t] = "alloc" /\ place' = [place EXCEPT ![t] = "vmem"]
          /\ created' = created + 1 /\ created' \in Processes
      BY SMTT(30), <1>2, <2>8 DEF Alloc, Panic, Processes
    <3>2. /\ place[created'] = "none"
          /\ \A p \in Processes : p > created' => place[p] = "none"
      BY <1>1, <1>2, <3>1 DEF Newborn, Processes
    <3> QED  BY SMTT(30), <1>2, <3>1, <3>2 DEF Newborn
  <2>9. CASE Insert(t)
    <3>1. \A u \in Callers : place[u] = "vmem" => u = t
      BY SMTT(30), <1>3, <2>9 DEF Insert, Inside
    <3>2. \A u \in Callers : place'[u] # "vmem"
      BY SMTT(30), <2>9, <3>1 DEF Insert, Back
    <3>3. \A p \in Processes : p > created => p # created /\ p # t
      BY <1>1, <2>9 DEF Insert, Newborn, Processes
    <3> QED  BY Zenon, <1>1, <1>2, <2>9, <3>2, <3>3 DEF Insert, Newborn
  <2> QED
    BY <1>7, <2>1, <2>2, <2>3, <2>4, <2>5, <2>6, <2>7, <2>8, <2>9 DEF Step
<1> QED  BY <1>4, <1>5, <1>6, <1>7 DEF Next

\* exit() never decrements a count of zero.
LEMMA ExitCounted ==
    ASSUME CallersCount, TypeOK, Sound, NEW p \in Processes, place[p] = "run"
    PROVE  running_processes > 0
<1>1. p \in Alive
  BY DEF Alive, Exists
<1>2. Cardinality(Alive) # 0
  BY Zenon, <1>1, Countable DEF CallersCount
<1> QED  BY <1>2, Countable DEF Sound, Counted

\* The space the holder computed covers one more process until it counts it:
\* meanwhile processes only exit.
LEMMA BudgetStep ==
    ASSUME CallersCount, TypeOK, Sound, Next, TypeOK', ~Panic'
    PROVE  Budget'
<1> DEFINE a == AVERAGE_PAGES_PER_PROCESS
<1> USE DEF Goes
<1>1. /\ Exclusive /\ Budget
      /\ a \in Nat /\ PAGEABLE_PAGES \in Nat /\ Used \in Nat
      /\ running_processes \in Nat /\ gate.space \in Nat
  BY Zenon, Product, LaunchAssumption DEF Sound, TypeOK, Used
<1>2. \A t, u \in Callers : place[t] \in Inside /\ place[u] \in Inside => t = u
  BY <1>1 DEF Exclusive, Holds
<1>3. Processes \subseteq Callers
  BY DEF Callers
<1>4. place \in [Callers -> Launching \cup {"boot", "none", "run", "exited", "panic"}]
  BY DEF TypeOK
<1>5. ASSUME running_processes' = running_processes PROVE Used' = Used
  BY SMTT(30), <1>5 DEF Used
<1>6. ASSUME running_processes' = running_processes, gate'.space = gate.space,
             \A u \in Callers : place'[u] \in {"gate", "sleep", "nap", "count"}
                                    => place'[u] = place[u]
      PROVE  Budget'
  BY SMTT(30), <1>1, <1>5, <1>6 DEF Budget
<1>7. ASSUME LoaderStarts PROVE Budget'
  BY SMTT(30), <1>4, <1>6, <1>7 DEF LoaderStarts
<1>8. ASSUME NEW p \in Processes, Loadproc(p) PROVE Budget'
  BY SMTT(30), <1>4, <1>6, <1>8 DEF Loadproc
<1>9. ASSUME NEW p \in Processes, Exit(p) PROVE Budget'
  <2>1. running_processes' = running_processes - 1 /\ running_processes > 0
    BY SMTT(30), <1>1, <1>9, Exact, ExitCounted DEF Exit
  <2>2. Used' = Used - a /\ Used' \in Nat
    BY SMTT(30), <1>1, <2>1, Product DEF Used
  <2>3. \A u \in Callers : place'[u] \in {"gate", "sleep", "nap", "count"}
                                => place'[u] = place[u]
    BY SMTT(30), <1>3, <1>4, <1>9 DEF Exit
  <2> QED  BY SMTT(30), <1>1, <1>9, <2>2, <2>3 DEF Exit, Budget
<1>10. ASSUME NEW t \in Callers, Step(t) PROVE Budget'
  <2>1. CASE Acquire(t)  BY SMTT(30), <1>4, <1>6, <2>1 DEF Acquire
  <2>2. CASE Look(t)
    BY <1>1, <1>4, <1>5, <2>2, Exact DEF Look, Budget
  <2>3. CASE Wait(t)
    BY <1>1, <1>4, <1>5, <2>3, Exact DEF Wait, Budget
  <2>4. CASE Woken(t)
    <3>1. gate'.space = gate.space /\ running_processes' = running_processes
      BY <2>4 DEF Woken, TypeOK
    <3> QED  BY SMTT(30), <1>1, <1>4, <1>5, <2>4, <3>1 DEF Woken, Back, Budget
  <2>5. CASE Pass(t)
    <3>1. a + 1 + Used <= PAGEABLE_PAGES
      BY SMTT(30), <1>1, <2>5 DEF Pass, Enough, Budget
    <3> QED  BY SMTT(30), <1>1, <1>4, <1>5, <2>5, <3>1 DEF Pass, Budget
  <2>6. CASE NapOver(t)
    BY SMTT(30), <1>1, <1>4, <1>5, <2>6 DEF NapOver, Budget
  <2>7. CASE Count(t)
    <3>1. Used' = Used + a /\ Used' \in Nat
      BY SMTT(30), <1>1, <2>7, Exact, Product DEF Count, Used
    <3>2. a + 1 + Used <= PAGEABLE_PAGES
      BY SMTT(30), <1>1, <2>7 DEF Count, Budget
    <3>3. \A u \in Callers : place'[u] \notin {"gate", "sleep", "nap", "count"}
      BY SMTT(30), <1>2, <1>4, <2>7 DEF Count, Inside, Launching
    <3> QED  BY SMTT(30), <1>1, <3>1, <3>2, <3>3 DEF Budget
  <2>8. CASE Alloc(t)  BY SMTT(30), <1>4, <1>6, <2>8 DEF Alloc
  <2>9. CASE Insert(t)  BY <1>4, <1>6, <2>9 DEF Insert, Back
  <2> QED
    BY SMTT(30), <1>10, <2>1, <2>2, <2>3, <2>4, <2>5, <2>6, <2>7, <2>8, <2>9
       DEF Step
<1> QED  BY <1>7, <1>8, <1>9, <1>10 DEF Next

\* running_processes counts the processes and the one that is being made.
LEMMA CountedStep ==
    ASSUME CallersCount, TypeOK, Sound, Next, TypeOK', ~Panic'
    PROVE  Counted'
<1> USE DEF Goes
<1>1. Exclusive /\ Newborn /\ Counted /\ Budget /\ running_processes \in Nat
  BY DEF Sound, TypeOK
<1>2. Processes \subseteq Callers /\ Loader \notin Processes
  BY DEF Callers, Processes, Loader
<1>3. place \in [Callers -> Launching \cup {"boot", "none", "run", "exited", "panic"}]
  BY DEF TypeOK
<1>4. \A t, u \in Callers : place[t] \in Inside /\ place[u] \in Inside => t = u
  BY <1>1 DEF Exclusive, Holds
<1>5. ASSUME running_processes' = running_processes, Alive' = Alive, Born' = Born
      PROVE  Counted'
  BY SMTT(30), <1>1, <1>5 DEF Counted
<1>6. ASSUME LoaderStarts PROVE Counted'
  BY SMTT(30), <1>2, <1>3, <1>5, <1>6
     DEF LoaderStarts, Alive, Born, Exists, Launching
<1>7. ASSUME NEW p \in Processes, Loadproc(p) PROVE Counted'
  BY SMTT(30), <1>2, <1>3, <1>5, <1>7
     DEF Loadproc, Alive, Born, Exists, Launching
<1>8. ASSUME NEW p \in Processes, Exit(p) PROVE Counted'
  <2>1. running_processes' = running_processes - 1
    BY SMTT(30), <1>1, <1>8, Exact, ExitCounted DEF Exit
  <2>2. p \in Alive /\ Alive' = Alive \ {p} /\ Born' = Born
    BY <1>2, <1>3, <1>8 DEF Exit, Alive, Born, Exists, Launching
  <2>3. Cardinality(Alive') = Cardinality(Alive) - 1
    BY Zenon, <1>2, <2>2, Countable DEF CallersCount
  <2> QED  BY SMTT(30), <1>1, <2>1, <2>2, <2>3, Countable DEF Counted
<1>9. ASSUME NEW t \in Callers, Step(t) PROVE Counted'
  <2>1. CASE Acquire(t)
    BY SMTT(30), <1>2, <1>3, <1>5, <2>1
       DEF Acquire, Alive, Born, Exists, Launching
  <2>2. CASE Look(t)
    BY <1>2, <1>3, <1>5, <2>2 DEF Look, Alive, Born, Exists, Launching
  <2>3. CASE Wait(t)
    BY <1>2, <1>3, <1>5, <2>3 DEF Wait, Alive, Born, Exists, Launching
  <2>4. CASE Woken(t)
    BY SMTT(30), <1>2, <1>3, <1>5, <2>4
       DEF Woken, Back, Alive, Born, Exists, Launching
  <2>5. CASE Pass(t)
    BY SMTT(30), <1>2, <1>3, <1>5, <2>5 DEF Pass, Alive, Born, Exists, Launching
  <2>6. CASE NapOver(t)
    BY SMTT(30), <1>2, <1>3, <1>5, <2>6
       DEF NapOver, Alive, Born, Exists, Launching
  <2>7. CASE Count(t)
    <3>1. running_processes' = running_processes + 1
      BY SMTT(30), <1>1, <2>7, Exact DEF Count
    <3>2. t \notin Born /\ Born' = Born \cup {t} /\ Alive' = Alive
      BY <1>2, <1>3, <2>7 DEF Count, Alive, Born, Exists, Launching
    <3>3. Cardinality(Born') = Cardinality(Born) + 1
      BY Zenon, <3>2, Countable DEF CallersCount
    <3> QED  BY SMTT(30), <1>1, <3>1, <3>2, <3>3, Countable DEF Counted
  <2>8. CASE Alloc(t)
    <3>1. /\ place[t] = "alloc" /\ place' = [place EXCEPT ![t] = "vmem"]
          /\ running_processes' = running_processes
      BY SMTT(30), <2>8 DEF Alloc, Panic
    <3> QED  BY SMTT(30), <1>2, <1>3, <1>5, <3>1
                DEF Alive, Born, Exists, Launching
  <2>9. CASE Insert(t)
    <3>1. /\ created \in Processes /\ place[created] = "none"
          /\ place[t] = "vmem"
          /\ place' = [place EXCEPT ![t] = Back(t), ![created] = "run"]
          /\ running_processes' = running_processes
      BY SMTT(30), <1>1, <2>9 DEF Insert, Newborn
    <3>2. created \notin Alive /\ Alive' = Alive \cup {created}
      BY SMTT(30), <1>2, <1>3, <3>1 DEF Back, Alive, Born, Exists, Launching
    <3>3. t \in Born /\ Born' = Born \ {t}
      BY <1>2, <1>3, <3>1 DEF Back, Alive, Born, Exists, Launching
    <3>4. /\ Cardinality(Alive') = Cardinality(Alive) + 1
          /\ Cardinality(Born') = Cardinality(Born) - 1
      BY Zenon, <1>2, <3>1, <3>2, <3>3, Countable DEF CallersCount
    <3> QED  BY SMTT(30), <1>1, <3>1, <3>4, Countable DEF Counted
  <2> QED
    BY <1>9, <2>1, <2>2, <2>3, <2>4, <2>5, <2>6, <2>7, <2>8, <2>9 DEF Step
<1> QED  BY <1>6, <1>7, <1>8, <1>9 DEF Next

\* After the assertion in create_pcb_common() nothing moves any more.
LEMMA PanicStays == ASSUME TypeOK, Panic, Next PROVE FALSE
<1>1. /\ Loader \in Callers /\ Processes \subseteq Callers
      /\ \A t \in Callers : place[t] = "panic"
  BY DEF Panic, Callers
<1>2. ~LoaderStarts
  BY SMTT(30), <1>1 DEF LoaderStarts, Goes
<1>3. \A p \in Processes : ~Loadproc(p) /\ ~Exit(p)
  BY <1>1 DEF Loadproc, Exit, Goes
<1>4. \A t \in Callers : ~Step(t)
  BY <1>1
     DEF Step, Acquire, Look, Wait, Woken, Pass, NapOver, Count, Alloc, Insert, Goes
<1> QED  BY SMTT(30), <1>2, <1>3, <1>4 DEF Next

-----------------------------------------------------------------------------
(* The theorems.  The facts on cardinality come last: they are hypotheses  *)
(* of the lemmas above, and shown here from the library.                   *)

INSTANCE FiniteSetTheorems

\* The frames of a stack can be counted.
LEMMA FiniteFrames == FramesCount
<1>1. Cardinality({}) = 0 /\ Cardinality({2}) = 1
  BY Zenon, FS_EmptySet, FS_Singleton
<1>2. ASSUME NEW n \in Nat, NEW S \in SUBSET (1 .. n)
      PROVE  /\ Cardinality(S) \in Nat
             /\ Cardinality(S \cup {n + 1}) = Cardinality(S) + 1
             /\ n \in S => Cardinality(S \ {n}) = Cardinality(S) - 1
  <2>1. IsFiniteSet(1 .. n) /\ n + 1 \notin 1 .. n
    BY FS_Interval
  <2>2. IsFiniteSet(S) /\ n + 1 \notin S
    BY Zenon, <2>1, FS_Subset
  <2>3. Cardinality(S) \in Nat
    BY Zenon, <2>2, FS_CardinalityType
  <2>4. Cardinality(S \cup {n + 1}) = Cardinality(S) + 1
    BY Zenon, <2>2, FS_AddElement
  <2>5. n \in S => Cardinality(S \ {n}) = Cardinality(S) - 1
    BY Zenon, <2>2, FS_RemoveElement
  <2> QED  BY Zenon, <2>3, <2>4, <2>5
<1> QED  BY Zenon, <1>1, <1>2 DEF FramesCount

\* And on the tasks that call create_process().
LEMMA FiniteCallers == CallersCount
<1>1. IsFiniteSet(Processes)
  BY FS_Interval, LaunchAssumption DEF Processes
<1>2. IsFiniteSet(Callers)
  BY Zenon, <1>1, FS_AddElement DEF Callers
<1>3. ASSUME NEW T \in SUBSET Callers
      PROVE  /\ Cardinality(T) \in Nat /\ (Cardinality(T) = 0 <=> T = {})
             /\ \A t \in Callers :
                    /\ t \notin T => Cardinality(T \cup {t}) = Cardinality(T) + 1
                    /\ t \in T => Cardinality(T \ {t}) = Cardinality(T) - 1
  <2>1. IsFiniteSet(T)
    BY Zenon, <1>2, FS_Subset
  <2>2. Cardinality(T) \in Nat /\ (Cardinality(T) = 0 <=> T = {})
    BY Zenon, <2>1, FS_CardinalityType, FS_EmptySet
  <2>3. ASSUME NEW t \in Callers, t \notin T
        PROVE  Cardinality(T \cup {t}) = Cardinality(T) + 1
    BY Zenon, <2>1, <2>3, FS_AddElement
  <2>4. ASSUME NEW t \in Callers, t \in T
        PROVE  Cardinality(T \ {t}) = Cardinality(T) - 1
    BY Zenon, <2>1, <2>4, FS_RemoveElement
  <2> QED  BY Zenon, <2>2, <2>3, <2>4
<1> QED  BY Zenon, <1>3 DEF CallersCount

\* interrupt_asm.S, syscall_asm.S, sync.c, scheduler_asm.S: frames lie on each
\* stack in an order in which the counts and masks that the entry code keeps
\* can be undone, for any tasks and lines.
THEOREM NestingInvariant == InterruptsSpec => []NestingInv
<1>1. InterruptsInit => NestingInv
  BY Zenon, InterruptsStart, FiniteFrames
<1>2. NestingInv /\ [InterruptsNext]_interruptVars => NestingInv'
  BY Zenon, InterruptsStep, FiniteFrames
<1> QED  BY <1>1, <1>2, PTL DEF InterruptsSpec

\* However interrupts nest and tasks change in the middle of them, no assertion
\* of nointerrupt_leave_delayed() and syscall_dispatch() fails, nested_count
\* and the masked lines are those of the task that runs, and programs run with
\* interrupts enabled.
THEOREM NestingIsSound == InterruptsSpec => []NestingSound
<1>1. NestingInv => NestingSound
  BY Zenon DEF NestingInv
<1> QED  BY <1>1, NestingInvariant, PTL

\* create_process() and exit(): the invariant above, for any constants.
THEOREM LaunchInvariant == Spec => []LaunchInv
<1>1. Init => LaunchInv
  <2> SUFFICES ASSUME Init PROVE TypeOK /\ Sound
    BY DEF LaunchInv
  <2> USE DEF Init
  <2>1. TypeOK
    <3>1. created \in 0 .. NStacks /\ gate \in [space : Nat, waits : Nat]
      BY SMTT(30), LaunchAssumption
    <3>2. place \in [Callers -> Launching \cup {"boot", "none", "run", "exited", "panic"}]
      OBVIOUS
    <3>3. queue \in Seq(Callers) /\ running_processes \in Nat
      OBVIOUS
    <3>4. wait_load \in BOOLEAN
      BY Zenon
    <3> QED  BY <3>1, <3>2, <3>3, <3>4, Zenon DEF TypeOK
  <2>2. Exclusive /\ Newborn
    BY SMTT(30)
       DEF Exclusive, Newborn, Inside, Launching, Callers, Processes, Loader
  <2>3. Alive = {} /\ Born = {}
    BY SMTT(30) DEF Alive, Born, Exists, Launching, Callers, Processes, Loader
  <2>4. Counted
    BY SMTT(30), <2>3, FS_EmptySet DEF Counted
  <2>5. Budget
    BY LaunchAssumption DEF Budget, Used
  <2> QED  BY <2>1, <2>2, <2>4, <2>5 DEF Sound
<1>2. LaunchInv /\ [Next]_launchVars => LaunchInv'
  <2> SUFFICES ASSUME LaunchInv, [Next]_launchVars PROVE LaunchInv'
    OBVIOUS
  <2>1. CASE UNCHANGED launchVars
    BY <2>1 DEF launchVars, LaunchInv, TypeOK, Panic, Sound, Exclusive, Holds,
                Newborn, Counted, Alive, Born, Exists, Budget, Used
  <2>2. CASE Next
    <3>1. TypeOK /\ Sound
      BY <2>2, PanicStays DEF LaunchInv
    <3>2. TypeOK'
      BY SMTT(30), <2>2, <3>1, TypeStep
    <3>3. CASE Panic'
      BY SMTT(30), <3>2, <3>3 DEF LaunchInv
    <3>4. CASE ~Panic'
      <4>1. Exclusive' /\ Newborn' /\ Counted' /\ Budget'
        BY <2>2, <3>1, <3>2, <3>4, ExclusiveStep, NewbornStep, CountedStep,
           BudgetStep, FiniteCallers
      <4> QED  BY SMTT(30), <3>2, <4>1 DEF LaunchInv, Sound
    <3> QED  BY <3>3, <3>4
  <2> QED  BY <2>1, <2>2
<1> QED  BY <1>1, <1>2, PTL DEF Spec

\* pcb.c:305-331: whatever the number of frames, stacks and callers, the count
\* is right and the unsigned difference of pcb.c:307 never wraps around.
THEOREM GateHoldsAlways == Spec => []GateHolds
<1>1. LaunchInv => GateHolds
  <2> SUFFICES ASSUME LaunchInv, \A t \in Callers : place[t] # "panic" PROVE GateHolds
    BY DEF GateHolds
  <2>1. ~Panic
    BY DEF Panic, Callers
  <2>2. Counted /\ Budget
    BY <2>1 DEF LaunchInv, Sound
  <2> QED  BY SMTT(30), <2>2 DEF GateHolds, Counted, Budget, Used, Alive, Born
<1> QED  BY <1>1, LaunchInvariant, PTL
=============================================================================
