---------------------------- MODULE PagingProofs ----------------------------
(***************************************************************************)
(* What Paging keeps for any number of frames, processes and pages and     *)
(* either eviction strategy, with or without disk errors: the part of its  *)
(* invariant that holds whether or not page_map_lock excludes, then the    *)
(* steps outside the lock, then those under it.                            *)
(***************************************************************************)
EXTENDS Paging, QueueLemmas, TLAPS

-----------------------------------------------------------------------------
(* The part of the invariant that needs no mutual exclusion *)

Base == TypeOK /\ ThreadsOK /\ WaitersOK

\* A waiter of page_map_lock is blocked, so it is not the thread that acts,
\* and a release wakes the first waiter and leaves the others waiting.
LEMMA ReleaseFacts ==
    ASSUME Base, NEW t \in Threads, NEW next \in Steps,
           pc[t] # "blocked", next # "blocked", LockRelease(t, next)
    PROVE  /\ locked' = FALSE
           /\ waitq' \in Seq(Threads)
           /\ pc' \in [Threads -> Steps]
           /\ pc'[t] = next
           /\ \A u \in Threads \ {t} :
                \/ pc'[u] = pc[u]
                \/ pc[u] = "blocked" /\ pc'[u] = "acquire"
           /\ WaitersOK'
<1>1. waitq \in Seq(Threads) /\ pc \in [Threads -> Steps]
  BY Zenon DEF Base, TypeOK
<1>2. CASE waitq = <<>>
  <2>1. waitq' = <<>> /\ pc' = [u \in Threads |-> IF u = t THEN next ELSE pc[u]]
    BY Zenon, <1>2 DEF LockRelease
  <2>2. WaitersOK'
    BY <2>1, EmptyFacts DEF WaitersOK, Distinct
  <2> QED  BY Zenon, <1>1, <1>2, <2>1, <2>2 DEF LockRelease
<1>3. CASE waitq # <<>>
  <2>1. /\ Head(waitq) \in Threads /\ Head(waitq) = waitq[1]
        /\ waitq' = Tail(waitq) /\ Tail(waitq) \in Seq(Threads)
        /\ Len(waitq) \in Nat /\ Len(waitq) >= 1
        /\ Len(Tail(waitq)) = Len(waitq) - 1
        /\ \A i \in 1 .. Len(waitq) - 1 : Tail(waitq)[i] = waitq[i + 1]
        /\ Distinct(waitq')
    BY Zenon, <1>1, <1>3, TailFacts DEF LockRelease, Base, WaitersOK
  <2>2. Head(waitq) # t /\ pc[Head(waitq)] = "blocked"
    BY <2>1 DEF Base, WaitersOK
  <2>3. pc' = [u \in Threads |-> IF u = t THEN next
                                 ELSE IF u = Head(waitq) THEN "acquire" ELSE pc[u]]
    BY Zenon, <1>3, <2>2 DEF LockRelease
  <2>4. "acquire" \in Steps
    BY Zenon DEF Steps
  <2>5. ASSUME NEW i \in 1 .. Len(waitq') PROVE pc'[waitq'[i]] = "blocked"
    <3>1. /\ i + 1 \in 1 .. Len(waitq) /\ waitq'[i] = waitq[i + 1]
          /\ 1 \in 1 .. Len(waitq) /\ i + 1 # 1
      BY <2>1, <2>5
    <3>2. waitq[i + 1] # Head(waitq) /\ pc[waitq[i + 1]] = "blocked"
      BY Zenon, <2>1, <3>1 DEF Base, WaitersOK, Distinct
    <3>3. waitq[i + 1] \in Threads /\ waitq[i + 1] # t
      BY Zenon, <1>1, <3>1, <3>2, SeqFacts
    <3> QED  BY Zenon, <2>3, <3>1, <3>2, <3>3
  <2>6. WaitersOK'
    BY Zenon, <2>1, <2>5 DEF WaitersOK
  <2> QED  BY <1>1, <1>3, <2>1, <2>2, <2>3, <2>4, <2>6 DEF LockRelease
<1> QED  BY Zenon, <1>2, <1>3

\* A step that moves only threads that are not blocked leaves the waiters.
LEMMA WaitersKept ==
    ASSUME Base, waitq' = waitq,
           \A u \in Threads : pc[u] = "blocked" => pc'[u] = "blocked"
    PROVE  WaitersOK'
<1>1. \A i \in 1 .. Len(waitq) : waitq[i] \in Threads
  BY Zenon, SeqFacts DEF Base, TypeOK
<1> QED  BY Zenon, <1>1 DEF Base, WaitersOK

\* Every step keeps the types, the threads' local variables and the wait
\* queue in order.
LEMMA BaseStep == Base /\ Next => Base'
<1> SUFFICES ASSUME Base, Next PROVE Base'
  BY Zenon
<1> USE PagingAssumption DEF Threads
<1>types. TypeOK /\ ThreadsOK
  BY Zenon DEF Base
<1>1. ASSUME NEW p \in Procs, Launch(p) PROVE Base'
  <2>1. TypeOK'
    BY SMTT(30), <1>types, <1>1
       DEF Launch, Creator, Running, TypeOK, ThreadsOK, Steps, 
           Holding, Jobs, lockVars, tableVars, dataVars
  <2>2. ThreadsOK'
    BY <1>types, <1>1 DEF Launch, Creator, Running, TypeOK, ThreadsOK, Jobs
  <2>3. WaitersOK'
    BY Zenon, <1>types, <1>1, WaitersKept DEF Launch, Creator, Running, TypeOK,
           lockVars
  <2> QED  BY Zenon, <2>1, <2>2, <2>3 DEF Base
<1>2. ASSUME NEW p \in Procs, NEW v \in Pages, Fault(p, v) PROVE Base'
  <2>1. TypeOK'
    BY SMTT(30), <1>types, <1>2
       DEF Fault, Running, TypeOK, ThreadsOK, Steps, Holding, 
           Jobs, lockVars, tableVars, dataVars
  <2>2. ThreadsOK'
    BY <1>types, <1>2 DEF Fault, Running, TypeOK, ThreadsOK, Jobs
  <2>3. WaitersOK'
    BY Zenon, <1>types, <1>2, WaitersKept DEF Fault, Running, TypeOK, lockVars
  <2> QED  BY Zenon, <2>1, <2>2, <2>3 DEF Base
<1>3. ASSUME NEW p \in Procs, NEW v \in Pages, NEW val \in Values, Write(p, v, val) PROVE Base'
  <2>1. TypeOK'
    BY Zenon, <1>types, <1>3 DEF Write, Running, TypeOK, ThreadsOK, Contents,
           lockVars
  <2>2. ThreadsOK'
    BY Zenon, <1>types, <1>3 DEF Write, Running, TypeOK, ThreadsOK
  <2>3. WaitersOK'
    BY Zenon, <1>types, <1>3, WaitersKept DEF Write, Running, TypeOK, lockVars
  <2> QED  BY Zenon, <2>1, <2>2, <2>3 DEF Base
<1>4. ASSUME NEW p \in Procs, Exit(p) PROVE Base'
  <2>1. TypeOK'
    BY Zenon, <1>types, <1>4 DEF Exit, Running, TypeOK, ThreadsOK, lockVars,
           tableVars, dataVars
  <2>2. ThreadsOK'
    BY Zenon, <1>types, <1>4 DEF Exit, Running, TypeOK, ThreadsOK
  <2>3. WaitersOK'
    BY Zenon, <1>types, <1>4, WaitersKept DEF Exit, Running, TypeOK, lockVars
  <2> QED  BY Zenon, <2>1, <2>2, <2>3 DEF Base
<1>5. ASSUME NEW t \in Threads, Acquire(t) PROVE Base'
  <2>1. TypeOK'
    BY Zenon, <1>types, <1>5 DEF Acquire, TypeOK, ThreadsOK, Steps, Holding,
           tableVars, dataVars
  <2>2. ThreadsOK'
    BY Zenon, <1>types, <1>5 DEF Acquire, TypeOK, ThreadsOK
  <2>3. WaitersOK'
    BY Zenon, <1>types, <1>5, WaitersKept DEF Acquire, TypeOK, lockVars
  <2> QED  BY Zenon, <2>1, <2>2, <2>3 DEF Base
<1>6. ASSUME NEW t \in Threads, Block(t) PROVE Base'
  <2>1. /\ waitq' = Append(waitq, t) /\ waitq' \in Seq(Threads)
        /\ Len(waitq) \in Nat /\ Len(waitq') = Len(waitq) + 1
        /\ \A i \in 1 .. Len(waitq) : waitq'[i] = waitq[i]
        /\ waitq'[Len(waitq) + 1] = t
        /\ Distinct(waitq) /\ t \notin Items(waitq) => Distinct(waitq')
    BY <1>types, <1>6, AppendFacts, SeqFacts DEF Block, TypeOK
  <2>2. TypeOK'
    BY Zenon, <1>types, <1>6, <2>1 DEF Block, TypeOK, ThreadsOK, Steps, Holding,
           tableVars, dataVars
  <2>3. ThreadsOK'
    BY Zenon, <1>types, <1>6
       DEF Block, TypeOK, ThreadsOK, Steps, Holding, Failed
  <2>4. \A i \in 1 .. Len(waitq) : waitq[i] \in Threads /\ pc[waitq[i]] = "blocked"
    BY Zenon, SeqFacts DEF Base, TypeOK, WaitersOK
  <2>5. t \notin Items(waitq)
    BY Zenon, <1>6, <2>4 DEF Block, Items
  <2>6. WaitersOK'
    <3>1. Distinct(waitq')
      BY Zenon, <2>1, <2>5 DEF Base, WaitersOK
    <3>2. ASSUME NEW i \in 1 .. Len(waitq') PROVE pc'[waitq'[i]] = "blocked"
      <4>1. CASE i \in 1 .. Len(waitq)
        BY Zenon, <1>types, <1>6, <2>1, <2>4, <4>1 DEF Block, TypeOK
      <4>2. CASE i = Len(waitq) + 1
        BY Zenon, <1>types, <1>6, <2>1, <4>2 DEF Block, TypeOK
      <4> QED  BY <2>1, <4>1, <4>2
    <3> QED  BY Zenon, <3>1, <3>2 DEF WaitersOK
  <2> QED  BY Zenon, <2>2, <2>3, <2>6 DEF Base
<1>7. ASSUME NEW t \in Threads, AllocateFree(t) PROVE Base'
  <2>0. Head(freeList) \in Frames /\ freeList' \in Seq(Frames)
    BY Zenon, <1>types, <1>7, TailFacts DEF AllocateFree, TypeOK
  <2>1. TypeOK'
    BY Zenon, <1>types, <1>7, <2>0
       DEF AllocateFree, ZeroFrom, TypeOK, ThreadsOK, 
           Steps, Holding, Contents, lockVars
  <2>2. ThreadsOK'
    BY Zenon, <1>types, <1>7, <2>0 DEF AllocateFree, TypeOK, ThreadsOK, NoFrame
  <2>3. WaitersOK'
    BY Zenon, <1>types, <1>7, WaitersKept DEF AllocateFree, TypeOK, lockVars
  <2> QED  BY Zenon, <2>1, <2>2, <2>3 DEF Base
<1>sel. ASSUME NEW f \in Frames, Select(f) PROVE fifo' \in Seq(Frames)
  <2>1. fifo \in Seq(Frames)
    BY Zenon, <1>types DEF TypeOK
  <2>2. CASE fifo # <<>> /\ fifo' = Tail(fifo)
    BY Zenon, <2>1, <2>2, TailFacts
  <2>3. CASE fifo' = fifo
    BY Zenon, <2>1, <2>3
  <2> QED  BY Zenon, <1>sel, <2>2, <2>3 DEF Select
<1>free. ASSUME NEW f \in Frames, PageFree(f)
         PROVE  /\ map' \in [Procs -> [Pages -> Frames \cup {NoFrame}]]
                /\ dirty' \in [Procs -> [Pages -> BOOLEAN]]
                /\ info' \in [Frames -> Infos]
                /\ freeList' \in Seq(Frames)
  BY Zenon, <1>types, <1>free DEF PageFree, TypeOK, FreeInfo, Infos
<1>8. ASSUME NEW t \in Threads, NEW f \in Frames, EvictClean(t, f) PROVE Base'
  <2>1. TypeOK'
    BY Zenon, <1>types, <1>8, <1>sel, <1>free DEF EvictClean, TypeOK, ThreadsOK,
           Steps, Holding, lockVars, dataVars
  <2>2. ThreadsOK'
    BY Zenon, <1>types, <1>8 DEF EvictClean, TypeOK, ThreadsOK, NoFrame
  <2>3. WaitersOK'
    BY Zenon, <1>types, <1>8, WaitersKept DEF EvictClean, TypeOK, lockVars
  <2> QED  BY Zenon, <2>1, <2>2, <2>3 DEF Base
<1>9. ASSUME NEW t \in Threads, NEW f \in Frames, EvictDirty(t, f) PROVE Base'
  <2>1. TypeOK'
    BY Zenon, <1>types, <1>9, <1>sel DEF EvictDirty, TypeOK, ThreadsOK, Steps,
           Holding, lockVars, dataVars
  <2>2. ThreadsOK'
    BY Zenon, <1>types, <1>9 DEF EvictDirty, TypeOK, ThreadsOK, NoFrame
  <2>3. WaitersOK'
    BY Zenon, <1>types, <1>9, WaitersKept DEF EvictDirty, TypeOK, lockVars
  <2> QED  BY Zenon, <2>1, <2>2, <2>3 DEF Base
<1>10. ASSUME NEW t \in Threads, WriteBack(t) PROVE Base'
  <2>0. content[frame[t]] \in Contents
    BY Zenon, <1>types, <1>10 DEF WriteBack, TypeOK, ThreadsOK
  <2>d. disk' \in [Procs -> [Pages -> Contents]]
    <3> DEFINE p == info[frame[t]].owner
               v == info[frame[t]].page
    <3>1. disk \in [Procs -> [Pages -> Contents]]
      BY Zenon, <1>types DEF TypeOK
    <3>2. CASE disk' = [disk EXCEPT ![p][v] = content[frame[t]]]
      BY Zenon, <2>0, <3>1, <3>2
    <3>3. CASE disk' = disk
      BY Zenon, <3>1, <3>3
    <3> QED  BY Zenon, <1>10, <3>2, <3>3 DEF WriteBack
  <2>1. TypeOK'
    BY Zenon, <1>types, <1>10, <2>d DEF WriteBack, TypeOK, ThreadsOK, Steps,
           Holding, lockVars, tableVars
  <2>2. ThreadsOK'
    BY Zenon, <1>types, <1>10 DEF WriteBack, TypeOK, ThreadsOK
  <2>3. WaitersOK'
    BY Zenon, <1>types, <1>10, WaitersKept DEF WriteBack, TypeOK, lockVars
  <2> QED  BY Zenon, <2>1, <2>2, <2>3 DEF Base
<1>11. ASSUME NEW t \in Threads, FinishEvict(t) PROVE Base'
  <2>1. TypeOK'
    BY Zenon, <1>types, <1>11, <1>free
       DEF FinishEvict, TypeOK, ThreadsOK, Steps, 
           Holding, lockVars, dataVars
  <2>2. ThreadsOK'
    BY Zenon, <1>types, <1>11 DEF FinishEvict, TypeOK, ThreadsOK
  <2>3. WaitersOK'
    BY Zenon, <1>types, <1>11, WaitersKept DEF FinishEvict, TypeOK, lockVars
  <2> QED  BY Zenon, <2>1, <2>2, <2>3 DEF Base
<1>12. ASSUME NEW t \in Threads, NoVictim(t) PROVE Base'
  <2>1. TypeOK'
    BY Zenon, <1>types, <1>12
       DEF NoVictim, TypeOK, ThreadsOK, lockVars, tableVars, 
           dataVars
  <2>2. ThreadsOK'
    BY Zenon, <1>types, <1>12 DEF NoVictim, TypeOK, ThreadsOK
  <2>3. WaitersOK'
    BY ZenonT(30), <1>types, <1>12, WaitersKept DEF NoVictim, TypeOK, lockVars
  <2> QED  BY Zenon, <2>1, <2>2, <2>3 DEF Base
<1>13. ASSUME NEW t \in Threads, DiskRead(t) PROVE Base'
  <2>1. TypeOK'
    BY <1>types, <1>13 DEF DiskRead, TypeOK, ThreadsOK, Steps, Holding,
           Contents, lockVars, tableVars
  <2>2. ThreadsOK'
    BY Zenon, <1>types, <1>13 DEF DiskRead, TypeOK, ThreadsOK
  <2>3. WaitersOK'
    BY Zenon, <1>types, <1>13, WaitersKept DEF DiskRead, TypeOK, lockVars
  <2> QED  BY Zenon, <2>1, <2>2, <2>3 DEF Base
<1>14. ASSUME NEW t \in Threads, DiskReadFails(t) PROVE Base'
  <2>1. TypeOK'
    BY Zenon, <1>types, <1>14
       DEF DiskReadFails, TypeOK, ThreadsOK, Steps, Holding, 
           Failed, lockVars, tableVars, dataVars
  <2>2. ThreadsOK'
    BY Zenon, <1>types, <1>14 DEF DiskReadFails, TypeOK, ThreadsOK, Failed
  <2>3. WaitersOK'
    BY Zenon, <1>types, <1>14, WaitersKept DEF DiskReadFails, TypeOK, lockVars
  <2> QED  BY Zenon, <2>1, <2>2, <2>3 DEF Base
<1>15. ASSUME NEW t \in Threads, MapPage(t) PROVE Base'
  <2>0. frame[t] \in Frames /\ job[t].proc \in Procs /\ job[t].page \in Pages
    BY Zenon, <1>types, <1>15 DEF MapPage, ThreadsOK
  <2>1. fifo' \in Seq(Frames)
    BY Zenon, <1>types, <1>15, <2>0, AppendFacts
       DEF MapPage, FifoEnqueue, TypeOK
  <2>2. TypeOK'
    BY Zenon, <1>types, <1>15, <2>0, <2>1
       DEF MapPage, DataInfo, TypeOK, ThreadsOK, 
           Steps, Holding, Infos, Owners, lockVars, dataVars
  <2>3. ThreadsOK'
    BY Zenon, <1>types, <1>15
       DEF MapPage, TypeOK, ThreadsOK, Steps, Holding, Failed
  <2>4. WaitersOK'
    BY Zenon, <1>types, <1>15, WaitersKept DEF MapPage, TypeOK, lockVars
  <2> QED  BY Zenon, <2>2, <2>3, <2>4 DEF Base
<1>16. ASSUME NEW t \in Threads, SetupStage(t) PROVE Base'
  <2>0. /\ pc[t] = "alloced" /\ frame[t] \in Frames
        /\ job[t].proc \in Procs /\ job[t].stage \in 1 .. 3
    <3>1. job[t] \in Jobs /\ job[t].stage > 0
      BY Zenon, <1>types, <1>16 DEF SetupStage, TypeOK
    <3>2. job[t].stage \in 0 .. 3
      BY <3>1 DEF Jobs, NoJob
    <3> QED  BY SMTT(30), <1>types, <1>16, <3>1, <3>2 DEF SetupStage, ThreadsOK
  <2>1. /\ job' \in [Threads -> Jobs]
        /\ job'[t].proc = job[t].proc /\ job'[t].stage \in 1 .. 3
        /\ \A u \in Threads \ {t} : job'[u] = job[u]
    <3>0. job \in [Threads -> Jobs]
      BY Zenon, <1>types DEF TypeOK
    <3>1. CASE job[t].stage = 3
      BY Zenon, <1>16, <2>0, <3>0, <3>1 DEF SetupStage
    <3>2. CASE job[t].stage # 3
      <4> DEFINE j == [proc |-> job[t].proc, page |-> NoPage, stage |-> job[t].stage + 1]
      <4>1. j \in Jobs /\ j.proc = job[t].proc /\ j.stage \in 1 .. 3
        BY <2>0, <3>2 DEF Jobs
      <4>2. job' = [job EXCEPT ![t] = j]
        BY Zenon, <1>16, <3>2 DEF SetupStage
      <4> QED  BY Zenon, <3>0, <4>1, <4>2
    <3> QED  BY Zenon, <3>1, <3>2
  <2>2. /\ pc' \in [Threads -> Steps] /\ pc'[t] \in {"release", "alloc"}
        /\ \A u \in Threads \ {t} : pc'[u] = pc[u]
    BY Zenon, <1>types, <1>16 DEF SetupStage, TypeOK, Steps, Holding
  <2>3. info' \in [Frames -> Infos] /\ content' \in [Frames -> Contents]
    BY Zenon, <1>types, <1>16, <2>0 DEF SetupStage, PinnedInfo, TypeOK, Infos,
           Owners, Contents
  <2>4. TypeOK'
    BY Zenon, <1>types, <1>16, <2>1, <2>2, <2>3
       DEF SetupStage, TypeOK, Frames, NoFrame, lockVars
  <2>5. ThreadsOK'
    <3>1. \A u \in Threads \ {t} : frame'[u] = frame[u]
      BY Zenon, <1>types, <1>16 DEF SetupStage, TypeOK
    <3>2. job'[t].stage # 0
      BY <2>1
    <3> QED  BY <1>types, <2>0, <2>1, <2>2, <3>1, <3>2 DEF ThreadsOK
  <2>6. WaitersOK'
    BY Zenon, <1>types, <1>16, <2>2, WaitersKept
       DEF SetupStage, TypeOK, lockVars
  <2> QED  BY Zenon, <2>4, <2>5, <2>6 DEF Base
<1>17. ASSUME NEW t \in Threads, Release(t) PROVE Base'
  <2>0. /\ waitq' \in Seq(Threads) /\ locked' = FALSE
        /\ pc' \in [Threads -> Steps] /\ pc'[t] = "run"
        /\ \A u \in Threads \ {t} :
             pc'[u] = pc[u] \/ (pc[u] = "blocked" /\ pc'[u] = "acquire")
        /\ WaitersOK'
    BY Zenon, <1>17, ReleaseFacts DEF Release, Steps, Holding, Failed
  <2>1. TypeOK'
    BY Zenon, <1>types, <1>17, <2>0 DEF Release, TypeOK, ThreadsOK, Jobs,
           NoJob, tableVars, dataVars
  <2>2. ThreadsOK'
    BY ZenonT(30), <1>types, <1>17, <2>0 DEF Release, TypeOK, ThreadsOK, Jobs,
           NoJob
  <2> QED  BY Zenon, <2>0, <2>1, <2>2 DEF Base
<1>18. ASSUME NEW t \in Threads, FailRelease(t) PROVE Base'
  <2>0. /\ waitq' \in Seq(Threads) /\ locked' = FALSE
        /\ pc' \in [Threads -> Steps] /\ pc'[t] = "released"
        /\ \A u \in Threads \ {t} :
             pc'[u] = pc[u] \/ (pc[u] = "blocked" /\ pc'[u] = "acquire")
        /\ WaitersOK'
    BY Zenon, <1>18, ReleaseFacts DEF FailRelease, Steps, Holding, Failed
  <2>1. TypeOK'
    BY Zenon, <1>types, <1>18, <2>0 DEF FailRelease, TypeOK, ThreadsOK,
           tableVars, dataVars
  <2>2. ThreadsOK'
    BY ZenonT(30), <1>types, <1>18, <2>0 DEF FailRelease, TypeOK, ThreadsOK
  <2> QED  BY Zenon, <2>0, <2>1, <2>2 DEF Base
<1>19. ASSUME NEW t \in Threads, FailReleaseAgain(t) PROVE Base'
  <2>0. /\ waitq' \in Seq(Threads) /\ locked' = FALSE
        /\ pc' \in [Threads -> Steps] /\ pc'[t] = "abort"
        /\ \A u \in Threads \ {t} :
             pc'[u] = pc[u] \/ (pc[u] = "blocked" /\ pc'[u] = "acquire")
        /\ WaitersOK'
    BY Zenon, <1>19, ReleaseFacts DEF FailReleaseAgain, Steps, Holding, Failed
  <2>1. TypeOK'
    BY Zenon, <1>types, <1>19, <2>0 DEF FailReleaseAgain, TypeOK, ThreadsOK,
           tableVars, dataVars
  <2>2. ThreadsOK'
    BY Zenon, <1>types, <1>19, <2>0 DEF FailReleaseAgain, TypeOK, ThreadsOK
  <2> QED  BY Zenon, <2>0, <2>1, <2>2 DEF Base
<1>20. ASSUME NEW t \in Threads, Abort(t) PROVE Base'
  <2>1. TypeOK'
    BY Zenon, <1>types, <1>20 DEF Abort, TypeOK, ThreadsOK, Failed, lockVars,
           tableVars, dataVars
  <2>2. ThreadsOK'
    BY Zenon, <1>types, <1>20 DEF Abort, TypeOK, ThreadsOK, Failed
  <2>3. WaitersOK'
    BY Zenon, <1>types, <1>20, WaitersKept DEF Abort, TypeOK, lockVars
  <2> QED  BY Zenon, <2>1, <2>2, <2>3 DEF Base
<1> QED
  BY Zenon, <1>1, <1>2, <1>3, <1>4, <1>5, <1>6, <1>7, <1>8, <1>9, <1>10, <1>11,
     <1>12, <1>13, <1>14, <1>15, <1>16, <1>17, <1>18, <1>19, <1>20 DEF Next,
         User, KernelStep

\* A thread whose disk read failed goes on to the abort, whatever others do.
LEMMA FailureStays == Base /\ FailureSeen /\ Next => FailureSeen'
<1> SUFFICES ASSUME Base, FailureSeen, Next PROVE FailureSeen'
  BY Zenon
<1>1. PICK x \in Threads : pc[x] \in Failed
  BY Zenon DEF FailureSeen
<1>2. pc \in [Threads -> Steps] /\ Failed \subseteq Steps
  BY Zenon DEF Base, TypeOK, Steps
<1>3. SUFFICES pc'[x] \in Failed
  BY Zenon, <1>3 DEF FailureSeen
<1>4. ASSUME NEW p \in Procs, Launch(p) \/ User(p) PROVE pc'[x] \in Failed
  BY Zenon, <1>1, <1>2, <1>4, PagingAssumption
     DEF Launch, User, Fault, Write, Exit, Running, Creator, Failed, Threads
<1>5. ASSUME NEW t \in Threads, NEW next \in {"run", "released", "abort"},
             pc[t] # "blocked", LockRelease(t, next),
             pc[t] \in Failed => next \in Failed
      PROVE  pc'[x] \in Failed
  <2>1. next \in Steps /\ next # "blocked" /\ pc[x] # "blocked"
    BY Zenon, <1>1, <1>5 DEF Steps, Holding, Failed
  <2>2. pc'[t] = next /\ (x # t => pc'[x] = pc[x])
    BY Zenon, <1>5, <2>1, ReleaseFacts
  <2> QED  BY Zenon, <1>1, <1>5, <2>2
<1>6. ASSUME NEW t \in Threads, KernelStep(t) PROVE pc'[x] \in Failed
  <2>1. CASE Release(t)
    BY Zenon, <1>5, <2>1 DEF Release, Failed
  <2>2. CASE FailRelease(t)
    BY Zenon, <1>5, <2>2 DEF FailRelease, Failed
  <2>3. CASE FailReleaseAgain(t)
    BY Zenon, <1>5, <2>3 DEF FailReleaseAgain, Failed
  <2>4. CASE Acquire(t) \/ Block(t) \/ AllocateFree(t) \/ WriteBack(t)
             \/ FinishEvict(t) \/ NoVictim(t)
    BY Zenon, <1>1, <1>2, <2>4
       DEF Acquire, Block, AllocateFree, WriteBack, FinishEvict, NoVictim, Failed
  <2>5. CASE DiskRead(t) \/ DiskReadFails(t) \/ MapPage(t) \/ SetupStage(t)
             \/ Abort(t)
    BY Zenon, <1>1, <1>2, <2>5
       DEF DiskRead, DiskReadFails, MapPage, SetupStage, Abort, Failed
  <2>6. ASSUME NEW f \in Frames, EvictClean(t, f) \/ EvictDirty(t, f)
        PROVE  pc'[x] \in Failed
    BY Zenon, <1>1, <1>2, <2>6 DEF EvictClean, EvictDirty, Failed
  <2> QED  BY Zenon, <1>6, <2>1, <2>2, <2>3, <2>4, <2>5, <2>6 DEF KernelStep
<1> QED  BY Zenon, <1>4, <1>6 DEF Next

-----------------------------------------------------------------------------
(* Initial states *)

\* The boot-time free list is the ascending run of the frames above the
\* kernel's.
LEMMA BootFreeListFacts ==
    /\ BootFreeList \in Seq(Frames)
    /\ Len(BootFreeList) = NFrames - KernelFrames
    /\ \A i \in 1 .. Len(BootFreeList) : BootFreeList[i] = KernelFrames + i - 1
    /\ Distinct(BootFreeList)
    /\ Items(BootFreeList) = KernelFrames .. NFrames - 1
<1> DEFINE n == NFrames - KernelFrames
<1>1. n \in Nat
  BY PagingAssumption DEF KernelFrames
<1>2. BootFreeList \in [1 .. n -> Frames]
  BY PagingAssumption DEF BootFreeList, Frames, KernelFrames
<1>3. BootFreeList \in Seq(Frames) /\ Len(BootFreeList) = n
  BY Zenon, <1>1, <1>2, FunctionIsSeq
<1>4. \A i \in 1 .. n : BootFreeList[i] = KernelFrames + i - 1
  BY Zenon DEF BootFreeList
<1>5. Distinct(BootFreeList)
  BY <1>1, <1>3, <1>4 DEF Distinct, KernelFrames
<1>6. Items(BootFreeList) = KernelFrames .. NFrames - 1
  <2>1. ASSUME NEW x \in Items(BootFreeList) PROVE x \in KernelFrames .. NFrames - 1
    BY <1>1, <1>3, <1>4, PagingAssumption DEF Items, KernelFrames
  <2>2. ASSUME NEW x \in KernelFrames .. NFrames - 1 PROVE x \in Items(BootFreeList)
    <3>1. x - KernelFrames + 1 \in 1 .. n
          /\ x = BootFreeList[x - KernelFrames + 1]
      BY <1>1, <1>4, PagingAssumption DEF KernelFrames
    <3> QED  BY Zenon, <1>3, <3>1 DEF Items
  <2> QED  BY Zenon, <2>1, <2>2
<1> QED  BY Zenon, <1>3, <1>4, <1>5, <1>6

\* init_memory() establishes the invariant.
LEMMA InitInv == Init => Inv
<1> SUFFICES ASSUME Init PROVE Inv
  BY Zenon
<1> USE PagingAssumption
<1>1. TypeOK
  BY Zenon, BootFreeListFacts, EmptyFacts
     DEF Init, TypeOK, Steps, Jobs, NoJob, Infos, FreeInfo, PinnedInfo, Owners,
         Contents, Frames, NoFrame, KernelFrames
<1>2. ThreadsOK
  BY Zenon DEF Init, ThreadsOK
<1>3. WaitersOK
  BY EmptyFacts DEF Init, WaitersOK, Distinct
<1>4. LockExclusive
  BY Zenon DEF Init, LockExclusive, Holding
<1>5. FrameAccounting
  BY BootFreeListFacts
     DEF Init, FrameAccounting, Owned, InFlight, Frames, KernelFrames, Owners,
         FreeInfo, PinnedInfo
<1>6. MappingAgrees
  BY Zenon DEF Init, MappingAgrees, Owned, FreeInfo, PinnedInfo
<1>7. FifoComplete
  BY EmptyFacts DEF Init, FifoComplete, Items, Distinct, Owned, FreeInfo,
         PinnedInfo
<1>8. CleanMatchesDisk /\ GivesUpOnlyWhenPinned
  BY Zenon DEF Init, CleanMatchesDisk, GivesUpOnlyWhenPinned
<1>9. FreeListIsTail
  BY BootFreeListFacts DEF Init, FreeListIsTail, KernelFrames
<1>10. HolderOK
  BY Zenon DEF Init, HolderOK
<1>11. KernelPinned /\ PinnedOwned
  BY DEF Init, KernelPinned, PinnedOwned, Owned, Frames, KernelFrames, Owners,
         FreeInfo, PinnedInfo
<1>12. FifoRoom
  BY BootFreeListFacts, EmptyFacts DEF Init, FifoRoom, Busy, KernelFrames
<1> QED
  BY Zenon, <1>1, <1>2, <1>3, <1>4, <1>5, <1>6, <1>7, <1>8, <1>9, <1>10, <1>11,
     <1>12
     DEF Inv, Safe

-----------------------------------------------------------------------------
(* Steps outside the lock, and taking and leaving it *)

\* A step that changes no table, no page and no busy thread keeps Safe, if it
\* keeps what the lock is for.
LEMMA QuietStep ==
    ASSUME Base, Safe,
           UNCHANGED <<kernel, frame, tableVars, dataVars>>,
           \A u \in Threads : pc'[u] = pc[u] \/ {pc[u], pc'[u]} \cap Busy = {},
           LockExclusive', HolderOK'
    PROVE  Safe'
<1>1. \A u \in Threads, f \in Frames :
        /\ InFlight(u, f)' <=> InFlight(u, f)
        /\ WritingBack(u, f)' <=> WritingBack(u, f)
  BY Zenon DEF InFlight, WritingBack, Busy
<1>2. \A f \in Frames : Owned(f)' <=> Owned(f)
  BY Zenon DEF Owned, tableVars
<1>3. FrameAccounting'
  BY <1>1, <1>2 DEF Safe, FrameAccounting, tableVars, Distinct, Items
<1>4. FifoComplete'
  BY ZenonT(30), <1>1, <1>2 DEF Safe, FifoComplete, tableVars, Distinct, Items
<1>5. MappingAgrees' /\ CleanMatchesDisk' /\ GivesUpOnlyWhenPinned'
      /\ FreeListIsTail' /\ KernelPinned' /\ PinnedOwned'
  BY DEF Safe, MappingAgrees, CleanMatchesDisk, GivesUpOnlyWhenPinned,
         FreeListIsTail, KernelPinned, PinnedOwned, Owned, tableVars, dataVars
<1>6. FifoRoom'
  BY Zenon DEF Safe, FifoRoom, tableVars
<1> QED  BY Zenon, <1>3, <1>4, <1>5, <1>6 DEF Safe

\* The launch of a process, a page fault, an exit and the lock operations.
LEMMA SafeQuiet ==
    ASSUME Base, Safe,
           \/ \E p \in Procs : Launch(p) \/ Exit(p) \/ \E v \in Pages : Fault(p, v)
           \/ \E t \in Threads : Acquire(t) \/ Block(t) \/ Release(t)
    PROVE  Safe'
<1>0. \A p \in Procs : p \in Threads /\ Creator(p) \in Threads
  BY Zenon, PagingAssumption DEF Threads, Creator
<1>1. pc \in [Threads -> Steps] /\ job \in [Threads -> Jobs]
  BY Zenon DEF Base, TypeOK
<1>2. LockExclusive /\ HolderOK
  BY Zenon DEF Safe
<1>3. ASSUME NEW p \in Procs, Launch(p) PROVE Safe'
  <2>0. PICK t \in Threads : t = Creator(p)
    BY Zenon, <1>0
  <2>1. /\ pc[t] = "run" /\ pc'[t] = "acquire" /\ job'[t].stage = 1
        /\ \A u \in Threads \ {t} : pc'[u] = pc[u] /\ job'[u] = job[u]
        /\ UNCHANGED <<kernel, locked, frame, tableVars, dataVars>>
    BY Zenon, <1>1, <1>3, <2>0 DEF Launch, Running, lockVars
  <2>2. LockExclusive'
    BY ZenonT(30), <1>2, <2>1 DEF LockExclusive, Holding
  <2>3. HolderOK'
    BY <1>2, <2>1 DEF HolderOK, Owned, tableVars, dataVars
  <2> QED  BY Zenon, <2>1, <2>2, <2>3, QuietStep DEF Busy
<1>4. ASSUME NEW p \in Procs, Exit(p) PROVE Safe'
  <2>1. LockExclusive' /\ HolderOK'
    BY Zenon, <1>2, <1>4 DEF Exit, LockExclusive, HolderOK, Owned, lockVars,
           tableVars, dataVars
  <2> QED  BY Zenon, <1>4, <2>1, QuietStep DEF Exit
<1>5. ASSUME NEW p \in Procs, NEW v \in Pages, Fault(p, v) PROVE Safe'
  <2>0. PICK t \in Threads : t = p
    BY Zenon, <1>0
  <2>1. /\ pc[t] = "run" /\ pc'[t] = "acquire"
        /\ map[t][v] = NoFrame /\ job'[t].page = v
        /\ \A u \in Threads \ {t} : pc'[u] = pc[u] /\ job'[u] = job[u]
        /\ UNCHANGED <<kernel, locked, frame, tableVars, dataVars>>
    BY Zenon, <1>1, <1>5, <2>0 DEF Fault, Running, lockVars
  <2>2. LockExclusive'
    BY Zenon, <1>2, <2>1 DEF LockExclusive, Holding
  <2>3. HolderOK'
    BY <1>2, <2>1 DEF HolderOK, Owned, tableVars, dataVars
  <2> QED  BY Zenon, <2>1, <2>2, <2>3, QuietStep DEF Busy
<1>6. ASSUME NEW t \in Threads, Acquire(t) PROVE Safe'
  <2>1. LockExclusive'
    BY Zenon, <1>1, <1>2, <1>6 DEF Acquire, LockExclusive, Holding
  <2>2. HolderOK'
    BY Zenon, <1>1, <1>2, <1>6 DEF Acquire, HolderOK, Owned, tableVars, dataVars
  <2> QED  BY Zenon, <1>1, <1>6, <2>1, <2>2, QuietStep DEF Acquire, Busy
<1>7. ASSUME NEW t \in Threads, Block(t) PROVE Safe'
  <2>1. LockExclusive'
    BY Zenon, <1>1, <1>2, <1>7 DEF Block, LockExclusive, Holding
  <2>2. HolderOK'
    BY Zenon, <1>1, <1>2, <1>7 DEF Block, HolderOK, Owned, tableVars, dataVars
  <2> QED  BY Zenon, <1>1, <1>7, <2>1, <2>2, QuietStep DEF Block, Busy
<1>8. ASSUME NEW t \in Threads, Release(t) PROVE Safe'
  <2>1. /\ pc'[t] = "run" /\ pc[t] = "release"
        /\ \A u \in Threads \ {t} :
             pc'[u] = pc[u] \/ (pc[u] = "blocked" /\ pc'[u] = "acquire")
    BY Zenon, <1>8, ReleaseFacts DEF Release, Steps
  <2>2. LockExclusive'
    BY Zenon, <1>2, <2>1 DEF LockExclusive, Holding
  <2>3. HolderOK'
    <3>1. \A u \in Threads \ {t} : job'[u] = job[u]
      BY Zenon, <1>1, <1>8 DEF Release
    <3>2. UNCHANGED <<frame, map, info, content, disk>>
      BY Zenon, <1>8 DEF Release, tableVars, dataVars
    <3> QED  BY Zenon, <1>2, <2>1, <3>1, <3>2 DEF HolderOK, Owned
  <2> QED  BY <1>8, <2>1, <2>2, <2>3, QuietStep DEF Release, Busy
<1> QED  BY Zenon, <1>3, <1>4, <1>5, <1>6, <1>7, <1>8

-----------------------------------------------------------------------------
(* Steps of the holder of the lock *)

\* A holder is alone: nobody else has a frame in flight or a victim.
LEMMA Alone ==
    ASSUME Safe, NEW t \in Threads, pc[t] \in Holding
    PROVE  \A u \in Threads : u # t => pc[u] \notin Holding
BY Zenon DEF Safe, LockExclusive

\* A mapped frame is an owned one.
LEMMA MappedIsOwned ==
    ASSUME Base, Safe, NEW p \in Procs, NEW v \in Pages, map[p][v] # NoFrame
    PROVE  map[p][v] \in Frames /\ Owned(map[p][v])
<1>1. map[p][v] \in Frames
  BY DEF Base, TypeOK
<1>2. info[map[p][v]] = DataInfo(p, v)
  BY Zenon DEF Safe, MappingAgrees
<1>3. info[map[p][v]].owner = p
  BY <1>2 DEF DataInfo
<1> QED  BY Zenon, <1>1, <1>3, PagingAssumption DEF Owned, Owners

\* allocate_page_internal() zeroes four frames but no owned one, because the
\* free list is the run of the highest frames.
LEMMA ZeroSparesOwned ==
    ASSUME Base, Safe, freeList # <<>>, NEW g \in Frames, Owned(g)
    PROVE  ZeroFrom(Head(freeList))[g] = content[g]
<1>1. /\ freeList \in Seq(Frames) /\ Len(freeList) \in Nat /\ Len(freeList) >= 1
      /\ Head(freeList) = freeList[1]
  BY Zenon, TailFacts DEF Base, TypeOK
<1>2. Head(freeList) = NFrames - Len(freeList)
  BY <1>1, PagingAssumption DEF Safe, FreeListIsTail
<1>3. g \in Int /\ g < NFrames /\ NFrames \in Int
  BY PagingAssumption DEF Frames
<1>4. ~(g >= NFrames - Len(freeList))
  <2>1. SUFFICES ASSUME g >= NFrames - Len(freeList) PROVE FALSE
    BY Zenon
  <2> DEFINE i == g - NFrames + Len(freeList) + 1
  <2>2. i \in 1 .. Len(freeList) /\ NFrames - Len(freeList) + i - 1 = g
    BY <1>1, <1>3, <2>1
  <2>3. freeList[i] = g
    BY Zenon, <2>2 DEF Safe, FreeListIsTail
  <2>4. g \in Items(freeList)
    BY Zenon, <2>2, <2>3 DEF Items
  <2> QED  BY Zenon, <2>4 DEF Safe, FrameAccounting
<1>5. ~(Head(freeList) <= g)
  BY Zenon, <1>1, <1>2, <1>3, <1>4
<1> QED  BY Zenon, <1>5 DEF ZeroFrom

\* A frame from the free list.
LEMMA SafeAllocateFree ==
    ASSUME Base, Safe, NEW t \in Threads, AllocateFree(t)
    PROVE  Safe'
<1> DEFINE f == Head(freeList)
<1>1. /\ pc[t] = "alloc" /\ pc'[t] = "alloced"
      /\ \A u \in Threads \ {t} : pc'[u] = pc[u] /\ frame'[u] = frame[u]
      /\ \A u \in Threads \ {t} : pc'[u] \notin Holding
      /\ frame'[t] = f /\ content' = ZeroFrom(f)
      /\ freeList # <<>> /\ freeList' = Tail(freeList)
      /\ UNCHANGED <<kernel, locked, job, map, dirty, info, fifo, disk>>
  BY ZenonT(30), Alone DEF AllocateFree, Base, TypeOK, Holding, lockVars
<1>2. /\ f \in Frames /\ f = freeList[1] /\ Distinct(freeList')
      /\ Items(freeList') = Items(freeList) \ {f}
      /\ Len(freeList) \in Nat /\ Len(freeList) >= 1
      /\ Len(freeList') = Len(freeList) - 1
      /\ \A i \in 1 .. Len(freeList) - 1 : freeList'[i] = freeList[i + 1]
  BY SMTT(20), <1>1, TailFacts DEF Base, TypeOK, Safe, FrameAccounting
<1>3. f \in Items(freeList) /\ ~Owned(f)
  BY <1>2 DEF Items, Safe, FrameAccounting
<1>4. \A u \in Threads, g \in Frames :
        /\ InFlight(u, g)' <=> u = t /\ g = f
        /\ ~InFlight(u, g)
        /\ ~WritingBack(u, g) /\ ~WritingBack(u, g)'
  BY Zenon, <1>1, Alone DEF InFlight, WritingBack, Holding
<1>5. LockExclusive'
  BY Zenon, <1>1 DEF Safe, LockExclusive, Holding
<1>6. \A g \in Frames : Owned(g)' <=> Owned(g)
  BY Zenon, <1>1 DEF Owned
<1>7. FrameAccounting'
  BY Zenon, <1>2, <1>3, <1>4, <1>6 DEF Safe, FrameAccounting
<1>8. MappingAgrees' /\ GivesUpOnlyWhenPinned' /\ KernelPinned' /\ PinnedOwned'
  BY Zenon, <1>1 DEF Safe, MappingAgrees, GivesUpOnlyWhenPinned, KernelPinned,
              PinnedOwned, Owned
<1>9. FifoComplete'
  BY Zenon, <1>1, <1>4, <1>6 DEF Safe, FifoComplete
<1>10. CleanMatchesDisk'
  <2>1. ASSUME NEW p \in Procs, NEW v \in Pages, map[p][v] # NoFrame
        PROVE  content'[map[p][v]] = content[map[p][v]]
    <3>1. map[p][v] \in Frames /\ Owned(map[p][v])
      BY Zenon, <2>1, MappedIsOwned
    <3>2. ZeroFrom(Head(freeList))[map[p][v]] = content[map[p][v]]
      BY Zenon, <1>1, <3>1, ZeroSparesOwned
    <3> QED  BY Zenon, <1>1, <3>2
  <2> QED  BY Zenon, <1>1, <2>1 DEF Safe, CleanMatchesDisk
<1>11. FreeListIsTail'
  BY <1>2, PagingAssumption DEF Safe, FreeListIsTail
<1>12. HolderOK'
  BY ZenonT(30), <1>1 DEF Safe, HolderOK, Holding
<1>13. FifoRoom'
  <2>1. Len(fifo) \in Nat /\ fifo' = fifo
    BY Zenon, <1>1, SeqFacts DEF Base, TypeOK
  <2> QED  BY <1>2, <2>1, PagingAssumption DEF Safe, FifoRoom, KernelFrames
<1> QED  BY Zenon, <1>5, <1>7, <1>8, <1>9, <1>10, <1>11, <1>12, <1>13 DEF Safe

\* Eviction finds no victim: every frame is pinned.
LEMMA SafeNoVictim ==
    ASSUME Base, Safe, NEW t \in Threads, NoVictim(t)
    PROVE  Safe'
<1>1. /\ pc[t] = "alloc" /\ freeList = <<>>
      /\ UNCHANGED <<locked, pc, job, frame, map, dirty, info, freeList, fifo,
                     content, disk>>
  BY Zenon DEF NoVictim, lockVars, tableVars, dataVars
<1>2. \A f \in Frames : info[f].pinned
  <2>1. \A u \in Threads, g \in Frames : ~InFlight(u, g) /\ ~WritingBack(u, g)
    BY Zenon, <1>1, Alone DEF InFlight, WritingBack, Holding
  <2>2. Items(freeList) = {}
    BY <1>1, EmptyFacts DEF Items
  <2>3. \A f \in Frames : Owned(f)
    BY Zenon, <2>1, <2>2 DEF Safe, FrameAccounting
  <2>4. CASE Strategy = "FIFO"
    <3>1. fifo = <<>>
      <4>1. SUFFICES ASSUME fifo # <<>> PROVE FALSE
        BY Zenon
      <4>2. /\ Head(fifo) \in Frames /\ Head(fifo) = fifo[1]
            /\ Len(fifo) \in Nat /\ Len(fifo) >= 1
        BY Zenon, <4>1, TailFacts DEF Base, TypeOK
      <4>3. Head(fifo) \in Items(fifo)
        BY <4>2 DEF Items
      <4>4. ~info[Head(fifo)].pinned
        BY Zenon, <2>4, <4>2, <4>3 DEF Safe, FifoComplete
      <4> QED  BY Zenon, <2>4, <4>1, <4>4 DEF NoVictim
    <3>2. Items(fifo) = {}
      BY <3>1, EmptyFacts DEF Items
    <3> QED  BY Zenon, <2>1, <2>3, <2>4, <3>2 DEF Safe, FifoComplete
  <2>5. CASE Strategy # "FIFO"
    BY ZenonT(30), <2>5 DEF NoVictim
  <2> QED  BY Zenon, <2>4, <2>5
<1>3. LockExclusive' /\ FrameAccounting' /\ MappingAgrees' /\ CleanMatchesDisk'
      /\ HolderOK'
  BY ZenonT(30), <1>1 DEF Safe, LockExclusive, FrameAccounting, MappingAgrees,
              CleanMatchesDisk, HolderOK, Owned, InFlight
<1>4. /\ FifoComplete' /\ GivesUpOnlyWhenPinned' /\ FreeListIsTail'
      /\ KernelPinned'
      /\ PinnedOwned'
  BY Zenon, <1>1, <1>2 DEF Safe, FifoComplete, GivesUpOnlyWhenPinned,
         FreeListIsTail,
                    KernelPinned, PinnedOwned, Owned, WritingBack
<1>5. FifoRoom'
  BY Zenon, <1>1 DEF Safe, FifoRoom
<1> QED  BY Zenon, <1>3, <1>4, <1>5 DEF Safe

\* A process writes to one of its pages, possibly while it is written back.
LEMMA SafeWrite ==
    ASSUME Base, Safe, NEW p \in Procs, NEW v \in Pages, NEW val \in Values,
           Write(p, v, val)
    PROVE  Safe'
<1>1. PICK g \in Frames : g = map[p][v] /\ Owned(g)
  BY Zenon, MappedIsOwned DEF Write
<1>2. /\ UNCHANGED <<kernel, locked, pc, job, frame, map, info, freeList, fifo, disk>>
      /\ content' = [content EXCEPT ![g] = val]
      /\ dirty' = [dirty EXCEPT ![p][v] = TRUE]
  BY Zenon, <1>1 DEF Write, lockVars
<1>3. \A f \in Frames : f # g => content'[f] = content[f]
  BY Zenon, <1>2 DEF Base, TypeOK
<1>4. dirty'[p][v] /\ \A q \in Procs, w \in Pages :
                         q # p \/ w # v => dirty'[q][w] = dirty[q][w]
  <2>1. dirty \in [Procs -> [Pages -> BOOLEAN]]
    BY Zenon DEF Base, TypeOK
  <2> QED  BY <1>2, <2>1, Zenon
<1>5. CleanMatchesDisk'
  <2>1. SUFFICES ASSUME NEW q \in Procs, NEW w \in Pages,
                        map[q][w] # NoFrame, ~dirty'[q][w]
                 PROVE  content'[map[q][w]] = disk[q][w]
    BY <1>2 DEF CleanMatchesDisk
  <2>2. q # p \/ w # v
    BY Zenon, <1>4, <2>1
  <2>3. map[q][w] \in Frames /\ map[q][w] # g
    <3>1. info[map[q][w]] = DataInfo(q, w) /\ map[q][w] \in Frames
      BY Zenon, <2>1, MappedIsOwned DEF Safe, MappingAgrees
    <3>2. info[g] = DataInfo(p, v)
      BY <1>1 DEF Safe, MappingAgrees, Frames, NoFrame
    <3> QED  BY <2>2, <3>1, <3>2 DEF DataInfo
  <2> QED  BY <1>3, <1>4, <2>1, <2>2, <2>3 DEF Safe,
                  CleanMatchesDisk
<1>6. HolderOK'
  <2>1. ASSUME NEW t \in Threads, pc[t] = "loaded"
        PROVE  content'[frame[t]] = content[frame[t]]
    <3>1. frame[t] \in Frames /\ ~Owned(frame[t])
      BY Zenon, <2>1 DEF Base, ThreadsOK, Safe, FrameAccounting, InFlight
    <3> QED  BY Zenon, <1>1, <1>3, <3>1
  <2> QED  BY Zenon, <1>2, <2>1 DEF Safe, HolderOK, Owned
<1>7. LockExclusive' /\ FrameAccounting' /\ FifoComplete'
  BY ZenonT(30), <1>2
     DEF Safe, LockExclusive, FrameAccounting, FifoComplete, Owned, 
              InFlight, WritingBack
<1>8. MappingAgrees' /\ GivesUpOnlyWhenPinned' /\ FreeListIsTail'
      /\ KernelPinned' /\ PinnedOwned'
  BY Zenon, <1>2 DEF Safe, MappingAgrees, GivesUpOnlyWhenPinned, FreeListIsTail,
              KernelPinned, PinnedOwned, Owned
<1>9. FifoRoom'
  BY Zenon, <1>2 DEF Safe, FifoRoom
<1> QED  BY Zenon, <1>5, <1>6, <1>7, <1>8, <1>9 DEF Safe

-----------------------------------------------------------------------------
(* The eviction of a victim *)

\* The victim of either strategy is owned and mapped by its owner, and leaves
\* the FIFO.
LEMMA VictimFacts ==
    ASSUME Base, Safe, NEW t \in Threads, pc[t] = "alloc", freeList = <<>>,
           NEW f \in Frames, Select(f)
    PROVE  /\ Owned(f) /\ ~info[f].pinned
           /\ info[f].owner \in Procs /\ info[f].page \in Pages
           /\ map[info[f].owner][info[f].page] = f
           /\ Strategy = "FIFO" => /\ Distinct(fifo')
                                   /\ Items(fifo') = Items(fifo) \ {f}
                                   /\ Len(fifo) \in Nat
                                   /\ Len(fifo') = Len(fifo) - 1
<1>1. \A u \in Threads, g \in Frames : ~InFlight(u, g)
  BY Zenon, Alone DEF InFlight, Holding
<1>2. Items(freeList) = {}
  BY EmptyFacts DEF Items
<1>3. Owned(f) /\ ~info[f].pinned
  BY Zenon, <1>1, <1>2 DEF Safe, FrameAccounting, Select
<1>4. ASSUME Strategy = "FIFO"
      PROVE  /\ Distinct(fifo') /\ Items(fifo') = Items(fifo) \ {f}
             /\ Len(fifo) \in Nat /\ Len(fifo') = Len(fifo) - 1
  <2>1. fifo # <<>> /\ f = Head(fifo) /\ fifo' = Tail(fifo)
    BY Zenon, <1>4 DEF Select
  <2>2. fifo \in Seq(Frames) /\ Distinct(fifo)
    BY Zenon, <1>4 DEF Base, TypeOK, Safe, FifoComplete
  <2> QED  BY Zenon, <2>1, <2>2, TailFacts
<1> QED  BY Zenon, <1>3, <1>4 DEF Safe, MappingAgrees

\* page_free() clears the entry that maps the frame and no other.
LEMMA PageFreeFacts ==
    ASSUME TypeOK, NEW f \in Frames, PageFree(f),
           info[f].owner \in Procs, info[f].page \in Pages
    PROVE  /\ map'[info[f].owner][info[f].page] = NoFrame
           /\ \A q \in Procs, w \in Pages :
                q # info[f].owner \/ w # info[f].page =>
                    map'[q][w] = map[q][w] /\ dirty'[q][w] = dirty[q][w]
<1>1. PICK p \in Procs, v \in Pages : p = info[f].owner /\ v = info[f].page
  BY Zenon
<1>2. /\ map' = [map EXCEPT ![p][v] = NoFrame]
      /\ dirty' = [dirty EXCEPT ![p][v] = FALSE]
  BY Zenon, <1>1 DEF PageFree
<1>3. map \in [Procs -> [Pages -> Frames \cup {NoFrame}]]
  BY Zenon DEF TypeOK
<1>4. dirty \in [Procs -> [Pages -> BOOLEAN]]
  BY Zenon DEF TypeOK
<1>5. map'[p][v] = NoFrame
  BY Zenon, <1>2, <1>3
<1>6. \A q \in Procs, w \in Pages : q # p \/ w # v => map'[q][w] = map[q][w]
  BY Zenon, <1>2, <1>3
<1>7. \A q \in Procs, w \in Pages : q # p \/ w # v => dirty'[q][w] = dirty[q][w]
  BY <1>2, <1>4, Zenon
<1> QED  BY Zenon, <1>1, <1>5, <1>6, <1>7

\* page_free() of an owned, unpinned frame f by the holder t: the frame is in
\* flight afterwards, and the tables still agree.
LEMMA SafePageFree ==
    ASSUME Base, Safe, NEW t \in Threads, NEW f \in Frames,
           pc[t] \in {"alloc", "written"},
           Owned(f), ~info[f].pinned, PageFree(f),
           UNCHANGED <<locked, job, content, disk>>,
           pc'[t] = "alloced", frame'[t] = f,
           \A u \in Threads \ {t} : pc'[u] = pc[u] /\ frame'[u] = frame[u],
           kernel = "running", kernel' = "running"
    PROVE  /\ LockExclusive' /\ FrameAccounting' /\ MappingAgrees'
           /\ CleanMatchesDisk' /\ GivesUpOnlyWhenPinned' /\ FreeListIsTail'
           /\ HolderOK' /\ KernelPinned' /\ PinnedOwned'
           /\ \A g \in Frames : g # f => info'[g] = info[g]
           /\ ~Owned(f)'
           /\ \A u \in Threads, g \in Frames : ~WritingBack(u, g)'
<1> DEFINE p == info[f].owner
           v == info[f].page
<1>1. /\ p \in Procs /\ v \in Pages /\ map[p][v] = f /\ f # NoFrame
  BY DEF Safe, MappingAgrees, Frames, NoFrame
<1>2. /\ info' = [info EXCEPT ![f] = FreeInfo]
      /\ map' = [map EXCEPT ![p][v] = NoFrame]
      /\ dirty' = [dirty EXCEPT ![p][v] = FALSE]
      /\ freeList' = freeList
  BY Zenon DEF PageFree
<1>3. /\ \A g \in Frames : g # f => info'[g] = info[g] /\ (Owned(g)' <=> Owned(g))
      /\ info'[f] = FreeInfo /\ ~Owned(f)'
  BY Zenon, <1>2 DEF Base, TypeOK, Owned, FreeInfo
<1>4. /\ map'[p][v] = NoFrame
      /\ \A q \in Procs, w \in Pages : q # p \/ w # v =>
           map'[q][w] = map[q][w] /\ dirty'[q][w] = dirty[q][w]
  BY Zenon, <1>1, PageFreeFacts DEF Base
<1>5. \A u \in Threads : u # t => pc[u] \notin Holding /\ pc'[u] \notin Holding
  BY Zenon, Alone DEF Holding
<1>6. \A u \in Threads, g \in Frames :
        /\ InFlight(u, g)' <=> u = t /\ g = f
        /\ ~InFlight(u, g)
        /\ ~WritingBack(u, g)'
  <2>1. /\ pc[t] \notin {"alloced", "loaded"} /\ pc'[t] = "alloced"
        /\ frame'[t] = f
    BY Zenon
  <2> QED  BY Zenon, <1>5, <2>1 DEF InFlight, WritingBack, Holding
<1>7. LockExclusive'
  BY Zenon, <1>5 DEF Safe, LockExclusive, Holding
<1>8. f \notin Items(freeList)
  BY Zenon DEF Safe, FrameAccounting
<1>9. FrameAccounting'
  BY Zenon, <1>2, <1>3, <1>6, <1>8 DEF Safe, FrameAccounting
<1>10. MappingAgrees'
  <2>1. ASSUME NEW q \in Procs, NEW w \in Pages, map'[q][w] # NoFrame
        PROVE  info'[map'[q][w]] = DataInfo(q, w)
    <3>1. (q # p \/ w # v) /\ map'[q][w] = map[q][w]
      BY ZenonT(30), <1>4, <2>1
    <3>2. info[map[q][w]] = DataInfo(q, w) /\ map[q][w] \in Frames
      BY SMTT(20), <2>1, <3>1 DEF Safe, MappingAgrees, Base, TypeOK
    <3>3. map[q][w] # f
      BY SMTT(20), <3>1, <3>2 DEF DataInfo
    <3> QED  BY Zenon, <1>3, <3>1, <3>2, <3>3
  <2>2. ASSUME NEW g \in Frames, Owned(g)', ~info'[g].pinned
        PROVE  /\ info'[g].owner \in Procs /\ info'[g].page \in Pages
               /\ map'[info'[g].owner][info'[g].page] = g
    <3>1. g # f /\ info'[g] = info[g] /\ Owned(g)
      BY Zenon, <1>3, <2>2
    <3>2. /\ info[g].owner \in Procs /\ info[g].page \in Pages
          /\ map[info[g].owner][info[g].page] = g
      BY ZenonT(30), <2>2, <3>1 DEF Safe, MappingAgrees
    <3> QED  BY <1>1, <1>4, <3>1, <3>2
  <2> QED  BY Zenon, <2>1, <2>2 DEF MappingAgrees
<1>11. CleanMatchesDisk'
  BY <1>4 DEF Safe, CleanMatchesDisk
<1>12. GivesUpOnlyWhenPinned'
  BY Zenon DEF GivesUpOnlyWhenPinned
<1>13. FreeListIsTail'
  BY Zenon, <1>2 DEF Safe, FreeListIsTail
<1>14. HolderOK'
  <2>1. \A u \in Threads : pc'[u] \notin {"writeback", "written", "loaded"}
    BY Zenon, <1>5 DEF Holding
  <2>2. ASSUME NEW u \in Threads, pc'[u] \notin {"run", "release"}, job'[u].stage = 0
        PROVE  map'[u][job'[u].page] = NoFrame
    <3>1. pc[u] \notin {"run", "release"} /\ job'[u] = job[u]
      BY Zenon, <2>2
    <3>2. map[u][job[u].page] = NoFrame /\ u \in Procs /\ job[u].page \in Pages
      BY Zenon, <2>2, <3>1 DEF Safe, HolderOK, Base, ThreadsOK
    <3> QED  BY Zenon, <1>1, <1>4, <3>1, <3>2
  <2> QED  BY Zenon, <2>1, <2>2 DEF HolderOK
<1>15. KernelPinned' /\ PinnedOwned'
  <2>1. KernelPinned /\ PinnedOwned
    BY ZenonT(30) DEF Safe
  <2>2. 0 .. KernelFrames - 1 \subseteq Frames
    BY PagingAssumption DEF Frames, KernelFrames
  <2>3. ASSUME NEW g \in 0 .. KernelFrames - 1
        PROVE  info'[g].pinned /\ Owned(g)'
    <3>1. g \in Frames /\ info[g].pinned /\ Owned(g) /\ g # f
      BY Zenon, <2>1, <2>2 DEF KernelPinned
    <3> QED  BY Zenon, <1>3, <3>1
  <2>4. ASSUME NEW g \in Frames, info'[g].pinned PROVE Owned(g)'
    <3>1. ~info'[f].pinned
      BY <1>3 DEF FreeInfo
    <3>2. g # f
      BY Zenon, <2>4, <3>1
    <3> QED  BY Zenon, <1>3, <2>1, <2>4, <3>2 DEF PinnedOwned
  <2> QED  BY Zenon, <2>3, <2>4 DEF KernelPinned, PinnedOwned
<1> QED
  BY Zenon, <1>3, <1>6, <1>7, <1>9, <1>10, <1>11, <1>12, <1>13, <1>14, <1>15

\* Eviction of a clean page.
LEMMA SafeEvictClean ==
    ASSUME Base, Safe, kernel = "running", NEW t \in Threads, NEW f \in Frames,
           EvictClean(t, f)
    PROVE  Safe'
<1>1. /\ pc[t] = "alloc" /\ freeList = <<>> /\ Select(f) /\ PageFree(f)
      /\ pc'[t] = "alloced" /\ frame'[t] = f
      /\ \A u \in Threads \ {t} : pc'[u] = pc[u] /\ frame'[u] = frame[u]
      /\ UNCHANGED <<kernel, locked, job, content, disk>>
  BY Zenon DEF EvictClean, Base, TypeOK, lockVars, dataVars
<1>2. /\ Owned(f) /\ ~info[f].pinned
      /\ Strategy = "FIFO" => /\ Distinct(fifo') /\ Items(fifo') = Items(fifo) \ {f}
                              /\ Len(fifo) \in Nat /\ Len(fifo') = Len(fifo) - 1
  BY Zenon, <1>1, VictimFacts
<1>3. /\ LockExclusive' /\ FrameAccounting' /\ MappingAgrees'
      /\ CleanMatchesDisk' /\ GivesUpOnlyWhenPinned' /\ FreeListIsTail'
      /\ HolderOK' /\ KernelPinned' /\ PinnedOwned'
      /\ \A g \in Frames : g # f => info'[g] = info[g]
      /\ ~Owned(f)'
      /\ \A u \in Threads, g \in Frames : ~WritingBack(u, g)'
  BY Zenon, <1>1, <1>2, SafePageFree
<1>4. \A u \in Threads, g \in Frames : ~WritingBack(u, g)
  BY Zenon, <1>1, Alone DEF WritingBack, Holding
<1>5. FifoComplete'
  BY Zenon, <1>2, <1>3, <1>4 DEF Safe, FifoComplete, Owned
<1>6. FifoRoom'
  <2>1. freeList' = freeList /\ Len(freeList) = 0
    BY Zenon, <1>1, EmptyFacts DEF PageFree
  <2> QED  BY SMTT(20), <1>2, <2>1, PagingAssumption
              DEF Safe, FifoRoom, KernelFrames
<1> QED  BY Zenon, <1>3, <1>5, <1>6 DEF Safe

\* The unmap of a victim that has been written back.
LEMMA SafeFinishEvict ==
    ASSUME Base, Safe, kernel = "running", NEW t \in Threads, FinishEvict(t)
    PROVE  Safe'
<1> DEFINE f == frame[t]
<1>1. /\ pc[t] = "written" /\ PageFree(f)
      /\ pc'[t] = "alloced" /\ frame' = frame
      /\ \A u \in Threads \ {t} : pc'[u] = pc[u]
      /\ UNCHANGED <<kernel, locked, job, fifo, content, disk>>
  BY Zenon DEF FinishEvict, Base, TypeOK, lockVars, dataVars
<1>2. f \in Frames /\ Owned(f) /\ ~info[f].pinned
  BY Zenon, <1>1 DEF Base, ThreadsOK, Safe, HolderOK
<1>3. /\ LockExclusive' /\ FrameAccounting' /\ MappingAgrees'
      /\ CleanMatchesDisk' /\ GivesUpOnlyWhenPinned' /\ FreeListIsTail'
      /\ HolderOK' /\ KernelPinned' /\ PinnedOwned'
      /\ \A g \in Frames : g # f => info'[g] = info[g]
      /\ ~Owned(f)'
      /\ \A u \in Threads, g \in Frames : ~WritingBack(u, g)'
  BY Zenon, <1>1, <1>2, SafePageFree
<1>4. \A u \in Threads, g \in Frames : WritingBack(u, g) <=> u = t /\ g = f
  BY Zenon, <1>1, Alone DEF WritingBack, Holding
<1>5. FifoComplete'
  <2>1. fifo' = fifo /\ FifoComplete
    BY Zenon, <1>1 DEF Safe
  <2>2. ASSUME NEW g \in Frames
        PROVE  (Owned(g) /\ ~info[g].pinned /\ \A u \in Threads : ~WritingBack(u, g))
                 <=> (Owned(g) /\ ~info[g].pinned)'
    <3>1. CASE g = f
      BY Zenon, <1>1, <1>3, <1>4, <3>1
    <3>2. CASE g # f
      BY Zenon, <1>3, <1>4, <3>2 DEF Owned
    <3> QED  BY Zenon, <3>1, <3>2
  <2> QED  BY Zenon, <1>3, <2>1, <2>2 DEF FifoComplete
<1>6. FifoRoom'
  BY Zenon, <1>1 DEF Safe, FifoRoom, Busy, PageFree
<1> QED  BY Zenon, <1>3, <1>5, <1>6 DEF Safe

\* A dirty victim leaves the FIFO and stays mapped while it is written.
LEMMA SafeEvictDirty ==
    ASSUME Base, Safe, kernel = "running", NEW t \in Threads, NEW f \in Frames,
           EvictDirty(t, f)
    PROVE  Safe'
<1>1. /\ pc[t] = "alloc" /\ freeList = <<>> /\ Select(f)
      /\ pc'[t] = "writeback" /\ frame'[t] = f
      /\ \A u \in Threads \ {t} : pc'[u] = pc[u] /\ frame'[u] = frame[u]
      /\ UNCHANGED <<kernel, locked, job, map, dirty, info, freeList, content, disk>>
  BY Zenon DEF EvictDirty, Base, TypeOK, lockVars, dataVars
<1>2. /\ Owned(f) /\ ~info[f].pinned
      /\ Strategy = "FIFO" => /\ Distinct(fifo') /\ Items(fifo') = Items(fifo) \ {f}
                              /\ Len(fifo) \in Nat /\ Len(fifo') = Len(fifo) - 1
  BY Zenon, <1>1, VictimFacts
<1>3. \A u \in Threads : u # t => pc[u] \notin Holding /\ pc'[u] \notin Holding
  BY Zenon, <1>1, Alone DEF Holding
<1>4. \A u \in Threads, g \in Frames :
        /\ ~InFlight(u, g) /\ ~InFlight(u, g)' /\ ~WritingBack(u, g)
        /\ WritingBack(u, g)' <=> u = t /\ g = f
  BY Zenon, <1>1, <1>3 DEF InFlight, WritingBack, Holding
<1>5. LockExclusive'
  BY Zenon, <1>1, <1>3 DEF Safe, LockExclusive, Holding
<1>6. FrameAccounting'
  BY Zenon, <1>1, <1>4 DEF Safe, FrameAccounting, Owned
<1>7. FifoComplete'
  BY Zenon, <1>1, <1>2, <1>4 DEF Safe, FifoComplete, Owned
<1>8. HolderOK'
  BY Zenon, <1>1, <1>2, <1>3 DEF Safe, HolderOK, Owned, Holding
<1>9. MappingAgrees' /\ CleanMatchesDisk' /\ GivesUpOnlyWhenPinned'
      /\ FreeListIsTail' /\ KernelPinned' /\ PinnedOwned'
  BY Zenon, <1>1 DEF Safe, MappingAgrees, CleanMatchesDisk,
              GivesUpOnlyWhenPinned, FreeListIsTail, KernelPinned, PinnedOwned, Owned
<1>10. FifoRoom'
  <2>1. Len(freeList) = 0
    BY Zenon, <1>1, EmptyFacts
  <2> QED  BY SMTT(20), <1>1, <1>2, <2>1, PagingAssumption DEF Safe, FifoRoom,
                  KernelFrames
<1> QED  BY Zenon, <1>5, <1>6, <1>7, <1>8, <1>9, <1>10 DEF Safe

\* The controller copies the victim to the image of its owner, or fails to.
LEMMA SafeWriteBack ==
    ASSUME Base, Safe, kernel = "running", NEW t \in Threads, WriteBack(t)
    PROVE  Safe'
<1> DEFINE f == frame[t]
           p == info[f].owner
           v == info[f].page
<1>1. /\ pc[t] = "writeback" /\ pc'[t] = "written"
      /\ \A u \in Threads \ {t} : pc'[u] = pc[u]
      /\ UNCHANGED <<kernel, locked, job, frame, map, dirty, info, freeList, fifo, content>>
      /\ disk' = [disk EXCEPT ![p][v] = content[f]] \/ disk' = disk
  BY Zenon DEF WriteBack, Base, TypeOK, lockVars, tableVars
<1>2. f \in Frames /\ Owned(f) /\ ~info[f].pinned
  BY Zenon, <1>1 DEF Base, ThreadsOK, Safe, HolderOK
<1>3. p \in Procs /\ v \in Pages /\ map[p][v] = f
  BY Zenon, <1>2 DEF Safe, MappingAgrees
<1>4. \A u \in Threads : u # t => pc[u] \notin Holding /\ pc'[u] \notin Holding
  BY Zenon, <1>1, Alone DEF Holding
<1>5. \A u \in Threads, g \in Frames :
        /\ ~InFlight(u, g) /\ ~InFlight(u, g)'
        /\ WritingBack(u, g)' <=> WritingBack(u, g)
  BY Zenon, <1>1, <1>4 DEF InFlight, WritingBack, Holding
<1>6. LockExclusive'
  BY Zenon, <1>1, <1>4 DEF Safe, LockExclusive, Holding
<1>7. FrameAccounting' /\ FifoComplete'
  BY Zenon, <1>1, <1>5 DEF Safe, FrameAccounting, FifoComplete, Owned
<1>8. CleanMatchesDisk'
  <2>1. SUFFICES ASSUME NEW q \in Procs, NEW w \in Pages,
                        map[q][w] # NoFrame, ~dirty[q][w]
                 PROVE  content[map[q][w]] = disk'[q][w]
    BY Zenon, <1>1 DEF CleanMatchesDisk
  <2>2. content[map[q][w]] = disk[q][w]
    BY Zenon, <2>1 DEF Safe, CleanMatchesDisk
  <2>3. disk \in [Procs -> [Pages -> Contents]]
    BY Zenon DEF Base, TypeOK
  <2>4. CASE disk' = [disk EXCEPT ![p][v] = content[f]]
    BY Zenon, <1>3, <2>2, <2>3, <2>4
  <2> QED  BY Zenon, <1>1, <2>2, <2>4
<1>9. HolderOK'
  BY Zenon, <1>1, <1>2, <1>4 DEF Safe, HolderOK, Owned, Holding
<1>10. MappingAgrees' /\ GivesUpOnlyWhenPinned' /\ FreeListIsTail'
       /\ KernelPinned' /\ PinnedOwned'
  BY Zenon, <1>1 DEF Safe, MappingAgrees, GivesUpOnlyWhenPinned, FreeListIsTail,
              KernelPinned, PinnedOwned, Owned
<1>11. FifoRoom'
  BY Zenon, <1>1 DEF Safe, FifoRoom, Busy
<1> QED  BY Zenon, <1>6, <1>7, <1>8, <1>9, <1>10, <1>11 DEF Safe

-----------------------------------------------------------------------------
(* The frame is put to use *)

\* The page is read into a frame that nobody maps.
LEMMA SafeDiskRead ==
    ASSUME Base, Safe, kernel = "running", NEW t \in Threads, DiskRead(t)
    PROVE  Safe'
<1> DEFINE f == frame[t]
<1>1. /\ pc[t] = "alloced" /\ pc'[t] = "loaded" /\ job[t].stage = 0
      /\ \A u \in Threads \ {t} : pc'[u] = pc[u]
      /\ UNCHANGED <<kernel, locked, job, frame, map, dirty, info, freeList, fifo, disk>>
      /\ content' = [content EXCEPT ![f] = disk[job[t].proc][job[t].page]]
  BY Zenon DEF DiskRead, Base, TypeOK, lockVars, tableVars
<1>2. f \in Frames /\ InFlight(t, f) /\ ~Owned(f)
  BY Zenon, <1>1 DEF Base, ThreadsOK, Safe, FrameAccounting, InFlight
<1>3. \A u \in Threads : u # t => pc[u] \notin Holding /\ pc'[u] \notin Holding
  BY Zenon, <1>1, Alone DEF Holding
<1>4. \A u \in Threads, g \in Frames :
        /\ InFlight(u, g)' <=> InFlight(u, g)
        /\ ~WritingBack(u, g)' /\ ~WritingBack(u, g)
  BY Zenon, <1>1, <1>3 DEF InFlight, WritingBack, Holding
<1>5. LockExclusive'
  BY Zenon, <1>1, <1>3 DEF Safe, LockExclusive, Holding
<1>6. FrameAccounting' /\ FifoComplete'
  <2>1. FrameAccounting /\ FifoComplete
    BY Zenon DEF Safe
  <2>2. FrameAccounting'
    BY Zenon, <1>1, <1>4, <2>1 DEF FrameAccounting, Owned
  <2>3. FifoComplete'
    BY Zenon, <1>1, <1>4, <2>1 DEF FifoComplete, Owned
  <2> QED  BY Zenon, <2>2, <2>3
<1>7. content'[f] = disk[job[t].proc][job[t].page]
      /\ \A g \in Frames : g # f => content'[g] = content[g]
  BY ZenonT(30), <1>1, <1>2 DEF Base, TypeOK
<1>8. CleanMatchesDisk'
  <2>1. ASSUME NEW p \in Procs, NEW v \in Pages, map[p][v] # NoFrame, ~dirty[p][v]
        PROVE  content'[map[p][v]] = disk[p][v]
    <3>1. map[p][v] \in Frames /\ Owned(map[p][v])
      BY Zenon, <2>1, MappedIsOwned
    <3>2. content'[map[p][v]] = content[map[p][v]]
      BY Zenon, <1>2, <1>7, <3>1
    <3>3. content[map[p][v]] = disk[p][v]
      BY Zenon, <2>1 DEF Safe, CleanMatchesDisk
    <3> QED  BY Zenon, <3>2, <3>3
  <2> QED  BY ZenonT(30), <1>1, <2>1 DEF CleanMatchesDisk
<1>9. HolderOK'
  BY <1>1, <1>3, <1>7 DEF Safe, HolderOK, Holding
<1>10. MappingAgrees' /\ GivesUpOnlyWhenPinned' /\ FreeListIsTail'
       /\ KernelPinned' /\ PinnedOwned'
  BY Zenon, <1>1 DEF Safe, MappingAgrees, GivesUpOnlyWhenPinned,
         FreeListIsTail, KernelPinned, PinnedOwned, Owned
<1>11. FifoRoom'
  BY Zenon, <1>1 DEF Safe, FifoRoom, Busy
<1> QED  BY Zenon, <1>5, <1>6, <1>8, <1>9, <1>10, <1>11 DEF Safe

\* The frame just read becomes the page of the faulting process.
LEMMA SafeMapPage ==
    ASSUME Base, Safe, kernel = "running", NEW t \in Threads, MapPage(t)
    PROVE  Safe'
<1> DEFINE v == job[t].page
<1>0. PICK f \in Frames : f = frame[t]
  BY Zenon DEF MapPage, Base, ThreadsOK
<1>1. /\ pc[t] = "loaded" /\ pc'[t] = "release" /\ frame'[t] = NoFrame
      /\ \A u \in Threads \ {t} : pc'[u] = pc[u] /\ frame'[u] = frame[u]
      /\ UNCHANGED <<kernel, locked, job, freeList, content, disk>>
      /\ fifo' = FifoEnqueue(f)
  BY Zenon, <1>0 DEF MapPage, Base, TypeOK, lockVars, dataVars
<1>2. job[t].stage = 0 /\ job[t].proc = t /\ t \in Procs /\ v \in Pages
  BY Zenon, <1>1 DEF Base, ThreadsOK
<1>3. /\ map' = [map EXCEPT ![t][v] = f]
      /\ dirty' = [dirty EXCEPT ![t][v] = FALSE]
      /\ info' = [info EXCEPT ![f] = DataInfo(t, v)]
  BY Zenon, <1>0, <1>2 DEF MapPage
<1>4. /\ map'[t][v] = f
      /\ \A q \in Procs, w \in Pages : q # t \/ w # v => map'[q][w] = map[q][w]
  BY Zenon, <1>2, <1>3 DEF Base, TypeOK
<1>5. \A q \in Procs, w \in Pages : q # t \/ w # v => dirty'[q][w] = dirty[q][w]
  <2>1. dirty \in [Procs -> [Pages -> BOOLEAN]]
    BY ZenonT(30) DEF Base, TypeOK
  <2> QED  BY <1>2, <1>3, <2>1, Zenon
<1>6. /\ InFlight(t, f) /\ ~Owned(f) /\ f \notin Items(freeList)
      /\ map[t][v] = NoFrame /\ content[f] = disk[t][v]
  BY <1>0, <1>1, <1>2 DEF InFlight, Safe, FrameAccounting, HolderOK
<1>7. /\ info'[f] = DataInfo(t, v)
      /\ \A g \in Frames : g # f => info'[g] = info[g] /\ (Owned(g)' <=> Owned(g))
  BY Zenon, <1>2, <1>3 DEF Base, TypeOK, Owned
<1>8. Owned(f)' /\ ~info'[f].pinned
  BY <1>2, <1>7, PagingAssumption DEF Owned, DataInfo, Owners
<1>9. \A u \in Threads : u # t => pc[u] \notin Holding /\ pc'[u] \notin Holding
  BY Zenon, <1>1, Alone DEF Holding
<1>10. \A u \in Threads, g \in Frames :
         /\ InFlight(u, g) <=> u = t /\ g = f
         /\ ~InFlight(u, g)' /\ ~WritingBack(u, g) /\ ~WritingBack(u, g)'
  BY Zenon, <1>0, <1>1, <1>9 DEF InFlight, WritingBack, Holding
<1>11. LockExclusive'
  BY ZenonT(30), <1>1, <1>9 DEF Safe, LockExclusive, Holding
<1>12. FrameAccounting'
  BY <1>1, <1>6, <1>7, <1>8, <1>10 DEF Safe, FrameAccounting,
         Items, Distinct
<1>13. MappingAgrees'
  <2>1. ASSUME NEW q \in Procs, NEW w \in Pages, map'[q][w] # NoFrame
        PROVE  info'[map'[q][w]] = DataInfo(q, w)
    <3>1. CASE q = t /\ w = v
      BY Zenon, <1>4, <1>7, <3>1
    <3>2. CASE q # t \/ w # v
      <4>1. map'[q][w] = map[q][w] /\ map[q][w] \in Frames /\ map[q][w] # f
        BY Zenon, <1>4, <1>6, <2>1, <3>2, MappedIsOwned
      <4> QED  BY ZenonT(30), <1>7, <2>1, <4>1 DEF Safe, MappingAgrees
    <3> QED  BY Zenon, <3>1, <3>2
  <2>2. ASSUME NEW g \in Frames, Owned(g)', ~info'[g].pinned
        PROVE  /\ info'[g].owner \in Procs /\ info'[g].page \in Pages
               /\ map'[info'[g].owner][info'[g].page] = g
    <3>1. CASE g = f
      BY <1>2, <1>4, <1>7, <3>1 DEF DataInfo
    <3>2. CASE g # f
      <4>1. /\ info'[g] = info[g]
            /\ info[g].owner \in Procs /\ info[g].page \in Pages
            /\ map[info[g].owner][info[g].page] = g
        BY Zenon, <1>7, <2>2, <3>2 DEF Safe, MappingAgrees
      <4>2. info[g].owner # t \/ info[g].page # v
        BY <1>6, <4>1 DEF Frames, NoFrame
      <4> QED  BY Zenon, <1>4, <4>1, <4>2
    <3> QED  BY Zenon, <3>1, <3>2
  <2> QED  BY Zenon, <2>1, <2>2 DEF MappingAgrees
<1>19. Strategy = "FIFO" =>
         /\ fifo' = Append(fifo, f) /\ Len(fifo') = Len(fifo) + 1
         /\ Len(fifo) \in Nat /\ Len(freeList) \in Nat
         /\ Len(fifo) + Len(freeList) < NFrames - KernelFrames
  <2>1. SUFFICES ASSUME Strategy = "FIFO"
                 PROVE  /\ fifo' = Append(fifo, f) /\ Len(fifo') = Len(fifo) + 1
                        /\ Len(fifo) \in Nat /\ Len(freeList) \in Nat
                        /\ Len(fifo) + Len(freeList) < NFrames - KernelFrames
    BY Zenon
  <2>2. /\ fifo \in Seq(Frames) /\ Len(fifo) \in Nat /\ Len(freeList) \in Nat
    BY Zenon, SeqFacts DEF Base, TypeOK
  <2>3. Len(fifo) + Len(freeList) < NFrames - KernelFrames
    BY Zenon, <1>1, <2>1 DEF Safe, FifoRoom, Busy
  <2>4. fifo' = Append(fifo, f)
    BY <1>1, <2>1, <2>2, <2>3, PagingAssumption DEF FifoEnqueue, KernelFrames
  <2> QED  BY Zenon, <2>2, <2>3, <2>4, AppendFacts
<1>14. FifoComplete'
  <2>1. SUFFICES ASSUME Strategy = "FIFO" PROVE FifoComplete'
    BY Zenon DEF FifoComplete
  <2>2. fifo' = Append(fifo, f) /\ fifo \in Seq(Frames)
    BY Zenon, <1>19, <2>1 DEF Base, TypeOK
  <2>3. Distinct(fifo) /\ f \notin Items(fifo)
    BY Zenon, <1>2, <1>6, <2>1 DEF Safe, FifoComplete
  <2>4. Distinct(fifo') /\ Items(fifo') = Items(fifo) \cup {f}
    BY <1>2, <2>2, <2>3, AppendFacts
  <2>5. ASSUME NEW g \in Frames
        PROVE  g \in Items(fifo') <=> Owned(g)' /\ ~info'[g].pinned
    <3>1. CASE g = f
      BY Zenon, <1>8, <2>4, <3>1
    <3>2. CASE g # f
      BY Zenon, <1>7, <1>10, <2>1, <2>4, <3>2 DEF Safe, FifoComplete
    <3> QED  BY Zenon, <3>1, <3>2
  <2> QED  BY Zenon, <1>10, <2>4, <2>5 DEF FifoComplete
<1>15. CleanMatchesDisk'
  BY <1>1, <1>4, <1>5, <1>6 DEF Safe, CleanMatchesDisk
<1>16. GivesUpOnlyWhenPinned' /\ FreeListIsTail'
  BY Zenon, <1>1 DEF Safe, GivesUpOnlyWhenPinned, FreeListIsTail
<1>17. KernelPinned' /\ PinnedOwned'
  BY <1>6, <1>7, <1>8, PagingAssumption
     DEF Safe, KernelPinned, PinnedOwned, Frames, KernelFrames
<1>18. HolderOK'
  <2>1. \A u \in Threads : pc'[u] \notin {"writeback", "written", "loaded"}
    BY Zenon, <1>1, <1>9 DEF Holding
  <2>2. ASSUME NEW u \in Threads, pc'[u] \notin {"run", "release"}, job[u].stage = 0
        PROVE  map'[u][job[u].page] = NoFrame
    <3>1. u # t /\ pc[u] = pc'[u]
      BY Zenon, <1>1, <2>2
    <3>2. map[u][job[u].page] = NoFrame /\ u \in Procs /\ job[u].page \in Pages
      BY Zenon, <2>2, <3>1 DEF Safe, HolderOK, Base, ThreadsOK
    <3> QED  BY Zenon, <1>4, <3>1, <3>2
  <2> QED  BY Zenon, <1>1, <2>1, <2>2 DEF HolderOK
<1>20. FifoRoom'
  BY <1>1, <1>9, <1>19, PagingAssumption
     DEF FifoRoom, Busy, Holding, KernelFrames
<1> QED
  BY Zenon, <1>11, <1>12, <1>13, <1>14, <1>15, <1>16, <1>17, <1>18, <1>20
     DEF Safe

\* A frame becomes a page directory, a page table or a stack, pinned.
LEMMA SafeSetupStage ==
    ASSUME Base, Safe, kernel = "running", NEW t \in Threads, SetupStage(t)
    PROVE  Safe'
<1> DEFINE p == job[t].proc
<1>0. PICK f \in Frames : f = frame[t]
  BY Zenon DEF SetupStage, Base, ThreadsOK
<1>1. /\ pc[t] = "alloced" /\ pc'[t] \in {"release", "alloc"}
      /\ \A u \in Threads \ {t} : /\ pc'[u] = pc[u] /\ frame'[u] = frame[u]
                                  /\ job'[u] = job[u]
      /\ UNCHANGED <<kernel, locked, map, dirty, freeList, fifo, disk>>
      /\ info' = [info EXCEPT ![f] = PinnedInfo(p)]
  BY Zenon, <1>0 DEF SetupStage, Base, TypeOK, lockVars
<1>2. p \in Procs /\ job'[t].stage # 0
  <2>1. job[t].stage \in 1 .. 3 /\ job \in [Threads -> Jobs]
    BY DEF SetupStage, Base, TypeOK, Jobs, NoJob
  <2>2. p \in Procs
    BY Zenon, <1>1 DEF Base, ThreadsOK
  <2>3. CASE job[t].stage = 3
    BY <2>1, <2>2, <2>3 DEF SetupStage
  <2>4. CASE job[t].stage # 3
    BY <2>1, <2>2, <2>4 DEF SetupStage
  <2> QED  BY ZenonT(30), <2>2, <2>3, <2>4
<1>3. \A g \in Frames : g # f => content'[g] = content[g]
  BY Zenon, <1>0 DEF SetupStage, Base, TypeOK
<1>4. InFlight(t, f) /\ ~Owned(f) /\ f \notin Items(freeList)
  BY Zenon, <1>0, <1>1 DEF InFlight, Safe, FrameAccounting
<1>5. /\ info'[f] = PinnedInfo(p)
      /\ \A g \in Frames : g # f => info'[g] = info[g] /\ (Owned(g)' <=> Owned(g))
  BY Zenon, <1>1, <1>2 DEF Base, TypeOK, Owned
<1>6. Owned(f)' /\ info'[f].pinned
  BY <1>2, <1>5, PagingAssumption DEF Owned, PinnedInfo, Owners
<1>7. \A u \in Threads : u # t => pc[u] \notin Holding /\ pc'[u] \notin Holding
  BY Zenon, <1>1, Alone DEF Holding
<1>8. \A u \in Threads, g \in Frames :
        /\ InFlight(u, g) <=> u = t /\ g = f
        /\ ~InFlight(u, g)' /\ ~WritingBack(u, g) /\ ~WritingBack(u, g)'
  BY Zenon, <1>0, <1>1, <1>7 DEF InFlight, WritingBack, Holding
<1>9. LockExclusive'
  BY ZenonT(30), <1>1, <1>7 DEF Safe, LockExclusive, Holding
<1>10. FrameAccounting'
  BY <1>1, <1>4, <1>5, <1>6, <1>8 DEF Safe, FrameAccounting, Items,
         Distinct
<1>11. MappingAgrees' /\ CleanMatchesDisk'
  <2>1. ASSUME NEW q \in Procs, NEW w \in Pages, map[q][w] # NoFrame
        PROVE  map[q][w] \in Frames /\ map[q][w] # f
    BY Zenon, <1>4, <2>1, MappedIsOwned
  <2>2. CleanMatchesDisk'
    BY ZenonT(30), <1>1, <1>3, <2>1 DEF Safe, CleanMatchesDisk
  <2>3. MappingAgrees'
    <3>1. MappingAgrees
      BY Zenon DEF Safe
    <3>2. \A q \in Procs, w \in Pages :
            map'[q][w] # NoFrame => info'[map'[q][w]] = DataInfo(q, w)
      BY SMTT(20), <1>1, <1>5, <2>1, <3>1 DEF MappingAgrees
    <3>3. \A g \in Frames : Owned(g)' /\ ~info'[g].pinned =>
            /\ info'[g].owner \in Procs /\ info'[g].page \in Pages
            /\ map'[info'[g].owner][info'[g].page] = g
      BY Zenon, <1>1, <1>5, <1>6, <3>1 DEF MappingAgrees
    <3> QED  BY Zenon, <3>2, <3>3 DEF MappingAgrees
  <2> QED  BY Zenon, <2>2, <2>3
<1>12. FifoComplete'
  <2>1. ASSUME Strategy = "FIFO", NEW g \in Frames
        PROVE  g \in Items(fifo) <=> Owned(g)' /\ ~info'[g].pinned
    <3>1. CASE g = f
      BY Zenon, <1>4, <1>6, <2>1, <3>1 DEF Safe, FifoComplete
    <3>2. CASE g # f
      BY Zenon, <1>5, <1>8, <2>1, <3>2 DEF Safe, FifoComplete
    <3> QED  BY Zenon, <3>1, <3>2
  <2> QED  BY Zenon, <1>1, <1>8, <2>1 DEF Safe, FifoComplete
<1>13. GivesUpOnlyWhenPinned' /\ FreeListIsTail'
  BY ZenonT(30), <1>1 DEF Safe, GivesUpOnlyWhenPinned, FreeListIsTail
<1>14. KernelPinned' /\ PinnedOwned'
  BY <1>5, <1>6, PagingAssumption
     DEF Safe, KernelPinned, PinnedOwned, Frames, KernelFrames
<1>15. HolderOK'
  BY Zenon, <1>1, <1>2, <1>7 DEF Safe, HolderOK, Holding
<1>16. FifoRoom'
  BY Zenon, <1>1, <1>7 DEF Safe, FifoRoom, Busy, Holding
<1> QED
  BY Zenon, <1>9, <1>10, <1>11, <1>12, <1>13, <1>14, <1>15, <1>16 DEF Safe

-----------------------------------------------------------------------------
(* Every step *)

\* Every step keeps Safe, unless the failing thread is past its failed read.
LEMMA SafeStep ==
    Base /\ Safe /\ Next => Safe' \/ FailureSeen' \/ FailureSeen
<1> SUFFICES ASSUME Base, Safe, Next, ~FailureSeen
             PROVE  Safe' \/ FailureSeen'
  BY Zenon
<1>1. kernel = "running"
  BY Zenon DEF Next
<1>2. ASSUME NEW p \in Procs, Launch(p) \/ User(p) PROVE Safe'
  BY Zenon, <1>2, SafeQuiet, SafeWrite DEF User
<1>3. ASSUME NEW t \in Threads, KernelStep(t) PROVE Safe' \/ FailureSeen'
  <2>1. CASE Acquire(t) \/ Block(t) \/ Release(t)
    BY Zenon, <2>1, SafeQuiet
  <2>2. CASE \E f \in Frames : EvictClean(t, f) \/ EvictDirty(t, f)
    BY Zenon, <1>1, <2>2, SafeEvictClean, SafeEvictDirty
  <2>3. CASE AllocateFree(t) \/ WriteBack(t) \/ FinishEvict(t) \/ NoVictim(t)
    BY Zenon, <1>1, <2>3, SafeAllocateFree, SafeWriteBack, SafeFinishEvict,
       SafeNoVictim
  <2>4. CASE DiskRead(t) \/ MapPage(t) \/ SetupStage(t)
    BY Zenon, <1>1, <2>4, SafeDiskRead, SafeMapPage, SafeSetupStage
  <2>5. CASE DiskReadFails(t)
    BY Zenon, <2>5 DEF DiskReadFails, Base, TypeOK, FailureSeen, Failed
  <2>6. CASE FailRelease(t) \/ FailReleaseAgain(t) \/ Abort(t)
    BY Zenon, <2>6 DEF FailRelease, FailReleaseAgain, Abort, FailureSeen, Failed
  <2> QED  BY Zenon, <1>3, <2>1, <2>2, <2>3, <2>4, <2>5, <2>6 DEF KernelStep
<1> QED  BY Zenon, <1>2, <1>3 DEF Next

-----------------------------------------------------------------------------
(* What processes read *)

\* What a process may see change: its own write, or the loss of one.
Allowed(p, v) ==
    \/ \E val \in Values : Write(p, v, val)
    \/ \E t \in Threads \ {p} : map[p][v] = frame[t] /\ FinishEvict(t)

\* A thread that evicts a page of its own cannot write to it meanwhile: after
\* the write-back the disk has the page.
OwnVictimWritten ==
    \A t \in Threads : pc[t] = "written" /\ info[frame[t]].owner = t =>
        content[frame[t]] = disk[t][info[frame[t]].page]

\* With no disk errors faults, clean evictions, self-evictions and launches
\* never change what a process reads.
LEMMA MemoryStep ==
    ASSUME ~DiskMayFail, Inv, ~FailureSeen, OwnVictimWritten, Next,
           NEW p \in Procs, NEW v \in Pages, ~Allowed(p, v)
    PROVE  Memory(p, v)' = Memory(p, v)
<1>1. Base /\ Safe /\ TypeOK /\ ThreadsOK
  BY Zenon DEF Inv, Base
<1>2. /\ map \in [Procs -> [Pages -> Frames \cup {NoFrame}]]
      /\ disk \in [Procs -> [Pages -> Contents]]
      /\ content \in [Frames -> Contents]
  BY Zenon, <1>1 DEF TypeOK
<1>3. map[p][v] # NoFrame => map[p][v] \in Frames /\ Owned(map[p][v])
                             /\ info[map[p][v]] = DataInfo(p, v)
  BY Zenon, <1>1, MappedIsOwned DEF Safe, MappingAgrees
<1>4. ASSUME map'[p][v] = map[p][v], disk'[p][v] = disk[p][v],
             map[p][v] # NoFrame => content'[map[p][v]] = content[map[p][v]]
      PROVE  Memory(p, v)' = Memory(p, v)
  BY Zenon, <1>4 DEF Memory
<1>5. ASSUME NEW q \in Procs, Launch(q) \/ User(q)
      PROVE  Memory(p, v)' = Memory(p, v)
  <2>1. CASE Launch(q) \/ Exit(q) \/ \E w \in Pages : Fault(q, w)
    BY Zenon, <1>4, <2>1 DEF Launch, Exit, Fault, tableVars, dataVars
  <2>2. ASSUME NEW w \in Pages, NEW val \in Values, Write(q, w, val)
        PROVE  Memory(p, v)' = Memory(p, v)
    <3>1. q # p \/ w # v
      BY Zenon, <2>2 DEF Allowed
    <3>2. info[map[q][w]] = DataInfo(q, w)
      BY Zenon, <1>1, <2>2 DEF Write, Safe, MappingAgrees
    <3>3. map[p][v] # NoFrame => map[p][v] # map[q][w]
      BY <1>3, <3>1, <3>2 DEF DataInfo
    <3> QED  BY Zenon, <1>2, <1>3, <1>4, <2>2, <3>3 DEF Write
  <2> QED  BY Zenon, <1>5, <2>1, <2>2 DEF User
<1>6. ASSUME NEW t \in Threads, KernelStep(t)
      PROVE  Memory(p, v)' = Memory(p, v)
  <2>1. CASE \E f \in Frames : EvictClean(t, f)
    <3>1. PICK f \in Frames : EvictClean(t, f)
      BY Zenon, <2>1
    <3>2. /\ pc[t] = "alloc" /\ freeList = <<>> /\ Select(f) /\ PageFree(f)
          /\ ~IsDirty(f) /\ content' = content /\ disk' = disk
      BY Zenon, <3>1 DEF EvictClean, dataVars
    <3>3. /\ info[f].owner \in Procs /\ info[f].page \in Pages
          /\ map[info[f].owner][info[f].page] = f
      BY Zenon, <1>1, <3>2, VictimFacts
    <3>4. CASE info[f].owner = p /\ info[f].page = v
      <4>1. map'[p][v] = NoFrame /\ map[p][v] = f /\ f # NoFrame /\ ~dirty[p][v]
        BY <1>1, <3>2, <3>3, <3>4, PageFreeFacts DEF IsDirty, Frames, NoFrame
      <4> QED  BY Zenon, <1>1, <3>2, <4>1 DEF Memory, Safe, CleanMatchesDisk
    <3>5. CASE info[f].owner # p \/ info[f].page # v
      BY Zenon, <1>1, <1>4, <3>2, <3>3, <3>5, PageFreeFacts
    <3> QED  BY Zenon, <3>4, <3>5
  <2>2. CASE FinishEvict(t)
    <3> DEFINE f == frame[t]
    <3>1. pc[t] = "written" /\ PageFree(f) /\ content' = content /\ disk' = disk
      BY Zenon, <2>2 DEF FinishEvict, dataVars
    <3>2. /\ f \in Frames
          /\ info[f].owner \in Procs /\ info[f].page \in Pages
          /\ map[info[f].owner][info[f].page] = f
      BY Zenon, <1>1, <3>1 DEF ThreadsOK, Safe, HolderOK, MappingAgrees
    <3>3. CASE info[f].owner = p /\ info[f].page = v
      <4>1. map'[p][v] = NoFrame /\ map[p][v] = f /\ f # NoFrame
        BY <1>1, <3>1, <3>2, <3>3, PageFreeFacts DEF Frames, NoFrame
      <4>2. t = p
        BY Zenon, <2>2, <4>1 DEF Allowed
      <4>3. content[f] = disk[p][v]
        BY Zenon, <3>1, <3>3, <4>2 DEF OwnVictimWritten
      <4> QED  BY Zenon, <3>1, <4>1, <4>3 DEF Memory
    <3>4. CASE info[f].owner # p \/ info[f].page # v
      BY Zenon, <1>1, <1>4, <3>1, <3>2, <3>4, PageFreeFacts
    <3> QED  BY Zenon, <3>3, <3>4
  <2>3. CASE MapPage(t)
    <3>1. /\ pc[t] = "loaded" /\ job[t].proc = t /\ t \in Procs
          /\ job[t].page \in Pages /\ map[t][job[t].page] = NoFrame
          /\ frame[t] \in Frames
          /\ content[frame[t]] = disk[t][job[t].page]
      BY Zenon, <1>1, <2>3 DEF MapPage, ThreadsOK, Safe, HolderOK
    <3>2. /\ map' = [map EXCEPT ![t][job[t].page] = frame[t]]
          /\ content' = content /\ disk' = disk
      BY Zenon, <2>3, <3>1 DEF MapPage, dataVars
    <3>3. CASE t = p /\ job[t].page = v
      BY Zenon, <1>2, <3>1, <3>2, <3>3 DEF Memory, Frames, NoFrame
    <3>4. CASE t # p \/ job[t].page # v
      BY Zenon, <1>2, <1>4, <3>1, <3>2, <3>4
    <3> QED  BY Zenon, <3>3, <3>4
  <2>4. CASE WriteBack(t)
    <3> DEFINE f == frame[t]
    <3>1. /\ pc[t] = "writeback" /\ map' = map /\ content' = content
          /\ disk' = [disk EXCEPT ![info[f].owner][info[f].page] = content[f]]
      BY Zenon, <2>4 DEF WriteBack, tableVars
    <3>2. /\ f \in Frames
          /\ info[f].owner \in Procs /\ info[f].page \in Pages
          /\ map[info[f].owner][info[f].page] = f
      BY Zenon, <1>1, <3>1 DEF ThreadsOK, Safe, HolderOK, MappingAgrees
    <3>3. CASE info[f].owner = p /\ info[f].page = v
      BY <3>1, <3>2, <3>3 DEF Memory, Frames, NoFrame
    <3>4. CASE info[f].owner # p \/ info[f].page # v
      BY Zenon, <1>2, <1>4, <3>1, <3>2, <3>4
    <3> QED  BY Zenon, <3>3, <3>4
  <2>5. CASE AllocateFree(t)
    BY Zenon, <1>1, <1>3, <1>4, <2>5, ZeroSparesOwned DEF AllocateFree
  <2>6. CASE DiskRead(t) \/ SetupStage(t)
    <3>1. frame[t] \in Frames /\ ~Owned(frame[t])
      BY Zenon, <1>1, <2>6 DEF DiskRead, SetupStage, Base, ThreadsOK, Safe,
                        FrameAccounting, InFlight
    <3> QED  BY Zenon, <1>2, <1>3, <1>4, <2>6, <3>1 DEF DiskRead, SetupStage,
                    tableVars
  <2>7. CASE Acquire(t) \/ Block(t) \/ NoVictim(t) \/ Release(t)
    BY Zenon, <1>4, <2>7
       DEF Acquire, Block, NoVictim, Release, tableVars, dataVars
  <2>8. CASE \E f \in Frames : EvictDirty(t, f)
    BY Zenon, <1>4, <2>8 DEF EvictDirty, dataVars
  <2>9. /\ ~DiskReadFails(t) /\ ~FailRelease(t) /\ ~FailReleaseAgain(t)
        /\ ~Abort(t)
    BY Zenon DEF DiskReadFails, FailRelease, FailReleaseAgain, Abort,
                FailureSeen, Failed
  <2> QED
    BY Zenon, <1>6, <2>1, <2>2, <2>3, <2>4, <2>5, <2>6, <2>7, <2>8, <2>9
       DEF KernelStep
<1> QED  BY Zenon, <1>5, <1>6 DEF Next

\* Needs a disk without errors: a failed write-back is not reported.
LEMMA OwnVictimStep ==
    ASSUME ~DiskMayFail, Inv, ~FailureSeen, OwnVictimWritten, [Next]_vars
    PROVE  OwnVictimWritten'
<1> SUFFICES ASSUME NEW t \in Threads, pc'[t] = "written",
                    info'[frame'[t]].owner = t
             PROVE  content'[frame'[t]] = disk'[t][info'[frame'[t]].page]
  BY Zenon DEF OwnVictimWritten
<1>1. /\ Base /\ Safe /\ TypeOK /\ ThreadsOK
  BY Zenon DEF Inv, Base
<1>2. CASE UNCHANGED vars
  BY Zenon, <1>2 DEF OwnVictimWritten, vars, tableVars, dataVars
<1>3. CASE WriteBack(t)
  <2>1. /\ frame' = frame /\ info' = info /\ content' = content
        /\ disk' = [disk EXCEPT ![info[frame[t]].owner][info[frame[t]].page]
                              = content[frame[t]]]
        /\ pc[t] = "writeback"
    BY Zenon, <1>3 DEF WriteBack, tableVars
  <2>2. frame[t] \in Frames /\ info[frame[t]].owner \in Procs
        /\ info[frame[t]].page \in Pages
    BY Zenon, <1>1, <2>1 DEF ThreadsOK, Safe, HolderOK, MappingAgrees
  <2>3. disk \in [Procs -> [Pages -> Contents]]
    BY Zenon, <1>1 DEF TypeOK
  <2> QED  BY Zenon, <2>1, <2>2, <2>3
<1>4. ASSUME pc[t] = "written",
             UNCHANGED <<frame, info, disk>>,
             content'[frame[t]] = content[frame[t]]
      PROVE  content'[frame'[t]] = disk'[t][info'[frame'[t]].page]
  BY Zenon, <1>4 DEF OwnVictimWritten
<1>5. ASSUME NEW p \in Procs, Launch(p) \/ User(p)
      PROVE  content'[frame'[t]] = disk'[t][info'[frame'[t]].page]
  <2>1. CASE Launch(p) \/ Exit(p) \/ \E v \in Pages : Fault(p, v)
    BY Zenon, <1>1, <1>4, <2>1
       DEF Launch, Exit, Fault, Running, Creator, TypeOK, tableVars, dataVars
  <2>2. ASSUME NEW v \in Pages, NEW val \in Values, Write(p, v, val)
        PROVE  content'[frame'[t]] = disk'[t][info'[frame'[t]].page]
    <3>1. /\ pc[t] = "written" /\ p # t
          /\ UNCHANGED <<frame, info, disk>>
      BY Zenon, <2>2 DEF Write, Running
    <3>2. info[map[p][v]] = DataInfo(p, v) /\ map[p][v] # frame[t]
      BY SMTT(30), <1>1, <2>2, <3>1 DEF Write, Safe, MappingAgrees, DataInfo
    <3>3. content'[frame[t]] = content[frame[t]]
      BY <1>1, <2>2, <3>2 DEF Write, TypeOK
    <3> QED  BY Zenon, <1>4, <3>1, <3>3
  <2> QED  BY Zenon, <1>5, <2>1, <2>2 DEF User
<1>6. ASSUME NEW u \in Threads, KernelStep(u), ~WriteBack(t)
      PROVE  content'[frame'[t]] = disk'[t][info'[frame'[t]].page]
  <2>1. CASE Acquire(u) \/ Block(u)
    BY Zenon, <1>1, <1>4, <2>1 DEF Acquire, Block, TypeOK, tableVars, dataVars
  <2>2. CASE Release(u)
    <3>1. Base /\ pc[u] # "blocked" /\ LockRelease(u, "run") /\ "run" \in Steps
      BY Zenon, <1>1, <2>2 DEF Release, Steps
    <3>2. pc[t] = "written"
      BY ZenonT(20), <3>1, ReleaseFacts
    <3> QED  BY Zenon, <1>4, <2>2, <3>2 DEF Release, tableVars, dataVars
  <2>3. ASSUME pc[u] \in Holding, pc'[u] # "written",
               \A x \in Threads \ {u} : pc'[x] = pc[x]
        PROVE  FALSE
    BY Zenon, <1>1, <2>3, Alone DEF Holding
  <2>4. CASE AllocateFree(u) \/ FinishEvict(u) \/ NoVictim(u) \/ DiskRead(u)
             \/ MapPage(u) \/ SetupStage(u)
    BY Zenon, <1>1, <2>3, <2>4
       DEF AllocateFree, FinishEvict, NoVictim, DiskRead, 
                            MapPage, SetupStage, Holding, TypeOK
  <2>5. CASE \E f \in Frames : EvictClean(u, f) \/ EvictDirty(u, f)
    BY Zenon, <1>1, <2>3, <2>5 DEF EvictClean, EvictDirty, Holding, TypeOK
  <2>6. CASE WriteBack(u)
    BY Zenon, <1>1, <1>6, <2>6, Alone DEF WriteBack, Holding, TypeOK
  <2>7. /\ ~DiskReadFails(u) /\ ~FailRelease(u) /\ ~FailReleaseAgain(u)
        /\ ~Abort(u)
    BY Zenon
       DEF DiskReadFails, FailRelease, FailReleaseAgain, Abort, FailureSeen, 
           Failed
  <2> QED  BY Zenon, <1>6, <2>1, <2>2, <2>4, <2>5, <2>6, <2>7 DEF KernelStep
<1> QED  BY Zenon, <1>2, <1>3, <1>5, <1>6 DEF Next

-----------------------------------------------------------------------------
(* The inductive step *)

\* Every step of a thread, under the lock or outside it, keeps the invariant.
LEMMA InvStep == Inv /\ [Next]_vars => Inv'
<1> SUFFICES ASSUME Inv, [Next]_vars PROVE Inv'
  BY Zenon
<1>1. CASE Next
  <2>1. Base /\ (FailureSeen \/ Safe)
    BY Zenon DEF Inv, Base
  <2>2. Base'
    BY Zenon, <1>1, <2>1, BaseStep
  <2>3. FailureSeen' \/ Safe'
    BY Zenon, <1>1, <2>1, SafeStep, FailureStays
  <2> QED  BY Zenon, <2>2, <2>3 DEF Inv, Base
<1>2. CASE UNCHANGED vars
  <2> USE <1>2 DEF vars, lockVars, tableVars, dataVars
  <2>1. TypeOK' /\ ThreadsOK' /\ WaitersOK' /\ (FailureSeen' <=> FailureSeen)
    BY ZenonT(30) DEF Inv, TypeOK, ThreadsOK, WaitersOK, FailureSeen, Distinct
  <2>2. ASSUME Safe PROVE LockExclusive' /\ FrameAccounting' /\ FifoComplete'
    BY SMTT(20), <2>2
       DEF Safe, LockExclusive, FrameAccounting, FifoComplete, Owned, 
                InFlight, WritingBack, Items, Distinct
  <2>3. ASSUME Safe
        PROVE  MappingAgrees' /\ CleanMatchesDisk' /\ GivesUpOnlyWhenPinned'
    BY <2>3 DEF Safe, MappingAgrees, CleanMatchesDisk, GivesUpOnlyWhenPinned,
           Owned
  <2>4. ASSUME Safe
        PROVE  FreeListIsTail' /\ HolderOK' /\ KernelPinned' /\ PinnedOwned'
    BY Zenon, <2>4
       DEF Safe, FreeListIsTail, HolderOK, KernelPinned, PinnedOwned, 
           Owned
  <2>5. ASSUME Safe PROVE FifoRoom'
    BY Zenon, <2>5 DEF Safe, FifoRoom
  <2> QED  BY Zenon, <2>1, <2>2, <2>3, <2>4, <2>5 DEF Inv, Safe
<1> QED  BY Zenon, <1>1, <1>2

\* Without disk errors no thread takes the failure path.
LEMMA NoFailureStep ==
    ASSUME ~DiskMayFail, Inv, ~FailureSeen, [Next]_vars
    PROVE  ~FailureSeen'
<1>1. /\ Base /\ pc \in [Threads -> Steps]
      /\ \A u \in Threads : pc[u] \notin Failed
  BY Zenon DEF Inv, Base, TypeOK, FailureSeen
<1>2. SUFFICES \A u \in Threads : pc'[u] \notin Failed
  BY Zenon DEF FailureSeen
<1>3. CASE UNCHANGED vars
  BY Zenon, <1>1, <1>3 DEF vars
<1>4. ASSUME NEW p \in Procs, Launch(p) \/ User(p)
      PROVE  \A u \in Threads : pc'[u] \notin Failed
  BY Zenon, <1>1, <1>4, PagingAssumption
     DEF Launch, User, Fault, Write, Exit, Creator, Running, Threads, Failed
<1>5. ASSUME NEW t \in Threads, KernelStep(t)
      PROVE  \A u \in Threads : pc'[u] \notin Failed
  <2>1. CASE Release(t)
    <3>1. pc'[t] = "run" /\ \A u \in Threads \ {t} :
            pc'[u] = pc[u] \/ (pc[u] = "blocked" /\ pc'[u] = "acquire")
      <4>1. /\ Base /\ pc[t] # "blocked" /\ LockRelease(t, "run")
            /\ "run" \in Steps
        BY Zenon, <1>1, <2>1 DEF Release, Steps
      <4> QED  BY ZenonT(20), <4>1, ReleaseFacts
    <3> QED  BY Zenon, <1>1, <3>1 DEF Failed
  <2>2. CASE Acquire(t) \/ Block(t) \/ AllocateFree(t) \/ WriteBack(t)
             \/ FinishEvict(t) \/ NoVictim(t)
    BY Zenon, <1>1, <2>2
       DEF Acquire, Block, AllocateFree, WriteBack, FinishEvict, NoVictim, Failed
  <2>3. CASE DiskRead(t) \/ MapPage(t) \/ SetupStage(t)
    BY Zenon, <1>1, <2>3 DEF DiskRead, MapPage, SetupStage, Failed
  <2>4. CASE \E f \in Frames : EvictClean(t, f) \/ EvictDirty(t, f)
    BY Zenon, <1>1, <2>4 DEF EvictClean, EvictDirty, Failed
  <2>5. /\ ~DiskReadFails(t) /\ ~FailRelease(t) /\ ~FailReleaseAgain(t)
        /\ ~Abort(t)
    BY Zenon, <1>1
       DEF DiskReadFails, FailRelease, FailReleaseAgain, Abort, Failed
  <2> QED  BY Zenon, <1>5, <2>1, <2>2, <2>3, <2>4, <2>5 DEF KernelStep
<1> QED  BY Zenon, <1>3, <1>4, <1>5 DEF Next

\* No step touches the record of a pinned frame.
LEMMA PinnedStep ==
    ASSUME Inv, ~FailureSeen, Next, NEW f \in Frames, info[f].pinned
    PROVE  info'[f] = info[f]
<1>1. Base /\ Safe /\ info \in [Frames -> Infos]
  BY Zenon DEF Inv, Base, TypeOK
<1>2. ASSUME NEW p \in Procs, Launch(p) \/ User(p) PROVE info'[f] = info[f]
  BY Zenon, <1>2 DEF Launch, User, Fault, Write, Exit, tableVars
<1>3. ASSUME NEW t \in Threads, KernelStep(t) PROVE info'[f] = info[f]
  <2>1. CASE \E g \in Frames : EvictClean(t, g)
    BY Zenon, <1>1, <2>1 DEF EvictClean, Select, PageFree
  <2>2. CASE FinishEvict(t)
    <3>1. pc[t] = "written" /\ ~info[frame[t]].pinned
      BY Zenon, <1>1, <2>2 DEF FinishEvict, Safe, HolderOK
    <3> QED  BY Zenon, <1>1, <2>2, <3>1 DEF FinishEvict, PageFree
  <2>3. CASE MapPage(t) \/ SetupStage(t)
    <3>1. frame[t] \in Frames /\ ~Owned(frame[t])
      BY Zenon, <1>1, <2>3 DEF MapPage, SetupStage, Base, ThreadsOK, Safe,
                        FrameAccounting, InFlight
    <3>2. f # frame[t]
      BY Zenon, <1>1, <3>1 DEF Safe, PinnedOwned
    <3> QED  BY Zenon, <1>1, <2>3, <3>2 DEF MapPage, SetupStage
  <2>4. CASE Acquire(t) \/ Block(t) \/ AllocateFree(t) \/ WriteBack(t)
             \/ NoVictim(t) \/ DiskRead(t) \/ DiskReadFails(t)
    BY Zenon, <2>4
       DEF Acquire, Block, AllocateFree, WriteBack, NoVictim, DiskRead, 
                DiskReadFails, tableVars
  <2>5. CASE \/ \E g \in Frames : EvictDirty(t, g)
             \/ Release(t) \/ FailRelease(t) \/ FailReleaseAgain(t) \/ Abort(t)
    BY Zenon, <2>5
       DEF EvictDirty, Release, FailRelease, FailReleaseAgain, Abort, 
           tableVars
  <2> QED  BY Zenon, <1>3, <2>1, <2>2, <2>3, <2>4, <2>5 DEF KernelStep
<1> QED  BY Zenon, <1>2, <1>3 DEF Next

\* The bytes of an owned frame change only when its owner writes: allocation,
\* with its zeroing loop, eviction and set-up leave every owned frame alone.
LEMMA ContentsStep ==
    ASSUME Inv, ~FailureSeen, Next, NEW f \in Frames, Owned(f),
           content'[f] # content[f]
    PROVE  \E p \in Procs, v \in Pages, val \in Values :
               map[p][v] = f /\ Write(p, v, val)
<1>1. Base /\ Safe /\ content \in [Frames -> Contents]
  BY Zenon DEF Inv, Base, TypeOK
<1>2. ASSUME NEW p \in Procs, NEW v \in Pages, NEW val \in Values, Write(p, v, val)
      PROVE  map[p][v] = f
  BY Zenon, <1>1, <1>2 DEF Write
<1>3. ASSUME NEW p \in Procs, Launch(p) \/ Exit(p) \/ \E v \in Pages : Fault(p, v)
      PROVE  FALSE
  BY Zenon, <1>3 DEF Launch, Exit, Fault, dataVars
<1>4. ASSUME NEW t \in Threads, KernelStep(t) PROVE FALSE
  <2>1. CASE AllocateFree(t)
    BY Zenon, <1>1, <2>1, ZeroSparesOwned DEF AllocateFree
  <2>2. CASE DiskRead(t) \/ SetupStage(t)
    <3>1. frame[t] \in Frames /\ ~Owned(frame[t])
      BY Zenon, <1>1, <2>2 DEF DiskRead, SetupStage, Base, ThreadsOK, Safe,
                        FrameAccounting, InFlight
    <3> QED  BY Zenon, <1>1, <2>2, <3>1 DEF DiskRead, SetupStage
  <2>3. CASE Acquire(t) \/ Block(t) \/ WriteBack(t) \/ FinishEvict(t)
             \/ NoVictim(t) \/ DiskReadFails(t) \/ MapPage(t)
    BY Zenon, <2>3 DEF Acquire, Block, WriteBack, FinishEvict, NoVictim,
                      DiskReadFails, MapPage, dataVars
  <2>4. CASE \/ \E g \in Frames : EvictClean(t, g) \/ EvictDirty(t, g)
             \/ Release(t) \/ FailRelease(t) \/ FailReleaseAgain(t) \/ Abort(t)
    BY Zenon, <2>4 DEF EvictClean, EvictDirty, Release, FailRelease,
                      FailReleaseAgain, Abort, dataVars
  <2> QED  BY Zenon, <1>4, <2>1, <2>2, <2>3, <2>4 DEF KernelStep
<1> QED  BY Zenon, <1>2, <1>3, <1>4 DEF Next, User

-----------------------------------------------------------------------------
(* Theorems *)

\* The inductive invariant of demand paging, for every number of frames,
\* processes and pages, both eviction strategies, and with disk errors.
THEOREM PagingInvariant == Spec => []Inv
  BY InitInv, InvStep, PTL DEF Spec

\* Without disk errors no thread takes the failure path.
LEMMA NoFailure == ASSUME ~DiskMayFail PROVE Spec => []~FailureSeen
<1>1. Init => ~FailureSeen
  BY Zenon DEF Init, FailureSeen, Failed
<1>2. Inv /\ ~FailureSeen /\ [Next]_vars => ~FailureSeen'
  BY Zenon, NoFailureStep
<1> QED  BY <1>1, <1>2, PagingInvariant, PTL DEF Spec

\* page_map_lock admits one thread; no frame is lost or given out twice; the
\* frame infos and the page tables agree; the FIFO holds exactly the evictable
\* frames; a clean page is on disk; eviction gives up only when all is pinned.
THEOREM PagingSafety ==
    ASSUME ~DiskMayFail
    PROVE  Spec => [](/\ TypeOK /\ LockExclusive /\ FrameAccounting
                      /\ MappingAgrees /\ FifoComplete /\ CleanMatchesDisk
                      /\ GivesUpOnlyWhenPinned)
<1>1. Inv /\ ~FailureSeen => /\ TypeOK /\ LockExclusive /\ FrameAccounting
                             /\ MappingAgrees /\ FifoComplete
                             /\ CleanMatchesDisk
                             /\ GivesUpOnlyWhenPinned
  BY Zenon DEF Inv, Safe
<1> QED  BY <1>1, PagingInvariant, NoFailure, PTL

\* allocate_page() and page_free(): no frame is lost or given out twice.
THEOREM FrameAccountingHolds == ASSUME ~DiskMayFail PROVE Spec => []FrameAccounting
  BY PagingSafety, PTL

\* insert_page_map(), unmap and eviction: page_frame_info and the page tables
\* of all processes agree about every frame.
THEOREM MappingAgreesHolds == ASSUME ~DiskMayFail PROVE Spec => []MappingAgrees
  BY PagingSafety, PTL

\* fifo_enqueue_info() never meets a full ring: every frame that may be
\* evicted is in the FIFO, once.
THEOREM FifoCompleteHolds == ASSUME ~DiskMayFail PROVE Spec => []FifoComplete
  BY PagingSafety, PTL

\* The frames of page directories, page tables and stacks are never reused
\* while no read has failed.
THEOREM PinnedForeverHolds == Spec => PinnedForever
<1>1. Inv /\ [Next]_vars =>
        [\A f \in Frames :
            info[f].pinned /\ ~FailureSeen => info'[f] = info[f]]_vars
  BY Zenon, PinnedStep
<1> QED  BY <1>1, PagingInvariant, PTL DEF Spec, PinnedForever

\* The bytes of an owned frame change only when its owner writes: allocation,
\* with its zeroing loop, eviction and set-up leave every owned frame alone.
THEOREM ContentsStableHolds == ASSUME ~DiskMayFail PROVE Spec => ContentsStable
<1>1. Inv /\ ~FailureSeen /\ [Next]_vars =>
        [\A f \in Frames : Owned(f) /\ content'[f] # content[f] =>
            \E p \in Procs, v \in Pages, val \in Values :
                map[p][v] = f /\ Write(p, v, val)]_vars
  BY Zenon, ContentsStep
<1> QED  BY <1>1, PagingInvariant, NoFailure, PTL DEF Spec, ContentsStable

\* Evicting a page of one's own loses nothing.
LEMMA OwnVictim == ASSUME ~DiskMayFail PROVE Spec => []OwnVictimWritten
<1>1. Init => OwnVictimWritten
  BY Zenon DEF Init, OwnVictimWritten
<1>2. Inv /\ ~FailureSeen /\ OwnVictimWritten /\ [Next]_vars
        => OwnVictimWritten'
  BY Zenon, OwnVictimStep
<1> QED  BY <1>1, <1>2, PagingInvariant, NoFailure, PTL DEF Spec

\* With no disk errors a write is lost, if ever, only when another thread
\* unmaps the page after a write-back during which its owner ran: faults,
\* clean evictions, self-evictions and launches never change what a process
\* reads.
THEOREM MemoryLostOnlyAtUnmapHolds ==
    ASSUME ~DiskMayFail PROVE Spec => MemoryLostOnlyAtUnmap
<1>1. Inv /\ ~FailureSeen /\ OwnVictimWritten /\ [Next]_vars =>
        [\A p \in Procs, v \in Pages :
            Memory(p, v)' # Memory(p, v) => Allowed(p, v)]_vars
  BY Zenon, MemoryStep
<1> QED
  BY <1>1, PagingInvariant, NoFailure, OwnVictim, PTL
     DEF Spec, MemoryLostOnlyAtUnmap, Allowed
=============================================================================
