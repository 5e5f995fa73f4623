------------------------------ MODULE MCKernel ------------------------------
(***************************************************************************)
(* Three views of the kernel's tasks side by side: the scheduler's queues, *)
(* interrupts and context switches on their stacks, and the launch of      *)
(* processes.  Each view has variables of its own, and only the one called *)
(* view moves in a behaviour.                                              *)
(***************************************************************************)
EXTENDS Launch, Interrupts, Scheduler

VARIABLE view

kernelVars == <<view, schedulerVars, interruptVars, launchVars>>

KernelInit ==
    /\ view \in {"queues", "interrupts", "launch"}
    /\ SchedulerInit /\ InterruptsInit /\ Init

Only(v) == view = v /\ UNCHANGED view

OnQueues(A) == Only("queues") /\ A /\ UNCHANGED <<interruptVars, launchVars>>
OnStacks(A) == Only("interrupts") /\ A /\ UNCHANGED <<schedulerVars, launchVars>>
OnLaunch(A) == Only("launch") /\ A /\ UNCHANGED <<schedulerVars, interruptVars>>

KernelNext == OnQueues(SchedulerNext) \/ OnStacks(InterruptsNext) \/ OnLaunch(Next)

\* The fairness of Scheduler and of Launch.
KernelFairSpec ==
    /\ KernelInit /\ [][KernelNext]_kernelVars
    /\ WF_kernelVars(OnQueues(SchedulerStep))
    /\ WF_kernelVars(OnQueues(yield))
    /\ \A t \in Pcbs : WF_kernelVars(OnQueues(Expire(t)))
    /\ \A t \in Callers : WF_kernelVars(OnLaunch(Step(t)))

-----------------------------------------------------------------------------
(* Properties, with those of Scheduler, NestingSound of Interrupts, and    *)
(* GateHolds and LoadprocReturns of Launch                                 *)

\* scheduler() takes everybody in the ready queue in turn, sleepers included.
EverybodyRuns == view = "queues" => RoundRobin
=============================================================================
