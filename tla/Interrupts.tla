----------------------------- MODULE Interrupts -----------------------------
(***************************************************************************)
(* How the kernel is entered and left: the entry code of interrupt_asm.S   *)
(* and syscall_asm.S with the dispatcher of syscall.c, the critical        *)
(* sections of sync.c, the two interrupt controllers (intctl_8259.c) and   *)
(* what scheduler_asm.S and scheduler.c save and restore at a switch.      *)
(*                                                                         *)
(* There is one processor.  stack[t] says what task t is in the middle of, *)
(* innermost last: its program (USER, or THREAD for a kernel thread), a    *)
(* system call, a page fault, the critical section that getchar() and      *)
(* putchar() hold while they may block, the numbers of interrupts.         *)
(***************************************************************************)
EXTENDS Queues, FiniteSets

CONSTANTS
    Threads,    \* kernel threads
    Users,      \* processes
    Irqs        \* IRQS_TO_ENABLE, without the cascade

Tasks == Threads \cup Users
IRQ_TIMER == 0
IRQ_CASCADE == 2
IRQ_SLAVE_START == 8

\* What else is on a stack, apart from the numbers of interrupts.
USER == 16
THREAD == 17
SYSCALL == 18
FAULT == 19
CRITICAL == 20

ASSUME InterruptsAssumption ==
    /\ Threads \cap Users = {}
    /\ Irqs \subseteq 0 .. 15 \ {IRQ_CASCADE}
    /\ IRQ_TIMER \in Irqs

VARIABLES
    current,    \* current_running
    stack,
    nested,     \* nested_count of each task
    count,      \* nointerrupt_count_val
    enabled,    \* the interrupt flag of the processor
    mask,       \* the interrupts the controllers mask
    isr,        \* the interrupts in service in the controllers
    saved,      \* what a task that does not run has saved, and its status
    cpu        \* "run", "switch" or "back" in scheduler_entry(), or "panic"

interruptVars ==
    <<current, stack, nested, count, enabled, mask, isr, saved, cpu>>

\* kernel_main() has dispatched the first thread.  create_thread() starts the
\* others with a nested_count of 1, create_process() with 0, and
\* create_pcb_common() lets none of them mask anything.
InterruptsInit ==
    /\ current \in Threads
    /\ stack = [t \in Tasks |-> <<IF t \in Threads THEN THREAD ELSE USER>>]
    /\ nested = [t \in Tasks |-> IF t \in Threads THEN 1 ELSE 0]
    /\ count = 0 /\ enabled = TRUE
    /\ mask = {} /\ isr = {}
    /\ saved = [t \in Tasks |-> [count |-> 0, mask |-> {},
                    status |-> IF t = current THEN "ready" ELSE "first"]]
    /\ cpu = "run"

Runs == cpu = "run"
Innermost(s) == s[Len(s)]
Outside(s) == SubSeq(s, 1, Len(s) - 1)
Top == Innermost(stack[current])
In(frames) == Top \in frames
Push(f) == stack' = [stack EXCEPT ![current] = Append(@, f)]
Pop == stack' = [stack EXCEPT ![current] = Outside(@)]
Nest(by) == nested' = [nested EXCEPT ![current] = @ + by]

\* nointerrupt_enter() and nointerrupt_leave(), with the count before them.
nointerrupt_enter(n) == count' = n + 1 /\ enabled' = FALSE
nointerrupt_leave(n) == count' = n - 1 /\ enabled' = (n - 1 = 0)

\* nointerrupt_leave_delayed() asserts that the count becomes zero; the iret
\* behind it enables interrupts.
leave_delayed(n) ==
    /\ count' = n - 1
    /\ enabled' = TRUE
    /\ cpu' = IF n - 1 = 0 THEN "run" ELSE "panic"

-----------------------------------------------------------------------------
(* Interrupts *)

\* The second controller hangs on line 2 of the first.
Line(k) == IF k >= IRQ_SLAVE_START THEN IRQ_CASCADE ELSE k

\* The controllers let k through: it is not masked, and neither controller
\* serves something of the same or a higher priority.
Delivered(k) ==
    /\ Runs /\ enabled /\ k \notin mask
    /\ \A j \in isr : IF j < IRQ_SLAVE_START THEN Line(k) < j
                      ELSE k < IRQ_SLAVE_START \/ k < j

\* What is in service after k was taken and pic_send_eoi(k) ended it.
Eoi(k) == (isr \cup {k, Line(k)}) \ {k, Line(k)}

\* IRQ_ENTRY_WRAPPER up to the handler.  Those of the keyboard and the USB
\* controllers run with interrupts enabled.  The timer's calls preempt(),
\* which enters a critical section of its own and scheduler_entry().
IrqEntry(k) ==
    /\ Delivered(k)
    /\ Push(k) /\ Nest(1)
    /\ mask' = mask \cup {k}
    /\ isr' = Eoi(k)
    /\ IF k = IRQ_TIMER
       THEN count' = count + 2 /\ enabled' = FALSE /\ cpu' = "switch"
       ELSE nointerrupt_leave(count + 1) /\ UNCHANGED cpu
    /\ UNCHANGED <<current, saved>>

\* The end of the wrapper, for the timer without the call that disables
\* interrupts again.
IrqExit(k) ==
    /\ Runs /\ Top = k
    /\ Pop /\ Nest(-1)
    /\ mask' = mask \ {k}
    /\ leave_delayed(IF k = IRQ_TIMER THEN count ELSE count + 1)
    /\ UNCHANGED <<current, isr, saved>>

-----------------------------------------------------------------------------
(* System calls, page faults, critical sections *)

\* syscall_entry_interrupt and syscall_dispatch(), up to the call.
Syscall ==
    /\ Runs /\ In({USER})
    /\ Push(SYSCALL) /\ Nest(1)
    /\ nointerrupt_leave(count + 1)
    /\ cpu' = IF nested[current] = 0 THEN "run" ELSE "panic"
    /\ UNCHANGED <<current, mask, isr, saved>>

SyscallReturn ==
    /\ Runs /\ In({SYSCALL})
    /\ Pop /\ Nest(-1)
    /\ IF nested[current] = 1
       THEN leave_delayed(count + 1)
       ELSE cpu' = "panic" /\ UNCHANGED <<count, enabled>>
    /\ UNCHANGED <<current, mask, isr, saved>>

\* A program, or a system call that reads or writes a user's buffer, touches
\* a page that is not present.  page_fault_handler() leaves the critical
\* section while it loads the page.
Fault ==
    /\ Runs /\ In({USER, SYSCALL})
    /\ Push(FAULT) /\ Nest(1)
    /\ nointerrupt_leave(count + 1)
    /\ UNCHANGED <<current, mask, isr, saved, cpu>>

FaultReturn ==
    /\ Runs /\ In({FAULT})
    /\ Pop /\ Nest(-1)
    /\ leave_delayed(count + 1)
    /\ UNCHANGED <<current, mask, isr, saved>>

\* getchar() and putchar() enter a critical section and may block inside it.
Enter ==
    /\ Runs /\ In({SYSCALL} \cup (Irqs \ {IRQ_TIMER}))
    /\ Push(CRITICAL)
    /\ nointerrupt_enter(count)
    /\ UNCHANGED <<current, nested, mask, isr, saved, cpu>>

LeaveCritical ==
    /\ Runs /\ In({CRITICAL})
    /\ Pop
    /\ nointerrupt_leave(count)
    /\ UNCHANGED <<current, nested, mask, isr, saved, cpu>>

-----------------------------------------------------------------------------
(* Switching tasks *)

\* yield(), msleep(), block(): a critical section, then scheduler_entry().
Yield ==
    /\ Runs /\ In({THREAD, SYSCALL, FAULT, CRITICAL})
    /\ nointerrupt_enter(count)
    /\ cpu' = "switch"
    /\ UNCHANGED <<current, stack, nested, mask, isr, saved>>

\* exit(), which an illegal system call number calls as well.
ExitTask ==
    /\ Runs /\ In({THREAD, SYSCALL})
    /\ \E t \in Tasks \ {current} : saved[t].status # "exited"
    /\ nointerrupt_enter(count)
    /\ saved' = [saved EXCEPT ![current].status = "exited"]
    /\ cpu' = "switch"
    /\ UNCHANGED <<current, stack, nested, mask, isr>>

SwitchSharesMask(t) ==
    /\ cpu = "switch" /\ saved[t].status # "exited"
    /\ current' = t
    /\ saved' = [saved EXCEPT ![current].count = count, ![t].status = "ready"]
    /\ IF saved[t].status = "first"
       THEN count' = 0 /\ enabled' = TRUE /\ cpu' = "run"
       ELSE /\ count' = saved'[t].count /\ enabled' = FALSE /\ cpu' = "back"
    /\ UNCHANGED <<stack, nested, mask, isr>>

\* scheduler_entry() and scheduler() save the critical-section count and the
\* mask; dispatch() and setup_current_running() restore those of t.  A task
\* that runs for the first time starts with interrupts enabled, any other is
\* still in the critical section in which it called scheduler_entry().
Switch(t) ==
    /\ cpu = "switch" /\ saved[t].status # "exited"
    /\ current' = t
    /\ saved' = [saved EXCEPT ![current] = [@ EXCEPT !.count = count, !.mask = mask],
                              ![t].status = "ready"]
    /\ mask' = saved'[t].mask
    /\ IF saved[t].status = "first"
       THEN count' = 0 /\ enabled' = TRUE /\ cpu' = "run"
       ELSE count' = saved'[t].count /\ enabled' = FALSE /\ cpu' = "back"
    /\ UNCHANGED <<stack, nested, isr>>

\* The end of yield(), block() and preempt().
SwitchedBack ==
    /\ cpu = "back"
    /\ nointerrupt_leave(count)
    /\ cpu' = "run"
    /\ UNCHANGED <<current, stack, nested, mask, isr, saved>>

InterruptsNext ==
    \/ \E k \in Irqs : IrqEntry(k) \/ IrqExit(k)
    \/ Syscall \/ SyscallReturn \/ Fault \/ FaultReturn \/ Enter \/ LeaveCritical
    \/ Yield \/ ExitTask \/ \E t \in Tasks : Switch(t)
    \/ SwitchedBack

InterruptsSpec == InterruptsInit /\ [][InterruptsNext]_interruptVars

-----------------------------------------------------------------------------
(* Properties *)

KernelFrames(s) == {i \in 1 .. Len(s) : s[i] \notin {USER, CRITICAL}}
InterruptsOf(t) == Irqs \cap Items(stack[t])

\* However interrupts nest and tasks change in the middle of them, the state
\* that the entry code keeps in global places is that of the task that runs.
\* No assertion on the critical-section count or the nesting count fails;
\* interrupts are enabled exactly when the count is zero, and always when a
\* program runs; nested_count is the number of times the task is inside the
\* kernel; the interrupts masked are those this very task is serving, so no
\* line stays masked behind a switch and none comes in twice; and nothing is
\* left in service in the controllers, which would hold back other lines.
NestingSound ==
    /\ cpu # "panic"
    /\ isr = {}
    /\ \A t \in Tasks : nested[t] = Cardinality(KernelFrames(stack[t]))
    /\ cpu = "run" => enabled = (count = 0) /\ (In({USER}) => enabled)
    /\ mask = InterruptsOf(current)
    /\ \A t \in Tasks \ {current} :
          saved[t].status = "ready" => saved[t].mask = InterruptsOf(t)

\* Why: the order in which frames lie on each stack, and the count that goes
\* with it.  A task is in a critical section, or handles the timer, only in
\* its innermost frame; with interrupts enabled again a line that it serves
\* is masked, so that it does not come in twice.
Frames == Irqs \cup {USER, THREAD, SYSCALL, FAULT, CRITICAL}
Closed == {CRITICAL, IRQ_TIMER}
Ordered(s) ==
    /\ s \in Seq(Frames) /\ s # <<>> /\ s[1] \in {USER, THREAD}
    /\ \A i \in 1 .. Len(s) :
        /\ i > 1 => s[i] \notin {USER, THREAD}
        /\ s[i] \in Closed => i = Len(s)
        /\ s[i] = SYSCALL => i = 2 /\ s[1] = USER
    /\ \A i, j \in 1 .. Len(s) : s[i] \in Irqs /\ s[i] = s[j] => i = j
Depth(t) == IF Innermost(stack[t]) \in Closed THEN 1 ELSE 0

NestingInv ==
    /\ NestingSound
    /\ current \in Tasks /\ count \in Int /\ mask \subseteq Irqs
    /\ stack \in [Tasks -> Seq(Frames)] /\ nested \in [Tasks -> Int]
    /\ saved \in [Tasks -> [count : Int, mask : SUBSET Irqs,
                            status : {"first", "ready", "exited"}]]
    /\ cpu \in {"run", "switch", "back"} /\ enabled \in BOOLEAN
    /\ count = Depth(current) + (IF cpu = "run" THEN 0 ELSE 1)
    /\ saved[current].status \in
           (IF cpu = "switch" THEN {"ready", "exited"} ELSE {"ready"})
    /\ \A t \in Tasks :
        /\ Ordered(stack[t])
        /\ saved[t].status = "first" => Len(stack[t]) = 1 /\ saved[t].mask = {}
        /\ t # current /\ saved[t].status = "ready" => saved[t].count = Depth(t) + 1
=============================================================================
