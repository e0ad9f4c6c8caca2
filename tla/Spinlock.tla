------------------------------ MODULE Spinlock ------------------------------
(***************************************************************************)
(* One spinlock of libk/lock/spinlock.h, used on any number of CPUs by     *)
(* thread code and by interrupt handlers.  Acquiring and releasing are     *)
(* split where another CPU or an interrupt can get in between:             *)
(*                                                                         *)
(*    spin      __atomic_test_and_set until it returns 0                   *)
(*    save      spinlock->interrupts = asm_get_interrupt_flag()            *)
(*    cli                                                                  *)
(*    locked    the caller's locked code                                   *)
(*    restore   sti or cli, as spinlock->interrupts says                   *)
(*    clear     __atomic_clear                                             *)
(*                                                                         *)
(* A CPU takes an interrupt only while its interrupt flag is set; the gate *)
(* clears the flag and iret sets it again.  The interrupted thread does    *)
(* not run meanwhile.                                                      *)
(***************************************************************************)
EXTENDS Naturals

CONSTANT CPUs

THREAD == "thread"
ISR == "isr"

Contexts == CPUs \X {THREAD, ISR}

VARIABLES
    lock,        \* spinlock->lock
    interrupts,  \* spinlock->interrupts
    IFLAG,          \* IFLAG[c]: the interrupt flag of CPU c
    in_isr,      \* is CPU c in an interrupt handler?
    pc,          \* where each context is
    before       \* history: the interrupt flag when a context began to acquire

lock_vars == <<lock, interrupts, IFLAG, in_isr, pc, before>>

\* The context that runs on its CPU.
Running(x) == in_isr[x[1]] = (x[2] = ISR)

Goto(x, from, to) ==
    /\ Running(x)
    /\ pc[x] = from
    /\ pc' = [pc EXCEPT ![x] = to]

-----------------------------------------------------------------------------
(* spinlock_acquire *)

Call(x) ==
    /\ Goto(x, "idle", "spin")
    /\ before' = [before EXCEPT ![x] = IFLAG[x[1]]]
    /\ UNCHANGED <<lock, interrupts, IFLAG, in_isr>>

\* Variant: the result of the test is ignored.
SetOnly(x) ==
    /\ Goto(x, "spin", "save")
    /\ lock' = TRUE
    /\ UNCHANGED <<interrupts, IFLAG, in_isr, before>>

\* A failed test-and-set writes 1 over 1 and changes nothing.
TestAndSet(x) ==
    /\ Goto(x, "spin", "save")
    /\ ~lock
    /\ lock' = TRUE
    /\ UNCHANGED <<interrupts, IFLAG, in_isr, before>>

SaveInterruptFlag(x) ==
    /\ Goto(x, "save", "cli")
    /\ interrupts' = IFLAG[x[1]]
    /\ UNCHANGED <<lock, IFLAG, in_isr, before>>

ClearInterruptFlag(x) ==
    /\ Goto(x, "cli", "locked")
    /\ IFLAG' = [IFLAG EXCEPT ![x[1]] = FALSE]
    /\ UNCHANGED <<lock, interrupts, in_isr, before>>

-----------------------------------------------------------------------------
(* spinlock_release *)

EndLocked(x) ==
    /\ Goto(x, "locked", "restore")
    /\ UNCHANGED <<lock, interrupts, IFLAG, in_isr, before>>

\* Variants: release leaves interrupts off, or enables them.
LeaveInterruptsOff(x) ==
    /\ Goto(x, "restore", "clear")
    /\ UNCHANGED <<lock, interrupts, IFLAG, in_isr, before>>

EnableUnconditionally(x) ==
    /\ Goto(x, "restore", "clear")
    /\ IFLAG' = [IFLAG EXCEPT ![x[1]] = TRUE]
    /\ UNCHANGED <<lock, interrupts, in_isr, before>>

RestoreInterruptFlag(x) ==
    /\ Goto(x, "restore", "clear")
    /\ IFLAG' = [IFLAG EXCEPT ![x[1]] = interrupts]
    /\ UNCHANGED <<lock, interrupts, in_isr, before>>

Clear(x) ==
    /\ Goto(x, "clear", "idle")
    /\ lock' = FALSE
    /\ UNCHANGED <<interrupts, IFLAG, in_isr, before>>

-----------------------------------------------------------------------------
(* Interrupts *)

\* idt_init and ap_init enable interrupts outside locked code.
EnableInterrupts(c) ==
    /\ ~in_isr[c]
    /\ pc[<<c, THREAD>>] = "idle"
    /\ IFLAG' = [IFLAG EXCEPT ![c] = TRUE]
    /\ UNCHANGED <<lock, interrupts, in_isr, pc, before>>

Interrupt(c) ==
    /\ IFLAG[c]
    /\ ~in_isr[c]
    /\ in_isr' = [in_isr EXCEPT ![c] = TRUE]
    /\ IFLAG' = [IFLAG EXCEPT ![c] = FALSE]
    /\ UNCHANGED <<lock, interrupts, pc, before>>

InterruptReturn(c) ==
    /\ in_isr[c]
    /\ pc[<<c, ISR>>] = "idle"
    /\ in_isr' = [in_isr EXCEPT ![c] = FALSE]
    /\ IFLAG' = [IFLAG EXCEPT ![c] = TRUE]
    /\ UNCHANGED <<lock, interrupts, pc, before>>

-----------------------------------------------------------------------------

LockInit ==
    /\ lock = FALSE
    /\ interrupts = FALSE
    /\ IFLAG = [c \in CPUs |-> FALSE]
    /\ in_isr = [c \in CPUs |-> FALSE]
    /\ pc = [x \in Contexts |-> "idle"]
    /\ before = [x \in Contexts |-> FALSE]

Step(x) ==
    \/ Call(x) \/ TestAndSet(x) \/ SaveInterruptFlag(x) \/ ClearInterruptFlag(x)
    \/ EndLocked(x) \/ RestoreInterruptFlag(x) \/ Clear(x)

LockNext ==
    \/ \E x \in Contexts : Step(x)
    \/ \E c \in CPUs : EnableInterrupts(c) \/ Interrupt(c) \/ InterruptReturn(c)

LockSpec == LockInit /\ [][LockNext]_lock_vars

-----------------------------------------------------------------------------
(* Properties *)

Places == {"idle", "spin", "save", "cli", "locked", "restore", "clear"}

LockTypeOK ==
    /\ lock \in BOOLEAN
    /\ interrupts \in BOOLEAN
    /\ IFLAG \in [CPUs -> BOOLEAN]
    /\ in_isr \in [CPUs -> BOOLEAN]
    /\ pc \in [Contexts -> Places]
    /\ before \in [Contexts -> BOOLEAN]

\* The places at which a context has the lock.
Holding == Places \ {"idle", "spin"}

\* At most one context of one CPU has the lock, across CPUs and between a
\* thread and the handler that interrupts it (spinlock_acquire,
\* spinlock_release).
MutualExclusion ==
    \A x, y \in Contexts : pc[x] \in Holding /\ pc[y] \in Holding => x = y

\* "after the code is released, the old interrupt state is restored"
\* (spinlock.h:28-29): a context about to clear the lock has the flag it had
\* when it began to acquire, although the field that remembers it is shared by
\* all CPUs.
InterruptStateRestored ==
    \A x \in Contexts : pc[x] = "clear" /\ Running(x) => IFLAG[x[1]] = before[x]

\* A handler runs with interrupts off from its first instruction to its last,
\* through every acquire and release it makes.
HandlerStaysMasked == \A c \in CPUs : in_isr[c] => ~IFLAG[c]

\* A handler never waits for a lock that the code it interrupted has
\* (spinlock.h:26-28).
HandlerNeverWaitsForItsThread ==
    \A c \in CPUs :
        in_isr[c] /\ pc[<<c, ISR>>] = "spin" => pc[<<c, THREAD>>] \notin Holding
=============================================================================
