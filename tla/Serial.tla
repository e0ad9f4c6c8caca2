------------------------------- MODULE Serial -------------------------------
(***************************************************************************)
(* Serial output from thread code and interrupt handlers of several CPUs:  *)
(* libk/serial/log.c and debug.c with their locks and shared buffers,      *)
(* hardware/com/com.c, and the handlers of tables/isr.c that print.        *)
(*                                                                         *)
(* A function is the sequence of its instructions that touch shared state; *)
(* todo[x] is what context x still has to execute.  The spinlock's         *)
(* instructions are those of module Spinlock, here for two locks that      *)
(* nest: log_impl holds log_lock around calls of debug.                    *)
(***************************************************************************)
EXTENDS Naturals, Sequences

CONSTANTS
    CPUs,
    Statuses,        \* the log statuses threads use
    Vectors,         \* the interrupts that can arrive
    MaxCalls,        \* how many calls each thread makes
    StartWithIF      \* are interrupts enabled at the start?

ASSUME SerialAssumption ==
    /\ Vectors \subseteq {"timer", "irq", "syscall", "exception", "spurious"}
    /\ MaxCalls \in Nat
    /\ StartWithIF \in BOOLEAN

log_lock == "log_lock"
debug_lock == "debug_lock"
Locks == {log_lock, debug_lock}

log_buffer == "log_buffer"
debug_buffer == "debug_buffer"
Buffers == {log_buffer, debug_buffer}

THREAD == "thread"
ISR == "isr"
Contexts == CPUs \X {THREAD, ISR}
Nobody == <<"nobody", "nobody">>

VARIABLES
    lock,        \* lock[l]: spinlock->lock
    interrupts,  \* interrupts[l]: spinlock->interrupts
    IFLAG,       \* the interrupt flag of each CPU
    todo,        \* what each context still has to execute
    in_isr,      \* is the CPU in an interrupt handler?
    rflags,      \* the interrupt flag the handler will return to
    in_service,  \* has its local APIC an interrupt that waits for its EOI?
    halted,      \* has the CPU stopped in "cli; hlt" for ever?
    buffer,      \* whose text each buffer holds
    port,        \* whose string COM1 is in the middle of
    calls        \* how many calls each thread has made

vars == <<lock, interrupts, IFLAG, todo, in_isr, rflags, in_service, halted, buffer, port, calls>>

-----------------------------------------------------------------------------
(* The functions, as sequences of instructions. *)

Instr(op, on) == [op |-> op, on |-> on]

\* Variant: without the cli.
spinlock_acquire_enabled(l) == <<Instr("test_and_set", l), Instr("save", l)>>

spinlock_acquire(l) == <<Instr("test_and_set", l), Instr("save", l), Instr("cli", l)>>
spinlock_release(l) == <<Instr("restore", l), Instr("clear", l)>>

\* The string is sent character by character; two tell its begin from its end.
com_send_string(b) == <<Instr("send_first", b), Instr("send_last", b)>>

\* vsnprintf reads its arguments, of which "from" is a shared buffer or none,
\* and fills the buffer, in one step, since every caller holds the buffer's lock;
\* which characters it stores is module Printf's matter.
vsnprintf(b, from) == <<[op |-> "format", on |-> b, from |-> from]>>

\* Variant: the text is formatted before the lock is taken.
debug_format_unlocked(from) ==
    vsnprintf(debug_buffer, from) \o spinlock_acquire(debug_lock)
        \o com_send_string(debug_buffer) \o spinlock_release(debug_lock)

debug(from) ==
    spinlock_acquire(debug_lock) \o vsnprintf(debug_buffer, from)
        \o com_send_string(debug_buffer) \o spinlock_release(debug_lock)

debug_set_color ==
    spinlock_acquire(debug_lock) \o com_send_string("color_code")
        \o spinlock_release(debug_lock)

Halt == <<Instr("halt", "cpu")>>

log_impl(status) ==
    spinlock_acquire(log_lock) \o vsnprintf(log_buffer, "arguments")
        \o debug_set_color \o debug(log_buffer)
        \o IF status = "PANIC"
           THEN Halt
           ELSE debug_set_color \o spinlock_release(log_lock)

\* Variant: nothing is written to the EOI register.
lapic_signal_nothing == <<>>

lapic_signal_eoi == <<Instr("eoi", "lapic")>>

\* isr_handler; one debug stands for the several in a row that print a report.
\* "spurious" stands for the unknown vectors too, which end the same way.
isr_handler(vector) ==
    LET report == debug_set_color \o debug("arguments") \o debug_set_color
        eoi    == lapic_signal_eoi
    IN  CASE vector = "timer"     -> debug("arguments") \o eoi
          [] vector = "irq"       -> report \o eoi
          [] vector = "syscall"   -> report
          [] vector = "exception" -> report \o Halt
          [] vector = "spurious"  -> report \o Halt

-----------------------------------------------------------------------------
(* One instruction of the context that runs on its CPU. *)

Running(x) == ~halted[x[1]] /\ in_isr[x[1]] = (x[2] = ISR)

asm_get_interrupt_flag(c) == IFLAG[c]

Effect(x, i) ==
    \/ /\ i.op = "test_and_set"
       /\ ~lock[i.on]
       /\ lock' = [lock EXCEPT ![i.on] = TRUE]
       /\ UNCHANGED <<interrupts, IFLAG, in_service, halted, buffer, port>>
    \/ /\ i.op = "save"
       /\ interrupts' = [interrupts EXCEPT ![i.on] = asm_get_interrupt_flag(x[1])]
       /\ UNCHANGED <<lock, IFLAG, in_service, halted, buffer, port>>
    \/ /\ i.op = "cli"
       /\ IFLAG' = [IFLAG EXCEPT ![x[1]] = FALSE]
       /\ UNCHANGED <<lock, interrupts, in_service, halted, buffer, port>>
    \/ /\ i.op = "restore"
       /\ IFLAG' = [IFLAG EXCEPT ![x[1]] = interrupts[i.on]]
       /\ UNCHANGED <<lock, interrupts, in_service, halted, buffer, port>>
    \/ /\ i.op = "clear"
       /\ lock' = [lock EXCEPT ![i.on] = FALSE]
       /\ UNCHANGED <<interrupts, IFLAG, in_service, halted, buffer, port>>
    \/ /\ i.op = "format"
       /\ buffer' = [buffer EXCEPT ![i.on] =
                         IF i.from \in Buffers THEN buffer[i.from] ELSE x]
       /\ UNCHANGED <<lock, interrupts, IFLAG, in_service, halted, port>>
    \/ /\ i.op = "send_first"
       /\ port' = x
       /\ UNCHANGED <<lock, interrupts, IFLAG, in_service, halted, buffer>>
    \/ /\ i.op = "send_last"
       /\ port' = Nobody
       /\ UNCHANGED <<lock, interrupts, IFLAG, in_service, halted, buffer>>
    \/ /\ i.op = "eoi"
       /\ in_service' = [in_service EXCEPT ![x[1]] = FALSE]
       /\ UNCHANGED <<lock, interrupts, IFLAG, halted, buffer, port>>
    \/ /\ i.op = "halt"
       /\ halted' = [halted EXCEPT ![x[1]] = TRUE]
       /\ IFLAG' = [IFLAG EXCEPT ![x[1]] = FALSE]
       /\ UNCHANGED <<lock, interrupts, in_service, buffer, port>>

Execute(x) ==
    /\ Running(x)
    /\ todo[x] # <<>>
    /\ Effect(x, Head(todo[x]))
    /\ todo' = [todo EXCEPT ![x] = Tail(@)]
    /\ UNCHANGED <<in_isr, rflags, calls>>

-----------------------------------------------------------------------------
(* Calls and interrupts *)

BeginCall(c, program) ==
    /\ Running(<<c, THREAD>>)
    /\ todo[<<c, THREAD>>] = <<>>
    /\ calls[c] < MaxCalls
    /\ calls' = [calls EXCEPT ![c] = @ + 1]
    /\ todo' = [todo EXCEPT ![<<c, THREAD>>] = program]
    /\ UNCHANGED <<lock, interrupts, IFLAG, in_isr, rflags, in_service, halted, buffer, port>>

\* Device interrupts come through the local APIC, one at a time.
Devices == {"timer", "irq"}

\* A spurious interrupt is never put in service.  An exception or a syscall is
\* raised by the code that runs, whatever the interrupt flag.
Interrupt(c, vector) ==
    /\ ~halted[c] /\ ~in_isr[c]
    /\ vector \in Devices \cup {"spurious"} => IFLAG[c]
    /\ vector \in Devices => ~in_service[c]
    /\ in_isr' = [in_isr EXCEPT ![c] = TRUE]
    /\ in_service' = [in_service EXCEPT ![c] = @ \/ vector \in Devices]
    /\ rflags' = [rflags EXCEPT ![c] = IFLAG[c]]
    /\ IFLAG' = [IFLAG EXCEPT ![c] = FALSE]
    /\ todo' = [todo EXCEPT ![<<c, ISR>>] = isr_handler(vector)]
    /\ UNCHANGED <<lock, interrupts, halted, buffer, port, calls>>

InterruptReturn(c) ==
    /\ ~halted[c] /\ in_isr[c]
    /\ todo[<<c, ISR>>] = <<>>
    /\ in_isr' = [in_isr EXCEPT ![c] = FALSE]
    /\ IFLAG' = [IFLAG EXCEPT ![c] = rflags[c]]
    /\ UNCHANGED <<lock, interrupts, todo, rflags, in_service, halted, buffer, port, calls>>

Init ==
    /\ lock = [l \in Locks |-> FALSE]
    /\ interrupts = [l \in Locks |-> FALSE]
    /\ IFLAG = [c \in CPUs |-> StartWithIF]
    /\ todo = [x \in Contexts |-> <<>>]
    /\ in_isr = [c \in CPUs |-> FALSE]
    /\ rflags = [c \in CPUs |-> FALSE]
    /\ in_service = [c \in CPUs |-> FALSE]
    /\ halted = [c \in CPUs |-> FALSE]
    /\ buffer = [b \in Buffers |-> Nobody]
    /\ port = Nobody
    /\ calls = [c \in CPUs |-> 0]

Next ==
    \/ \E x \in Contexts : Execute(x)
    \/ \E c \in CPUs, status \in Statuses : BeginCall(c, log_impl(status))
    \/ \E c \in CPUs : BeginCall(c, debug("arguments"))
    \/ \E c \in CPUs, vector \in Vectors : Interrupt(c, vector)
    \/ \E c \in CPUs : InterruptReturn(c)

\* Each CPU goes on executing what it runs.
Fairness ==
    /\ \A x \in Contexts : WF_vars(Execute(x))
    /\ \A c \in CPUs : WF_vars(InterruptReturn(c))

Spec == Init /\ [][Next]_vars /\ Fairness

-----------------------------------------------------------------------------
(* Properties *)

TypeOK ==
    /\ lock \in [Locks -> BOOLEAN] /\ interrupts \in [Locks -> BOOLEAN]
    /\ IFLAG \in [CPUs -> BOOLEAN] /\ rflags \in [CPUs -> BOOLEAN]
    /\ in_isr \in [CPUs -> BOOLEAN] /\ in_service \in [CPUs -> BOOLEAN]
    /\ halted \in [CPUs -> BOOLEAN]
    /\ DOMAIN todo = Contexts
    /\ buffer \in [Buffers -> Contexts \cup {Nobody}]
    /\ port \in Contexts \cup {Nobody}
    /\ calls \in [CPUs -> 0 .. MaxCalls]

\* The instruction context x is about to execute, or has been interrupted at.
At(x, op, on) == todo[x] # <<>> /\ Head(todo[x]).op = op /\ Head(todo[x]).on = on

\* A string reaches COM1 whole, with nobody else's characters between its first
\* and its last, and it is what its caller formatted: log_buffer is not
\* overwritten between log_impl's vsnprintf and debug's, nor debug_buffer before
\* its last character is sent (log.c:45, debug.c:43-45, com_send_string).
StringsArriveWhole ==
    \A x \in Contexts, b \in {debug_buffer, "color_code"} :
        /\ At(x, "send_first", b) => port = Nobody
        /\ At(x, "send_last", b) => port = x
        /\ b = debug_buffer /\ (At(x, "send_first", b) \/ At(x, "send_last", b)) =>
               buffer[b] = x

\* Context x has taken lock l and not given it back.
Holds(x, l) ==
    \E n \in DOMAIN todo[x] :
        /\ todo[x][n] = Instr("clear", l)
        /\ \A k \in 1 .. n - 1 : todo[x][k] # Instr("test_and_set", l)

\* Interrupts are off in locked code, nested locks and all: a device can
\* interrupt a thread that holds a lock only between the instructions of
\* acquire and release themselves ("interrupts are disabled for locked code
\* parts", spinlock.h:28-29; log_impl, debug).
LockedCodeNotInterrupted ==
    \A c \in CPUs, l \in Locks :
        LET x == <<c, THREAD>>
        IN  ~in_isr[c] /\ IFLAG[c] /\ Holds(x, l) =>
                At(x, "save", l) \/ At(x, "cli", l) \/ At(x, "clear", l)

\* A device interrupt is acknowledged before its handler returns; otherwise
\* the local APIC would hold back every later one (isr.c:136).
AcknowledgedBeforeReturn ==
    \A c \in CPUs : in_service[c] => in_isr[c]

\* A handler that prints runs with interrupts off to its end, through the two
\* locks it may take and whatever the other CPUs save in them.
HandlerStaysMasked == \A c \in CPUs : in_isr[c] => ~IFLAG[c]

\* Every call of log or debug ends on every CPU, whatever the others print,
\* if interrupts are off: the two locks are always taken in the same order.
CallsReturn == \A x \in Contexts : todo[x] # <<>> ~> todo[x] = <<>>
=============================================================================
