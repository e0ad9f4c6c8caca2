-------------------------------- MODULE Timer --------------------------------
(***************************************************************************)
(* The clocks of hardware/hpet/hpet.c and of the LAPIC's timer in          *)
(* hardware/apic/apic.c: hpet_init starts the HPET, lapic_timer_init       *)
(* measures the LAPIC's timer against it, and lapic_timer_oneshot asks for *)
(* an interrupt after a number of microseconds.                            *)
(*                                                                         *)
(* Time is counted in units.  A clock ticks once in its period and runs    *)
(* freely, so a register written between two ticks changes first after     *)
(* less than a period.  Time passes between any two steps of the kernel.   *)
(***************************************************************************)
EXTENDS Integers

CONSTANTS
    MICROSECOND,  \* units in a microsecond, 10^9 femtoseconds in the code
    LAPIC_RANGE,  \* the number of values of the LAPIC's registers, 2^32
    CALIBRATION,  \* how many microseconds are measured, 1000 in the code
    SECOND,       \* microseconds in a second, 10^6 in the code
    Delays,       \* the microseconds that callers ask lapic_timer_oneshot for
    MaxLate       \* bound: the units by which the kernel's steps are late in one wait

ASSUME TimerAssumption ==
    /\ {MICROSECOND, LAPIC_RANGE, CALIBRATION, SECOND} \subseteq Nat \ {0}
    /\ Delays \subseteq Nat
    /\ MaxLate \in Nat

VARIABLES
    clock,             \* the periods of this machine's clocks
    hpet_regs,         \* general_config, counter_value, the units since the last tick
    lapic,             \* enabled, the LVT's mask bit, the current count, the units since
                       \* the last tick of its timer
    timer_pc,          \* where the code that uses the clocks is
    target_value,      \* hpet_usleep's local
    slept,             \* history: the units since hpet_usleep began
    late,              \* the units by which the kernel has been late in this wait
    lapic_timer_freq,  \* ticks of the LAPIC's timer in a second, as measured
    oneshot            \* the last request: its microseconds, the units since it was
                       \* loaded, and whether its interrupt is still to come

timer_vars == <<clock, hpet_regs, lapic, timer_pc, target_value, slept, late,
                lapic_timer_freq, oneshot>>

NoOneshot == [us |-> 0, waited |-> 0, loaded |-> FALSE]

TimerInit(periods) ==
    /\ clock = periods
    /\ \E h \in 0 .. clock.hpet - 1, l \in 0 .. clock.lapic - 1 :
           /\ hpet_regs = [general_config |-> 0, counter_value |-> 0, phase |-> h]
           /\ lapic = [enabled |-> FALSE, masked |-> TRUE, count |-> 0, phase |-> l]
    /\ timer_pc = "off"
    /\ target_value = 0
    /\ slept = 0
    /\ late = 0
    /\ lapic_timer_freq = 0
    /\ oneshot = NoOneshot

-----------------------------------------------------------------------------
(* Time *)

\* The kernel waits in hpet_usleep, or for the interrupt of a oneshot.
Waiting ==
    \/ timer_pc = "sleep" /\ hpet_regs.counter_value < target_value
    \/ timer_pc = "idle" /\ oneshot.loaded /\ lapic.count > 0

\* It is between two of the steps below, and takes its time.
Dawdling == timer_pc \in {"measure", "sleep", "slept", "unmasked"} /\ late < MaxLate

Advanced(phase, period) == (phase + 1) % period

HpetTicks == hpet_regs.general_config = 1 /\ Advanced(hpet_regs.phase, clock.hpet) = 0
LapicTicks == lapic.count > 0 /\ Advanced(lapic.phase, clock.lapic) = 0

\* The timer raises its interrupt when it counts down to 0, unless the LVT
\* masks it or the LAPIC is disabled.
LapicFires == LapicTicks /\ lapic.count = 1 /\ ~lapic.masked /\ lapic.enabled

\* Bound: slept is not counted beyond the time that was asked for.
LongEnough == CALIBRATION * MICROSECOND

\* One unit of time passes.  A masked timer counts all the same.  The HPET is
\* followed while hpet_usleep reads it.
Tick ==
    /\ Waiting \/ Dawdling
    /\ late' = IF Waiting THEN late ELSE late + 1
    /\ hpet_regs' = IF timer_pc \notin {"measure", "sleep"} THEN hpet_regs
                    ELSE [hpet_regs EXCEPT !.phase = Advanced(@, clock.hpet),
                                           !.counter_value = @ + IF HpetTicks THEN 1 ELSE 0]
    /\ lapic' = [lapic EXCEPT !.phase = Advanced(@, clock.lapic),
                              !.count = @ - IF LapicTicks THEN 1 ELSE 0]
    /\ slept' = slept + IF timer_pc = "sleep" /\ slept < LongEnough THEN 1 ELSE 0
    /\ oneshot' = [oneshot EXCEPT !.waited = @ + IF oneshot.loaded THEN 1 ELSE 0,
                                  !.loaded = @ /\ ~LapicFires]
    /\ UNCHANGED <<clock, timer_pc, target_value, lapic_timer_freq>>

-----------------------------------------------------------------------------
(* hpet_init, lapic_timer_init and lapic_timer_calibrate *)

\* Variant: the counter is not started.
StartHpetStopped == [hpet_regs EXCEPT !.counter_value = 0]

StartHpet == [hpet_regs EXCEPT !.counter_value = 0, !.general_config = 1]

\* lapic_timer_calibrate: the timer begins to count.
LoadLongest ==
    /\ timer_pc = "calibrate"
    /\ lapic' = [lapic EXCEPT !.count = LAPIC_RANGE - 1]
    /\ timer_pc' = "measure"
    /\ UNCHANGED <<clock, hpet_regs, target_value, slept, late, lapic_timer_freq, oneshot>>

\* hpet_usleep reads the counter; the ticks per microsecond are a quotient.
hpet_usleep ==
    /\ timer_pc = "measure"
    /\ target_value' = hpet_regs.counter_value + CALIBRATION * (MICROSECOND \div clock.hpet)
    /\ slept' = 0
    /\ timer_pc' = "sleep"
    /\ UNCHANGED <<clock, hpet_regs, lapic, late, lapic_timer_freq, oneshot>>

\* It returns, and the LVT is masked.
WakeUp ==
    /\ timer_pc = "sleep"
    /\ hpet_regs.counter_value >= target_value
    /\ lapic' = [lapic EXCEPT !.masked = TRUE]
    /\ timer_pc' = "slept"
    /\ UNCHANGED <<clock, hpet_regs, target_value, slept, late, lapic_timer_freq, oneshot>>

total_ticks == LAPIC_RANGE - 1 - lapic.count

Freq == (total_ticks * (SECOND \div CALIBRATION)) % LAPIC_RANGE

ReadCount ==
    /\ timer_pc = "slept"
    /\ lapic_timer_freq' = Freq
    /\ timer_pc' = "idle"
    /\ late' = 0
    /\ UNCHANGED <<clock, hpet_regs, lapic, target_value, slept, oneshot>>

-----------------------------------------------------------------------------
(* lapic_timer_oneshot *)

\* Variant: the product comes first, and the register is too small for it.
OneshotTicksLate(us) == ((us * lapic_timer_freq) % LAPIC_RANGE) \div SECOND

OneshotTicks(us) == (us * (lapic_timer_freq \div SECOND)) % LAPIC_RANGE

\* Variant: the LVT stays masked.
SetLvtMasked(count) == [lapic EXCEPT !.masked = TRUE, !.count = count]

SetLvt(count) == [lapic EXCEPT !.masked = FALSE, !.count = count]

\* The LVT is unmasked first.  The countdown of the calibration, for which
\* nobody waits, has gone on since; unless little of it is left it makes no
\* difference how much.
lapic_timer_oneshot(us) ==
    /\ timer_pc = "idle"
    /\ \E count \in {lapic.count} \cup
                     {c \in 0 .. MaxLate : c < lapic.count /\ ~oneshot.loaded} :
           lapic' = SetLvt(count)
    /\ oneshot' = [oneshot EXCEPT !.us = us]
    /\ timer_pc' = "unmasked"
    /\ UNCHANGED <<clock, hpet_regs, target_value, slept, late, lapic_timer_freq>>

\* Then the count is loaded; a count of 0 stops the timer.
LoadOneshot ==
    /\ timer_pc = "unmasked"
    /\ lapic' = [lapic EXCEPT !.count = OneshotTicks(oneshot.us)]
    /\ oneshot' = [oneshot EXCEPT !.waited = 0, !.loaded = TRUE]
    /\ timer_pc' = "idle"
    /\ late' = 0
    /\ UNCHANGED <<clock, hpet_regs, target_value, slept, lapic_timer_freq>>

\* What the kernel's own code does next.
TimerStep == LoadLongest \/ hpet_usleep \/ WakeUp \/ ReadCount \/ LoadOneshot

-----------------------------------------------------------------------------
(* Properties *)

TimerTypeOK ==
    /\ clock \in [hpet : 1 .. MICROSECOND, lapic : Nat \ {0}]
    /\ hpet_regs \in [general_config : {0, 1}, counter_value : Nat, phase : 0 .. clock.hpet - 1]
    /\ lapic \in [enabled : BOOLEAN, masked : BOOLEAN, count : 0 .. LAPIC_RANGE - 1,
                  phase : 0 .. clock.lapic - 1]
    /\ timer_pc \in {"off", "calibrate", "measure", "sleep", "slept", "idle", "unmasked"}
    /\ {target_value, slept} \subseteq Nat
    /\ late \in 0 .. MaxLate
    /\ lapic_timer_freq \in 0 .. LAPIC_RANGE - 1
    /\ oneshot \in [us : Delays \cup {0}, waited : Nat, loaded : BOOLEAN]

\* What may be lost: a tick of either clock in each microsecond by the two
\* quotients, the ticks of the HPET and of the timer in a microsecond; the
\* HPET's first period, in which hpet_usleep began, by each calibrated interval;
\* and the timer's own first period.
Lost(us) == us * (clock.hpet + clock.lapic) + (us * clock.hpet) \div CALIBRATION + clock.lapic

\* The interrupt of a oneshot does not come before the microseconds asked for,
\* less what the quotients and the first periods lose
\* (hpet_usleep, lapic_timer_calibrate, lapic_timer_oneshot).
OneshotNotEarly ==
    timer_pc = "idle" /\ oneshot.us > 0 /\ ~oneshot.loaded =>
        oneshot.waited + Lost(oneshot.us) >= oneshot.us * MICROSECOND

\* It comes: a oneshot that is loaded ends in an interrupt ("send an interrupt
\* vector ... after the specified amount of microseconds", apic.c:129-130).
OneshotArrives == oneshot.loaded ~> ~oneshot.loaded

\* hpet_usleep waits for the time it was asked for ("wait for us", hpet.c:50),
\* up to the first period of the HPET.
SleepNotShort ==
    timer_pc = "slept" => slept + clock.hpet >= CALIBRATION * MICROSECOND

\* A oneshot that was loaded has ticks to count (apic.c:133).
LoadedOneshotRuns == timer_pc = "idle" /\ oneshot.loaded => lapic.count > 0

\* The timer interrupts only for a oneshot that was loaded (apic.c:135-137).
NoStrayTimerInterrupt == LapicFires => oneshot.loaded
=============================================================================
