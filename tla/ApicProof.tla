----------------------------- MODULE ApicProof ------------------------------
(***************************************************************************)
(* Proofs about interrupts and timers, for every machine the firmware may  *)
(* describe, every pair of clocks and every number of requests.            *)
(***************************************************************************)
EXTENDS Apic, SequenceTheorems, WellFoundedInduction, FiniteSetTheorems, TLAPS

-----------------------------------------------------------------------------
(* Products and quotients of natural numbers. *)

\* A product grows with its factors.
LEMMA ProductGrows ==
    ASSUME NEW a \in Int, NEW b \in Int, a <= b, NEW c \in Nat
    PROVE  a * c <= b * c
OBVIOUS

\* A common factor can be dropped.
LEMMA FactorDropped ==
    ASSUME NEW a \in Int, NEW b \in Int, NEW c \in Nat, a * c < b * c
    PROVE  a < b
<1> SUFFICES ASSUME b <= a PROVE FALSE
  OBVIOUS
<1> QED BY ProductGrows

\* A quotient loses less than its divisor.
LEMMA QuotientBounds ==
    ASSUME NEW n \in Nat, NEW d \in Nat \ {0}
    PROVE  /\ n \div d \in Nat
           /\ (n \div d) * d <= n
           /\ n < (n \div d) * d + d
OBVIOUS

\* A number below the modulus is its own remainder.
LEMMA SmallRemainder ==
    ASSUME NEW n \in Nat, NEW d \in Nat, n < d
    PROVE  n % d = n
OBVIOUS

\* A remainder lies below the modulus.
LEMMA RemainderType ==
    ASSUME NEW n \in Nat, NEW d \in Nat \ {0}
    PROVE  n % d \in 0 .. d - 1
OBVIOUS

-----------------------------------------------------------------------------
(* The clocks. *)

\* The units since the LAPIC's timer was loaded with its largest count, by its
\* own ticks; the units the HPET has counted; and the counter's target in units.
Elapsed == total_ticks * clock.lapic + lapic.phase
HpetTime == hpet_regs.counter_value * clock.hpet + hpet_regs.phase
Goal == target_value * clock.hpet

\* The units hpet_usleep waits for, a whole number of the HPET's periods.
Sleep == CALIBRATION * (MICROSECOND \div clock.hpet) * clock.hpet

\* The ticks of the timer in a microsecond, as measured.
PerMicrosecond == lapic_timer_freq \div SECOND

\* While the timer is measured, it and the HPET have seen the same time, up to
\* the first period of each and the time the kernel was late.
Measuring ==
    /\ timer_pc = "measure" => Elapsed <= clock.lapic - 1 + late
    /\ timer_pc = "sleep" =>
           /\ Sleep + HpetTime <= Elapsed + clock.hpet - 1 + Goal
           /\ hpet_regs.counter_value < target_value =>
                  Elapsed + Goal <= clock.lapic - 1 + late + Sleep + HpetTime
           /\ hpet_regs.counter_value >= target_value =>
                  Elapsed <= clock.lapic - 1 + late + Sleep
    /\ timer_pc = "slept" =>
           /\ Sleep <= Elapsed + clock.hpet - 1
           /\ Elapsed <= clock.lapic - 1 + late + Sleep

\* The measured frequency is short by a tick of either clock in a microsecond
\* and by the HPET's first period in the whole interval, and no delay that
\* callers ask for wraps.
Measured ==
    timer_pc \in {"idle", "unmasked"} =>
        /\ CALIBRATION * MICROSECOND <=
               PerMicrosecond * CALIBRATION * clock.lapic
               + CALIBRATION * (clock.lapic + clock.hpet) + clock.hpet
        /\ \A us \in Delays : us * PerMicrosecond < LAPIC_RANGE

\* A oneshot has waited for the ticks it has counted, up to the first.
Counting ==
    timer_pc = "idle" =>
        /\ oneshot.loaded =>
               OneshotTicks(oneshot.us) * clock.lapic + lapic.phase
                   <= oneshot.waited + clock.lapic - 1 + lapic.count * clock.lapic
        /\ oneshot.us > 0 /\ ~oneshot.loaded =>
               OneshotTicks(oneshot.us) * clock.lapic <= oneshot.waited + clock.lapic - 1

\* The clocks are started once, by apic_init, and used in its order.
ClocksInOrder ==
    /\ clock = firmware.clock
    /\ timer_pc \in {"off", "calibrate"} => late = 0
    /\ timer_pc # "off" =>
           /\ hpet_regs.general_config = 1
           /\ i = ISA_IRQS
           /\ apic_pc \in {"timer", "ready", "low", "high", "returned", "panicked"}
    /\ timer_pc \notin {"idle", "unmasked"} => oneshot = NoOneshot

TimerInv == TimerTypeOK /\ ClocksInOrder /\ Measuring /\ Measured /\ Counting

\* The phase of a clock counts its units and starts again at the period.
LEMMA PhaseAdvances ==
    ASSUME NEW p \in Nat \ {0}, NEW phase \in 0 .. p - 1
    PROVE  Advanced(phase, p) = IF phase + 1 = p THEN 0 ELSE phase + 1
BY SmallRemainder DEF Advanced

\* One unit of time, by the LAPIC's timer: it has seen one unit more, unless it
\* has come to its end.
LEMMA TimerSeesTime ==
    ASSUME TimerTypeOK, Tick
    PROVE  /\ Elapsed \in Nat
           /\ Elapsed' \in Nat
           /\ Elapsed' <= Elapsed + 1
           /\ lapic.count > 0 => Elapsed' = Elapsed + 1
<1> DEFINE L == clock.lapic
           p == lapic.phase
           c == lapic.count
           R == LAPIC_RANGE
<1>1. /\ L \in Nat \ {0} /\ L' = L
      /\ p \in 0 .. L - 1
      /\ R \in Nat \ {0}
      /\ c \in 0 .. R - 1
  BY TimerAssumption DEF TimerTypeOK, Tick
<1>2. Advanced(p, L) = IF p + 1 = L THEN 0 ELSE p + 1
  BY <1>1, PhaseAdvances
<1>3. /\ p' = Advanced(p, L)
      /\ c' = c - (IF c > 0 /\ Advanced(p, L) = 0 THEN 1 ELSE 0)
  BY DEF Tick, TimerTypeOK, LapicTicks
<1>4. Elapsed = (R - 1 - c) * L + p /\ Elapsed' = (R - 1 - c') * L' + p'
  BY DEF Elapsed, total_ticks
<1> HIDE DEF L, p, c, R
<1>5. PICK w \in Nat : w = (R - 1 - c) * L
  BY <1>1
<1>6. (R - 1 - (c - 1)) * L = w + L
  BY <1>1, <1>5
<1>7. Elapsed = w + p /\ Elapsed \in Nat
  BY <1>1, <1>4, <1>5
<1>8. CASE p + 1 = L /\ c > 0
  <2>1. p' = 0 /\ c' = c - 1
    BY <1>1, <1>2, <1>3, <1>8
  <2>2. Elapsed' = w + L
    BY <1>1, <1>4, <1>6, <2>1
  <2> QED BY <1>1, <1>5, <1>7, <1>8, <2>2
<1>9. CASE p + 1 = L /\ ~(c > 0)
  <2>1. p' = 0 /\ c' = c
    BY <1>1, <1>2, <1>3, <1>9
  <2>2. Elapsed' = w
    BY <1>1, <1>4, <1>5, <2>1
  <2> QED BY <1>1, <1>5, <1>7, <1>9, <2>2 DEF c
<1>10. CASE p + 1 # L
  <2>1. p' = p + 1 /\ c' = c
    BY <1>1, <1>2, <1>3, <1>10
  <2>2. Elapsed' = w + p + 1
    BY <1>1, <1>4, <1>5, <2>1
  <2> QED BY <1>1, <1>5, <1>7, <2>2 DEF c
<1> QED BY <1>8, <1>9, <1>10

\* One unit of time, by the HPET, while it is followed.
LEMMA HpetSeesTime ==
    ASSUME TimerTypeOK, Tick, hpet_regs.general_config = 1, timer_pc \in {"measure", "sleep"}
    PROVE  /\ HpetTime \in Nat
           /\ HpetTime' = HpetTime + 1
<1> DEFINE H == clock.hpet
           p == hpet_regs.phase
           c == hpet_regs.counter_value
<1>1. /\ H \in Nat \ {0} /\ H' = H
      /\ p \in 0 .. H - 1
      /\ c \in Nat
  BY DEF TimerTypeOK, Tick
<1>2. Advanced(p, H) = IF p + 1 = H THEN 0 ELSE p + 1
  BY <1>1, PhaseAdvances
<1>3. /\ p' = Advanced(p, H)
      /\ c' = c + (IF Advanced(p, H) = 0 THEN 1 ELSE 0)
  BY DEF Tick, TimerTypeOK, HpetTicks
<1>4. HpetTime = c * H + p /\ HpetTime' = c' * H' + p'
  BY DEF HpetTime
<1> HIDE DEF H, p, c
<1>5. PICK w \in Nat : w = c * H
  BY <1>1
<1>6. (c + 1) * H = w + H
  BY <1>1, <1>5
<1>7. HpetTime = w + p /\ HpetTime \in Nat
  BY <1>1, <1>4, <1>5
<1>8. CASE p + 1 = H
  <2>1. p' = 0 /\ c' = c + 1
    BY <1>1, <1>2, <1>3, <1>8
  <2>2. HpetTime' = w + H
    BY <1>1, <1>4, <1>6, <2>1
  <2> QED BY <1>1, <1>5, <1>7, <1>8, <2>2
<1>9. CASE p + 1 # H
  <2>1. p' = p + 1 /\ c' = c
    BY <1>1, <1>2, <1>3, <1>9
  <2>2. HpetTime' = w + p + 1
    BY <1>1, <1>4, <1>5, <2>1
  <2> QED BY <1>1, <1>5, <1>7, <2>2 DEF c
<1> QED BY <1>8, <1>9

\* hpet_usleep waits for no more than the time asked for, and for less than a
\* period of the HPET less in each microsecond.
LEMMA SleepBounds ==
    ASSUME TimerTypeOK
    PROVE  /\ Sleep \in Nat
           /\ Sleep <= CALIBRATION * MICROSECOND
           /\ CALIBRATION * MICROSECOND <= Sleep + CALIBRATION * clock.hpet
<1> DEFINE H == clock.hpet
           q == MICROSECOND \div H
           C == CALIBRATION
<1>1. H \in Nat \ {0} /\ MICROSECOND \in Nat /\ C \in Nat
  BY TimerAssumption DEF TimerTypeOK
<1>2. Sleep = C * q * H
  BY DEF Sleep
<1>3. q \in Nat /\ q * H <= MICROSECOND /\ MICROSECOND < q * H + H
  BY <1>1, QuotientBounds
<1> HIDE DEF H, q, C
<1>4. PICK w \in Nat : w = q * H
  BY <1>1, <1>3
<1>5. Sleep = w * C
  BY <1>1, <1>2, <1>3, <1>4
<1>6. w * C <= MICROSECOND * C
  BY <1>1, <1>3, <1>4, ProductGrows
<1>7. MICROSECOND * C <= (w + H) * C
  BY <1>1, <1>3, <1>4, ProductGrows
<1>8. (w + H) * C = w * C + C * H /\ MICROSECOND * C = C * MICROSECOND /\ w * C \in Nat
  BY <1>1, <1>4
<1> QED BY <1>1, <1>5, <1>6, <1>7, <1>8 DEF H, C

\* Until its counter reaches the target, the HPET has not seen the time of the
\* target; from then on it has.
LEMMA GoalReached ==
    ASSUME TimerTypeOK
    PROVE  /\ HpetTime \in Nat /\ Goal \in Nat
           /\ hpet_regs.counter_value < target_value => HpetTime < Goal
           /\ hpet_regs.counter_value >= target_value => HpetTime >= Goal
<1> DEFINE H == clock.hpet
           p == hpet_regs.phase
           c == hpet_regs.counter_value
           t == target_value
<1>1. H \in Nat \ {0} /\ p \in 0 .. H - 1 /\ c \in Nat /\ t \in Nat
  BY DEF TimerTypeOK
<1>2. HpetTime = c * H + p /\ Goal = t * H
  BY DEF HpetTime, Goal
<1> HIDE DEF H, p, c, t
<1>3. c * H \in Nat /\ t * H \in Nat
  BY <1>1
<1>4. ASSUME c < t PROVE HpetTime < Goal
  <2>1. (c + 1) * H <= t * H
    BY <1>1, <1>4, ProductGrows
  <2>2. (c + 1) * H = c * H + H
    BY <1>1
  <2> QED BY <1>1, <1>2, <1>3, <2>1, <2>2
<1>5. ASSUME c >= t PROVE HpetTime >= Goal
  <2>1. t * H <= c * H
    BY <1>1, <1>5, ProductGrows
  <2> QED BY <1>1, <1>2, <1>3, <2>1
<1> QED BY <1>1, <1>2, <1>3, <1>4, <1>5 DEF c, t

\* The timer's count while it is measured is bounded.
LEMMA MeasuredTime ==
    ASSUME TimerTypeOK, Measuring, timer_pc \in {"measure", "sleep", "slept"}
    PROVE  Elapsed < Longest(clock.lapic)
<1>1. /\ clock.lapic \in Nat /\ late \in Nat /\ late <= MaxLate /\ MaxLate \in Nat
      /\ hpet_regs.counter_value \in Nat /\ target_value \in Nat
  BY TimerAssumption DEF TimerTypeOK
<1>2. Elapsed \in Int
  BY TimerAssumption DEF Elapsed, total_ticks, TimerTypeOK
<1>3. CALIBRATION * MICROSECOND \in Nat
  BY TimerAssumption
<1>4. Elapsed <= clock.lapic - 1 + late + Sleep
  BY <1>1, <1>2, SleepBounds, GoalReached DEF Measuring
<1> QED BY <1>1, <1>2, <1>3, <1>4, SleepBounds DEF Longest

\* The longest measurement, in terms of the firmware's clocks, is within the
\* timer's range.
LEMMA RangeSuffices ==
    ASSUME ClocksFit, firmware \in Firmwares, clock = firmware.clock, TimerTypeOK
    PROVE  /\ SECOND \div CALIBRATION \in Nat \ {0}
           /\ SECOND = CALIBRATION * (SECOND \div CALIBRATION)
           /\ Longest(clock.lapic) \in Nat
           /\ Longest(clock.lapic) * (SECOND \div CALIBRATION) < (LAPIC_RANGE - 1) * clock.lapic
           /\ Longest(clock.lapic) < (LAPIC_RANGE - 1) * clock.lapic
<1> DEFINE s == SECOND \div CALIBRATION
           B == Longest(clock.lapic)
           m == (LAPIC_RANGE - 1) * clock.lapic
<1>1. /\ SECOND \in Nat \ {0} /\ CALIBRATION \in Nat \ {0}
      /\ SECOND % CALIBRATION = 0
  BY TimerAssumption DEF ClocksFit
<1>2. s \in Nat \ {0} /\ SECOND = CALIBRATION * s
  BY <1>1
<1>3. B \in Nat /\ m \in Int
  BY TimerAssumption DEF Longest, TimerTypeOK
<1>4. B * s < m
  BY DEF ClocksFit
<1> HIDE DEF s, B, m
<1>5. 1 * B <= s * B
  BY <1>2, <1>3, ProductGrows
<1>6. s * B = B * s /\ 1 * B = B
  BY <1>2, <1>3
<1>7. B < m
  BY <1>2, <1>3, <1>4, <1>5, <1>6
<1> QED BY <1>2, <1>3, <1>4, <1>7 DEF s, B, m

\* The timer does not come to its end while it is measured.
LEMMA TimerGoesOn ==
    ASSUME ClocksFit, firmware \in Firmwares, clock = firmware.clock, TimerTypeOK, Measuring,
           timer_pc \in {"measure", "sleep", "slept"}
    PROVE  lapic.count > 0
<1> SUFFICES ASSUME lapic.count = 0 PROVE FALSE
  BY DEF TimerTypeOK
<1>1. Elapsed = (LAPIC_RANGE - 1) * clock.lapic + lapic.phase
  BY TimerAssumption DEF Elapsed, total_ticks
<1>2. lapic.phase \in Nat /\ (LAPIC_RANGE - 1) * clock.lapic \in Int
  BY TimerAssumption DEF TimerTypeOK
<1> QED BY <1>1, <1>2, MeasuredTime, RangeSuffices

\* The frequency lapic_timer_init keeps did not wrap, and its ticks in a
\* microsecond are the ticks counted, divided by the microseconds measured.
LEMMA FrequencyMeasured ==
    ASSUME ClocksFit, firmware \in Firmwares, clock = firmware.clock, TimerTypeOK, Measuring,
           timer_pc = "slept"
    PROVE  /\ Freq \in 0 .. LAPIC_RANGE - 1
           /\ Freq \div SECOND \in Nat
           /\ (Freq \div SECOND) * CALIBRATION <= total_ticks
           /\ total_ticks < (Freq \div SECOND) * CALIBRATION + CALIBRATION
           /\ total_ticks \in Nat
           /\ total_ticks * clock.lapic < Longest(clock.lapic)
<1> DEFINE T == total_ticks
           L == clock.lapic
           s == SECOND \div CALIBRATION
           B == Longest(L)
           C == CALIBRATION
           K == Freq \div SECOND
           R == LAPIC_RANGE
<1>1. /\ T \in Nat /\ L \in Nat \ {0} /\ s \in Nat \ {0} /\ B \in Nat /\ C \in Nat \ {0}
      /\ R \in Nat \ {0} /\ SECOND = C * s
  BY RangeSuffices, TimerAssumption DEF TimerTypeOK, total_ticks
<1>2. T * L < B
  <2>1. lapic.phase \in Nat /\ Elapsed = T * L + lapic.phase /\ T * L \in Nat
    BY <1>1 DEF Elapsed, TimerTypeOK
  <2>2. Elapsed < B
    BY MeasuredTime
  <2> QED BY <1>1, <2>1, <2>2
<1>3. B * s < (R - 1) * L
  BY RangeSuffices
<1>4. Freq = (T * s) % R
  BY DEF Freq
<1> HIDE DEF T, L, s, B, C, R
<1>5. T * s < R
  <2>1. PICK w \in Nat : w = T * L
    BY <1>1
  <2>2. w * s <= B * s
    BY <1>1, <1>2, <2>1, ProductGrows
  <2>3. w * s = (T * s) * L
    BY <1>1, <2>1
  <2>4. T * s \in Nat /\ (T * s) * L \in Nat /\ R * L \in Nat /\ (R - 1) * L = R * L - L
    BY <1>1
  <2>5. B * s \in Nat /\ w * s \in Nat
    BY <1>1, <2>1
  <2>6. (T * s) * L < R * L
    BY <1>1, <1>3, <2>2, <2>3, <2>4, <2>5
  <2> QED BY <1>1, <2>4, <2>6, FactorDropped
<1>6. Freq = T * s /\ Freq \in Nat /\ Freq < R
  BY <1>1, <1>4, <1>5, SmallRemainder
<1>7. K \in Nat /\ K * SECOND <= Freq /\ Freq < K * SECOND + SECOND
  <2>1. SECOND \in Nat \ {0}
    BY TimerAssumption
  <2> QED BY <1>6, <2>1, QuotientBounds
<1> HIDE DEF K
<1>8. K * SECOND = (K * C) * s /\ K * SECOND + SECOND = (K * C + C) * s
  BY <1>1, <1>7
<1>9. K * C \in Nat /\ K * C + C \in Nat /\ (T + 1) * s = T * s + s
  BY <1>1, <1>7
<1>10. T < K * C + C
  BY <1>1, <1>6, <1>7, <1>8, <1>9, FactorDropped
<1>11. (K * C) * s < (T + 1) * s
  <2>1. (K * C) * s \in Nat /\ T * s \in Nat
    BY <1>1, <1>9
  <2> QED BY <1>1, <1>6, <1>7, <1>8, <1>9, <2>1
<1>12. K * C < T + 1
  BY <1>1, <1>9, <1>11, FactorDropped
<1> QED BY <1>1, <1>2, <1>6, <1>7, <1>9, <1>10, <1>12 DEF T, L, C, K, R, B

\* The measurement is done: what the frequency may have lost, and that the
\* delays callers ask for do not wrap.
LEMMA CalibrationMeasures ==
    ASSUME ClocksFit, firmware \in Firmwares, clock = firmware.clock, TimerTypeOK, Measuring,
           ReadCount
    PROVE  Measured'
<1> DEFINE T == total_ticks
           L == clock.lapic
           H == clock.hpet
           B == Longest(L)
           C == CALIBRATION
           M == MICROSECOND
           K == Freq \div SECOND
           R == LAPIC_RANGE
<1>1. timer_pc = "slept" /\ lapic_timer_freq' = Freq /\ clock' = clock
  BY DEF ReadCount
<1>2. /\ T \in Nat /\ L \in Nat \ {0} /\ H \in Nat \ {0} /\ B \in Nat /\ C \in Nat \ {0}
      /\ R \in Nat \ {0} /\ M \in Nat \ {0} /\ K \in Nat
      /\ K * C <= T /\ T < K * C + C /\ T * L < B
  BY <1>1, RangeSuffices, FrequencyMeasured, TimerAssumption DEF TimerTypeOK
<1>3. Sleep <= T * L + lapic.phase + H - 1 /\ lapic.phase \in Nat /\ lapic.phase <= L - 1
  BY <1>1, <1>2 DEF Measuring, Elapsed, TimerTypeOK
<1>4. Sleep \in Nat /\ C * M <= Sleep + C * H
  BY SleepBounds
<1>5. \A us \in Delays : us \in Nat /\ us * B < R * C * L
  BY TimerAssumption DEF ClocksFit
<1>6. PerMicrosecond' = K
  BY <1>1 DEF PerMicrosecond
<1> HIDE DEF T, L, H, B, C, M, K, R
<1>7. PICK k \in Nat : k = K * C
  BY <1>2
<1>8. C * M <= K * C * L + C * (L + H) + H
  <2>1. (T + 1) * L <= (k + C) * L
    BY <1>2, <1>7, ProductGrows
  <2>2. (T + 1) * L = T * L + L /\ (k + C) * L = k * L + C * L
    BY <1>2, <1>7
  <2>3. K * C * L = k * L /\ C * (L + H) = C * L + C * H
    BY <1>2, <1>7
  <2>4. T * L \in Nat /\ k * L \in Nat /\ C * L \in Nat /\ C * H \in Nat /\ C * M \in Nat
    BY <1>2, <1>7
  <2> QED BY <1>2, <1>3, <1>4, <2>1, <2>2, <2>3, <2>4
<1>9. ASSUME NEW us \in Delays PROVE us * K < R
  <2>1. us \in Nat /\ us * B < R * C * L
    BY <1>5
  <2>2. k * L <= T * L
    BY <1>2, <1>7, ProductGrows
  <2>3. PICK w \in Nat : w = k * L
    BY <1>2, <1>7
  <2>4. w <= B
    <3>1. T * L \in Nat
      BY <1>2
    <3> QED BY <1>2, <2>2, <2>3, <3>1
  <2>5. w * us <= B * us
    BY <1>2, <2>1, <2>3, <2>4, ProductGrows
  <2>6. w * us = (us * K) * (C * L) /\ B * us = us * B /\ R * C * L = R * (C * L)
    BY <1>2, <1>7, <2>1, <2>3
  <2>7. us * K \in Nat /\ C * L \in Nat /\ (us * K) * (C * L) \in Nat /\ us * B \in Nat
        /\ R * (C * L) \in Nat
    BY <1>2, <2>1
  <2>8. (us * K) * (C * L) < R * (C * L)
    BY <2>1, <2>5, <2>6, <2>7
  <2> QED BY <1>2, <2>7, <2>8, FactorDropped
<1> QED BY <1>1, <1>6, <1>8, <1>9 DEF Measured, L, H, C, M, R

\* The parts of a oneshot.
LEMMA OneshotType ==
    ASSUME TimerTypeOK
    PROVE  /\ oneshot.us \in Delays \cup {0}
           /\ oneshot.us \in Nat
           /\ oneshot.waited \in Nat
           /\ oneshot.loaded \in BOOLEAN
<1>1. oneshot \in [us : Delays \cup {0}, waited : Nat, loaded : BOOLEAN]
  BY DEF TimerTypeOK
<1>2. oneshot.us \in Delays \cup {0}
  BY <1>1
<1>3. oneshot.waited \in Nat /\ oneshot.loaded \in BOOLEAN
  BY <1>1
<1>4. Delays \subseteq Nat /\ 0 \in Nat
  <2>1. Delays \subseteq Nat
    BY TimerAssumption, Zenon
  <2> QED BY <2>1
<1>5. oneshot.us \in Nat
  BY <1>2, <1>4, Zenon
<1> QED BY <1>2, <1>3, <1>5, Zenon

\* The count of a oneshot did not wrap.
LEMMA OneshotCount ==
    ASSUME TimerTypeOK, Measured, timer_pc \in {"idle", "unmasked"},
           NEW us \in Delays \cup {0}
    PROVE  /\ us \in Nat /\ PerMicrosecond \in Nat
           /\ OneshotTicks(us) = us * PerMicrosecond
           /\ OneshotTicks(us) \in 0 .. LAPIC_RANGE - 1
<1>1. us \in Nat /\ LAPIC_RANGE \in Nat \ {0} /\ SECOND \in Nat \ {0} /\ lapic_timer_freq \in Nat
  BY TimerAssumption DEF TimerTypeOK
<1>2. PerMicrosecond \in Nat
  BY <1>1, QuotientBounds DEF PerMicrosecond
<1>3. us * PerMicrosecond \in Nat /\ us * PerMicrosecond < LAPIC_RANGE
  BY <1>1, <1>2 DEF Measured
<1>4. OneshotTicks(us) = (us * PerMicrosecond) % LAPIC_RANGE
  BY DEF OneshotTicks, PerMicrosecond
<1> HIDE DEF PerMicrosecond
<1> QED BY <1>1, <1>2, <1>3, <1>4, SmallRemainder

\* What a oneshot has waited for, once its interrupt has come, is what was asked
\* for less what may be lost.
LEMMA OneshotWaits ==
    ASSUME TimerTypeOK, Measured, Counting
    PROVE  OneshotNotEarly
<1> SUFFICES ASSUME timer_pc = "idle", oneshot.us > 0, ~oneshot.loaded
             PROVE  oneshot.us * MICROSECOND <= oneshot.waited + Lost(oneshot.us)
  <2>1. oneshot.us \in Nat /\ oneshot.waited \in Nat /\ clock.hpet \in Nat /\ clock.lapic \in Nat
    BY OneshotType, TimerAssumption DEF TimerTypeOK
  <2>2. CALIBRATION \in Nat \ {0} /\ oneshot.us * clock.hpet \in Nat /\ MICROSECOND \in Nat
    BY <2>1, TimerAssumption
  <2>3. (oneshot.us * clock.hpet) \div CALIBRATION \in Nat
    BY <2>2, QuotientBounds
  <2>4. oneshot.us * (clock.hpet + clock.lapic) \in Nat /\ oneshot.us * MICROSECOND \in Nat
    BY <2>1, <2>2
  <2> QED BY <2>1, <2>3, <2>4 DEF OneshotNotEarly, Lost
<1> DEFINE us == oneshot.us
           waited == oneshot.waited
           L == clock.lapic
           H == clock.hpet
           C == CALIBRATION
           M == MICROSECOND
           K == PerMicrosecond
           Q == (us * H) \div C
<1>1. /\ us \in Nat /\ waited \in Nat /\ L \in Nat \ {0} /\ H \in Nat \ {0} /\ C \in Nat \ {0}
      /\ M \in Nat /\ K \in Nat
  <2>1. us \in Nat /\ waited \in Nat /\ K \in Nat
    BY OneshotType, OneshotCount
  <2> QED BY <2>1, TimerAssumption DEF TimerTypeOK
<1>2. us * K * L <= waited + L - 1
  BY OneshotType, OneshotCount DEF Counting
<1>3. C * M <= K * C * L + C * (L + H) + H
  BY DEF Measured
<1>4. Lost(us) = us * (H + L) + Q + L
  BY DEF Lost
<1> HIDE DEF us, waited, L, H, C, M, K
<1>5. us * H \in Nat
  BY <1>1
<1>6. Q \in Nat /\ us * H < Q * C + C
  BY <1>1, <1>5, QuotientBounds
<1> HIDE DEF Q
<1>7. (C * M) * us <= (K * C * L + C * (L + H) + H) * us
  <2>1. C * M \in Int /\ K * C * L + C * (L + H) + H \in Int
    BY <1>1
  <2> QED BY <1>1, <1>3, <2>1, ProductGrows
<1>8. (us * K * L) * C <= (waited + L - 1) * C
  <2>1. us * K * L \in Int /\ waited + L - 1 \in Int
    BY <1>1
  <2> QED BY <1>1, <1>2, <2>1, ProductGrows
<1>9. /\ (K * C * L + C * (L + H) + H) * us = (us * K * L) * C + (us * (H + L)) * C + us * H
      /\ (C * M) * us = (us * M) * C
  BY <1>1
<1>10. PICK a \in Nat : a = us * (H + L)
  BY <1>1
<1>11. /\ (us * M) * C \in Nat /\ (us * K * L) * C \in Nat /\ (waited + L - 1) * C \in Nat
       /\ a * C \in Nat /\ Q * C \in Nat
  BY <1>1, <1>6, <1>10
<1>12. (us * M) * C < (waited + L - 1) * C + a * C + Q * C + C
  BY <1>1, <1>5, <1>6, <1>7, <1>8, <1>9, <1>10, <1>11
<1>13. (waited + L - 1) * C + a * C + Q * C + C = (waited + L + a + Q) * C
  BY <1>1, <1>6, <1>10
<1>14. us * M < waited + L + a + Q
  <2>1. us * M \in Int /\ waited + L + a + Q \in Int
    BY <1>1, <1>6, <1>10
  <2> QED BY <1>1, <1>12, <1>13, <2>1, FactorDropped
<1>15. us * M \in Nat
  BY <1>1
<1> QED BY <1>1, <1>4, <1>6, <1>10, <1>14, <1>15 DEF us, waited, M

-----------------------------------------------------------------------------
(* The steps of the clocks and of the code that uses them. *)

\* Time passes: the types.
LEMMA TickTypeOK ==
    ASSUME TimerTypeOK, Tick
    PROVE  TimerTypeOK'
<1>1. clock' = clock /\ clock \in [hpet : 1 .. MICROSECOND, lapic : Nat \ {0}]
  BY DEF Tick, TimerTypeOK
<1>2. clock.hpet \in Nat \ {0} /\ clock.lapic \in Nat \ {0}
  BY <1>1, TimerAssumption
<1>3. /\ Advanced(hpet_regs.phase, clock.hpet) \in 0 .. clock.hpet - 1
      /\ Advanced(lapic.phase, clock.lapic) \in 0 .. clock.lapic - 1
  BY <1>2, PhaseAdvances DEF TimerTypeOK
<1>4. hpet_regs' \in [general_config : {0, 1}, counter_value : Nat, phase : 0 .. clock.hpet - 1]
  <2>1. hpet_regs \in [general_config : {0, 1}, counter_value : Nat, phase : 0 .. clock.hpet - 1]
    BY DEF TimerTypeOK
  <2>2. hpet_regs.counter_value + (IF HpetTicks THEN 1 ELSE 0) \in Nat
    BY <2>1
  <2>3. CASE timer_pc \in {"measure", "sleep"}
    <3>1. hpet_regs' = [hpet_regs EXCEPT
              !.phase = Advanced(hpet_regs.phase, clock.hpet),
              !.counter_value = hpet_regs.counter_value + (IF HpetTicks THEN 1 ELSE 0)]
      BY <2>3 DEF Tick
    <3> QED BY <1>3, <2>1, <2>2, <3>1
  <2>4. CASE timer_pc \notin {"measure", "sleep"}
    BY <2>1, <2>4 DEF Tick
  <2> QED BY <2>3, <2>4
<1>5. lapic' \in [enabled : BOOLEAN, masked : BOOLEAN, count : 0 .. LAPIC_RANGE - 1,
                  phase : 0 .. clock.lapic - 1]
  <2>1. lapic.count - (IF LapicTicks THEN 1 ELSE 0) \in 0 .. LAPIC_RANGE - 1
    BY TimerAssumption DEF TimerTypeOK, LapicTicks
  <2> QED BY <1>3, <2>1 DEF Tick, TimerTypeOK
<1>6. slept' \in Nat /\ target_value' \in Nat /\ late' \in 0 .. MaxLate
  BY TimerAssumption DEF Tick, TimerTypeOK, Dawdling
<1>7. oneshot' \in [us : Delays \cup {0}, waited : Nat, loaded : BOOLEAN]
  <2>1. oneshot \in [us : Delays \cup {0}, waited : Nat, loaded : BOOLEAN]
    BY DEF TimerTypeOK
  <2>2. /\ oneshot.waited + (IF oneshot.loaded THEN 1 ELSE 0) \in Nat
        /\ (oneshot.loaded /\ ~LapicFires) \in BOOLEAN
    BY OneshotType
  <2>3. oneshot' = [oneshot EXCEPT
            !.waited = oneshot.waited + (IF oneshot.loaded THEN 1 ELSE 0),
            !.loaded = oneshot.loaded /\ ~LapicFires]
    BY DEF Tick
  <2> QED BY <2>1, <2>2, <2>3
<1>8. UNCHANGED <<timer_pc, lapic_timer_freq>>
  BY DEF Tick
<1> QED BY <1>1, <1>4, <1>5, <1>6, <1>7, <1>8 DEF TimerTypeOK

\* The code's own steps: the types.
LEMMA TimerStepTypeOK ==
    ASSUME TimerTypeOK, TimerStep
    PROVE  TimerTypeOK'
<1> DEFINE LapicType == [enabled : BOOLEAN, masked : BOOLEAN, count : 0 .. LAPIC_RANGE - 1,
                         phase : 0 .. clock.lapic - 1]
<1>1. lapic \in LapicType /\ LAPIC_RANGE \in Nat \ {0} /\ MaxLate \in Nat
  BY TimerAssumption DEF TimerTypeOK
<1>2. CASE LoadLongest
  <2>1. lapic' \in LapicType
    BY <1>1, <1>2 DEF LoadLongest
  <2> QED BY <1>2, <2>1 DEF LoadLongest, TimerTypeOK
<1>3. CASE hpet_usleep
  <2>1. clock.hpet \in Nat \ {0} /\ hpet_regs.counter_value \in Nat
    BY TimerAssumption DEF TimerTypeOK
  <2>2. MICROSECOND \div clock.hpet \in Nat /\ CALIBRATION \in Nat
    BY <2>1, TimerAssumption, QuotientBounds
  <2>3. target_value' \in Nat
    BY <1>3, <2>1, <2>2 DEF hpet_usleep
  <2> QED BY <1>3, <2>3 DEF hpet_usleep, TimerTypeOK
<1>4. CASE WakeUp
  <2>1. lapic' \in LapicType
    BY <1>1, <1>4 DEF WakeUp
  <2> QED BY <1>4, <2>1 DEF WakeUp, TimerTypeOK
<1>5. CASE ReadCount
  <2>1. Freq \in 0 .. LAPIC_RANGE - 1
    <3>1. total_ticks \in Nat
      BY <1>1 DEF total_ticks
    <3>2. SECOND \div CALIBRATION \in Nat
      BY TimerAssumption, QuotientBounds
    <3>3. total_ticks * (SECOND \div CALIBRATION) \in Nat
      BY <3>1, <3>2
    <3> QED BY <1>1, <3>3, RemainderType DEF Freq
  <2> QED BY <1>1, <1>5, <2>1 DEF ReadCount, TimerTypeOK
<1>6. CASE LoadOneshot
  <2>1. OneshotTicks(oneshot.us) \in 0 .. LAPIC_RANGE - 1
    <3>1. oneshot.us \in Nat /\ lapic_timer_freq \in Nat
      BY <1>1, OneshotType DEF TimerTypeOK
    <3>2. lapic_timer_freq \div SECOND \in Nat
      BY <3>1, TimerAssumption, QuotientBounds
    <3>3. oneshot.us * (lapic_timer_freq \div SECOND) \in Nat
      BY <3>1, <3>2
    <3> QED BY <1>1, <3>3, RemainderType DEF OneshotTicks
  <2>2. lapic' \in LapicType
    BY <1>1, <1>6, <2>1 DEF LoadOneshot
  <2>3. oneshot' \in [us : Delays \cup {0}, waited : Nat, loaded : BOOLEAN]
    BY <1>6 DEF LoadOneshot, TimerTypeOK
  <2> QED BY <1>1, <1>6, <2>2, <2>3 DEF LoadOneshot, TimerTypeOK
<1> QED BY <1>2, <1>3, <1>4, <1>5, <1>6 DEF TimerStep

\* A oneshot is asked for: the types.
LEMMA AskTypeOK ==
    ASSUME TimerTypeOK, NEW us \in Delays, lapic_timer_oneshot(us)
    PROVE  TimerTypeOK'
<1>1. /\ timer_pc' = "unmasked"
      /\ oneshot' = [oneshot EXCEPT !.us = us]
      /\ UNCHANGED <<clock, hpet_regs, target_value, slept, late, lapic_timer_freq>>
  BY DEF lapic_timer_oneshot
<1>2. lapic \in [enabled : BOOLEAN, masked : BOOLEAN, count : 0 .. LAPIC_RANGE - 1,
                 phase : 0 .. clock.lapic - 1]
  BY DEF TimerTypeOK
<1>3. LAPIC_RANGE \in Nat /\ MaxLate \in Nat
  BY TimerAssumption
<1>4. PICK count \in 0 .. LAPIC_RANGE - 1 : lapic' = SetLvt(count)
  BY <1>2, <1>3 DEF lapic_timer_oneshot
<1>5. lapic' \in [enabled : BOOLEAN, masked : BOOLEAN, count : 0 .. LAPIC_RANGE - 1,
                  phase : 0 .. clock.lapic - 1]
  BY <1>2, <1>4 DEF SetLvt
<1>6. oneshot' \in [us : Delays \cup {0}, waited : Nat, loaded : BOOLEAN]
  <2>1. us \in Delays \cup {0}
    OBVIOUS
  <2>2. oneshot \in [us : Delays \cup {0}, waited : Nat, loaded : BOOLEAN]
    BY DEF TimerTypeOK
  <2> QED BY <1>1, <2>1, <2>2
<1> QED BY <1>1, <1>5, <1>6 DEF TimerTypeOK

\* The LAPIC is enabled, the HPET is started: the types.
LEMMA EnableTypeOK ==
    ASSUME TimerTypeOK, lapic_enable \/ hpet_init
    PROVE  TimerTypeOK'
<1>1. CASE lapic_enable
  <2>1. lapic' \in [enabled : BOOLEAN, masked : BOOLEAN, count : 0 .. LAPIC_RANGE - 1,
                    phase : 0 .. clock.lapic - 1]
    BY <1>1 DEF lapic_enable, TimerTypeOK
  <2> QED BY <1>1, <2>1 DEF lapic_enable, TimerTypeOK
<1>2. CASE hpet_init
  <2>1. hpet_regs' \in [general_config : {0, 1}, counter_value : Nat, phase : 0 .. clock.hpet - 1]
    BY <1>2 DEF hpet_init, StartHpet, TimerTypeOK
  <2> QED BY <1>2, <2>1 DEF hpet_init, TimerTypeOK
<1> QED BY <1>1, <1>2

\* The steps that touch the clocks.
LEMMA TimerActions ==
    ASSUME Next
    PROVE  \/ Tick /\ UNCHANGED apic_vars
           \/ TimerStep /\ UNCHANGED apic_vars
           \/ lapic_enable \/ hpet_init
           \/ \E us \in Delays : lapic_timer_oneshot(us) /\ UNCHANGED <<apic_pc, i>>
           \/ UNCHANGED timer_vars
BY Zenon DEF Next, Boot, Time, Oneshot, BeginApicInit, FindHpet

LEMMA TimerTypeInit == Init => TimerTypeOK
<1> SUFFICES ASSUME Init PROVE TimerTypeOK
  OBVIOUS
<1>1. firmware.clock \in [hpet : 1 .. MICROSECOND, lapic : Nat \ {0}]
  BY ApicAssumption DEF Init, AcpiInit
<1>2. /\ clock = firmware.clock /\ timer_pc = "off" /\ target_value = 0 /\ slept = 0 /\ late = 0
      /\ lapic_timer_freq = 0 /\ oneshot = NoOneshot
      /\ \E h \in 0 .. clock.hpet - 1, l \in 0 .. clock.lapic - 1 :
             /\ hpet_regs = [general_config |-> 0, counter_value |-> 0, phase |-> h]
             /\ lapic = [enabled |-> FALSE, masked |-> TRUE, count |-> 0, phase |-> l]
  BY DEF Init, TimerInit
<1>3. 0 \in 0 .. LAPIC_RANGE - 1 /\ 0 \in 0 .. MaxLate
  BY TimerAssumption
<1>4. lapic \in [enabled : BOOLEAN, masked : BOOLEAN, count : 0 .. LAPIC_RANGE - 1,
                 phase : 0 .. clock.lapic - 1]
  BY <1>2, <1>3
<1>5. oneshot \in [us : Delays \cup {0}, waited : Nat, loaded : BOOLEAN]
  BY <1>2 DEF NoOneshot
<1> QED BY <1>1, <1>2, <1>3, <1>4, <1>5 DEF TimerTypeOK

LEMMA TimerTypeNext ==
    ASSUME TimerTypeOK, [Next]_vars
    PROVE  TimerTypeOK'
<1>1. CASE UNCHANGED timer_vars
  BY <1>1 DEF timer_vars, TimerTypeOK
<1>2. CASE Next
  BY <1>1, <1>2, TimerActions, TickTypeOK, TimerStepTypeOK, AskTypeOK, EnableTypeOK
<1> QED BY <1>1, <1>2 DEF vars

\* Time passes while the timer is measured: both clocks see it.
LEMMA TickMeasuring ==
    ASSUME ClocksFit, firmware \in Firmwares, TimerTypeOK, ClocksInOrder, Measuring, Tick
    PROVE  Measuring'
<1>1. /\ clock' = clock /\ timer_pc' = timer_pc /\ target_value' = target_value
      /\ clock = firmware.clock
  BY DEF Tick, ClocksInOrder
<1>2. /\ Elapsed \in Nat /\ Elapsed' \in Nat /\ Elapsed' <= Elapsed + 1
      /\ timer_pc \in {"measure", "sleep", "slept"} => Elapsed' = Elapsed + 1
  BY <1>1, TimerSeesTime, TimerGoesOn
<1>3. Sleep' = Sleep /\ Goal' = Goal /\ Sleep \in Nat /\ Goal \in Nat
  BY <1>1, SleepBounds, GoalReached DEF Sleep, Goal
<1>4. clock.lapic \in Nat /\ clock.hpet \in Nat /\ late \in Nat
  BY TimerAssumption DEF TimerTypeOK
<1>5. CASE timer_pc = "measure"
  <2>1. late' = late + 1
    BY <1>5 DEF Tick, Waiting
  <2> QED BY <1>1, <1>2, <1>4, <1>5, <2>1 DEF Measuring
<1>6. CASE timer_pc = "sleep"
  <2>1. HpetTime \in Nat /\ HpetTime' = HpetTime + 1
    BY <1>6, HpetSeesTime DEF ClocksInOrder
  <2>2. hpet_regs.counter_value \in Nat /\ hpet_regs'.counter_value \in Nat /\ target_value \in Nat
    BY TickTypeOK DEF TimerTypeOK
  <2>3. Sleep + HpetTime <= Elapsed + clock.hpet - 1 + Goal
    BY <1>6 DEF Measuring
  <2>4. Sleep' + HpetTime' <= Elapsed' + clock'.hpet - 1 + Goal'
    BY <1>1, <1>2, <1>3, <1>4, <1>6, <2>1, <2>3
  <2>5. CASE hpet_regs.counter_value < target_value
    <3>1. late' = late
      BY <1>6, <2>5 DEF Tick, Waiting
    <3>2. Elapsed' + Goal' <= clock'.lapic - 1 + late' + Sleep' + HpetTime'
      BY <1>1, <1>2, <1>3, <1>4, <1>6, <2>1, <2>5, <3>1 DEF Measuring
    <3>3. HpetTime < Goal
      BY <2>5, GoalReached
    <3>4. Elapsed' <= clock'.lapic - 1 + late' + Sleep'
      BY <1>1, <1>2, <1>3, <1>4, <2>1, <3>1, <3>2, <3>3
    <3> QED BY <1>1, <1>6, <2>4, <3>2, <3>4 DEF Measuring
  <2>6. CASE hpet_regs.counter_value >= target_value
    <3>1. late' = late + 1
      BY <1>6, <2>2, <2>6 DEF Tick, Waiting
    <3>2. hpet_regs'.counter_value >= target_value
      BY <1>6, <2>2, <2>6 DEF Tick, TimerTypeOK
    <3>3. Elapsed' <= clock'.lapic - 1 + late' + Sleep'
      BY <1>1, <1>2, <1>3, <1>4, <1>6, <2>6, <3>1 DEF Measuring
    <3> QED BY <1>1, <1>6, <2>2, <2>4, <3>2, <3>3 DEF Measuring
  <2> QED BY <2>2, <2>5, <2>6
<1>7. CASE timer_pc = "slept"
  <2>1. late' = late + 1
    BY <1>7 DEF Tick, Waiting
  <2> QED BY <1>1, <1>2, <1>3, <1>4, <1>7, <2>1 DEF Measuring
<1> QED BY <1>1, <1>5, <1>6, <1>7 DEF Measuring

\* Time passes while a oneshot is awaited: each period it counts has passed.
LEMMA TickCounting ==
    ASSUME TimerTypeOK, Measured, Counting, Tick
    PROVE  Measured' /\ Counting'
<1>1. UNCHANGED <<clock, timer_pc, lapic_timer_freq>>
  BY DEF Tick
<1>2. Measured'
  BY <1>1 DEF Measured, PerMicrosecond
<1>3. SUFFICES ASSUME timer_pc = "idle" PROVE Counting'
  BY <1>1, <1>2 DEF Counting
<1>4. /\ oneshot.loaded /\ lapic.count > 0
      /\ oneshot'.us = oneshot.us /\ oneshot'.waited = oneshot.waited + 1
      /\ oneshot'.loaded = ~LapicFires
  BY <1>3, OneshotType DEF Tick, Waiting, Dawdling, TimerTypeOK
<1> DEFINE N == OneshotTicks(oneshot.us)
           L == clock.lapic
           p == lapic.phase
           c == lapic.count
           w == oneshot.waited
<1>5. OneshotTicks(oneshot.us)' = N
  BY <1>1, <1>4 DEF OneshotTicks
<1>6. L \in Nat \ {0} /\ p \in 0 .. L - 1 /\ c \in Nat /\ w \in Nat /\ N \in Nat
  BY <1>3, OneshotType, OneshotCount, TimerAssumption DEF TimerTypeOK
<1>7. N * L + p <= w + L - 1 + c * L
  BY <1>3, <1>4 DEF Counting
<1>8. Advanced(p, L) = IF p + 1 = L THEN 0 ELSE p + 1
  BY <1>6, PhaseAdvances
<1>9. /\ p' = Advanced(p, L)
      /\ c' = c - (IF Advanced(p, L) = 0 THEN 1 ELSE 0)
  BY <1>4 DEF Tick, TimerTypeOK, LapicTicks
<1>10. LapicFires => Advanced(p, L) = 0 /\ c = 1
  BY DEF LapicFires, LapicTicks
<1> HIDE DEF L, p, c, w, N
<1>11. N * L \in Nat /\ c * L \in Nat /\ (c - 1) * L = c * L - L /\ 1 * L = L
  BY <1>6
<1>12. N * L + p' <= w + 1 + L - 1 + c' * L
  <2>1. CASE p + 1 = L
    <3>1. p' = 0 /\ c' = c - 1
      BY <1>6, <1>8, <1>9, <2>1
    <3> QED BY <1>6, <1>7, <1>11, <2>1, <3>1
  <2>2. CASE p + 1 # L
    <3>1. p' = p + 1 /\ c' = c
      BY <1>6, <1>8, <1>9, <2>2
    <3> QED BY <1>6, <1>7, <1>11, <2>2, <3>1
  <2> QED BY <2>1, <2>2
<1>13. LapicFires => N * L <= w + 1 + L - 1
  <2> SUFFICES ASSUME LapicFires PROVE N * L <= w + 1 + L - 1
    OBVIOUS
  <2>1. p + 1 = L /\ c = 1
    BY <1>6, <1>8, <1>10
  <2> QED BY <1>6, <1>7, <1>11, <2>1
<1>14. oneshot'.waited = w + 1 /\ clock'.lapic = L /\ clock.lapic = L
  BY <1>1, <1>4 DEF w, L
<1>15. lapic'.phase = p' /\ lapic'.count = c' /\ N = OneshotTicks(oneshot.us)
  BY DEF p, c, N
<1> QED BY <1>4, <1>5, <1>12, <1>13, <1>14, <1>15 DEF Counting, N

\* Time passes.
LEMMA TickTimer ==
    ASSUME ClocksFit, firmware \in Firmwares, TimerInv, Tick, UNCHANGED <<firmware, apic_pc, i>>
    PROVE  TimerInv'
<1>1. TimerTypeOK' /\ Measuring' /\ Measured' /\ Counting'
  BY TickTypeOK, TickMeasuring, TickCounting DEF TimerInv
<1>2. ClocksInOrder'
  <2>1. UNCHANGED <<clock, timer_pc, firmware, apic_pc, i>>
    BY DEF Tick
  <2>2. timer_pc \in {"off", "calibrate"} => FALSE
    BY DEF Tick, Waiting, Dawdling
  <2>3. hpet_regs'.general_config = hpet_regs.general_config
    BY DEF Tick, TimerInv, TimerTypeOK
  <2>4. timer_pc \notin {"idle", "unmasked"} => oneshot' = NoOneshot
    <3> SUFFICES ASSUME timer_pc \notin {"idle", "unmasked"} PROVE oneshot' = NoOneshot
      OBVIOUS
    <3>1. oneshot = NoOneshot
      BY DEF TimerInv, ClocksInOrder
    <3>2. ~oneshot.loaded /\ oneshot.waited = 0
      BY <3>1 DEF NoOneshot
    <3>3. /\ oneshot.waited + (IF oneshot.loaded THEN 1 ELSE 0) = 0
          /\ (oneshot.loaded /\ ~LapicFires) = FALSE
      BY <3>2
    <3>4. oneshot' = [oneshot EXCEPT !.waited = 0, !.loaded = FALSE]
      BY <3>3, Zenon DEF Tick
    <3> QED BY <3>1, <3>4 DEF NoOneshot
  <2> QED BY <2>1, <2>2, <2>3, <2>4 DEF TimerInv, ClocksInOrder
<1> QED BY <1>1, <1>2 DEF TimerInv

\* lapic_timer_calibrate begins, and hpet_usleep with it.
LEMMA LoadLongestTimer ==
    ASSUME TimerInv, LoadLongest, UNCHANGED <<firmware, apic_pc, i>>
    PROVE  TimerInv'
<1>1. /\ timer_pc = "calibrate" /\ timer_pc' = "measure"
      /\ lapic' = [lapic EXCEPT !.count = LAPIC_RANGE - 1]
      /\ UNCHANGED <<clock, hpet_regs, target_value, slept, late, lapic_timer_freq, oneshot>>
  BY DEF LoadLongest
<1>2. TimerTypeOK'
  BY TimerStepTypeOK DEF TimerInv, TimerStep
<1>3. Elapsed' <= clock'.lapic - 1 + late'
  <2>1. late = 0
    BY <1>1 DEF TimerInv, ClocksInOrder
  <2>2. lapic'.count = LAPIC_RANGE - 1 /\ lapic'.phase = lapic.phase
    BY <1>1 DEF TimerInv, TimerTypeOK
  <2>3. Elapsed' = 0 * clock.lapic + lapic.phase
    BY <1>1, <2>2, TimerAssumption DEF Elapsed, total_ticks
  <2> QED BY <1>1, <2>1, <2>3 DEF TimerInv, TimerTypeOK
<1>4. ClocksInOrder'
  BY <1>1 DEF TimerInv, ClocksInOrder
<1> QED BY <1>1, <1>2, <1>3, <1>4 DEF TimerInv, Measuring, Measured, Counting

LEMMA UsleepTimer ==
    ASSUME TimerInv, hpet_usleep, UNCHANGED <<firmware, apic_pc, i>>
    PROVE  TimerInv'
<1>1. /\ timer_pc = "measure" /\ timer_pc' = "sleep" /\ slept' = 0
      /\ target_value' = hpet_regs.counter_value + CALIBRATION * (MICROSECOND \div clock.hpet)
      /\ UNCHANGED <<clock, hpet_regs, lapic, late, lapic_timer_freq, oneshot>>
  BY DEF hpet_usleep
<1> DEFINE n == CALIBRATION * (MICROSECOND \div clock.hpet)
           H == clock.hpet
           c == hpet_regs.counter_value
<1>2. H \in Nat \ {0} /\ c \in Nat /\ n \in Nat /\ hpet_regs.phase \in 0 .. H - 1
  <2>1. H \in Nat \ {0} /\ c \in Nat /\ hpet_regs.phase \in 0 .. H - 1
    BY TimerAssumption DEF TimerInv, TimerTypeOK
  <2>2. MICROSECOND \div H \in Nat /\ CALIBRATION \in Nat
    BY <2>1, TimerAssumption, QuotientBounds
  <2> QED BY <2>1, <2>2
<1>3. TimerTypeOK'
  BY TimerStepTypeOK DEF TimerInv, TimerStep
<1>4. HpetTime' = c * H + hpet_regs.phase /\ Goal' = (c + n) * H /\ Sleep' = n * H
  BY <1>1 DEF HpetTime, Goal, Sleep
<1>5. Elapsed' = Elapsed /\ Elapsed <= clock.lapic - 1 + late /\ Elapsed \in Nat
  BY <1>1, TimerAssumption DEF Elapsed, total_ticks, TimerInv, TimerTypeOK, Measuring
<1>6. clock.lapic \in Nat /\ late \in Nat /\ target_value' = c + n
  BY <1>1 DEF TimerInv, TimerTypeOK
<1>7. Measuring'
  <2>1. /\ clock'.lapic = clock.lapic /\ clock'.hpet = H /\ late' = late
        /\ hpet_regs'.counter_value = c /\ timer_pc' = "sleep"
    BY <1>1
  <2> HIDE DEF n, H, c
  <2>2. (c + n) * H = c * H + n * H /\ c * H \in Nat /\ n * H \in Nat
    BY <1>2
  <2>3. Sleep' + HpetTime' <= Elapsed' + clock'.hpet - 1 + Goal'
    BY <1>2, <1>4, <1>5, <2>1, <2>2
  <2>4. Elapsed' + Goal' <= clock'.lapic - 1 + late' + Sleep' + HpetTime'
    BY <1>2, <1>4, <1>5, <1>6, <2>1, <2>2
  <2>5. Elapsed' <= clock'.lapic - 1 + late' + Sleep'
    BY <1>2, <1>4, <1>5, <1>6, <2>1, <2>2
  <2> QED BY <2>1, <2>3, <2>4, <2>5 DEF Measuring
<1>8. ClocksInOrder'
  BY <1>1 DEF TimerInv, ClocksInOrder
<1> QED BY <1>1, <1>3, <1>7, <1>8 DEF TimerInv, Measured, Counting

\* hpet_usleep returns.
LEMMA WakeUpTimer ==
    ASSUME TimerInv, WakeUp, UNCHANGED <<firmware, apic_pc, i>>
    PROVE  TimerInv'
<1>1. /\ timer_pc = "sleep" /\ timer_pc' = "slept" /\ hpet_regs.counter_value >= target_value
      /\ lapic' = [lapic EXCEPT !.masked = TRUE]
      /\ UNCHANGED <<clock, hpet_regs, target_value, slept, late, lapic_timer_freq, oneshot>>
  BY DEF WakeUp
<1>2. TimerTypeOK'
  BY TimerStepTypeOK DEF TimerInv, TimerStep
<1>3. Elapsed' = Elapsed /\ Elapsed \in Nat /\ Sleep' = Sleep
  BY <1>1, TimerAssumption DEF Elapsed, total_ticks, Sleep, TimerInv, TimerTypeOK
<1>4. Measuring'
  <2>1. HpetTime \in Nat /\ Goal \in Nat /\ Goal <= HpetTime /\ Sleep \in Nat
    BY <1>1, GoalReached, SleepBounds DEF TimerInv
  <2>2. clock.hpet \in Nat /\ clock.lapic \in Nat /\ late \in Nat
    BY TimerAssumption DEF TimerInv, TimerTypeOK
  <2>3. Sleep <= Elapsed + clock.hpet - 1 /\ Elapsed <= clock.lapic - 1 + late + Sleep
    BY <1>1, <1>3, <2>1, <2>2 DEF TimerInv, Measuring
  <2> QED BY <1>1, <1>3, <2>3 DEF Measuring
<1>5. ClocksInOrder'
  BY <1>1 DEF TimerInv, ClocksInOrder
<1> QED BY <1>1, <1>2, <1>4, <1>5 DEF TimerInv, Measured, Counting

\* lapic_timer_init keeps the frequency.
LEMMA ReadCountTimer ==
    ASSUME ClocksFit, firmware \in Firmwares, TimerInv, ReadCount, UNCHANGED <<firmware, apic_pc, i>>
    PROVE  TimerInv'
<1>1. /\ timer_pc = "slept" /\ timer_pc' = "idle" /\ lapic_timer_freq' = Freq /\ late' = 0
      /\ UNCHANGED <<clock, hpet_regs, lapic, target_value, slept, oneshot>>
  BY DEF ReadCount
<1>2. clock = firmware.clock /\ TimerTypeOK /\ Measuring /\ oneshot = NoOneshot
  BY <1>1 DEF TimerInv, ClocksInOrder
<1>4. TimerTypeOK'
  BY <1>2, TimerStepTypeOK DEF TimerStep
<1>5. Measured'
  BY <1>2, CalibrationMeasures
<1>6. ClocksInOrder'
  BY <1>1 DEF TimerInv, ClocksInOrder
<1>7. Counting'
  BY <1>1, <1>2 DEF Counting, NoOneshot
<1> QED BY <1>1, <1>4, <1>5, <1>6, <1>7 DEF TimerInv, Measuring

\* A oneshot is asked for, and loaded.
LEMMA AskTimer ==
    ASSUME TimerInv, NEW us \in Delays, lapic_timer_oneshot(us), UNCHANGED <<firmware, apic_pc, i>>
    PROVE  TimerInv'
<1>1. /\ timer_pc = "idle" /\ timer_pc' = "unmasked"
      /\ oneshot' = [oneshot EXCEPT !.us = us]
      /\ UNCHANGED <<clock, hpet_regs, target_value, slept, late, lapic_timer_freq>>
  BY DEF lapic_timer_oneshot
<1>3. TimerTypeOK'
  BY AskTypeOK DEF TimerInv
<1>4. Measured'
  BY <1>1 DEF TimerInv, Measured, PerMicrosecond
<1>5. ClocksInOrder'
  BY <1>1 DEF TimerInv, ClocksInOrder
<1> QED BY <1>1, <1>3, <1>4, <1>5 DEF TimerInv, Measuring, Counting

LEMMA LoadOneshotTimer ==
    ASSUME TimerInv, LoadOneshot, UNCHANGED <<firmware, apic_pc, i>>
    PROVE  TimerInv'
<1>1. /\ timer_pc = "unmasked" /\ timer_pc' = "idle" /\ late' = 0
      /\ lapic' = [lapic EXCEPT !.count = OneshotTicks(oneshot.us)]
      /\ oneshot' = [oneshot EXCEPT !.waited = 0, !.loaded = TRUE]
      /\ UNCHANGED <<clock, hpet_regs, target_value, slept, lapic_timer_freq>>
  BY DEF LoadOneshot
<1>2. TimerTypeOK /\ Measured
  BY DEF TimerInv
<1>3. OneshotTicks(oneshot.us) \in 0 .. LAPIC_RANGE - 1
  BY <1>1, <1>2, OneshotType, OneshotCount
<1>4. TimerTypeOK'
  BY <1>2, TimerStepTypeOK DEF TimerStep
<1>5. Measured'
  BY <1>1, <1>2 DEF Measured, PerMicrosecond
<1>6. ClocksInOrder'
  BY <1>1 DEF TimerInv, ClocksInOrder
<1>7. Counting'
  <2>1. oneshot'.us = oneshot.us /\ oneshot'.waited = 0 /\ oneshot'.loaded = TRUE
    BY <1>1, <1>2 DEF TimerTypeOK
  <2>2. OneshotTicks(oneshot.us)' = OneshotTicks(oneshot.us)
    BY <1>1, <2>1 DEF OneshotTicks
  <2>3. lapic'.count = OneshotTicks(oneshot.us) /\ lapic'.phase = lapic.phase
    BY <1>1, <1>2 DEF TimerTypeOK
  <2>4. clock.lapic \in Nat \ {0} /\ lapic.phase \in 0 .. clock.lapic - 1
    BY <1>2 DEF TimerTypeOK
  <2>5. PICK n \in Nat : n = OneshotTicks(oneshot.us) * clock.lapic
    BY <1>3, <2>4, TimerAssumption
  <2>6. n + lapic.phase <= 0 + clock.lapic - 1 + n
    BY <2>4, <2>5
  <2> QED BY <1>1, <2>1, <2>2, <2>3, <2>5, <2>6 DEF Counting
<1> QED BY <1>1, <1>4, <1>5, <1>6, <1>7 DEF TimerInv, Measuring

\* The LAPIC is enabled; its timer goes on as it was.
LEMMA EnableTimer ==
    ASSUME TimerInv, lapic_enable
    PROVE  TimerInv'
<1>1. /\ lapic' = [lapic EXCEPT !.enabled = TRUE]
      /\ apic_pc = "lapic"
      /\ UNCHANGED <<clock, hpet_regs, timer_pc, target_value, slept, late, lapic_timer_freq,
                     oneshot, firmware, i>>
  BY DEF lapic_enable, acpi_vars
<1>2. timer_pc = "off"
  BY <1>1 DEF TimerInv, ClocksInOrder
<1>3. TimerTypeOK'
  BY EnableTypeOK DEF TimerInv
<1>4. ClocksInOrder'
  BY <1>1, <1>2 DEF TimerInv, ClocksInOrder
<1> QED BY <1>1, <1>2, <1>3, <1>4 DEF TimerInv, Measuring, Measured, Counting

\* The HPET is started, and lapic_timer_init begins.
LEMMA StartTimer ==
    ASSUME TimerInv, hpet_init, i = ISA_IRQS
    PROVE  TimerInv'
<1>1. /\ hpet_regs' = StartHpet /\ apic_pc = "hpet" /\ apic_pc' = "timer"
      /\ timer_pc' = "calibrate"
      /\ UNCHANGED <<clock, lapic, target_value, slept, late, lapic_timer_freq, oneshot, firmware, i>>
  BY DEF hpet_init, acpi_vars
<1>2. timer_pc = "off"
  BY <1>1 DEF TimerInv, ClocksInOrder
<1>3. TimerTypeOK'
  BY EnableTypeOK DEF TimerInv
<1>4. hpet_regs'.general_config = 1
  BY <1>1 DEF StartHpet, TimerInv, TimerTypeOK
<1>5. ClocksInOrder'
  BY <1>1, <1>2, <1>4 DEF TimerInv, ClocksInOrder
<1> QED BY <1>1, <1>2, <1>3, <1>5 DEF TimerInv, Measuring, Measured, Counting

\* Other steps leave the clocks alone.
LEMMA TimerUntouched ==
    ASSUME TimerInv, UNCHANGED timer_vars, firmware' = firmware,
           timer_pc # "off" =>
               /\ i' = i
               /\ apic_pc' \in {"timer", "ready", "low", "high", "returned", "panicked"}
    PROVE  TimerInv'
<1>1. UNCHANGED <<clock, hpet_regs, lapic, timer_pc, target_value, slept, late, lapic_timer_freq,
                  oneshot>>
  BY DEF timer_vars
<1>2. TimerTypeOK' /\ Measuring' /\ Measured' /\ Counting'
  BY <1>1 DEF TimerInv, TimerTypeOK, Measuring, Measured, Counting, Elapsed, total_ticks, HpetTime,
              Goal, Sleep, PerMicrosecond, OneshotTicks
<1>3. ClocksInOrder'
  BY <1>1 DEF TimerInv, ClocksInOrder
<1> QED BY <1>2, <1>3 DEF TimerInv

-----------------------------------------------------------------------------
(* apic_init's own order. *)

\* The firmware's tables do not change; the loop over the ISA interrupts ends
\* before the HPET is looked for.
BootInv ==
    /\ firmware \in Firmwares
    /\ i \in 0 .. ISA_IRQS
    /\ apic_pc \in {"hpet", "timer", "ready"} => i = ISA_IRQS

LEMMA BootInvInit == Init => BootInv
BY ApicAssumption DEF Init, AcpiInit, BootInv

\* The steps of acpi_init and of its callers leave the tables alone.
LEMMA FirmwareStays ==
    ASSUME Next
    PROVE  firmware' = firmware
<1>1. AcpiNext => firmware' = firmware
  BY DEF AcpiNext, rsdp_init, RsdpVerified, VerifyRoot, RootVerified, AddByte, SumIsWrong,
         VerifyEntry, NotListed, EntryVerified, CollectEntry, MadtDone
<1>2. Boot => firmware' = firmware
  BY <1>1 DEF Boot, acpi_vars, BeginApicInit, lapic_enable, FindHpet, hpet_init
<1> QED BY <1>2 DEF Next, Time, acpi_vars

LEMMA BootInvNext ==
    ASSUME BootInv, [Next]_vars
    PROVE  BootInv'
<1>1. CASE UNCHANGED vars
  BY <1>1 DEF vars, acpi_vars, apic_vars, BootInv
<1>2. ASSUME Next PROVE BootInv'
  <2>1. firmware' \in Firmwares
    BY <1>2, FirmwareStays DEF BootInv
  <2>2. CASE UNCHANGED <<apic_pc, i>>
    BY <2>1, <2>2 DEF BootInv
  <2>3. CASE ApicStep
    BY <2>1, <2>3, ApicAssumption
       DEF BootInv, ApicStep, NoApic, SkipIrq, MaskIrq, MarkGsi, EndApicInit, WriteLow, WriteHigh,
           RedirectReturns, ioapic_set_irq_redirect
  <2>4. CASE BeginApicInit \/ lapic_enable \/ FindHpet \/ hpet_init
    BY <2>1, <2>4 DEF BootInv, BeginApicInit, lapic_enable, FindHpet, hpet_init
  <2>5. CASE \E lapic_id \in Lapics, vector \in Vectors, irq \in Irqs, mask \in BOOLEAN :
                 Redirect(lapic_id, vector, irq, mask)
    BY <2>1, <2>5 DEF BootInv, Redirect, ioapic_set_irq_redirect
  <2> QED BY <1>2, <2>2, <2>3, <2>4, <2>5 DEF Next, Boot, Time, apic_vars, Oneshot, Deliver
<1> QED BY <1>1, <1>2

-----------------------------------------------------------------------------

LEMMA TimerInvInit == Init => TimerInv
<1> SUFFICES ASSUME Init PROVE TimerInv
  OBVIOUS
<1>2. /\ clock = firmware.clock /\ timer_pc = "off" /\ target_value = 0 /\ slept = 0 /\ late = 0
      /\ lapic_timer_freq = 0 /\ oneshot = NoOneshot
      /\ \E h \in 0 .. clock.hpet - 1, l \in 0 .. clock.lapic - 1 :
             /\ hpet_regs = [general_config |-> 0, counter_value |-> 0, phase |-> h]
             /\ lapic = [enabled |-> FALSE, masked |-> TRUE, count |-> 0, phase |-> l]
  BY DEF Init, TimerInit
<1>3. TimerTypeOK
  BY TimerTypeInit
<1>4. ClocksInOrder
  BY <1>2 DEF ClocksInOrder
<1> QED BY <1>2, <1>3, <1>4 DEF TimerInv, Measuring, Measured, Counting

LEMMA TimerInvNext ==
    ASSUME ClocksFit, BootInv, TimerInv, [Next]_vars
    PROVE  TimerInv'
<1> DEFINE After == {"timer", "ready", "low", "high", "returned", "panicked"}
<1>1. firmware \in Firmwares /\ (timer_pc # "off" => apic_pc \in After /\ i = ISA_IRQS)
  BY DEF BootInv, TimerInv, ClocksInOrder
<1>2. CASE UNCHANGED vars
  BY <1>1, <1>2, TimerUntouched DEF vars, acpi_vars, apic_vars
<1>3. ASSUME Next PROVE TimerInv'
  <2>1. firmware' = firmware
    BY <1>3, FirmwareStays
  <2>2. CASE Time
    BY <1>1, <2>1, <2>2, TickTimer DEF Time, apic_vars
  <2>3. CASE TimerStep /\ UNCHANGED apic_vars
    BY <1>1, <2>1, <2>3, LoadLongestTimer, UsleepTimer, WakeUpTimer, ReadCountTimer, LoadOneshotTimer
       DEF TimerStep, apic_vars
  <2>4. CASE lapic_enable
    BY <2>4, EnableTimer
  <2>5. CASE hpet_init
    BY <2>5, StartTimer DEF hpet_init, BootInv
  <2>6. CASE \E us \in Delays : Oneshot(us)
    BY <2>1, <2>6, AskTimer DEF Oneshot
  <2>7. CASE ApicStep /\ UNCHANGED timer_vars
    <3>1. timer_pc # "off" => i' = i /\ apic_pc' \in After
      <4> SUFFICES ASSUME timer_pc # "off" PROVE i' = i /\ apic_pc' \in After
        OBVIOUS
      <4>1. apic_pc \in After /\ ~(i < ISA_IRQS)
        BY <1>1, ApicAssumption
      <4>2. apic_pc # "off" /\ apic_pc # "loop"
        BY <4>1
      <4>3. EndApicInit \/ WriteLow \/ WriteHigh \/ RedirectReturns
        BY <2>7, <4>1, <4>2, Zenon DEF ApicStep, NoApic, SkipIrq, MaskIrq, MarkGsi
      <4> QED BY <4>1, <4>3 DEF EndApicInit, WriteLow, WriteHigh, RedirectReturns
    <3> QED BY <2>1, <2>7, <3>1, TimerUntouched
  <2>8. CASE (BeginApicInit \/ FindHpet)
    <3>1. UNCHANGED timer_vars /\ timer_pc = "off"
      BY <1>1, <2>8, ApicAssumption DEF BeginApicInit, FindHpet
    <3> QED BY <2>1, <3>1, TimerUntouched
  <2>9. CASE /\ UNCHANGED timer_vars
             /\ \E lapic_id \in Lapics, vector \in Vectors, irq \in Irqs, mask \in BOOLEAN :
                    Redirect(lapic_id, vector, irq, mask)
    <3>1. timer_pc # "off" => i' = i /\ apic_pc' \in After
      BY <1>1, <2>9 DEF Redirect, ioapic_set_irq_redirect
    <3> QED BY <2>1, <2>9, <3>1, TimerUntouched
  <2>10. CASE UNCHANGED timer_vars /\ UNCHANGED <<apic_pc, i>>
    BY <1>1, <2>1, <2>10, TimerUntouched
  <2> QED BY <1>3, <2>2, <2>3, <2>4, <2>5, <2>6, <2>7, <2>8, <2>9, <2>10
          DEF Next, Boot, apic_vars, Deliver
<1> QED BY <1>2, <1>3

\* On a machine whose clocks fit the registers, no oneshot's interrupt comes
\* earlier than the microseconds asked for, less what the truncated quotients of
\* hpet_usleep and lapic_timer_oneshot and the first periods lose: for every pair
\* of clocks, every phase they are found in and every lateness of the kernel.
THEOREM OneshotsAreNotEarly ==
    ASSUME ClocksFit
    PROVE  Spec => []OneshotNotEarly
<1>1. BootInv /\ TimerInv /\ [Next]_vars => BootInv' /\ TimerInv'
  BY BootInvNext, TimerInvNext
<1>2. TimerInv => OneshotNotEarly
  BY OneshotWaits DEF TimerInv
<1> QED BY <1>1, <1>2, BootInvInit, TimerInvInit, PTL DEF Spec

-----------------------------------------------------------------------------
(* The legacy controllers. *)

Controllers == {Pic1, Pic2}
PortWriteType == [pic : Controllers, port : {"data", "command"}, byte : Nat]

\* The vectors of a controller, and the bytes pic_remap writes to it.
VectorOf(c) == FIRST_VECTOR + (c - 1) * LINES
Wiring(c) == IF c = Pic1 THEN 4 ELSE 2
WritesTo(c, mask) ==
    <<Command(c, ICW1), Data(c, VectorOf(c)), Data(c, Wiring(c)), Data(c, 1), Data(c, 0), Data(c, 1),
      Data(c, mask)>>

\* What a write makes of a controller.
AfterWrite(p, w) == IF w.port = "data" THEN AfterData(p, w.byte) ELSE AfterCommand(p, w.byte)

\* What is left of an initialisation after n of the bytes, and where the
\* controller is then.
LeftAfter == <<<<>>, <<"vector", "wiring", "mode">>, <<"wiring", "mode">>, <<"mode">>,
               <<>>, <<>>, <<>>, <<>>>>
Reached(p, c, n, mask) ==
    /\ p.to_come = LeftAfter[n + 1]
    /\ n >= 2 => p.vector = VectorOf(c)
    /\ n = 7 => p.mask = mask

\* pic_remap under way, with k of its writes done.
Remapping(k) ==
    /\ port_writes = SubSeq(RemapWrites(mask_read[Pic1], mask_read[Pic2]), k + 1, 14)
    /\ Reached(pic[Pic1], Pic1, (k + 1) \div 2, mask_read[Pic1])
    /\ Reached(pic[Pic2], Pic2, k \div 2, mask_read[Pic2])

\* A controller is set up, with the mask it was found with or disabled.
SetUp(c) ==
    /\ pic[c].to_come = <<>>
    /\ pic[c].vector = VectorOf(c)
    /\ pic[c].mask \in {mask_read[c], EveryLine}

\* pic_disable, under way or done.
Disabled ==
    \/ port_writes = DisableWrites
    \/ port_writes = <<Data(Pic1, EveryLine)>> /\ pic[Pic2].mask = EveryLine
    \/ port_writes = <<>> /\ pic[Pic1].mask = EveryLine /\ pic[Pic2].mask = EveryLine

\* idt_init remaps the controllers before it allows interrupts, and nothing else
\* begins before; apic_init disables them before it enables the LAPIC.
PicInv ==
    /\ PicTypeOK
    /\ mask_read = <<>> =>
           port_writes = <<>> /\ ~sti /\ \A c \in Controllers : pic[c].to_come = <<>>
    /\ mask_read # <<>> => mask_read[Pic1] \in Nat /\ mask_read[Pic2] \in Nat
    /\ mask_read # <<>> /\ ~sti => \E k \in 0 .. 14 : Remapping(k)
    /\ sti => \A c \in Controllers : SetUp(c)
    /\ acpi_pc # "start" \/ apic_pc # "off" => sti
    /\ sti /\ apic_pc \in {"off", "no_apic"} => port_writes = <<>>
    /\ apic_pc \notin {"off", "no_apic"} => Disabled
    /\ lapic.enabled => port_writes = <<>> /\ apic_pc \notin {"off", "no_apic"}

\* The rest of a sequence, its head and its tail.
LEMMA RestOfSequence ==
    ASSUME NEW S, NEW s \in Seq(S), NEW k \in 1 .. Len(s)
    PROVE  /\ SubSeq(s, k, Len(s)) # <<>>
           /\ Head(SubSeq(s, k, Len(s))) = s[k]
           /\ Tail(SubSeq(s, k, Len(s))) = SubSeq(s, k + 1, Len(s))
<1> DEFINE t == SubSeq(s, k, Len(s))
           u == SubSeq(s, k + 1, Len(s))
<1>1. t \in Seq(S) /\ Len(t) = Len(s) - k + 1 /\ \A n \in 1 .. Len(t) : t[n] = s[k + n - 1]
  OBVIOUS
<1>2. u \in Seq(S) /\ Len(u) = Len(s) - k /\ \A n \in 1 .. Len(u) : u[n] = s[k + n]
  OBVIOUS
<1> HIDE DEF t, u
<1>3. t # <<>> /\ Head(t) = s[k]
  BY <1>1
<1>4. /\ Tail(t) \in Seq(S) /\ Len(Tail(t)) = Len(t) - 1
      /\ \A n \in 1 .. Len(Tail(t)) : Tail(t)[n] = t[n + 1]
  BY <1>1, <1>3, HeadTailProperties
<1>5. Len(Tail(t)) = Len(u)
  <2>1. Len(s) \in Nat /\ k \in Nat
    OBVIOUS
  <2>2. Len(t) = Len(s) - k + 1 /\ Len(Tail(t)) = Len(t) - 1 /\ Len(u) = Len(s) - k
    BY <1>1, <1>2, <1>4
  <2> QED BY <2>1, <2>2
<1>6. \A n \in 1 .. Len(Tail(t)) : Tail(t)[n] = u[n]
  <2> SUFFICES ASSUME NEW n \in 1 .. Len(Tail(t)) PROVE Tail(t)[n] = u[n]
    OBVIOUS
  <2>1. n + 1 \in 1 .. Len(t) /\ n \in 1 .. Len(u) /\ k + (n + 1) - 1 = k + n
    BY <1>1, <1>2, <1>5
  <2>2. t[n + 1] = s[k + (n + 1) - 1] /\ u[n] = s[k + n]
    BY <1>1, <1>2, <2>1
  <2> QED BY <1>4, <2>1, <2>2
<1>7. Tail(t) = u
  BY <1>2, <1>4, <1>5, <1>6, SeqEqual
<1> QED BY <1>3, <1>7 DEF t, u

\* pic_remap writes to the controllers in turn.
LEMMA RemapInTurn ==
    ASSUME NEW m1 \in Nat, NEW m2 \in Nat
    PROVE  /\ RemapWrites(m1, m2) \in Seq(PortWriteType)
           /\ Len(RemapWrites(m1, m2)) = 14
           /\ \A n \in 0 .. 6 :
                  /\ RemapWrites(m1, m2)[2 * n + 1] = WritesTo(Pic1, m1)[n + 1]
                  /\ RemapWrites(m1, m2)[2 * n + 2] = WritesTo(Pic2, m2)[n + 1]
<1>1. FIRST_VECTOR \in Nat /\ LINES \in Nat
  BY PicAssumption
<1>2. VectorOf(Pic1) = FIRST_VECTOR /\ VectorOf(Pic2) = FIRST_VECTOR + LINES
  BY <1>1 DEF VectorOf, Pic1, Pic2
<1>3. Wiring(Pic1) = 4 /\ Wiring(Pic2) = 2
  BY DEF Wiring, Pic1, Pic2
<1>4. /\ \A c \in Controllers, b \in Nat : Data(c, b) \in PortWriteType
      /\ \A c \in Controllers, b \in Nat : Command(c, b) \in PortWriteType
  BY DEF Data, Command, PortWriteType
<1>5. ICW1 \in Nat /\ Pic1 \in Controllers /\ Pic2 \in Controllers /\ FIRST_VECTOR + LINES \in Nat
  BY <1>1 DEF ICW1, Controllers
<1>6. RemapWrites(m1, m2) \in Seq(PortWriteType) /\ Len(RemapWrites(m1, m2)) = 14
  BY <1>1, <1>4, <1>5 DEF RemapWrites
<1>7. ASSUME NEW n \in 0 .. 6
      PROVE  /\ RemapWrites(m1, m2)[2 * n + 1] = WritesTo(Pic1, m1)[n + 1]
             /\ RemapWrites(m1, m2)[2 * n + 2] = WritesTo(Pic2, m2)[n + 1]
  <2>1. n = 0 \/ n = 1 \/ n = 2 \/ n = 3 \/ n = 4 \/ n = 5 \/ n = 6
    OBVIOUS
  <2> QED BY <1>2, <1>3, <2>1 DEF RemapWrites, WritesTo
<1> QED BY <1>6, <1>7

PicType == [mask : Nat, vector : Nat, to_come : Seq({"vector", "wiring", "mode"})]

\* A controller after a write.
LEMMA AfterWriteType ==
    ASSUME NEW p \in PicType, NEW w \in PortWriteType
    PROVE  AfterWrite(p, w) \in PicType
<1>1. w.byte \in Nat
  BY DEF PortWriteType
<1>2. CASE w.port = "data"
  <2>1. CASE p.to_come = <<>>
    BY <1>1, <1>2, <2>1 DEF AfterWrite, AfterData, PicType
  <2>2. CASE p.to_come # <<>>
    <3>1. Tail(p.to_come) \in Seq({"vector", "wiring", "mode"})
      BY <2>2 DEF PicType
    <3>2. (IF Head(p.to_come) = "vector" THEN w.byte ELSE p.vector) \in Nat
      BY <1>1 DEF PicType
    <3> QED BY <1>2, <2>2, <3>1, <3>2 DEF AfterWrite, AfterData, PicType
  <2> QED BY <2>1, <2>2
<1>3. CASE w.port # "data"
  <2>1. <<"vector", "wiring", "mode">> \in Seq({"vector", "wiring", "mode"})
    OBVIOUS
  <2> QED BY <1>3, <2>1 DEF AfterWrite, AfterCommand, PicType
<1> QED BY <1>2, <1>3

\* Each write takes a controller on in its initialisation.
LEMMA ReachedNext ==
    ASSUME NEW p \in PicType, NEW c \in Controllers, NEW mask \in Nat, NEW n \in 0 .. 6,
           Reached(p, c, n, mask)
    PROVE  Reached(AfterWrite(p, WritesTo(c, mask)[n + 1]), c, n + 1, mask)
<1> DEFINE q == AfterWrite(p, WritesTo(c, mask)[n + 1])
<1>1. p.to_come = LeftAfter[n + 1] /\ (n >= 2 => p.vector = VectorOf(c))
  BY DEF Reached
<1>2. CASE n = 0
  <2>1. q = AfterCommand(p, ICW1)
    BY <1>2 DEF WritesTo, AfterWrite, Command
  <2>2. q.to_come = <<"vector", "wiring", "mode">>
    BY <2>1 DEF AfterCommand, PicType
  <2> QED BY <1>2, <2>2 DEF Reached, LeftAfter
<1>3. CASE n = 1
  <2>1. q = AfterData(p, VectorOf(c))
    BY <1>3 DEF WritesTo, AfterWrite, Data
  <2>2. p.to_come = <<"vector", "wiring", "mode">>
    BY <1>1, <1>3 DEF LeftAfter
  <2>3. q.to_come = <<"wiring", "mode">> /\ q.vector = VectorOf(c)
    BY <2>1, <2>2 DEF AfterData, PicType
  <2> QED BY <1>3, <2>3 DEF Reached, LeftAfter
<1>4. CASE n = 2
  <2>1. q = AfterData(p, Wiring(c))
    BY <1>4 DEF WritesTo, AfterWrite, Data
  <2>2. p.to_come = <<"wiring", "mode">>
    BY <1>1, <1>4 DEF LeftAfter
  <2>3. q.to_come = <<"mode">> /\ q.vector = VectorOf(c)
    BY <1>1, <1>4, <2>1, <2>2 DEF AfterData, PicType
  <2> QED BY <1>4, <2>3 DEF Reached, LeftAfter
<1>5. CASE n = 3
  <2>1. q = AfterData(p, 1)
    BY <1>5 DEF WritesTo, AfterWrite, Data
  <2>2. p.to_come = <<"mode">>
    BY <1>1, <1>5 DEF LeftAfter
  <2>3. q.to_come = <<>> /\ q.vector = VectorOf(c)
    BY <1>1, <1>5, <2>1, <2>2 DEF AfterData, PicType
  <2> QED BY <1>5, <2>3 DEF Reached, LeftAfter
<1>6. CASE n \in 4 .. 6
  <2>1. PICK b \in Nat : q = AfterData(p, b) /\ (n = 6 => b = mask)
    BY <1>6 DEF WritesTo, AfterWrite, Data
  <2>2. p.to_come = <<>>
    BY <1>1, <1>6 DEF LeftAfter
  <2>3. q = [p EXCEPT !.mask = b]
    BY <2>1, <2>2 DEF AfterData
  <2>4. q.to_come = <<>> /\ q.vector = VectorOf(c) /\ (n = 6 => q.mask = mask)
    BY <1>1, <1>6, <2>1, <2>2, <2>3 DEF PicType
  <2>5. LeftAfter[(n + 1) + 1] = <<>>
    BY <1>6 DEF LeftAfter
  <2>6. n + 1 >= 2 /\ (n + 1 = 7 => n = 6)
    BY <1>6
  <2> HIDE DEF q
  <2>7. Reached(q, c, n + 1, mask)
    BY <2>4, <2>5, <2>6 DEF Reached
  <2> QED BY <2>7 DEF q
<1> QED BY <1>2, <1>3, <1>4, <1>5, <1>6

\* The bytes of the two port writes of pic_disable.
LEMMA DisableType ==
    /\ DisableWrites \in Seq(PortWriteType)
    /\ DisableWrites # <<>> /\ Head(DisableWrites) = Data(Pic2, EveryLine)
    /\ Tail(DisableWrites) = <<Data(Pic1, EveryLine)>>
    /\ <<Data(Pic1, EveryLine)>> # <<>> /\ Head(<<Data(Pic1, EveryLine)>>) = Data(Pic1, EveryLine)
    /\ Tail(<<Data(Pic1, EveryLine)>>) = <<>>
<1>1. Data(Pic1, EveryLine) \in PortWriteType /\ Data(Pic2, EveryLine) \in PortWriteType
  BY PicAssumption DEF Data, PortWriteType, Controllers
<1> QED BY <1>1 DEF DisableWrites

\* A port write reaches one controller.
LEMMA PortWriteEffect ==
    ASSUME PicTypeOK, PortWrite
    PROVE  LET w == Head(port_writes)
           IN  /\ port_writes # <<>>
               /\ w \in PortWriteType
               /\ pic'[w.pic] = AfterWrite(pic[w.pic], w)
               /\ \A c \in Controllers : c # w.pic => pic'[c] = pic[c]
               /\ port_writes' = Tail(port_writes)
               /\ PicTypeOK'
<1> DEFINE w == Head(port_writes)
<1>1. port_writes \in Seq(PortWriteType) /\ port_writes # <<>>
  BY DEF PicTypeOK, PortWrite, PortWriteType, Controllers
<1>2. w \in PortWriteType /\ Tail(port_writes) \in Seq(PortWriteType)
  BY <1>1
<1>3. w.pic \in Controllers
  BY <1>2 DEF PortWriteType
<1>4. pic \in [Controllers -> PicType]
  BY DEF PicTypeOK, Controllers, PicType
<1>5. pic' = [pic EXCEPT ![w.pic] = AfterWrite(pic[w.pic], w)]
  BY DEF PortWrite, AfterWrite
<1>6. AfterWrite(pic[w.pic], w) \in PicType
  BY <1>2, <1>3, <1>4, AfterWriteType
<1>7. port_writes' = Tail(port_writes) /\ mask_read' = mask_read /\ sti' = sti
  BY DEF PortWrite
<1> HIDE DEF w
<1>8. pic' \in [Controllers -> PicType]
  BY <1>3, <1>4, <1>5, <1>6
<1>9. PicTypeOK'
  BY <1>2, <1>7, <1>8 DEF PicTypeOK, PicType, PortWriteType, Controllers
<1>10. pic'[w.pic] = AfterWrite(pic[w.pic], w) /\ \A c \in Controllers : c # w.pic => pic'[c] = pic[c]
  BY <1>3, <1>4, <1>5
<1> QED BY <1>1, <1>2, <1>7, <1>9, <1>10 DEF w

\* The writes of pic_remap, one at a time.
LEMMA RemapWrite ==
    ASSUME PicTypeOK, PortWrite, mask_read[Pic1] \in Nat, mask_read[Pic2] \in Nat,
           NEW k \in 0 .. 14, Remapping(k)
    PROVE  k < 14 /\ Remapping(k + 1)'
<1> DEFINE m1 == mask_read[Pic1]
           m2 == mask_read[Pic2]
           W == RemapWrites(m1, m2)
           w == Head(port_writes)
<1>1. W \in Seq(PortWriteType) /\ Len(W) = 14
  BY RemapInTurn
<1>2. port_writes = SubSeq(W, k + 1, 14)
  BY DEF Remapping
<1>3. k < 14
  <2> SUFFICES ASSUME k = 14 PROVE FALSE
    OBVIOUS
  <2>1. port_writes = <<>>
    BY <1>1, <1>2
  <2> QED BY <2>1, PortWriteEffect
<1>4. w = W[k + 1] /\ Tail(port_writes) = SubSeq(W, k + 2, 14)
  <2> HIDE DEF W
  <2>1. k + 1 \in 1 .. Len(W) /\ (k + 1) + 1 = k + 2
    BY <1>1, <1>3
  <2> QED BY <1>1, <1>2, <2>1, RestOfSequence
<1>5. /\ pic'[w.pic] = AfterWrite(pic[w.pic], w)
      /\ \A c \in Controllers : c # w.pic => pic'[c] = pic[c]
      /\ port_writes' = Tail(port_writes)
  BY PortWriteEffect
<1>6. mask_read' = mask_read
  BY DEF PortWrite
<1>7. port_writes' = SubSeq(RemapWrites(mask_read[Pic1], mask_read[Pic2])', (k + 1) + 1, 14)
  <2>1. RemapWrites(mask_read[Pic1], mask_read[Pic2])' = W /\ (k + 1) + 1 = k + 2
    BY <1>6 DEF RemapWrites
  <2> HIDE DEF W
  <2> QED BY <1>4, <1>5, <2>1
<1>8. /\ Reached(pic[Pic1], Pic1, (k + 1) \div 2, m1)
      /\ Reached(pic[Pic2], Pic2, k \div 2, m2)
      /\ pic[Pic1] \in PicType /\ pic[Pic2] \in PicType
  BY DEF Remapping, PicTypeOK, PicType
<1>9. Pic1 \in Controllers /\ Pic2 \in Controllers /\ Pic1 # Pic2
  BY DEF Controllers, Pic1, Pic2
<1> HIDE DEF w, W, m1, m2
<1>10. CASE \E n \in 0 .. 6 : k = 2 * n
  <2>1. PICK n \in 0 .. 6 : k = 2 * n
    BY <1>10
  <2>2. (k + 1) \div 2 = n /\ k \div 2 = n /\ (k + 2) \div 2 = n + 1
    BY <2>1
  <2>3. w = WritesTo(Pic1, m1)[n + 1]
    BY <1>4, <2>1, RemapInTurn DEF W, m1, m2
  <2>4. w.pic = Pic1
    <3>1. n = 0 \/ n = 1 \/ n = 2 \/ n = 3 \/ n = 4 \/ n = 5 \/ n = 6
      BY <2>1
    <3> QED BY <2>3, <3>1 DEF WritesTo, Command, Data
  <2>5. Reached(pic'[Pic1], Pic1, n + 1, m1)
    BY <1>5, <1>8, <1>9, <2>2, <2>3, <2>4, ReachedNext DEF m1
  <2>6. Reached(pic'[Pic2], Pic2, n, m2)
    BY <1>5, <1>8, <1>9, <2>2, <2>4
  <2>7. ((k + 1) + 1) \div 2 = n + 1 /\ (k + 1) \div 2 = n
    BY <2>1
  <2> QED BY <1>3, <1>6, <1>7, <2>5, <2>6, <2>7 DEF Remapping, m1, m2
<1>11. CASE \E n \in 0 .. 6 : k = 2 * n + 1
  <2>1. PICK n \in 0 .. 6 : k = 2 * n + 1
    BY <1>11
  <2>2. (k + 1) \div 2 = n + 1 /\ k \div 2 = n /\ (k + 2) \div 2 = n + 1
    BY <2>1
  <2>3. w = WritesTo(Pic2, m2)[n + 1]
    <3>1. w = W[2 * n + 2]
      <4>1. k + 1 = 2 * n + 2
        BY <2>1
      <4> QED BY <1>4, <4>1
    <3> QED BY <2>1, <3>1, RemapInTurn DEF W, m1, m2
  <2>4. w.pic = Pic2
    <3>1. n = 0 \/ n = 1 \/ n = 2 \/ n = 3 \/ n = 4 \/ n = 5 \/ n = 6
      BY <2>1
    <3> QED BY <2>3, <3>1 DEF WritesTo, Command, Data
  <2>5. Reached(pic'[Pic2], Pic2, n + 1, m2)
    BY <1>5, <1>8, <1>9, <2>2, <2>3, <2>4, ReachedNext DEF m2
  <2>6. Reached(pic'[Pic1], Pic1, n + 1, m1)
    BY <1>5, <1>8, <1>9, <2>2, <2>4
  <2>7. ((k + 1) + 1) \div 2 = n + 1 /\ (k + 1) \div 2 = n + 1
    BY <2>1
  <2> QED BY <1>3, <1>6, <1>7, <2>5, <2>6, <2>7 DEF Remapping, m1, m2
<1>12. (\E n \in 0 .. 6 : k = 2 * n) \/ (\E n \in 0 .. 6 : k = 2 * n + 1)
  <2>1. k \div 2 \in 0 .. 6 /\ (k = 2 * (k \div 2) \/ k = 2 * (k \div 2) + 1)
    BY <1>3
  <2> QED BY <2>1
<1> QED BY <1>10, <1>11, <1>12

\* The steps that touch the legacy controllers.
LEMMA PicActions ==
    ASSUME Next
    PROVE  \/ PicStep /\ UNCHANGED <<acpi_vars, apic_vars, timer_vars>>
           \/ BeginApicInit
           \/ UNCHANGED pic_vars
BY Zenon DEF Next, Boot, Time, lapic_enable, FindHpet, hpet_init

\* Only lapic_enable changes the bit that enables the LAPIC.
LEMMA EnabledByLapicEnable ==
    ASSUME TimerTypeOK, Next
    PROVE  lapic_enable \/ lapic'.enabled = lapic.enabled
<1>1. lapic \in [enabled : BOOLEAN, masked : BOOLEAN, count : 0 .. LAPIC_RANGE - 1,
                 phase : 0 .. clock.lapic - 1]
  BY DEF TimerTypeOK
<1>2. CASE Tick
  BY <1>1, <1>2 DEF Tick
<1>3. CASE TimerStep
  BY <1>1, <1>3 DEF TimerStep, LoadLongest, hpet_usleep, WakeUp, ReadCount, LoadOneshot
<1>4. CASE \E us \in Delays : lapic_timer_oneshot(us)
  <2>1. \E n : lapic' = [lapic EXCEPT !.masked = FALSE, !.count = n]
    BY <1>4 DEF lapic_timer_oneshot, SetLvt
  <2> QED BY <1>1, <2>1
<1>5. CASE hpet_init \/ UNCHANGED timer_vars
  BY <1>5 DEF hpet_init, timer_vars
<1> QED BY <1>2, <1>3, <1>4, <1>5, TimerActions

LEMMA PicInvInit == Init => PicInv
<1> SUFFICES ASSUME Init PROVE PicInv
  OBVIOUS
<1>1. /\ pic = [c \in Controllers |-> [mask |-> firmware.masks[c], vector |-> 8, to_come |-> <<>>]]
      /\ port_writes = <<>> /\ mask_read = <<>> /\ sti = FALSE
      /\ acpi_pc = "start" /\ apic_pc = "off" /\ firmware \in Firmwares
  BY DEF Init, AcpiInit, PicInit, Controllers
<1>2. lapic.enabled = FALSE
  BY DEF Init, TimerInit
<1>3. \A c \in Controllers : firmware.masks[c] \in Nat
  BY <1>1, ApicAssumption DEF Controllers
<1>4. PicTypeOK
  <2>1. <<>> \in Seq({"vector", "wiring", "mode"})
    OBVIOUS
  <2>2. pic \in [Controllers -> [mask : Nat, vector : Nat, to_come : Seq({"vector", "wiring", "mode"})]]
    BY <1>1, <1>3, <2>1
  <2>3. port_writes \in Seq([pic : {Pic1, Pic2}, port : {"data", "command"}, byte : Nat])
        /\ mask_read \in Seq(Nat)
    BY <1>1
  <2> QED BY <1>1, <2>2, <2>3 DEF PicTypeOK, Controllers
<1>5. \A c \in Controllers : pic[c].to_come = <<>>
  BY <1>1
<1> QED BY <1>1, <1>2, <1>4, <1>5 DEF PicInv

\* idt_init's steps.
LEMMA PicStepInv ==
    ASSUME PicInv, PicStep, UNCHANGED <<acpi_vars, apic_vars, timer_vars>>
    PROVE  PicInv'
<1>1. UNCHANGED <<acpi_pc, apic_pc, lapic>>
  BY DEF acpi_vars, apic_vars, timer_vars
<1>2. PicTypeOK /\ pic \in [Controllers -> PicType]
  BY DEF PicInv, PicTypeOK, Controllers, PicType
<1>3. Pic1 \in Controllers /\ Pic2 \in Controllers /\ Pic1 # Pic2
  BY DEF Controllers, Pic1, Pic2
<1>4. CASE pic_remap
  <2> DEFINE m1 == pic[Pic1].mask
             m2 == pic[Pic2].mask
  <2>1. /\ mask_read = <<>> /\ mask_read' = <<m1, m2>> /\ port_writes' = RemapWrites(m1, m2)
        /\ pic' = pic /\ sti' = sti
    BY <1>4 DEF pic_remap
  <2>2. m1 \in Nat /\ m2 \in Nat
    BY <1>2, <1>3 DEF PicType
  <2>3. ~sti /\ \A c \in Controllers : pic[c].to_come = <<>>
    BY <2>1 DEF PicInv
  <2>4. acpi_pc = "start" /\ apic_pc = "off" /\ ~lapic.enabled
    BY <2>3 DEF PicInv
  <2>5. mask_read'[Pic1] = m1 /\ mask_read'[Pic2] = m2 /\ mask_read' # <<>> /\ mask_read' \in Seq(Nat)
    BY <2>1, <2>2 DEF Pic1, Pic2
  <2> HIDE DEF m1, m2
  <2>6. RemapWrites(m1, m2) \in Seq(PortWriteType) /\ Len(RemapWrites(m1, m2)) = 14
    BY <2>2, RemapInTurn
  <2>7. PicTypeOK'
    BY <1>2, <2>1, <2>5, <2>6 DEF PicTypeOK, PortWriteType, Controllers
  <2>8. Remapping(0)'
    <3>1. SubSeq(RemapWrites(m1, m2), 1, 14) = RemapWrites(m1, m2)
      BY <2>6
    <3>2. LeftAfter[0 + 1] = <<>>
      BY DEF LeftAfter
    <3>3. Reached(pic[Pic1], Pic1, 0, m1) /\ Reached(pic[Pic2], Pic2, 0, m2)
      BY <1>3, <2>3, <3>2 DEF Reached
    <3>4. (0 + 1) \div 2 = 0 /\ 0 \div 2 = 0 /\ 0 + 1 = 1
      OBVIOUS
    <3> QED BY <2>1, <2>5, <3>1, <3>3, <3>4 DEF Remapping
  <2>9. \E k \in 0 .. 14 : Remapping(k)'
    BY <2>8
  <2> QED BY <1>1, <2>1, <2>2, <2>3, <2>4, <2>5, <2>7, <2>9 DEF PicInv
<1>5. CASE idt_init
  <2>1. /\ mask_read # <<>> /\ port_writes = <<>> /\ ~sti /\ sti' = TRUE
        /\ pic' = pic /\ port_writes' = port_writes /\ mask_read' = mask_read
    BY <1>5 DEF idt_init
  <2>2. PICK k \in 0 .. 14 : Remapping(k)
    BY <2>1 DEF PicInv
  <2>3. mask_read[Pic1] \in Nat /\ mask_read[Pic2] \in Nat
    BY <2>1 DEF PicInv
  <2>4. k = 14
    <3>1. RemapWrites(mask_read[Pic1], mask_read[Pic2]) \in Seq(PortWriteType)
          /\ Len(RemapWrites(mask_read[Pic1], mask_read[Pic2])) = 14
      BY <2>3, RemapInTurn
    <3>2. SubSeq(RemapWrites(mask_read[Pic1], mask_read[Pic2]), k + 1, 14) = <<>>
      BY <2>1, <2>2 DEF Remapping
    <3>3. PICK W \in Seq(PortWriteType) :
              Len(W) = 14 /\ SubSeq(W, k + 1, 14) = <<>>
      BY <3>1, <3>2
    <3>4. SUFFICES ASSUME k # 14
                   PROVE  FALSE
      OBVIOUS
    <3>5. k + 1 \in 1 .. Len(W)
      BY <3>3, <3>4
    <3>6. SubSeq(W, k + 1, Len(W)) # <<>>
      BY <3>5, RestOfSequence
    <3> QED BY <3>3, <3>6
  <2>5. Reached(pic[Pic1], Pic1, 7, mask_read[Pic1]) /\ Reached(pic[Pic2], Pic2, 7, mask_read[Pic2])
    <3>1. (14 + 1) \div 2 = 7 /\ 14 \div 2 = 7
      OBVIOUS
    <3> QED BY <2>2, <2>4, <3>1 DEF Remapping
  <2>6. \A c \in Controllers : SetUp(c)'
    <3>1. LeftAfter[7 + 1] = <<>>
      BY DEF LeftAfter
    <3>2. \A c \in Controllers : Reached(pic[c], c, 7, mask_read[c])
      BY <2>5 DEF Controllers
    <3> QED BY <2>1, <3>1, <3>2 DEF Reached, SetUp
  <2>7. acpi_pc = "start" /\ apic_pc = "off" /\ ~lapic.enabled
    BY <2>1 DEF PicInv
  <2>8. PicTypeOK'
    BY <1>2, <2>1 DEF PicTypeOK
  <2> QED BY <1>1, <2>1, <2>3, <2>6, <2>7, <2>8 DEF PicInv
<1>6. CASE PortWrite
  <2> DEFINE w == Head(port_writes)
  <2>1. mask_read' = mask_read /\ sti' = sti
    BY <1>6 DEF PortWrite
  <2>2. /\ port_writes # <<>> /\ w \in PortWriteType /\ PicTypeOK'
        /\ pic'[w.pic] = AfterWrite(pic[w.pic], w)
        /\ \A c \in Controllers : c # w.pic => pic'[c] = pic[c]
        /\ port_writes' = Tail(port_writes)
    BY <1>2, <1>6, PortWriteEffect
  <2>3. mask_read # <<>> /\ mask_read[Pic1] \in Nat /\ mask_read[Pic2] \in Nat
    BY <2>2 DEF PicInv
  <2>4. CASE ~sti
    <3>1. PICK k \in 0 .. 14 : Remapping(k)
      BY <2>3, <2>4 DEF PicInv
    <3>2. k < 14 /\ Remapping(k + 1)'
      BY <1>2, <1>6, <2>3, <3>1, RemapWrite
    <3>3. acpi_pc = "start" /\ apic_pc = "off" /\ ~lapic.enabled
      BY <2>4 DEF PicInv
    <3>4. \E n \in 0 .. 14 : Remapping(n)'
      BY <3>1, <3>2
    <3> QED BY <1>1, <2>1, <2>2, <2>3, <2>4, <3>3, <3>4 DEF PicInv
  <2>5. CASE sti
    <3>1. apic_pc \notin {"off", "no_apic"} /\ Disabled /\ ~lapic.enabled
      BY <2>2, <2>5 DEF PicInv
    <3>2. \A c \in Controllers : SetUp(c)
      BY <2>5 DEF PicInv
    <3>3. /\ w \in {Data(Pic1, EveryLine), Data(Pic2, EveryLine)}
          /\ Disabled'
          /\ pic'[w.pic] = [pic[w.pic] EXCEPT !.mask = EveryLine]
      <4>1. CASE port_writes = DisableWrites
        <5>1. w = Data(Pic2, EveryLine) /\ port_writes' = <<Data(Pic1, EveryLine)>>
          BY <2>2, <4>1, DisableType
        <5>2. w.pic = Pic2 /\ w.port = "data" /\ w.byte = EveryLine
          BY <5>1 DEF Data
        <5>3. pic'[w.pic] = [pic[w.pic] EXCEPT !.mask = EveryLine]
          BY <1>3, <2>2, <3>2, <5>2 DEF AfterWrite, AfterData, SetUp
        <5>4. pic'[Pic2].mask = EveryLine
          BY <1>2, <1>3, <5>2, <5>3 DEF PicType
        <5> QED BY <5>1, <5>3, <5>4 DEF Disabled
      <4>2. CASE port_writes = <<Data(Pic1, EveryLine)>> /\ pic[Pic2].mask = EveryLine
        <5>1. w = Data(Pic1, EveryLine) /\ port_writes' = <<>>
          BY <2>2, <4>2, DisableType
        <5>2. w.pic = Pic1 /\ w.port = "data" /\ w.byte = EveryLine
          BY <5>1 DEF Data
        <5>3. pic'[w.pic] = [pic[w.pic] EXCEPT !.mask = EveryLine]
          BY <1>3, <2>2, <3>2, <5>2 DEF AfterWrite, AfterData, SetUp
        <5>4. pic'[Pic1].mask = EveryLine
          BY <1>2, <1>3, <5>2, <5>3 DEF PicType
        <5>5. pic'[Pic2].mask = EveryLine
          BY <1>3, <2>2, <4>2, <5>2
        <5> QED BY <5>1, <5>3, <5>4, <5>5 DEF Disabled
      <4> QED BY <2>2, <3>1, <4>1, <4>2 DEF Disabled
    <3>4. \A c \in Controllers : SetUp(c)'
      <4> SUFFICES ASSUME NEW c \in Controllers PROVE SetUp(c)'
        OBVIOUS
      <4>1. CASE c = w.pic
        <5>1. /\ pic'[c].to_come = pic[c].to_come /\ pic'[c].vector = pic[c].vector
              /\ pic'[c].mask = EveryLine
          BY <1>2, <3>3, <4>1 DEF PicType
        <5> QED BY <2>1, <3>2, <5>1 DEF SetUp
      <4>2. CASE c # w.pic
        BY <2>1, <2>2, <3>2, <4>2 DEF SetUp
      <4> QED BY <4>1, <4>2
    <3> QED BY <1>1, <2>1, <2>2, <2>3, <2>5, <3>1, <3>3, <3>4 DEF PicInv
  <2> QED BY <2>4, <2>5
<1> QED BY <1>4, <1>5, <1>6 DEF PicStep

\* acpi_init waits for idt_init, and the HPET's search for the loop of apic_init.
LEMMA AcpiOrder ==
    ASSUME Next
    PROVE  acpi_pc' = acpi_pc \/ sti \/ apic_pc = "loop"
<1>1. Boot => UNCHANGED acpi_pc \/ sti \/ apic_pc = "loop"
  BY DEF Boot, acpi_vars, lapic_enable, FindHpet, hpet_init, BeginApicInit
<1> QED BY <1>1 DEF Next, Time, acpi_vars

\* apic_init begins once, when acpi_init has ended.
LEMMA ApicOrder ==
    ASSUME Next, ~BeginApicInit
    PROVE  /\ apic_pc = "off" =>
                  apic_pc' = "off" \/ (apic_pc' = "no_apic" /\ acpi_pc = "acpi_done")
           /\ apic_pc = "no_apic" => apic_pc' = "no_apic"
           /\ apic_pc \notin {"off", "no_apic"} => apic_pc' \notin {"off", "no_apic"}
<1>1. CASE apic_pc' = apic_pc
  BY <1>1
<1>2. CASE ApicStep
  BY <1>2 DEF ApicStep, NoApic, SkipIrq, MaskIrq, MarkGsi, EndApicInit, WriteLow, WriteHigh,
              RedirectReturns, ioapic_set_irq_redirect
<1>3. CASE lapic_enable \/ FindHpet \/ hpet_init
  BY <1>3 DEF lapic_enable, FindHpet, hpet_init
<1>4. CASE \E lapic_id \in Lapics, vector \in Vectors, irq \in Irqs, mask \in BOOLEAN :
               Redirect(lapic_id, vector, irq, mask)
  BY <1>4 DEF Redirect, ioapic_set_irq_redirect
<1> QED BY <1>1, <1>2, <1>3, <1>4 DEF Next, Boot, Time, apic_vars, Oneshot, Deliver

\* A step that leaves the controllers alone.
LEMMA PicUntouched ==
    ASSUME PicInv, UNCHANGED pic_vars,
           lapic'.enabled => lapic.enabled \/ (port_writes = <<>> /\ apic_pc = "lapic"),
           acpi_pc' = acpi_pc \/ sti \/ apic_pc = "loop",
           apic_pc = "off" => apic_pc' = "off" \/ (apic_pc' = "no_apic" /\ acpi_pc = "acpi_done"),
           apic_pc = "no_apic" => apic_pc' = "no_apic",
           apic_pc \notin {"off", "no_apic"} => apic_pc' \notin {"off", "no_apic"}
    PROVE  PicInv'
<1>1. pic' = pic /\ port_writes' = port_writes /\ mask_read' = mask_read /\ sti' = sti
  BY DEF pic_vars
<1>2. PicTypeOK' /\ (Disabled' <=> Disabled) /\ \A c \in Controllers : SetUp(c)' <=> SetUp(c)
  BY <1>1 DEF PicInv, PicTypeOK, Disabled, SetUp
<1>3. \A k \in 0 .. 14 : Remapping(k)' <=> Remapping(k)
  BY <1>1 DEF Remapping
<1> DEFINE R == \E k \in 0 .. 14 : Remapping(k)
           S == \A c \in Controllers : SetUp(c)
           C == \A c \in Controllers : pic[c].to_come = <<>>
           M == mask_read[Pic1] \in Nat /\ mask_read[Pic2] \in Nat
<1>4. (R' <=> R) /\ (S' <=> S) /\ (C' <=> C) /\ (M' <=> M)
  BY <1>1, <1>2, <1>3
<1>5. /\ mask_read = <<>> => port_writes = <<>> /\ ~sti /\ C
      /\ mask_read # <<>> => M
      /\ mask_read # <<>> /\ ~sti => R
      /\ sti => S
      /\ acpi_pc # "start" \/ apic_pc # "off" => sti
      /\ sti /\ apic_pc \in {"off", "no_apic"} => port_writes = <<>>
      /\ apic_pc \notin {"off", "no_apic"} => Disabled
      /\ lapic.enabled => port_writes = <<>> /\ apic_pc \notin {"off", "no_apic"}
  BY DEF PicInv
<1> HIDE DEF R, S, C, M
<1>6. /\ mask_read' = <<>> => port_writes' = <<>> /\ ~sti' /\ C'
      /\ mask_read' # <<>> => M'
      /\ mask_read' # <<>> /\ ~sti' => R'
      /\ sti' => S'
  BY <1>1, <1>4, <1>5, Zenon
<1>7. acpi_pc' # "start" \/ apic_pc' # "off" => sti'
  BY <1>1, <1>5
<1>8. sti' /\ apic_pc' \in {"off", "no_apic"} => port_writes' = <<>>
  BY <1>1, <1>5
<1>9. apic_pc' \notin {"off", "no_apic"} => Disabled'
  BY <1>2, <1>5
<1>10. lapic'.enabled => port_writes' = <<>> /\ apic_pc' \notin {"off", "no_apic"}
  BY <1>1, <1>5
<1> QED BY <1>2, <1>6, <1>7, <1>8, <1>9, <1>10, Zenon DEF PicInv, R, S, C, M

LEMMA PicInvNext ==
    ASSUME PicInv, TimerTypeOK, [Next]_vars
    PROVE  PicInv'
<1>1. CASE UNCHANGED vars
  <2>1. UNCHANGED pic_vars /\ UNCHANGED <<acpi_pc, apic_pc, lapic>>
    BY <1>1 DEF vars, acpi_vars, apic_vars, timer_vars
  <2>2. lapic'.enabled => lapic.enabled \/ (port_writes = <<>> /\ apic_pc = "lapic")
    BY <2>1, Zenon
  <2>3. /\ acpi_pc' = acpi_pc \/ sti \/ apic_pc = "loop"
        /\ apic_pc = "off" => apic_pc' = "off" \/ (apic_pc' = "no_apic" /\ acpi_pc = "acpi_done")
        /\ apic_pc = "no_apic" => apic_pc' = "no_apic"
        /\ apic_pc \notin {"off", "no_apic"} => apic_pc' \notin {"off", "no_apic"}
    BY <2>1, Zenon
  <2> QED BY <2>1, <2>2, <2>3, PicUntouched, Zenon
<1>2. CASE Next /\ BeginApicInit
  <2>1. /\ apic_pc = "off" /\ acpi_pc = "acpi_done" /\ apic_pc' = "lapic"
        /\ port_writes' = DisableWrites /\ pic' = pic /\ mask_read' = mask_read /\ sti' = sti
    BY <1>2 DEF BeginApicInit, pic_disable
  <2>2. acpi_pc' = acpi_pc /\ lapic' = lapic
    BY <1>2 DEF BeginApicInit, acpi_vars, timer_vars
  <2>3. sti /\ mask_read # <<>> /\ ~lapic.enabled
    BY <2>1 DEF PicInv
  <2>4. PicTypeOK'
    BY <2>1, DisableType DEF PicInv, PicTypeOK, PortWriteType, Controllers
  <2>5. Disabled' /\ \A c \in Controllers : SetUp(c)'
    BY <2>1, <2>3 DEF PicInv, Disabled, SetUp
  <2>6. mask_read'[Pic1] \in Nat /\ mask_read'[Pic2] \in Nat
    BY <2>1, <2>3 DEF PicInv
  <2> QED BY <2>1, <2>2, <2>3, <2>4, <2>5, <2>6 DEF PicInv
<1>3. CASE Next /\ ~BeginApicInit /\ UNCHANGED pic_vars
  <2>1. lapic'.enabled => lapic.enabled \/ (port_writes = <<>> /\ apic_pc = "lapic")
    <3>1. lapic_enable \/ lapic'.enabled = lapic.enabled
      BY <1>3, EnabledByLapicEnable
    <3>2. lapic_enable => port_writes = <<>> /\ apic_pc = "lapic"
      BY DEF lapic_enable
    <3> QED BY <3>1, <3>2, Zenon
  <2> QED BY <1>3, <2>1, AcpiOrder, ApicOrder, PicUntouched, Zenon
<1>4. CASE Next /\ PicStep /\ UNCHANGED <<acpi_vars, apic_vars, timer_vars>>
  BY <1>4, PicStepInv
<1> QED BY <1>1, <1>2, <1>3, <1>4, PicActions

\* A controller that is set up raises its own vectors, and none once disabled.
LEMMA RaisedAsSetUp ==
    ASSUME PicInv, NEW c \in Controllers
    PROVE  /\ sti => Raised(c) \subseteq {FIRST_VECTOR + (c - 1) * LINES + line :
                          line \in {n \in 0 .. LINES - 1 : ~IsMasked(mask_read[c], n)}}
           /\ lapic.enabled => Raised(c) = {}
<1> USE DEF Controllers
<1>1. \A n \in 0 .. LINES - 1 : IsMasked(EveryLine, n)
  BY PicAssumption
<1>2. ASSUME sti, NEW n \in 0 .. LINES - 1, ~IsMasked(pic[c].mask, n)
      PROVE  /\ pic[c].vector = FIRST_VECTOR + (c - 1) * LINES
             /\ ~IsMasked(mask_read[c], n)
    <2>1. SetUp(c)
      BY <1>2 DEF PicInv
    <2> QED BY <1>1, <1>2, <2>1 DEF SetUp, VectorOf
<1>3. ASSUME lapic.enabled, NEW n \in 0 .. LINES - 1
      PROVE  IsMasked(pic[c].mask, n)
    <2>1. port_writes = <<>> /\ Disabled
      BY <1>3 DEF PicInv
    <2>2. pic[c].mask = EveryLine
      BY <2>1, DisableType DEF Disabled
    <2> QED BY <1>1, <2>2
<1> QED BY <1>2, <1>3 DEF Raised

\* Interrupts are allowed only behind a finished pic_remap, so that no legacy
\* line is taken for an exception, and the LAPIC is enabled only behind a
\* finished pic_disable: whatever masks the bootloader left.
THEOREM LegacyLines == Spec => []LegacyLinesAsSetUp
<1>1. PicInv => LegacyLinesAsSetUp
  BY RaisedAsSetUp DEF LegacyLinesAsSetUp, Controllers
<1>2. PicInv /\ TimerTypeOK /\ [Next]_vars => PicInv' /\ TimerTypeOK'
  BY PicInvNext, TimerTypeNext
<1> QED BY <1>1, <1>2, PicInvInit, TimerTypeInit, PTL DEF Spec

-----------------------------------------------------------------------------
(* Least elements, sums, and lists in order. *)

LEMMA MinIsLeast ==
    ASSUME NEW S, S \subseteq Nat, S # {}
    PROVE  Min(S) \in S /\ \A x \in S : Min(S) <= x
<1>1. PICK x \in S : \A y \in S : ~(<<y, x>> \in OpToRel(<, Nat))
  BY NatLessThanWellFounded, WFMin, Zenon
<1>2. \A y \in S : ~(y < x)
  BY <1>1, Zenon DEF OpToRel
<1>3. \A y \in S : x <= y
  BY <1>2
<1> QED BY <1>3 DEF Min

\* What the loop over the bytes adds up exists for every table.
LEMMA SumsExist ==
    ASSUME NEW bytes \in Seq(Nat)
    PROVE  \E s \in [0 .. Len(bytes) -> Nat] :
               s = [n \in 0 .. Len(bytes) |-> IF n = 0 THEN 0 ELSE s[n - 1] + bytes[n]]
<1> DEFINE Summed(k) == \E s \in [0 .. k -> Nat] :
               s = [n \in 0 .. k |-> IF n = 0 THEN 0 ELSE s[n - 1] + bytes[n]]
           T == {k \in 0 .. Len(bytes) : ~Summed(k)}
<1>1. SUFFICES ASSUME T # {} PROVE FALSE
  <2>1. Len(bytes) \in 0 .. Len(bytes)
    OBVIOUS
  <2> QED BY <2>1
<1>2. PICK k \in T : \A x \in T : k <= x
  <2>1. T \subseteq Nat
    OBVIOUS
  <2> HIDE DEF T
  <2> QED BY <1>1, <2>1, MinIsLeast
<1>3. k \in 0 .. Len(bytes) /\ ~Summed(k)
  OBVIOUS
<1>4. k # 0
  <2>1. Summed(0)
    <3> DEFINE z == [n \in 0 .. 0 |-> 0]
    <3>1. z \in [0 .. 0 -> Nat]
      OBVIOUS
    <3>2. z = [n \in 0 .. 0 |-> IF n = 0 THEN 0 ELSE z[n - 1] + bytes[n]]
      OBVIOUS
    <3> QED BY <3>1, <3>2
  <2> QED BY <1>3, <2>1
<1>5. Summed(k - 1)
  <2>1. k - 1 \in 0 .. Len(bytes) /\ ~(k <= k - 1)
    BY <1>3, <1>4
  <2> HIDE DEF Summed
  <2> QED BY <1>2, <2>1
<1>6. PICK s \in [0 .. k - 1 -> Nat] :
          s = [n \in 0 .. k - 1 |-> IF n = 0 THEN 0 ELSE s[n - 1] + bytes[n]]
  BY <1>5
<1> DEFINE t == [n \in 0 .. k |-> IF n = k THEN s[k - 1] + bytes[k] ELSE s[n]]
<1>7. bytes[k] \in Nat /\ k - 1 \in 0 .. k - 1 /\ s[k - 1] \in Nat
  BY <1>3, <1>4
<1>8. t \in [0 .. k -> Nat]
  BY <1>3, <1>7
<1>9. \A n \in 0 .. k : t[n] = IF n = 0 THEN 0 ELSE t[n - 1] + bytes[n]
  <2> SUFFICES ASSUME NEW n \in 0 .. k
               PROVE  t[n] = IF n = 0 THEN 0 ELSE t[n - 1] + bytes[n]
    OBVIOUS
  <2>1. CASE n = k
    <3>1. t[n] = s[k - 1] + bytes[k]
      BY <2>1
    <3>2. k - 1 \in 0 .. k /\ k - 1 # k
      BY <1>3, <1>4
    <3>3. t[k - 1] = s[k - 1]
      BY <3>2
    <3> QED BY <1>4, <2>1, <3>1, <3>3
  <2>2. CASE n # k
    <3>1. n \in 0 .. k - 1 /\ t[n] = s[n]
      BY <1>3, <2>2
    <3>2. s[n] = IF n = 0 THEN 0 ELSE s[n - 1] + bytes[n]
      BY <1>6, <3>1
    <3>3. n # 0 => n - 1 \in 0 .. k /\ n - 1 # k
      BY <1>3, <2>2
    <3>4. n # 0 => t[n - 1] = s[n - 1]
      BY <3>3
    <3> QED BY <3>1, <3>2, <3>4
  <2> QED BY <2>1, <2>2
<1>10. t = [n \in 0 .. k |-> IF n = 0 THEN 0 ELSE t[n - 1] + bytes[n]]
  BY <1>8, <1>9
<1> HIDE DEF t
<1>11. Summed(k)
  BY <1>8, <1>10
<1> QED BY <1>3, <1>11

\* The sum after one byte more.
LEMMA SumOfBytes ==
    ASSUME NEW bytes \in Seq(Nat)
    PROVE  /\ \A n \in 0 .. Len(bytes) : PartialSums(bytes)[n] \in Nat
           /\ PartialSums(bytes)[0] = 0
           /\ \A n \in 1 .. Len(bytes) :
                  PartialSums(bytes)[n] = PartialSums(bytes)[n - 1] + bytes[n]
<1>1. PICK s \in [0 .. Len(bytes) -> Nat] :
          s = [n \in 0 .. Len(bytes) |-> IF n = 0 THEN 0 ELSE s[n - 1] + bytes[n]]
  BY SumsExist
<1> DEFINE P == PartialSums(bytes)
<1>2. P = [n \in 0 .. Len(bytes) |-> IF n = 0 THEN 0 ELSE P[n - 1] + bytes[n]]
  BY <1>1 DEF PartialSums
<1> HIDE DEF P
<1>3. P[0] = 0 /\ \A n \in 1 .. Len(bytes) : P[n] = P[n - 1] + bytes[n]
  <2>1. 0 \in 0 .. Len(bytes) /\ \A n \in 1 .. Len(bytes) : n \in 0 .. Len(bytes) /\ n # 0
    OBVIOUS
  <2> QED BY <1>2, <2>1
<1>4. \A n \in 0 .. Len(bytes) : P[n] \in Nat
  <2> DEFINE T == {n \in 0 .. Len(bytes) : P[n] \notin Nat}
  <2>1. SUFFICES ASSUME T # {} PROVE FALSE
    OBVIOUS
  <2>2. PICK k \in T : \A x \in T : k <= x
    <3>1. T \subseteq Nat
      OBVIOUS
    <3> HIDE DEF T
    <3> QED BY <2>1, <3>1, MinIsLeast
  <2>3. k \in 1 .. Len(bytes) /\ k - 1 \in 0 .. Len(bytes) /\ k - 1 \notin T
    BY <1>3, <2>2
  <2>4. P[k - 1] \in Nat /\ bytes[k] \in Nat
    BY <2>3
  <2>5. P[k] = P[k - 1] + bytes[k]
    BY <1>3, <2>3
  <2>6. P[k] \in Nat
    BY <2>4, <2>5
  <2> QED BY <2>2, <2>6
<1> QED BY <1>3, <1>4 DEF P

\* Division with a remainder is unique.
LEMMA RemainderIsUnique ==
    ASSUME NEW b \in Nat \ {0}, NEW q \in Nat, NEW r \in 0 .. b - 1
    PROVE  (q * b + r) % b = r
<1> DEFINE x == q * b + r
           p == x \div b
           s == x % b
<1>1. q * b \in Nat /\ x \in Nat
  OBVIOUS
<1>2. p \in Nat /\ s \in 0 .. b - 1 /\ x = b * p + s
  BY <1>1
<1> HIDE DEF p, s
<1>3. p = q
  <2>1. CASE p < q
    <3>1. (p + 1) * b <= q * b
      BY <1>2, <2>1, ProductGrows
    <3>2. (p + 1) * b = b * p + b
      BY <1>2
    <3>3. PICK u \in Nat, v \in Nat : u = b * p /\ v = q * b
      BY <1>1, <1>2
    <3> QED BY <1>2, <3>1, <3>2, <3>3
  <2>2. CASE p > q
    <3>1. (q + 1) * b <= p * b
      BY <1>2, <2>2, ProductGrows
    <3>2. (q + 1) * b = q * b + b /\ p * b = b * p
      BY <1>2
    <3>3. PICK u \in Nat, v \in Nat : u = b * p /\ v = q * b
      BY <1>1, <1>2
    <3> QED BY <1>2, <3>1, <3>2, <3>3
  <2> QED BY <1>2, <2>1, <2>2
<1>4. s = r
  <2>1. b * p = q * b
    BY <1>2, <1>3
  <2>2. PICK u \in Nat : u = b * p
    BY <1>2
  <2> QED BY <1>2, <2>1, <2>2
<1> QED BY <1>4 DEF s

\* A sum of bytes may be taken in the arithmetic of a byte at every step.
LEMMA RemainderOfSum ==
    ASSUME NEW b \in Nat \ {0}, NEW x \in Nat, NEW y \in Nat
    PROVE  ((x % b) + y) % b = (x + y) % b
<1> DEFINE p == x \div b
           s == x % b
           z == s + y
           q == z \div b
           r == z % b
<1>1. p \in Nat /\ s \in 0 .. b - 1 /\ x = b * p + s
  OBVIOUS
<1>2. z \in Nat
  BY <1>1
<1>3. q \in Nat /\ r \in 0 .. b - 1 /\ z = b * q + r
  BY <1>2
<1> HIDE DEF p, s, q, r
<1>4. x + y = (p + q) * b + r
  <2>1. (p + q) * b = b * p + b * q
    BY <1>1, <1>3
  <2>2. PICK u \in Nat, v \in Nat : u = b * p /\ v = b * q
    BY <1>1, <1>3
  <2> QED BY <1>1, <1>3, <2>1, <2>2
<1>5. (x + y) % b = r
  <2>1. p + q \in Nat
    BY <1>1, <1>3
  <2>2. ((p + q) * b + r) % b = r
    BY <1>3, <2>1, RemainderIsUnique
  <2> QED BY <1>4, <2>2, Zenon
<1> QED BY <1>5 DEF r, s

\* A list has the members of a set, in order.
Lists(list, S) ==
    /\ {list[a] : a \in 1 .. Len(list)} = S
    /\ \A a, b \in 1 .. Len(list) : a < b => list[a] < list[b]
    /\ Len(list) = Cardinality(S)

LEMMA ListOfNone == Lists(<<>>, {})
<1>1. Len(<<>>) = 0 /\ 1 .. 0 = {}
  OBVIOUS
<1> QED BY <1>1, FS_EmptySet DEF Lists

\* A larger member goes to the end.
LEMMA ListAppended ==
    ASSUME NEW list \in Seq(Nat), NEW S, IsFiniteSet(S), Lists(list, S),
           NEW e \in Nat, \A x \in S : x < e
    PROVE  Lists(Append(list, e), S \cup {e})
<1> DEFINE l == Append(list, e)
<1>1. Len(l) = Len(list) + 1 /\ l[Len(list) + 1] = e
      /\ \A a \in 1 .. Len(list) : l[a] = list[a]
  OBVIOUS
<1> HIDE DEF l
<1>2. Len(list) \in Nat /\ 1 .. Len(l) = (1 .. Len(list)) \cup {Len(list) + 1}
  BY <1>1
<1>3. {l[a] : a \in 1 .. Len(l)} = S \cup {e}
  BY <1>1, <1>2 DEF Lists
<1>4. e \notin S
  OBVIOUS
<1>5. Len(l) = Cardinality(S \cup {e})
  <2>1. Cardinality(S \cup {e}) = Cardinality(S) + 1
    BY <1>4, FS_AddElement
  <2> QED BY <1>1, <2>1 DEF Lists
<1>6. \A a, b \in 1 .. Len(l) : a < b => l[a] < l[b]
  <2> SUFFICES ASSUME NEW a \in 1 .. Len(l), NEW b \in 1 .. Len(l), a < b
               PROVE  l[a] < l[b]
    OBVIOUS
  <2>1. a \in 1 .. Len(list) /\ l[a] = list[a] /\ list[a] \in S
    BY <1>1, <1>2 DEF Lists
  <2>2. CASE b \in 1 .. Len(list)
    BY <1>1, <2>1, <2>2 DEF Lists
  <2>3. CASE b = Len(list) + 1
    BY <1>1, <2>1, <2>3
  <2> QED BY <1>2, <2>2, <2>3
<1> QED BY <1>3, <1>5, <1>6 DEF Lists, l

-----------------------------------------------------------------------------
(* The tables of a machine. *)

IsEntryOf(n, root) == n \in 1 .. Len(root.entries)

LEMMA BytesAreNumbers ==
    ASSUME NEW bytes \in Seq(0 .. BYTE - 1)
    PROVE  /\ bytes \in Seq(Nat) /\ Len(bytes) \in Nat
           /\ \A n \in 1 .. Len(bytes) : bytes[n] \in 0 .. BYTE - 1
<1>1. 0 .. BYTE - 1 \subseteq Nat
  BY AcpiAssumption
<1>2. Len(bytes) \in Nat /\ \A n \in 1 .. Len(bytes) : bytes[n] \in 0 .. BYTE - 1
  BY ElementOfSeq, LenProperties
<1>3. bytes \in Seq(Nat)
  BY <1>1, SeqMonotonic
<1> QED BY <1>2, <1>3

\* The root tables, and the tables they point to.
LEMMA RootTables ==
    ASSUME NEW f \in Firmwares, NEW root \in {f.rsdt, f.xsdt}
    PROVE  /\ root.bytes \in Seq(0 .. BYTE - 1)
           /\ Len(root.entries) \in Nat
           /\ \A n \in 1 .. Len(root.entries) :
                  /\ root.entries[n].bytes \in Seq(0 .. BYTE - 1)
                  /\ Len(root.entries[n].entries) \in Nat
                  /\ \A m \in 1 .. Len(root.entries[n].entries) :
                         IsMadtEntry(root.entries[n].entries[m])
<1>1. /\ IsTable(root)
      /\ \A t \in ToSet(root.entries) : IsTable(t) /\ \A e \in ToSet(t.entries) : IsMadtEntry(e)
  BY AcpiAssumption
<1>2. root.bytes \in Seq(0 .. BYTE - 1) /\ root.entries \in Seq(ToSet(root.entries))
  BY <1>1 DEF IsTable
<1>3. Len(root.entries) \in Nat
  BY <1>2
<1>4. ASSUME NEW n \in 1 .. Len(root.entries)
      PROVE  /\ root.entries[n].bytes \in Seq(0 .. BYTE - 1)
             /\ Len(root.entries[n].entries) \in Nat
             /\ \A m \in 1 .. Len(root.entries[n].entries) :
                    IsMadtEntry(root.entries[n].entries[m])
  <2> DEFINE t == root.entries[n]
  <2>1. t \in ToSet(root.entries)
    BY <1>2
  <2> HIDE DEF t
  <2>2. t.bytes \in Seq(0 .. BYTE - 1) /\ t.entries \in Seq(ToSet(t.entries))
    BY <1>1, <2>1 DEF IsTable
  <2>3. Len(t.entries) \in Nat /\ \A m \in 1 .. Len(t.entries) : t.entries[m] \in ToSet(t.entries)
    BY <2>2
  <2>4. \A e \in ToSet(t.entries) : IsMadtEntry(e)
    BY <1>1, <2>1
  <2> QED BY <2>2, <2>3, <2>4 DEF t
<1> QED BY <1>2, <1>3, <1>4

LEMMA RootIsRoot ==
    ASSUME AcpiTypeOK
    PROVE  Root \in {firmware.rsdt, firmware.xsdt} /\ firmware \in Firmwares
BY DEF AcpiTypeOK, Root

LEMMA RsdpBytes ==
    ASSUME AcpiTypeOK
    PROVE  /\ BytesOf("rsdp") = SubSeq(firmware.rsdp.bytes, 1, RSDP_BYTES)
           /\ BytesOf("rsdp") \in Seq(0 .. BYTE - 1)
           /\ Len(BytesOf("rsdp")) = RSDP_BYTES
<1>1. BytesOf("rsdp") = SubSeq(firmware.rsdp.bytes, 1, RSDP_BYTES)
  BY DEF BytesOf
<1>2. /\ firmware.rsdp.bytes \in Seq(0 .. BYTE - 1)
      /\ Len(firmware.rsdp.bytes) >= RSDP_BYTES /\ RSDP_BYTES \in Nat \ {0}
  BY AcpiAssumption DEF AcpiTypeOK, IsTable
<1> QED BY <1>1, <1>2

\* What is added up is bytes.
LEMMA BytesOfType ==
    ASSUME AcpiTypeOK, NEW table \in {"rsdp", "root", "entry"},
           table = "entry" => IsEntryOf(entry, Root)
    PROVE  BytesOf(table) \in Seq(0 .. BYTE - 1)
<1>1. CASE table = "rsdp"
  BY <1>1, RsdpBytes
<1>2. CASE table = "root"
  <2>1. BytesOf("root") = Root.bytes
    BY DEF BytesOf
  <2> QED BY <1>2, <2>1, RootIsRoot, RootTables
<1>3. CASE table = "entry"
  <2>1. BytesOf("entry") = Root.entries[entry].bytes
    BY DEF BytesOf, Table
  <2> QED BY <1>3, <2>1, RootIsRoot, RootTables DEF IsEntryOf
<1> QED BY <1>1, <1>2, <1>3

-----------------------------------------------------------------------------
(* acpi_init and the search of hpet_init. *)

\* A checksum loop that has added up the first of the bytes.  With as many bytes
\* as a byte has values, or more, its index never gets to the end.
SumOf(s, bytes) ==
    /\ s.length = Len(bytes)
    /\ Len(bytes) < BYTE => /\ s.i <= Len(bytes)
                            /\ s.checksum = PartialSums(bytes)[s.i] % BYTE

\* The entry is the first of the root table with the signature.
FirstWith(s, n) ==
    /\ n \in 1 .. Len(Root.entries)
    /\ Table(n).signature = s
    /\ \A m \in 1 .. n - 1 : Table(m).signature # s

\* The lists have the first entries of the MADT, each by its type.
Before(n, type) == {m \in 1 .. n - 1 : Madt.entries[m].type = type}
ListedBefore(n) == \A t \in Kept : Lists(madt_lists[t], Before(n, t))

\* madt_init's loop does not leave the entry it is at.
Endless == entry <= Len(Madt.entries) /\ Madt.entries[entry].length = 0

\* madt_init has returned.
MadtRead == acpi_pc = "acpi_done" \/ wanted = "HPET"

Phases ==
    /\ wanted = "none" => /\ acpi_pc \in {"start", "sum", "root", "panicked"}
                          /\ \A s \in {"APIC", "HPET"} : found[s] = NotFound
    /\ wanted = "APIC" => acpi_pc \in {"sum", "find", "madt", "acpi_done", "panicked"}
    /\ wanted = "HPET" => acpi_pc \in {"sum", "find", "done", "panicked"}
    /\ acpi_pc = "sum" => IF wanted = "none" THEN summing.table \in {"rsdp", "root"}
                                             ELSE summing.table = "entry"

AddedUp == acpi_pc = "sum" => SumOf(summing, BytesOf(summing.table))

RsdpDone == acpi_pc \notin {"start", "panicked"} /\ ~(acpi_pc = "sum" /\ summing.table = "rsdp")
RootSound ==
    /\ RsdpDone => Sums0(BytesOf("rsdp")) /\ Root = RootOf(firmware)
    /\ wanted # "none" => Root = RootOf(firmware)
    /\ wanted # "none" /\ acpi_pc # "panicked" => Sums0(Root.bytes)

SearchSound ==
    /\ acpi_pc = "find" => /\ entry \in 1 .. Len(Root.entries) + 1
                           /\ \A m \in 1 .. entry - 1 : Table(m).signature # wanted
    /\ acpi_pc = "sum" /\ summing.table = "entry" => FirstWith(wanted, entry)

FoundSound ==
    /\ \A s \in {"APIC", "HPET"} : found[s] # NotFound =>
           FirstWith(s, found[s]) /\ Sums0(Table(found[s]).bytes)
    /\ acpi_pc = "madt" \/ MadtRead => found["APIC"] # NotFound

ListsSound ==
    /\ ~MadtRead /\ acpi_pc # "madt" => \A t \in Kept : madt_lists[t] = <<>>
    /\ acpi_pc = "madt" => /\ entry \in 1 .. Len(Madt.entries) + 1
                           /\ ListedBefore(entry) \/ Endless
    /\ MadtRead => ListedBefore(Len(Madt.entries) + 1)

\* What acpi_init knows at each place: what it has added up, that the tables it
\* goes on with are sound, how far a search has come, and what the lists have.
AcpiInv ==
    AcpiTypeOK /\ Phases /\ AddedUp /\ RootSound /\ SearchSound /\ FoundSound /\ ListsSound

Summing == [table : {"none", "rsdp", "root", "entry"}, length : Nat,
            i : 0 .. BYTE - 1, checksum : 0 .. BYTE - 1]

LEMMA SumBegins ==
    ASSUME NEW bytes \in Seq(0 .. BYTE - 1), NEW table \in {"rsdp", "root", "entry"}
    PROVE  LET s == [table |-> table, length |-> Len(bytes), i |-> 0, checksum |-> 0]
           IN  s \in Summing /\ SumOf(s, bytes)
<1> DEFINE s == [table |-> table, length |-> Len(bytes), i |-> 0, checksum |-> 0]
<1>1. Len(bytes) \in Nat /\ PartialSums(bytes)[0] = 0
  BY BytesAreNumbers, SumOfBytes
<1>2. 0 \in 0 .. BYTE - 1 /\ 0 % BYTE = 0
  BY AcpiAssumption
<1>3. s \in Summing
  BY <1>1, <1>2 DEF Summing
<1>4. s.length = Len(bytes) /\ s.i = 0 /\ s.checksum = 0
  OBVIOUS
<1> HIDE DEF s
<1>5. SumOf(s, bytes)
  BY <1>1, <1>2, <1>4 DEF SumOf
<1> QED BY <1>3, <1>5 DEF s

LEMMA SumGoesOn ==
    ASSUME NEW bytes \in Seq(0 .. BYTE - 1), NEW s \in Summing, SumOf(s, bytes),
           s.i < s.length
    PROVE  LET t == [s EXCEPT !.i = (@ + 1) % BYTE, !.checksum = (@ + bytes[s.i + 1]) % BYTE]
           IN  t \in Summing /\ SumOf(t, bytes) /\ t.table = s.table
<1> DEFINE t == [s EXCEPT !.i = (@ + 1) % BYTE, !.checksum = (@ + bytes[s.i + 1]) % BYTE]
<1>1. /\ s.i \in 0 .. BYTE - 1 /\ s.checksum \in 0 .. BYTE - 1 /\ s.length = Len(bytes)
      /\ BYTE \in Nat \ {0} /\ s.length \in Nat
  BY AcpiAssumption DEF Summing, SumOf
<1>2. bytes \in Seq(Nat) /\ s.i + 1 \in 1 .. Len(bytes) /\ bytes[s.i + 1] \in Nat
  <2>1. s.i + 1 \in 1 .. Len(bytes)
    BY <1>1
  <2>2. bytes \in Seq(Nat) /\ bytes[s.i + 1] \in 0 .. BYTE - 1
    BY <2>1, BytesAreNumbers
  <2> QED BY <1>1, <2>1, <2>2
<1>3. /\ t.table = s.table /\ t.length = s.length
      /\ t.i = (s.i + 1) % BYTE /\ t.checksum = (s.checksum + bytes[s.i + 1]) % BYTE
  BY DEF Summing
<1>4. (s.i + 1) % BYTE \in 0 .. BYTE - 1 /\ (s.checksum + bytes[s.i + 1]) % BYTE \in 0 .. BYTE - 1
  <2> HIDE DEF t
  <2>1. s.i \in Nat /\ s.checksum \in Nat /\ bytes[s.i + 1] \in Nat
    BY <1>1, <1>2
  <2>2. s.i + 1 \in Nat
    BY <2>1
  <2>3. s.checksum + bytes[s.i + 1] \in Nat
    BY <2>1
  <2> QED BY <1>1, <2>2, <2>3, RemainderType
<1>5. t \in Summing
  BY <1>4 DEF Summing
<1> HIDE DEF t
<1>6. SumOf(t, bytes)
  <2>1. t.length = Len(bytes)
    BY <1>1, <1>3
  <2> SUFFICES ASSUME Len(bytes) < BYTE
               PROVE  t.i <= Len(bytes) /\ t.checksum = PartialSums(bytes)[t.i] % BYTE
    BY <2>1 DEF SumOf
  <2>2. t.i = s.i + 1
    BY <1>1, <1>2, <1>3, SmallRemainder
  <2>3. s.checksum = PartialSums(bytes)[s.i] % BYTE
    BY DEF SumOf
  <2>4. /\ PartialSums(bytes)[s.i] \in Nat
        /\ PartialSums(bytes)[s.i + 1] = PartialSums(bytes)[s.i] + bytes[s.i + 1]
    <3>1. s.i \in 0 .. Len(bytes) /\ (s.i + 1) - 1 = s.i
      BY <1>1, <1>2
    <3> QED BY <1>2, <3>1, SumOfBytes
  <2>5. t.checksum = (PartialSums(bytes)[s.i] + bytes[s.i + 1]) % BYTE
    BY <1>1, <1>2, <1>3, <2>3, <2>4, RemainderOfSum
  <2> QED BY <1>2, <2>2, <2>4, <2>5
<1> QED BY <1>3, <1>5, <1>6 DEF t

LEMMA SumEnds ==
    ASSUME NEW bytes \in Seq(0 .. BYTE - 1), NEW s \in Summing, SumOf(s, bytes),
           s.i >= s.length, s.checksum = 0
    PROVE  Sums0(bytes)
<1>1. s.i \in 0 .. BYTE - 1 /\ Len(bytes) \in Nat /\ s.length = Len(bytes) /\ BYTE \in Nat
  BY BytesAreNumbers, AcpiAssumption DEF Summing, SumOf
<1>2. Len(bytes) < BYTE
  BY <1>1
<1>3. s.i = Len(bytes)
  BY <1>1, <1>2 DEF SumOf
<1> QED BY <1>2, <1>3 DEF SumOf, Sums0

\* The same tables are read.
LEMMA SameTables ==
    ASSUME UNCHANGED <<firmware, has_xsdt>>
    PROVE  /\ Root' = Root
           /\ \A n : Table(n)' = Table(n)
           /\ \A s, n : FirstWith(s, n)' <=> FirstWith(s, n)
           /\ BytesOf("rsdp")' = BytesOf("rsdp") /\ BytesOf("root")' = BytesOf("root")
           /\ entry' = entry => \A table : BytesOf(table)' = BytesOf(table)
           /\ RootOf(firmware)' = RootOf(firmware)
<1>1. Root' = Root
  BY DEF Root
<1>2. \A n : Table(n)' = Table(n)
  BY <1>1 DEF Table
<1>3. \A s, n : FirstWith(s, n)' <=> FirstWith(s, n)
  BY <1>1, <1>2 DEF FirstWith
<1>4. BytesOf("rsdp")' = BytesOf("rsdp") /\ BytesOf("root")' = BytesOf("root")
  BY <1>1 DEF BytesOf
<1>5. entry' = entry => \A table : BytesOf(table)' = BytesOf(table)
  BY <1>1, <1>2 DEF BytesOf, Table
<1>6. RootOf(firmware)' = RootOf(firmware)
  BY DEF RootOf, HasXsdt
<1> QED BY <1>1, <1>2, <1>3, <1>4, <1>5, <1>6

\* What has been found stays found, and the lists stay as they are.
LEMMA SameLists ==
    ASSUME UNCHANGED <<firmware, has_xsdt, found, madt_lists>>
    PROVE  Madt' = Madt /\ \A n : ListedBefore(n)' <=> ListedBefore(n)
<1>1. Madt' = Madt
  BY SameTables DEF Madt, Table
<1>2. \A n, t : Before(n, t)' = Before(n, t)
  BY <1>1 DEF Before
<1> QED BY <1>1, <1>2 DEF ListedBefore

LEMMA AddByteInv ==
    ASSUME AcpiInv, AddByte
    PROVE  AcpiInv'
<1>1. /\ acpi_pc = "sum" /\ summing.i < summing.length
      /\ UNCHANGED <<firmware, acpi_pc, has_xsdt, entry, wanted, found, madt_lists>>
  BY DEF AddByte
<1>2. summing \in Summing /\ SumOf(summing, BytesOf(summing.table))
  BY <1>1 DEF AcpiInv, AcpiTypeOK, Summing, AddedUp
<1>3. /\ summing.table \in {"rsdp", "root", "entry"}
      /\ summing.table = "entry" => FirstWith(wanted, entry)
  BY <1>1 DEF AcpiInv, Phases, SearchSound
<1>4. BytesOf(summing.table) \in Seq(0 .. BYTE - 1)
  BY <1>3, BytesOfType DEF AcpiInv, FirstWith, IsEntryOf
<1>5. /\ summing' \in Summing /\ summing'.table = summing.table
      /\ SumOf(summing', BytesOf(summing.table))
  <2> DEFINE bytes == BytesOf(summing.table)
             t == [summing EXCEPT !.i = (@ + 1) % BYTE,
                                  !.checksum = (@ + bytes[summing.i + 1]) % BYTE]
  <2>1. summing' = t
    BY DEF AddByte
  <2>2. t \in Summing /\ SumOf(t, bytes) /\ t.table = summing.table
    BY <1>1, <1>2, <1>4, SumGoesOn
  <2> QED BY <2>1, <2>2, Zenon
<1>6. AcpiTypeOK'
  BY <1>1, <1>5 DEF AcpiInv, AcpiTypeOK, Summing
<1>7. Phases'
  BY <1>1, <1>5 DEF AcpiInv, Phases
<1>8. AddedUp'
  BY <1>1, <1>5, SameTables DEF AddedUp
<1>9. RootSound'
  BY <1>1, <1>5, SameTables DEF AcpiInv, RootSound, RsdpDone
<1>10. SearchSound'
  BY <1>1, <1>5, SameTables DEF AcpiInv, SearchSound
<1>11. FoundSound'
  BY <1>1, SameTables DEF AcpiInv, FoundSound, MadtRead
<1>12. ListsSound'
  BY <1>1, SameLists DEF AcpiInv, ListsSound, MadtRead
<1> QED BY <1>6, <1>7, <1>8, <1>9, <1>10, <1>11, <1>12 DEF AcpiInv

\* The steps that stop the machine.
LEMMA PanicInv ==
    ASSUME AcpiInv, acpi_pc' = "panicked", acpi_pc \in {"sum", "root", "find"},
           UNCHANGED <<firmware, summing, has_xsdt, entry, wanted, found, madt_lists>>
    PROVE  AcpiInv'
<1>1. AcpiTypeOK' /\ Phases'
  BY DEF AcpiInv, AcpiTypeOK, Phases
<1>2. AddedUp' /\ SearchSound'
  BY DEF AddedUp, SearchSound
<1>3. RootSound'
  BY SameTables DEF AcpiInv, RootSound, RsdpDone
<1>4. FoundSound'
  BY SameTables DEF AcpiInv, FoundSound, MadtRead
<1>5. ListsSound'
  BY SameLists DEF AcpiInv, ListsSound, MadtRead
<1> QED BY <1>1, <1>2, <1>3, <1>4, <1>5 DEF AcpiInv

\* A checksum loop begins.
LEMMA BeginSumInv ==
    ASSUME AcpiInv, NEW table \in {"rsdp", "root", "entry"},
           table = "rsdp" => acpi_pc = "start",
           table = "root" => acpi_pc = "root",
           table = "entry" => acpi_pc = "find" /\ FirstWith(wanted, entry),
           BeginSum(table, Len(BytesOf(table))),
           UNCHANGED <<firmware, has_xsdt, entry, wanted, found, madt_lists>>
    PROVE  AcpiInv'
<1>1. BytesOf(table) \in Seq(0 .. BYTE - 1)
  BY BytesOfType DEF AcpiInv, FirstWith, IsEntryOf
<1>2. acpi_pc' = "sum" /\ summing' \in Summing /\ SumOf(summing', BytesOf(table))
      /\ summing'.table = table
  <2> DEFINE s == [table |-> table, length |-> Len(BytesOf(table)), i |-> 0, checksum |-> 0]
  <2>1. acpi_pc' = "sum" /\ summing' = s
    BY DEF BeginSum
  <2>2. s \in Summing /\ SumOf(s, BytesOf(table))
    BY <1>1, SumBegins
  <2>3. s.table = table
    OBVIOUS
  <2> HIDE DEF s
  <2> QED BY <2>1, <2>2, <2>3
<1>3. wanted = "none" <=> table # "entry"
  BY DEF AcpiInv, AcpiTypeOK, Phases
<1>4. AcpiTypeOK'
  BY <1>2 DEF AcpiInv, AcpiTypeOK, Summing
<1>5. Phases'
  BY <1>2, <1>3 DEF AcpiInv, AcpiTypeOK, Phases
<1>6. AddedUp'
  BY <1>2, SameTables DEF AddedUp
<1>7. RootSound'
  BY <1>2, <1>3, SameTables DEF AcpiInv, RootSound, RsdpDone
<1>8. SearchSound'
  BY <1>2, SameTables DEF SearchSound
<1>9. FoundSound'
  BY <1>2, SameTables DEF AcpiInv, FoundSound, MadtRead
<1>10. ListsSound'
  BY <1>2, SameLists DEF AcpiInv, ListsSound, MadtRead, Phases
<1> QED BY <1>4, <1>5, <1>6, <1>7, <1>8, <1>9, <1>10 DEF AcpiInv

\* A loop that ends with 0 has found a sound table.
LEMMA VerifiedIsSound ==
    ASSUME AcpiInv, NEW table \in {"rsdp", "root", "entry"}, Verified(table)
    PROVE  Sums0(BytesOf(table))
<1>1. /\ acpi_pc = "sum" /\ summing.table = table /\ summing.i >= summing.length
      /\ summing.checksum = 0
  BY DEF Verified
<1>2. summing \in Summing /\ SumOf(summing, BytesOf(table))
  BY <1>1 DEF AcpiInv, AcpiTypeOK, Summing, AddedUp
<1>3. table = "entry" => FirstWith(wanted, entry)
  BY <1>1 DEF AcpiInv, SearchSound
<1>4. BytesOf(table) \in Seq(0 .. BYTE - 1)
  BY <1>3, BytesOfType DEF AcpiInv, FirstWith, IsEntryOf
<1> QED BY <1>1, <1>2, <1>4, SumEnds

LEMMA RsdpVerifiedInv ==
    ASSUME AcpiInv, RsdpVerified
    PROVE  AcpiInv'
<1>1. /\ acpi_pc = "sum" /\ summing.table = "rsdp" /\ acpi_pc' = "root"
      /\ UNCHANGED <<firmware, summing, entry, wanted, found, madt_lists>>
  BY DEF RsdpVerified, Verified
<1>2. wanted = "none" /\ \A s \in {"APIC", "HPET"} : found[s] = NotFound
  BY <1>1 DEF AcpiInv, Phases
<1>3. Sums0(BytesOf("rsdp")) /\ BytesOf("rsdp")' = BytesOf("rsdp")
  <2>1. Sums0(BytesOf("rsdp"))
    BY VerifiedIsSound DEF RsdpVerified
  <2> QED BY <1>1, <2>1 DEF BytesOf
<1>4. has_xsdt' = HasXsdt(firmware) /\ HasXsdt(firmware) \in BOOLEAN
  BY DEF RsdpVerified, HasXsdt
<1>5. Root' = RootOf(firmware)' /\ has_xsdt' \in BOOLEAN
  <2>1. has_xsdt' <=> HasXsdt(firmware)
    BY <1>4, Zenon
  <2>2. RootOf(firmware)' = RootOf(firmware)
    BY <1>1 DEF RootOf, HasXsdt
  <2>3. Root' = IF has_xsdt' THEN firmware.xsdt ELSE firmware.rsdt
    BY <1>1 DEF Root
  <2> QED BY <1>4, <2>1, <2>2, <2>3, Zenon DEF RootOf
<1>6. AcpiTypeOK'
  BY <1>1, <1>5 DEF AcpiInv, AcpiTypeOK
<1>7. Phases' /\ AddedUp'
  BY <1>1, <1>2 DEF Phases, AddedUp
<1>8. RootSound'
  BY <1>1, <1>2, <1>3, <1>5 DEF RootSound, RsdpDone
<1>9. SearchSound' /\ FoundSound'
  BY <1>1, <1>2 DEF SearchSound, FoundSound, MadtRead
<1>10. ListsSound'
  BY <1>1, <1>2 DEF AcpiInv, ListsSound, MadtRead
<1> QED BY <1>6, <1>7, <1>8, <1>9, <1>10 DEF AcpiInv

LEMMA RootVerifiedInv ==
    ASSUME AcpiInv, RootVerified
    PROVE  AcpiInv'
<1>1. /\ acpi_pc = "sum" /\ summing.table = "root" /\ acpi_pc' = "find" /\ wanted' = "APIC"
      /\ entry' = 1 /\ UNCHANGED <<firmware, summing, has_xsdt, found, madt_lists>>
  BY DEF RootVerified, Verified, Find
<1>2. wanted = "none" /\ \A s \in {"APIC", "HPET"} : found[s] = NotFound
  BY <1>1 DEF AcpiInv, Phases
<1>3. Sums0(Root.bytes)
  BY VerifiedIsSound DEF RootVerified, BytesOf
<1>4. AcpiTypeOK'
  BY <1>1 DEF AcpiInv, AcpiTypeOK
<1>5. Phases' /\ AddedUp'
  BY <1>1 DEF Phases, AddedUp
<1>6. RootSound'
  BY <1>1, <1>3, SameTables DEF AcpiInv, RootSound, RsdpDone
<1>7. SearchSound'
  <2>1. Len(Root.entries) \in Nat
    BY RootIsRoot, RootTables DEF AcpiInv
  <2>2. entry' \in 1 .. Len(Root'.entries) + 1 /\ 1 .. entry' - 1 = {}
    BY <1>1, <2>1, SameTables
  <2> QED BY <1>1, <2>2 DEF SearchSound
<1>8. FoundSound'
  BY <1>1, <1>2 DEF FoundSound, MadtRead
<1>9. ListsSound'
  BY <1>1, <1>2 DEF AcpiInv, ListsSound, MadtRead
<1> QED BY <1>4, <1>5, <1>6, <1>7, <1>8, <1>9 DEF AcpiInv

LEMMA VerifyEntryInv ==
    ASSUME AcpiInv, VerifyEntry
    PROVE  AcpiInv'
<1>1. /\ acpi_pc = "find" /\ entry <= Len(Root.entries)
      /\ UNCHANGED <<firmware, has_xsdt, wanted, found, madt_lists>>
  BY DEF VerifyEntry
<1>2. /\ entry \in 1 .. Len(Root.entries) /\ Len(Root.entries) \in Nat
      /\ \A m \in 1 .. entry - 1 : Table(m).signature # wanted
  <2>1. Len(Root.entries) \in Nat
    BY RootIsRoot, RootTables DEF AcpiInv
  <2> QED BY <1>1, <2>1 DEF AcpiInv, SearchSound
<1>3. CASE Table(entry).signature = wanted
  <2>1. BeginSum("entry", Len(Table(entry).bytes)) /\ entry' = entry
    BY <1>3 DEF VerifyEntry
  <2>2. BytesOf("entry") = Table(entry).bytes
    BY DEF BytesOf
  <2>3. FirstWith(wanted, entry)
    BY <1>2, <1>3 DEF FirstWith
  <2>4. BeginSum("entry", Len(BytesOf("entry")))
    BY <2>1, <2>2
  <2>5. UNCHANGED <<firmware, has_xsdt, entry, wanted, found, madt_lists>>
    BY <1>1, <2>1
  <2> QED BY <1>1, <2>3, <2>4, <2>5, BeginSumInv
<1>4. CASE Table(entry).signature # wanted
  <2>1. entry' = entry + 1 /\ acpi_pc' = acpi_pc /\ summing' = summing
    BY <1>4 DEF VerifyEntry
  <2>2. AcpiTypeOK'
    BY <1>1, <1>2, <2>1 DEF AcpiInv, AcpiTypeOK
  <2>3. Phases' /\ AddedUp'
    BY <1>1, <2>1 DEF AcpiInv, Phases, AddedUp
  <2>4. RootSound'
    BY <1>1, <2>1, SameTables DEF AcpiInv, RootSound, RsdpDone
  <2>5. SearchSound'
    <3>1. entry' \in 1 .. Len(Root'.entries) + 1
      BY <1>1, <1>2, <2>1, SameTables
    <3>2. \A m \in 1 .. entry' - 1 : m = entry \/ m \in 1 .. entry - 1
      BY <1>2, <2>1
    <3>3. \A m \in 1 .. entry' - 1 : Table(m)'.signature # wanted'
      BY <1>1, <1>2, <1>4, <3>2, SameTables
    <3> QED BY <1>1, <2>1, <3>1, <3>3 DEF SearchSound
  <2>6. FoundSound'
    BY <1>1, <2>1, SameTables DEF AcpiInv, FoundSound, MadtRead
  <2>7. ListsSound'
    BY <1>1, <2>1, SameLists DEF AcpiInv, ListsSound, MadtRead
  <2> QED BY <2>2, <2>3, <2>4, <2>5, <2>6, <2>7 DEF AcpiInv
<1> QED BY <1>3, <1>4

\* madt_init's loop begins with empty lists; hpet_init leaves them alone.
LEMMA EntryVerifiedInv ==
    ASSUME AcpiInv, EntryVerified
    PROVE  AcpiInv'
<1>1. /\ acpi_pc = "sum" /\ summing.table = "entry" /\ entry' = 1
      /\ acpi_pc' = IF wanted = "APIC" THEN "madt" ELSE "done"
      /\ UNCHANGED <<firmware, summing, has_xsdt, wanted, madt_lists>>
      /\ found' = [found EXCEPT ![wanted] = entry]
  BY DEF EntryVerified, Verified
<1>2. wanted \in {"APIC", "HPET"}
  BY <1>1 DEF AcpiInv, AcpiTypeOK, Phases
<1>3. FirstWith(wanted, entry) /\ entry \in Nat \ {0} /\ found \in [{"APIC", "HPET"} -> Nat]
  BY <1>1 DEF AcpiInv, AcpiTypeOK, SearchSound
<1>4. Sums0(Table(entry).bytes)
  BY VerifiedIsSound DEF EntryVerified, BytesOf
<1>5. /\ found' \in [{"APIC", "HPET"} -> Nat] /\ found'[wanted] = entry
      /\ \A s \in {"APIC", "HPET"} : s # wanted => found'[s] = found[s]
  BY <1>1, <1>2, <1>3
<1>6. AcpiTypeOK'
  BY <1>1, <1>5 DEF AcpiInv, AcpiTypeOK
<1>7. Phases' /\ AddedUp' /\ SearchSound'
  BY <1>1, <1>2 DEF Phases, AddedUp, SearchSound
<1>8. RootSound'
  BY <1>1, <1>2, SameTables DEF AcpiInv, RootSound, RsdpDone
<1>9. FoundSound'
  <2>1. ASSUME NEW s \in {"APIC", "HPET"}, NEW n \in Nat, n = found'[s], n # NotFound
        PROVE  FirstWith(s, n)' /\ Sums0(Table(n)'.bytes)
    <3>1. FirstWith(s, n) /\ Sums0(Table(n).bytes)
      <4>1. CASE s = wanted
        BY <1>3, <1>4, <1>5, <2>1, <4>1
      <4>2. CASE s # wanted
        BY <1>5, <2>1, <4>2 DEF AcpiInv, FoundSound
      <4> QED BY <4>1, <4>2
    <3> QED BY <1>1, <3>1, SameTables
  <2>2. found'["APIC"] # NotFound
    <3>1. CASE wanted = "APIC"
      BY <1>3, <1>5, <3>1 DEF NotFound
    <3>2. CASE wanted = "HPET"
      BY <1>5, <3>2 DEF AcpiInv, FoundSound, MadtRead
    <3> QED BY <1>2, <3>1, <3>2
  <2> QED BY <1>5, <2>1, <2>2 DEF FoundSound
<1>10. ListsSound'
  <2>1. CASE wanted = "APIC"
    <3>1. \A t \in Kept : madt_lists'[t] = <<>>
      BY <1>1, <2>1 DEF AcpiInv, ListsSound, MadtRead
    <3>2. \A t : Before(1, t)' = {}
      BY DEF Before
    <3>3. ListedBefore(1)'
      BY <3>1, <3>2, ListOfNone DEF ListedBefore
    <3>4. Len(Madt'.entries) \in Nat
      <4>1. Madt' = Root.entries[entry] /\ entry \in 1 .. Len(Root.entries)
        BY <1>1, <1>3, <1>5, <2>1, SameTables DEF Madt, Table, FirstWith
      <4> QED BY <4>1, RootIsRoot, RootTables DEF AcpiInv
    <3>5. entry' \in 1 .. Len(Madt'.entries) + 1 /\ ListedBefore(entry)'
      BY <1>1, <3>3, <3>4 DEF ListedBefore, Before
    <3> QED BY <1>1, <2>1, <3>5 DEF ListsSound, MadtRead
  <2>2. CASE wanted = "HPET"
    <3>1. found'["APIC"] = found["APIC"]
      BY <1>5, <2>2
    <3>2. Madt' = Madt
      BY <1>1, <3>1, SameTables DEF Madt, Table
    <3>3. ListedBefore(Len(Madt.entries) + 1)
      BY <2>2 DEF AcpiInv, ListsSound, MadtRead
    <3>4. ListedBefore(Len(Madt.entries) + 1)'
      BY <1>1, <3>2, <3>3 DEF ListedBefore, Before
    <3> QED BY <1>1, <2>2, <3>4 DEF ListsSound, MadtRead
  <2> QED BY <1>2, <2>1, <2>2
<1> QED BY <1>6, <1>7, <1>8, <1>9, <1>10 DEF AcpiInv

LEMMA CollectEntryInv ==
    ASSUME AcpiInv, CollectEntry
    PROVE  AcpiInv'
<1>1. /\ acpi_pc = "madt" /\ entry <= Len(Madt.entries)
      /\ entry' = IF Madt.entries[entry].length = 0 THEN entry ELSE entry + 1
      /\ UNCHANGED <<firmware, acpi_pc, summing, has_xsdt, wanted, found>>
      /\ madt_lists' = [t \in Kept |-> IF t = Madt.entries[entry].type
                                       THEN Append(madt_lists[t], entry)
                                       ELSE madt_lists[t]]
  BY DEF CollectEntry
<1>2. /\ entry \in Nat \ {0} /\ entry \in 1 .. Len(Madt.entries) + 1
      /\ ListedBefore(entry) \/ Endless
      /\ madt_lists \in [Kept -> Seq(Nat)]
  BY <1>1 DEF AcpiInv, AcpiTypeOK, ListsSound
<1>3. Len(Madt.entries) \in Nat /\ Madt' = Madt
  <2>1. Madt' = Madt
    BY <1>1, SameTables DEF Madt, Table
  <2>2. Madt = Root.entries[found["APIC"]] /\ found["APIC"] \in 1 .. Len(Root.entries)
    BY <1>1 DEF AcpiInv, FoundSound, FirstWith, Madt, Table
  <2>3. Len(Madt.entries) \in Nat
    BY <2>2, RootIsRoot, RootTables DEF AcpiInv
  <2> QED BY <2>1, <2>3
<1>4. wanted = "APIC"
  BY <1>1 DEF AcpiInv, AcpiTypeOK, Phases
<1>5. ASSUME NEW t \in Kept
      PROVE  /\ madt_lists'[t] \in Seq(Nat)
             /\ ListedBefore(entry) => Lists(madt_lists'[t], Before(entry + 1, t))
  <2> DEFINE B == Before(entry, t)
  <2>1. IsFiniteSet(B) /\ \A x \in B : x < entry
    <3>1. IsFiniteSet(1 .. entry - 1)
      BY <1>2, FS_Interval
    <3>2. B \in SUBSET (1 .. entry - 1)
      BY DEF Before
    <3>3. \A x \in 1 .. entry - 1 : x < entry
      BY <1>2
    <3> HIDE DEF B
    <3> QED BY <3>1, <3>2, <3>3, FS_Subset
  <2>2. madt_lists[t] \in Seq(Nat) /\ (ListedBefore(entry) => Lists(madt_lists[t], B))
    BY <1>2 DEF ListedBefore
  <2>3. 1 .. (entry + 1) - 1 = (1 .. entry - 1) \cup {entry}
    BY <1>2
  <2>4. CASE t = Madt.entries[entry].type
    <3>1. madt_lists'[t] = Append(madt_lists[t], entry)
      BY <1>1, <2>4
    <3>2. Before(entry + 1, t) = B \cup {entry}
      BY <2>3, <2>4 DEF Before
    <3> HIDE DEF B
    <3>3. ListedBefore(entry) => Lists(Append(madt_lists[t], entry), B \cup {entry})
      BY <1>2, <2>1, <2>2, ListAppended
    <3>4. Append(madt_lists[t], entry) \in Seq(Nat)
      BY <1>2, <2>2
    <3> QED BY <3>1, <3>2, <3>3, <3>4
  <2>5. CASE t # Madt.entries[entry].type
    <3>1. madt_lists'[t] = madt_lists[t]
      BY <1>1, <2>5
    <3>2. Before(entry + 1, t) = B
      BY <2>3, <2>5 DEF Before
    <3> HIDE DEF B
    <3> QED BY <2>2, <3>1, <3>2
  <2> QED BY <2>4, <2>5
<1>6. AcpiTypeOK'
  <2>1. madt_lists' \in [Kept -> Seq(Nat)]
    BY <1>1, <1>5
  <2>2. entry' \in Nat \ {0}
    BY <1>1, <1>2
  <2> QED BY <1>1, <2>1, <2>2 DEF AcpiInv, AcpiTypeOK
<1>7. Phases' /\ AddedUp' /\ SearchSound'
  BY <1>1 DEF AcpiInv, Phases, AddedUp, SearchSound
<1>8. RootSound'
  BY <1>1, SameTables DEF AcpiInv, RootSound, RsdpDone
<1>9. FoundSound'
  BY <1>1, SameTables DEF AcpiInv, FoundSound, MadtRead
<1>10. ListsSound'
  <2>1. CASE Madt.entries[entry].length = 0
    <3>1. Endless'
      BY <1>1, <1>3, <2>1 DEF Endless
    <3> QED BY <1>1, <1>2, <1>3, <1>4, <2>1, <3>1 DEF ListsSound, MadtRead
  <2>2. CASE Madt.entries[entry].length # 0
    <3>1. \A t : Before(entry, t)' = Before(entry + 1, t)
      BY <1>1, <1>3, <2>2 DEF Before
    <3>2. ListedBefore(entry)
      BY <1>2, <2>2 DEF Endless
    <3>3. ListedBefore(entry)'
      BY <1>5, <3>1, <3>2 DEF ListedBefore
    <3> QED BY <1>1, <1>2, <1>3, <1>4, <2>2, <3>3 DEF ListsSound, MadtRead
  <2> QED BY <2>1, <2>2
<1> QED BY <1>6, <1>7, <1>8, <1>9, <1>10 DEF AcpiInv

LEMMA MadtDoneInv ==
    ASSUME AcpiInv, MadtDone
    PROVE  AcpiInv'
<1>1. /\ acpi_pc = "madt" /\ entry > Len(Madt.entries) /\ acpi_pc' = "acpi_done"
      /\ UNCHANGED <<firmware, summing, has_xsdt, entry, wanted, found, madt_lists>>
  BY DEF MadtDone
<1>2. wanted = "APIC" /\ found["APIC"] # NotFound
  BY <1>1 DEF AcpiInv, AcpiTypeOK, Phases, FoundSound
<1>3. AcpiTypeOK' /\ Phases' /\ AddedUp' /\ SearchSound'
  BY <1>1, <1>2 DEF AcpiInv, AcpiTypeOK, Phases, AddedUp, SearchSound
<1>4. RootSound'
  BY <1>1, SameTables DEF AcpiInv, RootSound, RsdpDone
<1>5. FoundSound'
  BY <1>1, <1>2, SameTables DEF AcpiInv, FoundSound, MadtRead
<1>6. ListsSound'
  <2>1. Len(Madt.entries) \in Nat
    <3>1. Madt = Root.entries[found["APIC"]] /\ found["APIC"] \in 1 .. Len(Root.entries)
      BY <1>1 DEF AcpiInv, FoundSound, FirstWith, Madt, Table
    <3> QED BY <3>1, RootIsRoot, RootTables DEF AcpiInv
  <2>2. entry = Len(Madt.entries) + 1 /\ ListedBefore(entry)
    BY <1>1, <2>1 DEF AcpiInv, AcpiTypeOK, ListsSound, Endless
  <2> QED BY <1>1, <2>2, SameLists DEF ListsSound, MadtRead
<1> QED BY <1>3, <1>4, <1>5, <1>6 DEF AcpiInv

\* hpet_init's search begins when madt_init has returned.
LEMMA FindHpetInv ==
    ASSUME AcpiInv, FindHpet, acpi_pc = "acpi_done"
    PROVE  AcpiInv'
<1>1. /\ acpi_pc' = "find" /\ wanted' = "HPET" /\ entry' = 1
      /\ UNCHANGED <<firmware, summing, has_xsdt, found, madt_lists>>
  BY DEF FindHpet, Find
<1>2. wanted = "APIC"
  BY DEF AcpiInv, AcpiTypeOK, Phases
<1>3. AcpiTypeOK' /\ Phases' /\ AddedUp'
  BY <1>1 DEF AcpiInv, AcpiTypeOK, Phases, AddedUp
<1>4. RootSound'
  BY <1>1, <1>2, SameTables DEF AcpiInv, RootSound, RsdpDone
<1>5. SearchSound'
  <2>1. Len(Root.entries) \in Nat
    BY RootIsRoot, RootTables DEF AcpiInv
  <2>2. entry' \in 1 .. Len(Root'.entries) + 1 /\ 1 .. entry' - 1 = {}
    BY <1>1, <2>1, SameTables
  <2> QED BY <1>1, <2>2 DEF SearchSound
<1>6. FoundSound'
  BY <1>1, SameTables DEF AcpiInv, FoundSound, MadtRead
<1>7. ListsSound'
  BY <1>1, SameLists DEF AcpiInv, ListsSound, MadtRead
<1> QED BY <1>3, <1>4, <1>5, <1>6, <1>7 DEF AcpiInv

LEMMA AcpiInvInit == Init => AcpiInv
<1> SUFFICES ASSUME Init PROVE AcpiInv
  OBVIOUS
<1>1. /\ firmware \in Firmwares /\ acpi_pc = "start" /\ summing = NoSum /\ has_xsdt \in BOOLEAN
      /\ entry = 1 /\ wanted = "none" /\ found = [s \in {"APIC", "HPET"} |-> NotFound]
      /\ madt_lists = [t \in Kept |-> <<>>]
  BY DEF Init, AcpiInit
<1>2. summing \in Summing
  BY <1>1, AcpiAssumption DEF NoSum, Summing
<1>3. madt_lists \in [Kept -> Seq(Nat)] /\ found \in [{"APIC", "HPET"} -> Nat]
  BY <1>1 DEF NotFound
<1>4. AcpiTypeOK
  BY <1>1, <1>2, <1>3 DEF AcpiTypeOK, Summing
<1>5. Phases /\ AddedUp /\ RootSound /\ SearchSound
  BY <1>1 DEF Phases, AddedUp, RootSound, RsdpDone, SearchSound
<1>6. FoundSound /\ ListsSound
  BY <1>1 DEF FoundSound, ListsSound, MadtRead
<1> QED BY <1>4, <1>5, <1>6 DEF AcpiInv

LEMMA AcpiNextInv ==
    ASSUME AcpiInv, AcpiNext
    PROVE  AcpiInv'
<1>1. CASE rsdp_init
  <2>1. /\ acpi_pc = "start" /\ BeginSum("rsdp", RSDP_BYTES)
        /\ UNCHANGED <<firmware, has_xsdt, entry, wanted, found, madt_lists>>
    BY <1>1 DEF rsdp_init
  <2>2. Len(BytesOf("rsdp")) = RSDP_BYTES
    BY RsdpBytes DEF AcpiInv
  <2> QED BY <2>1, <2>2, BeginSumInv
<1>2. CASE VerifyRoot
  <2>1. /\ acpi_pc = "root"
        /\ UNCHANGED <<firmware, has_xsdt, entry, wanted, found, madt_lists>>
        /\ BeginSum("root", Len(Root.bytes)) \/ (acpi_pc' = "panicked" /\ summing' = summing)
    BY <1>2 DEF VerifyRoot
  <2>2. BytesOf("root") = Root.bytes
    BY DEF BytesOf
  <2>3. CASE BeginSum("root", Len(Root.bytes))
    BY <2>1, <2>2, <2>3, BeginSumInv
  <2>4. CASE acpi_pc' = "panicked" /\ summing' = summing
    BY <2>1, <2>4, PanicInv
  <2> QED BY <2>1, <2>3, <2>4
<1>3. CASE SumIsWrong
  BY <1>3, PanicInv DEF SumIsWrong
<1>4. CASE NotListed
  BY <1>4, PanicInv DEF NotListed
<1> QED BY <1>1, <1>2, <1>3, <1>4, AddByteInv, RsdpVerifiedInv, RootVerifiedInv, VerifyEntryInv,
           EntryVerifiedInv, CollectEntryInv, MadtDoneInv DEF AcpiNext

\* apic_init runs when madt_init has returned, and its loop before the HPET is
\* looked for.
ApicAfterAcpi ==
    /\ apic_pc \in {"lapic", "loop"} => acpi_pc = "acpi_done"
    /\ apic_pc \in {"low", "high", "returned"} /\ i # ISA_IRQS => acpi_pc = "acpi_done"
    /\ apic_pc \notin {"off", "no_apic"} => MadtRead

\* The steps that touch the tables.
LEMMA AcpiActions ==
    ASSUME Next
    PROVE  \/ AcpiNext /\ UNCHANGED apic_vars
           \/ FindHpet
           \/ UNCHANGED acpi_vars
BY Zenon DEF Next, Boot, Time, BeginApicInit, lapic_enable, hpet_init

\* madt_init's result stays.
LEMMA MadtStaysRead ==
    ASSUME AcpiInv, AcpiNext
    PROVE  MadtRead => acpi_pc # "acpi_done" /\ MadtRead'
<1>1. AcpiNext => acpi_pc # "acpi_done" /\ (wanted' = wanted \/ wanted = "none")
  BY DEF AcpiNext, rsdp_init, RsdpVerified, VerifyRoot, RootVerified, AddByte, SumIsWrong,
         VerifyEntry, NotListed, EntryVerified, CollectEntry, MadtDone, Verified, AcpiInv, Phases
<1> QED BY <1>1 DEF MadtRead

LEMMA AcpiInvNext ==
    ASSUME AcpiInv, ApicAfterAcpi, [Next]_vars
    PROVE  AcpiInv'
<1>1. CASE UNCHANGED acpi_vars
  <2>1. UNCHANGED <<firmware, acpi_pc, summing, has_xsdt, entry, wanted, found, madt_lists>>
    BY <1>1 DEF acpi_vars
  <2>2. AcpiTypeOK' /\ Phases'
    BY <2>1 DEF AcpiInv, AcpiTypeOK, Phases
  <2>3. AddedUp' /\ SearchSound'
    BY <2>1, SameTables DEF AcpiInv, AddedUp, SearchSound
  <2>4. RootSound' /\ FoundSound'
    BY <2>1, SameTables DEF AcpiInv, RootSound, RsdpDone, FoundSound, MadtRead
  <2>5. ListsSound'
    BY <2>1, SameLists DEF AcpiInv, ListsSound, MadtRead, Endless
  <2> QED BY <2>2, <2>3, <2>4, <2>5 DEF AcpiInv
<1>2. CASE FindHpet
  BY <1>2, FindHpetInv DEF FindHpet, ApicAfterAcpi
<1>3. CASE UNCHANGED vars
  BY <1>1, <1>3 DEF vars
<1> QED BY <1>1, <1>2, <1>3, AcpiNextInv, AcpiActions

LEMMA ApicAfterAcpiNext ==
    ASSUME AcpiInv, BootInv, ApicAfterAcpi, [Next]_vars
    PROVE  ApicAfterAcpi'
<1>1. CASE UNCHANGED vars
  BY <1>1 DEF vars, acpi_vars, apic_vars, ApicAfterAcpi, MadtRead
<1>2. CASE AcpiNext /\ UNCHANGED apic_vars
  <2>1. apic_pc' = apic_pc /\ i' = i
    BY <1>2 DEF apic_vars
  <2>2. MadtRead => acpi_pc # "acpi_done" /\ MadtRead'
    BY <1>2, MadtStaysRead
  <2> QED BY <2>1, <2>2 DEF ApicAfterAcpi
<1>3. CASE FindHpet
  BY <1>3 DEF FindHpet, Find, ApicAfterAcpi, MadtRead
<1>4. CASE Next /\ UNCHANGED acpi_vars
  <2>1. acpi_pc' = acpi_pc /\ (MadtRead' <=> MadtRead)
    BY <1>4 DEF acpi_vars, MadtRead
  <2>2. CASE UNCHANGED <<apic_pc, i>>
    BY <2>1, <2>2 DEF ApicAfterAcpi
  <2>3. CASE BeginApicInit \/ lapic_enable \/ FindHpet \/ hpet_init
    BY <2>1, <2>3 DEF ApicAfterAcpi, BeginApicInit, lapic_enable, FindHpet, hpet_init, MadtRead
  <2>4. CASE ApicStep
    BY <2>1, <2>4 DEF ApicAfterAcpi, ApicStep, NoApic, SkipIrq, MaskIrq, MarkGsi, EndApicInit,
                      WriteLow, WriteHigh, RedirectReturns, ioapic_set_irq_redirect, BootInv
  <2>5. CASE \E lapic_id \in Lapics, vector \in Vectors, irq \in Irqs, mask \in BOOLEAN :
                 Redirect(lapic_id, vector, irq, mask)
    BY <2>1, <2>5 DEF ApicAfterAcpi, Redirect, ioapic_set_irq_redirect, BootInv
  <2> QED BY <1>4, <2>2, <2>3, <2>4, <2>5 DEF Next, Boot, Time, apic_vars, Oneshot, Deliver
<1> QED BY <1>1, <1>2, <1>3, <1>4, AcpiActions

\* The entry that is the first with its signature is what a search finds.
LEMMA FirstIsSelected ==
    ASSUME NEW tables, Len(tables) \in Nat, NEW s, NEW n \in 1 .. Len(tables),
           tables[n].signature = s, \A m \in 1 .. n - 1 : tables[m].signature # s
    PROVE  n = SelectInSeq(tables, LAMBDA t : t.signature = s)
<1> DEFINE I == {m \in 1 .. Len(tables) : tables[m].signature = s}
<1>1. SelectInSeq(tables, LAMBDA t : t.signature = s) = IF I # {} THEN Min(I) ELSE 0
  BY DEF SelectInSeq
<1>2. n \in I /\ I \subseteq Nat
  OBVIOUS
<1>3. \A m \in I : n <= m
  OBVIOUS
<1>4. Min(I) \in I /\ \A m \in I : Min(I) <= m
  <2> HIDE DEF I
  <2> QED BY <1>2, MinIsLeast
<1>5. Min(I) = n
  BY <1>2, <1>3, <1>4
<1> HIDE DEF I
<1> QED BY <1>1, <1>2, <1>5

\* The MADT that was found is the machine's.
LEMMA MadtIsTheMachines ==
    ASSUME AcpiInv, found["APIC"] # NotFound
    PROVE  /\ Madt.entries = MadtEntries(firmware)
           /\ Len(Madt.entries) \in Nat
           /\ \A n \in 1 .. Len(Madt.entries) : IsMadtEntry(Madt.entries[n])
<1>1. wanted # "none" /\ FirstWith("APIC", found["APIC"])
  BY DEF AcpiInv, AcpiTypeOK, Phases, FoundSound
<1>2. Root = RootOf(firmware)
  BY <1>1 DEF AcpiInv, RootSound
<1> DEFINE n == found["APIC"]
<1>3. /\ n \in 1 .. Len(Root.entries) /\ Root.entries[n].signature = "APIC"
      /\ \A m \in 1 .. n - 1 : Root.entries[m].signature # "APIC"
  BY <1>1 DEF FirstWith, Table
<1>4. Len(Root.entries) \in Nat
  BY RootIsRoot, RootTables DEF AcpiInv
<1>5. Madt = Root.entries[n]
  BY DEF Madt, Table
<1>6. Len(Madt.entries) \in Nat /\ \A m \in 1 .. Len(Madt.entries) : IsMadtEntry(Madt.entries[m])
  BY <1>3, <1>5, RootIsRoot, RootTables DEF AcpiInv
<1> HIDE DEF n
<1>7. n = SelectInSeq(Root.entries, LAMBDA t : t.signature = "APIC")
  BY <1>3, <1>4, FirstIsSelected
<1>8. n # 0
  BY <1>3
<1>9. MadtEntries(firmware) = Root.entries[n].entries
  BY <1>2, <1>7, <1>8 DEF MadtEntries
<1> QED BY <1>5, <1>6, <1>9

\* Madt.entries as a sequence, its domain.
LEMMA MadtDomain ==
    ASSUME AcpiInv, found["APIC"] # NotFound
    PROVE  DOMAIN MadtEntries(firmware) = 1 .. Len(MadtEntries(firmware))
<1>1. found["APIC"] \in 1 .. Len(Root.entries) /\ Madt = Root.entries[found["APIC"]]
  BY DEF AcpiInv, FoundSound, FirstWith, Madt, Table
<1>2. IsTable(Root) /\ \A t \in ToSet(Root.entries) : IsTable(t)
  BY RootIsRoot, AcpiAssumption DEF AcpiInv
<1>3. Root.entries \in Seq(ToSet(Root.entries))
  BY <1>2 DEF IsTable
<1>4. Madt \in ToSet(Root.entries)
  BY <1>1, <1>3
<1>5. Madt.entries \in Seq(ToSet(Madt.entries))
  BY <1>2, <1>4 DEF IsTable
<1>6. DOMAIN Madt.entries = 1 .. Len(Madt.entries)
  BY <1>5
<1> QED BY <1>6, MadtIsTheMachines

\* The lists hold no more than the machine's entries of their type.
LEMMA ListsFit ==
    ASSUME MadtFits, AcpiInv, NEW t \in Kept
    PROVE  Len(madt_lists[t]) <= LIST_ROOM
<1>1. CASE ~MadtRead /\ acpi_pc # "madt"
  <2>1. Len(madt_lists[t]) = 0
    BY <1>1 DEF AcpiInv, ListsSound
  <2> QED BY <2>1, AcpiAssumption
<1>2. CASE MadtRead \/ acpi_pc = "madt"
  <2>1. found["APIC"] # NotFound
    BY <1>2 DEF AcpiInv, FoundSound
  <2>2. PICK n \in 1 .. Len(Madt.entries) + 1 : Lists(madt_lists[t], Before(n, t))
    <3>1. Len(Madt.entries) + 1 \in 1 .. Len(Madt.entries) + 1
      BY <2>1, MadtIsTheMachines
    <3>2. ~(acpi_pc = "madt" /\ Endless)
      <4>1. firmware \in Firmwares /\ entry \in Nat \ {0}
        BY DEF AcpiInv, AcpiTypeOK
      <4>2. Len(Madt.entries) \in Nat /\ Madt.entries = MadtEntries(firmware)
        BY <2>1, MadtIsTheMachines
      <4>3. DOMAIN Madt.entries = 1 .. Len(Madt.entries)
        BY <2>1, MadtDomain
      <4> QED BY <4>1, <4>2, <4>3 DEF MadtFits, Endless
    <3> QED BY <1>2, <3>1, <3>2 DEF AcpiInv, ListsSound, ListedBefore
  <2> DEFINE A == OfType(firmware, t)
             B == Before(n, t)
  <2>3. Len(Madt.entries) \in Nat /\ Madt.entries = MadtEntries(firmware)
    BY <2>1, MadtIsTheMachines
  <2>4. A = {m \in 1 .. Len(Madt.entries) : Madt.entries[m].type = t}
    BY <2>1, <2>3, MadtDomain DEF OfType
  <2>5. B \in SUBSET A
    <3>1. \A m \in 1 .. n - 1 : m \in 1 .. Len(Madt.entries)
      BY <2>3
    <3> QED BY <2>4, <3>1 DEF Before
  <2>6. IsFiniteSet(A)
    <3>1. IsFiniteSet(1 .. Len(Madt.entries))
      BY <2>3, FS_Interval
    <3>2. A \in SUBSET (1 .. Len(Madt.entries))
      BY <2>4
    <3> HIDE DEF A
    <3> QED BY <3>1, <3>2, FS_Subset
  <2>7. Cardinality(A) <= LIST_ROOM
    BY DEF MadtFits, AcpiInv, AcpiTypeOK
  <2> HIDE DEF A, B
  <2>8. IsFiniteSet(B) /\ Cardinality(B) <= Cardinality(A)
    BY <2>5, <2>6, FS_Subset
  <2>9. Cardinality(A) \in Nat /\ Cardinality(B) \in Nat
    BY <2>6, <2>8, FS_CardinalityType
  <2>10. Len(madt_lists[t]) = Cardinality(B)
    BY <2>2 DEF Lists, B
  <2> QED BY <2>7, <2>8, <2>9, <2>10, AcpiAssumption
<1> QED BY <1>1, <1>2

\* Whatever tables the firmware has, with their lengths and their bytes: acpi_init
\* and hpet_init go on with a table only if all its bytes add up to 0, although
\* the index of the loop is a byte itself, and only with the first of its
\* signature; if the MADT's entries have a length and are not more than the lists
\* take, they stay within them.
THEOREM TablesAreSound ==
    ASSUME MadtFits
    PROVE  Spec => []TablesSound
<1>1. AcpiInv => TablesSound
  <2> SUFFICES ASSUME AcpiInv PROVE TablesSound
    OBVIOUS
  <2>1. acpi_pc \notin {"start", "sum", "panicked"} =>
            Sums0(SubSeq(firmware.rsdp.bytes, 1, RSDP_BYTES))
    BY RsdpBytes DEF AcpiInv, RootSound, RsdpDone
  <2>2. acpi_pc \in {"find", "madt", "acpi_done", "done"} => Sums0(Root.bytes)
    BY DEF AcpiInv, RootSound, Phases
  <2>3. ASSUME NEW s \in {"APIC", "HPET"}, found[s] # NotFound
        PROVE  /\ Sums0(Table(found[s]).bytes)
               /\ found[s] = SelectInSeq(Root.entries, LAMBDA t : t.signature = s)
    <3>1. FirstWith(s, found[s]) /\ Sums0(Table(found[s]).bytes)
      BY <2>3 DEF AcpiInv, FoundSound
    <3>2. Len(Root.entries) \in Nat
      BY RootIsRoot, RootTables DEF AcpiInv
    <3>3. /\ found[s] \in 1 .. Len(Root.entries) /\ Root.entries[found[s]].signature = s
          /\ \A m \in 1 .. found[s] - 1 : Root.entries[m].signature # s
      BY <3>1 DEF FirstWith, Table
    <3> QED BY <3>1, <3>2, <3>3, FirstIsSelected
  <2>4. \A t \in Kept : Len(madt_lists[t]) <= LIST_ROOM
    BY ListsFit
  <2> QED BY <2>1, <2>2, <2>3, <2>4 DEF TablesSound
<1>2. Init => AcpiInv /\ BootInv /\ ApicAfterAcpi
  BY AcpiInvInit, BootInvInit DEF Init, ApicAfterAcpi
<1>3. AcpiInv /\ BootInv /\ ApicAfterAcpi /\ [Next]_vars => AcpiInv' /\ BootInv' /\ ApicAfterAcpi'
  BY AcpiInvNext, BootInvNext, ApicAfterAcpiNext
<1> QED BY <1>1, <1>2, <1>3, PTL DEF Spec

-----------------------------------------------------------------------------
(* The routes. *)

\* Once madt_init has returned, its lists have all the entries of their types.
LEMMA ListsComplete ==
    ASSUME AcpiInv, MadtRead, NEW t \in Kept
    PROVE  /\ found["APIC"] # NotFound
           /\ OfType(firmware, t) = {n \in 1 .. Len(Madt.entries) : Madt.entries[n].type = t}
           /\ madt_lists[t] \in Seq(Nat)
           /\ Lists(madt_lists[t], OfType(firmware, t))
<1>1. found["APIC"] # NotFound
  BY DEF AcpiInv, FoundSound
<1>2. Len(Madt.entries) \in Nat /\ Madt.entries = MadtEntries(firmware)
  BY <1>1, MadtIsTheMachines
<1>3. OfType(firmware, t) = {n \in 1 .. Len(Madt.entries) : Madt.entries[n].type = t}
  BY <1>1, <1>2, MadtDomain DEF OfType
<1>4. Before(Len(Madt.entries) + 1, t) = OfType(firmware, t)
  <2>1. (Len(Madt.entries) + 1) - 1 = Len(Madt.entries)
    BY <1>2
  <2> QED BY <1>3, <2>1 DEF Before
<1>5. Lists(madt_lists[t], Before(Len(Madt.entries) + 1, t)) /\ madt_lists[t] \in Seq(Nat)
  BY DEF AcpiInv, AcpiTypeOK, ListsSound, ListedBefore
<1> QED BY <1>1, <1>3, <1>4, <1>5

\* The search of a list, as SelectInSeq does it.
Selects(list, P, n) ==
    LET I == {m \in 1 .. Len(list) : list[m] \in P} IN n = IF I # {} THEN Min(I) ELSE 0

LEMMA SelectedFirst ==
    ASSUME NEW list \in Seq(Nat), NEW P, NEW n, Selects(list, P, n)
    PROVE  /\ n \in 0 .. Len(list)
           /\ n = 0 => \A m \in 1 .. Len(list) : list[m] \notin P
           /\ n # 0 => list[n] \in P /\ \A m \in 1 .. n - 1 : list[m] \notin P
<1> DEFINE I == {m \in 1 .. Len(list) : list[m] \in P}
<1>1. n = IF I # {} THEN Min(I) ELSE 0
  BY DEF Selects
<1>2. I \subseteq Nat /\ Len(list) \in Nat
  OBVIOUS
<1>3. CASE I = {}
  <2>1. n = 0
    BY <1>1, <1>3
  <2> QED BY <1>2, <1>3, <2>1
<1>4. CASE I # {}
  <2>1. n \in I /\ \A m \in I : n <= m
    <3> HIDE DEF I
    <3> QED BY <1>1, <1>2, <1>4, MinIsLeast
  <2>2. n \in 1 .. Len(list) /\ list[n] \in P
    BY <2>1
  <2>3. \A m \in 1 .. n - 1 : list[m] \notin P
    BY <2>1, <2>2
  <2>4. n \in 0 .. Len(list) /\ n # 0
    BY <1>2, <2>2
  <2> QED BY <2>2, <2>3, <2>4
<1> QED BY <1>3, <1>4

\* An interrupt's override is the first with its number.
LEMMA OverrideFound ==
    ASSUME AcpiInv, MadtRead, NEW irq
    PROVE  /\ OverrideOf(irq) = 0 =>
                  \A o \in OfType(firmware, ISO) : MadtEntries(firmware)[o].irq_source # irq
           /\ OverrideOf(irq) # 0 =>
                  /\ madt_isos[OverrideOf(irq)] \in OfType(firmware, ISO)
                  /\ MadtEntries(firmware)[madt_isos[OverrideOf(irq)]].irq_source = irq
                  /\ \A o \in OfType(firmware, ISO) :
                         MadtEntries(firmware)[o].irq_source = irq =>
                             madt_isos[OverrideOf(irq)] <= o
<1> DEFINE list == madt_lists[ISO]
           P == {e \in Nat : Madt.entries[e].irq_source = irq}
           n == OverrideOf(irq)
           T == OfType(firmware, ISO)
<1>1. found["APIC"] # NotFound /\ list \in Seq(Nat) /\ Lists(list, T) /\ T \subseteq Nat
  <2>1. ISO \in Kept
    BY DEF Kept
  <2>2. found["APIC"] # NotFound /\ list \in Seq(Nat) /\ Lists(list, T)
        /\ T = {m \in 1 .. Len(Madt.entries) : Madt.entries[m].type = ISO}
    BY <2>1, ListsComplete
  <2> QED BY <2>2
<1>2. Madt.entries = MadtEntries(firmware)
  BY <1>1, MadtIsTheMachines
<1>3. \A m \in 1 .. Len(list) : list[m] \in Nat /\ list[m] \in T
  BY <1>1 DEF Lists
<1>4. Selects(list, P, n)
  <2>1. {m \in 1 .. Len(list) : Madt.entries[list[m]].irq_source = irq}
            = {m \in 1 .. Len(list) : list[m] \in P}
    BY <1>3
  <2> QED BY <2>1 DEF OverrideOf, SelectInSeq, madt_isos, Selects
<1> HIDE DEF n, P
<1>5. /\ n \in 0 .. Len(list)
      /\ n = 0 => \A m \in 1 .. Len(list) : list[m] \notin P
      /\ n # 0 => list[n] \in P /\ \A m \in 1 .. n - 1 : list[m] \notin P
  BY <1>1, <1>4, SelectedFirst
<1> HIDE DEF T, list
<1>6. \A o \in T : \E m \in 1 .. Len(list) : list[m] = o
  BY <1>1 DEF Lists
<1>7. ASSUME n = 0, NEW o \in T
      PROVE  MadtEntries(firmware)[o].irq_source # irq
  BY <1>1, <1>2, <1>5, <1>6, <1>7 DEF P
<1>8. ASSUME n # 0
      PROVE  /\ list[n] \in T /\ MadtEntries(firmware)[list[n]].irq_source = irq
             /\ \A o \in T : MadtEntries(firmware)[o].irq_source = irq => list[n] <= o
  <2>1. n \in 1 .. Len(list) /\ Len(list) \in Nat
    BY <1>1, <1>5, <1>8
  <2>2. list[n] \in T /\ MadtEntries(firmware)[list[n]].irq_source = irq
    BY <1>2, <1>3, <1>5, <1>8, <2>1 DEF P
  <2>3. ASSUME NEW o \in T, MadtEntries(firmware)[o].irq_source = irq
        PROVE  list[n] <= o
    <3>1. PICK m \in 1 .. Len(list) : list[m] = o
      BY <1>6
    <3>2. o \in P
      BY <1>1, <1>2, <2>3 DEF P
    <3>3. ~(m < n)
      BY <1>5, <1>8, <2>1, <3>1, <3>2
    <3>4. list[m] \in Nat /\ list[n] \in Nat
      BY <1>3, <2>1
    <3>5. n < m => list[n] < list[m]
      BY <1>1, <2>1 DEF Lists
    <3> QED BY <2>1, <3>1, <3>3, <3>4, <3>5
  <2> QED BY <2>2, <2>3
<1> QED BY <1>7, <1>8 DEF n, list, T, madt_isos

\* The IOAPIC of a GSI has its pin, though not as its last.
LEMMA IoapicFound ==
    ASSUME AcpiInv, MadtRead, NEW gsi \in Nat
    PROVE  LET n == ioapic_i_from_gsi(gsi)
               e == MadtEntries(firmware)
           IN  /\ n = 0 => \A a \in OfType(firmware, IOAPIC) :
                      ~(gsi >= e[a].gsi_base /\ gsi < e[a].gsi_base + (e[a].pins - 1))
               /\ n # 0 => /\ madt_ioapics[n] \in OfType(firmware, IOAPIC)
                           /\ gsi >= e[madt_ioapics[n]].gsi_base
                           /\ gsi < e[madt_ioapics[n]].gsi_base + (e[madt_ioapics[n]].pins - 1)
<1> DEFINE list == madt_lists[IOAPIC]
           e == MadtEntries(firmware)
           P == {a \in Nat : gsi >= e[a].gsi_base /\ gsi < e[a].gsi_base + (e[a].pins - 1)}
           n == ioapic_i_from_gsi(gsi)
           T == OfType(firmware, IOAPIC)
<1>1. found["APIC"] # NotFound /\ list \in Seq(Nat) /\ Lists(list, T) /\ T \subseteq Nat
  <2>1. IOAPIC \in Kept
    BY DEF Kept
  <2>2. found["APIC"] # NotFound /\ list \in Seq(Nat) /\ Lists(list, T)
        /\ T = {m \in 1 .. Len(Madt.entries) : Madt.entries[m].type = IOAPIC}
    BY <2>1, ListsComplete
  <2> QED BY <2>2
<1>2. Madt.entries = e
  BY <1>1, MadtIsTheMachines
<1>3. \A m \in 1 .. Len(list) : list[m] \in Nat /\ list[m] \in T
  BY <1>1 DEF Lists
<1> HIDE DEF e
<1>4. Selects(list, P, n)
  <2> DEFINE Q == {m \in 1 .. Len(list) : /\ gsi >= Madt.entries[list[m]].gsi_base
                                          /\ gsi < Madt.entries[list[m]].gsi_base
                                                   + (Madt.entries[list[m]].pins - 1)}
  <2>1. Q = {m \in 1 .. Len(list) : list[m] \in P}
    BY <1>2, <1>3
  <2>2. n = IF Q # {} THEN Min(Q) ELSE 0
    BY DEF ioapic_i_from_gsi, SelectInSeq, madt_ioapics, ioapic_get_max_redirect
  <2> HIDE DEF Q, n
  <2> QED BY <2>1, <2>2 DEF Selects
<1> HIDE DEF n, P
<1>5. /\ n \in 0 .. Len(list)
      /\ n = 0 => \A m \in 1 .. Len(list) : list[m] \notin P
      /\ n # 0 => list[n] \in P
  BY <1>1, <1>4, SelectedFirst
<1> HIDE DEF T, list
<1>6. \A o \in T : \E m \in 1 .. Len(list) : list[m] = o
  BY <1>1 DEF Lists
<1>7. ASSUME n = 0, NEW a \in T
      PROVE  ~(gsi >= e[a].gsi_base /\ gsi < e[a].gsi_base + (e[a].pins - 1))
  <2>1. a \notin P /\ a \in Nat
    BY <1>1, <1>5, <1>6, <1>7
  <2> QED BY <2>1 DEF P
<1>8. ASSUME n # 0
      PROVE  /\ list[n] \in T /\ gsi >= e[list[n]].gsi_base
             /\ gsi < e[list[n]].gsi_base + (e[list[n]].pins - 1)
  <2>1. n \in 1 .. Len(list) /\ list[n] \in P
    BY <1>1, <1>5, <1>8
  <2> QED BY <1>3, <2>1 DEF P
<1> QED BY <1>7, <1>8 DEF n, list, T, e, madt_ioapics

\* The pin an interrupt is routed to, or none.
PinFor(gsi) ==
    IF ioapic_i_from_gsi(gsi) = 0 THEN NoPin ELSE PinAt(ioapic_i_from_gsi(gsi), gsi)

\* The entries of the machine's MADT.
LEMMA EntryTypes ==
    ASSUME AcpiInv, MadtRead, NEW t \in Kept, NEW n \in OfType(firmware, t)
    PROVE  /\ MadtEntries(firmware)[n].type = t /\ IsMadtEntry(MadtEntries(firmware)[n])
           /\ n \in Nat \ {0}
<1>1. /\ found["APIC"] # NotFound
      /\ n \in 1 .. Len(Madt.entries) /\ Madt.entries[n].type = t
  BY ListsComplete
<1> QED BY <1>1, MadtIsTheMachines

LEMMA GsiType ==
    ASSUME AcpiInv, MadtRead, NEW irq \in Irqs
    PROVE  GsiOf(irq) \in Nat /\ FlagsOf(irq) \in SUBSET {"low", "level"}
<1>1. CASE OverrideOf(irq) = 0
  <2>1. irq \in Nat
    BY DEF Irqs
  <2> QED BY <1>1, <2>1 DEF GsiOf, FlagsOf
<1>2. CASE OverrideOf(irq) # 0
  <2> DEFINE o == madt_isos[OverrideOf(irq)]
  <2>1. o \in OfType(firmware, ISO) /\ ISO \in Kept
    BY <1>2, OverrideFound DEF Kept
  <2>2. MadtEntries(firmware)[o].type = ISO /\ IsMadtEntry(MadtEntries(firmware)[o])
    BY <2>1, EntryTypes
  <2>3. Madt.entries = MadtEntries(firmware)
    BY <2>1, ListsComplete, MadtIsTheMachines
  <2>4. Madt.entries[o].gsi \in Nat /\ Madt.entries[o].flags \in SUBSET {"low", "level"}
    BY <2>2, <2>3 DEF IsMadtEntry
  <2> QED BY <1>2, <2>4 DEF GsiOf, FlagsOf
<1> QED BY <1>1, <1>2

\* The pin is one that the firmware's tables give the GSI; without one, no pin
\* but the last of an IOAPIC has it.
LEMMA PinForGsi ==
    ASSUME AcpiInv, MadtRead, NEW gsi \in Nat
    PROVE  /\ ioapic_i_from_gsi(gsi) # 0 <=> PinFor(gsi) # NoPin
           /\ PinFor(gsi) # NoPin => PinFor(gsi) \in PinsOfGsi(gsi)
           /\ PinFor(gsi) = NoPin => \A p \in PinsOfGsi(gsi) :
                  p[2] = MadtEntries(firmware)[p[1]].pins - 1
<1> DEFINE e == MadtEntries(firmware)
           n == ioapic_i_from_gsi(gsi)
           a == madt_ioapics[n]
<1>1. IOAPIC \in Kept /\ Madt.entries = e
  BY ListsComplete, MadtIsTheMachines DEF Kept
<1>2. \A m \in OfType(firmware, IOAPIC) :
          m \in Nat \ {0} /\ e[m].gsi_base \in Nat /\ e[m].pins \in Nat \ {0}
  BY <1>1, EntryTypes DEF IsMadtEntry
<1>3. CASE n = 0
  <2>1. PinFor(gsi) = NoPin
    BY <1>3 DEF PinFor
  <2>2. ASSUME NEW p \in PinsOfGsi(gsi)
        PROVE  p[2] = e[p[1]].pins - 1
    <3>1. p \in Pins(firmware) /\ e[p[1]].gsi_base + p[2] = gsi
      BY DEF PinsOfGsi
    <3>2. PICK m \in OfType(firmware, IOAPIC) : p \in {m} \X (0 .. e[m].pins - 1)
      BY <3>1 DEF Pins
    <3>3. p[1] = m /\ p[2] \in 0 .. e[m].pins - 1
      BY <3>2
    <3>4. ~(gsi >= e[m].gsi_base /\ gsi < e[m].gsi_base + (e[m].pins - 1))
      BY <1>3, IoapicFound
    <3> HIDE DEF e, n
    <3>5. PICK base \in Nat, pins \in Nat \ {0} : base = e[m].gsi_base /\ pins = e[m].pins
      BY <1>2
    <3>6. PICK k \in 0 .. pins - 1 : k = p[2] /\ base + k = gsi
      BY <3>1, <3>3, <3>5
    <3>7. ~(gsi >= base /\ gsi < base + (pins - 1))
      BY <3>4, <3>5
    <3>8. k = pins - 1
      BY <3>6, <3>7
    <3> QED BY <3>3, <3>5, <3>6, <3>8
  <2> QED BY <1>3, <2>1, <2>2
<1>4. CASE n # 0
  <2>1. /\ a \in OfType(firmware, IOAPIC) /\ gsi >= e[a].gsi_base
        /\ gsi < e[a].gsi_base + (e[a].pins - 1)
    BY <1>4, IoapicFound
  <2>2. PinFor(gsi) = <<a, gsi - e[a].gsi_base>>
    BY <1>1, <1>4 DEF PinFor, PinAt
  <2> HIDE DEF e, n, a
  <2>3. PICK base \in Nat, pins \in Nat \ {0} : base = e[a].gsi_base /\ pins = e[a].pins
    BY <1>2, <2>1
  <2>4. a \in Nat \ {0} /\ gsi - base \in 0 .. pins - 1 /\ base + (gsi - base) = gsi
    BY <1>2, <2>1, <2>3
  <2>5. PinFor(gsi) # NoPin
    BY <2>2, <2>4 DEF NoPin
  <2>6. PinFor(gsi) \in {a} \X (0 .. e[a].pins - 1)
    BY <2>2, <2>3, <2>4
  <2>7. PinFor(gsi) \in Pins(firmware)
    BY <2>1, <2>6 DEF Pins, e
  <2>8. e[PinFor(gsi)[1]].gsi_base + PinFor(gsi)[2] = gsi
    BY <2>2, <2>3, <2>4
  <2> QED BY <1>4, <2>5, <2>7, <2>8 DEF PinsOfGsi, e, n
<1> QED BY <1>3, <1>4

\* What was read from the MADT does not change.
LEMMA SameRoutes ==
    ASSUME Madt' = Madt, madt_lists' = madt_lists
    PROVE  /\ \A irq : GsiOf(irq)' = GsiOf(irq) /\ FlagsOf(irq)' = FlagsOf(irq)
           /\ \A gsi : ioapic_i_from_gsi(gsi)' = ioapic_i_from_gsi(gsi)
           /\ \A gsi : PinFor(gsi)' = PinFor(gsi)
<1>1. \A irq : OverrideOf(irq)' = OverrideOf(irq)
  BY DEF OverrideOf, SelectInSeq, madt_isos
<1>2. \A gsi : ioapic_i_from_gsi(gsi)' = ioapic_i_from_gsi(gsi)
  BY DEF ioapic_i_from_gsi, SelectInSeq, madt_ioapics, ioapic_get_max_redirect
<1>3. \A irq : GsiOf(irq)' = GsiOf(irq) /\ FlagsOf(irq)' = FlagsOf(irq)
  BY <1>1 DEF GsiOf, FlagsOf, madt_isos
<1>4. \A n, gsi : PinAt(n, gsi)' = PinAt(n, gsi)
  BY DEF PinAt, madt_ioapics
<1>5. \A gsi : PinFor(gsi)' = PinFor(gsi)
  BY <1>2, <1>4 DEF PinFor
<1> QED BY <1>2, <1>3, <1>5

LEMMA MadtStays ==
    ASSUME AcpiInv, MadtRead, ApicAfterAcpi, [Next]_vars
    PROVE  Madt' = Madt /\ madt_lists' = madt_lists /\ MadtRead' /\ firmware' = firmware
<1>1. CASE UNCHANGED acpi_vars
  BY <1>1 DEF acpi_vars, Madt, Table, Root, MadtRead
<1>2. CASE FindHpet
  BY <1>2 DEF FindHpet, Find, Madt, Table, Root, MadtRead
<1>3. CASE AcpiNext
  <2>1. acpi_pc # "acpi_done" /\ MadtRead' /\ wanted = "HPET"
    BY <1>3, MadtStaysRead DEF MadtRead
  <2>2. summing.table \in {"rsdp", "root"} => acpi_pc # "sum"
    BY <2>1 DEF AcpiInv, Phases
  <2>3. acpi_pc \notin {"start", "root", "madt"}
    BY <2>1 DEF AcpiInv, Phases
  <2>4. AddByte \/ SumIsWrong \/ VerifyEntry \/ NotListed \/ EntryVerified
    BY <1>3, <2>2, <2>3 DEF AcpiNext, rsdp_init, RsdpVerified, VerifyRoot, RootVerified, CollectEntry,
                            MadtDone, Verified
  <2>5. /\ UNCHANGED <<firmware, has_xsdt, madt_lists>>
        /\ found' = found \/ found' = [found EXCEPT ![wanted] = entry]
    BY <2>4 DEF AddByte, SumIsWrong, VerifyEntry, NotListed, EntryVerified
  <2>6. found \in [{"APIC", "HPET"} -> Nat]
    BY DEF AcpiInv, AcpiTypeOK
  <2>7. found'["APIC"] = found["APIC"]
    BY <2>1, <2>5, <2>6
  <2> QED BY <2>1, <2>5, <2>7 DEF Madt, Table, Root
<1>4. CASE UNCHANGED vars
  BY <1>1, <1>4 DEF vars
<1> QED BY <1>1, <1>2, <1>3, <1>4, AcpiActions

\* The request's arguments are those ioapic_set_irq_redirect passes on for the
\* interrupt.
ForIrq(r, irq) ==
    /\ r.gsi = GsiOf(irq)
    /\ r.flags = FlagsOf(irq)
    /\ r.pin = PinFor(r.gsi)

\* The entry of a pin after a request.
EntryFor(r) == [low |-> LowWord(r), high |-> r.lapic_id]

LowType == [vector : Nat, flags : SUBSET {"low", "level"}, mask : BOOLEAN]
EntryType == [low : LowType, high : Lapics \cup {BSP_LAPIC}]

ApicTypeOK ==
    /\ apic_pc \in {"off", "no_apic", "lapic", "loop", "low", "high", "returned", "hpet", "timer",
                    "ready", "panicked"}
    /\ i \in 0 .. ISA_IRQS
    /\ irq_bitmap \subseteq Nat
    /\ request \in Request
    /\ ioredtbl \in [Pins(firmware) -> EntryType]
    /\ requests \in 0 .. MaxRequests
    /\ asked \in [Pins(firmware) -> Request]

InRequest == apic_pc \in {"low", "high", "returned"}

\* The request under way, or the one the machine was stopped for.
RequestInv ==
    /\ InRequest \/ apic_pc = "panicked" => \E irq \in Irqs : ForIrq(request, irq)
    /\ InRequest => request.pin # NoPin
    /\ apic_pc = "panicked" => request.pin = NoPin
    /\ apic_pc = "returned" => asked[request.pin] = request

\* A pin has the last request for it, or what it was found with; between the two
\* writes of a request it has one word of the request, and one of what was there.
PinInv ==
    \A p \in Pins(firmware) :
        /\ asked[p] # NoRequest => /\ MadtRead
                                   /\ asked[p].pin = p
                                   /\ \E irq \in Irqs : ForIrq(asked[p], irq)
        /\ IF apic_pc = "high" /\ p = request.pin
           THEN ioredtbl[p].low = LowWord(request) /\ ioredtbl[p].high = asked[p].lapic_id
           ELSE ioredtbl[p] = EntryFor(asked[p])

RouteInv == ApicTypeOK /\ RequestInv /\ PinInv

\* A request and the words made of it.
LEMMA RequestMade ==
    ASSUME NEW l \in Lapics \cup {BSP_LAPIC}, NEW v \in Nat, NEW g \in Nat,
           NEW f \in SUBSET {"low", "level"}, NEW m \in BOOLEAN, NEW p \in Pins(firmware) \cup {NoPin}
    PROVE  LET r == [lapic_id |-> l, vector |-> v, gsi |-> g, flags |-> f, mask |-> m, pin |-> p]
           IN  r \in Request
BY DEF Request

LEMMA LowWordType ==
    ASSUME NEW r \in Request
    PROVE  LowWord(r) \in LowType /\ EntryFor(r) \in EntryType
<1>1. r.vector \in Nat /\ r.flags \in SUBSET {"low", "level"} /\ r.lapic_id \in Lapics \cup {BSP_LAPIC}
  BY DEF Request
<1>2. r.mask \in BOOLEAN
  BY DEF Request
<1>3. LowWord(r) \in LowType
  BY <1>1, <1>2 DEF LowWord, LowType
<1> QED BY <1>1, <1>3 DEF EntryFor, EntryType

LEMMA NoRequestType ==
    /\ NoRequest \in Request
    /\ EntryFor(NoRequest) = ResetEntry
    /\ NoRequest.pin = NoPin
<1>1. NoRequest \in Request
  BY DEF NoRequest, Request
<1>2. EntryFor(NoRequest) = ResetEntry
  BY DEF EntryFor, LowWord, NoRequest, ResetEntry
<1>3. NoRequest.pin = NoPin
  BY DEF NoRequest
<1> QED BY <1>1, <1>2, <1>3

LEMMA RouteInvInit == Init => RouteInv
<1> SUFFICES ASSUME Init PROVE RouteInv
  OBVIOUS
<1>1. /\ apic_pc = "off" /\ i = 0 /\ irq_bitmap = {} /\ request = NoRequest /\ requests = 0
      /\ ioredtbl = [p \in Pins(firmware) |-> ResetEntry]
      /\ asked = [p \in Pins(firmware) |-> NoRequest]
  BY DEF Init
<1>2. ResetEntry \in EntryType
  BY NoRequestType, LowWordType
<1>3. ioredtbl \in [Pins(firmware) -> EntryType] /\ asked \in [Pins(firmware) -> Request]
  BY <1>1, <1>2, NoRequestType
<1>4. i \in 0 .. ISA_IRQS /\ requests \in 0 .. MaxRequests
  BY <1>1, ApicAssumption
<1>5. ApicTypeOK
  BY <1>1, <1>3, <1>4, NoRequestType DEF ApicTypeOK
<1>6. RequestInv
  BY <1>1 DEF RequestInv, InRequest
<1>7. PinInv
  BY <1>1, NoRequestType DEF PinInv
<1> QED BY <1>5, <1>6, <1>7 DEF RouteInv

\* What a step leaves of the machine and of the routes read from it.
LEMMA RoutesStay ==
    ASSUME AcpiInv, ApicAfterAcpi, [Next]_vars
    PROVE  /\ firmware' = firmware /\ Pins(firmware)' = Pins(firmware) /\ Request' = Request
           /\ MadtRead => /\ MadtRead'
                          /\ \A irq : GsiOf(irq)' = GsiOf(irq) /\ FlagsOf(irq)' = FlagsOf(irq)
                          /\ \A gsi : PinFor(gsi)' = PinFor(gsi)
                          /\ \A gsi : ioapic_i_from_gsi(gsi)' = ioapic_i_from_gsi(gsi)
                          /\ \A r, irq : ForIrq(r, irq)' <=> ForIrq(r, irq)
<1>1. firmware' = firmware
  BY FirmwareStays DEF vars, acpi_vars
<1>2. Pins(firmware)' = Pins(firmware)
  <2>1. RootOf(firmware)' = RootOf(firmware)
    BY <1>1 DEF RootOf, HasXsdt
  <2>2. MadtEntries(firmware)' = MadtEntries(firmware)
    BY <2>1 DEF MadtEntries, SelectInSeq
  <2>3. \A t : OfType(firmware, t)' = OfType(firmware, t)
    BY <2>2 DEF OfType
  <2> QED BY <2>2, <2>3 DEF Pins
<1>3. Request' = Request
  BY <1>2 DEF Request
<1>4. ASSUME MadtRead
      PROVE  /\ MadtRead'
             /\ \A irq : GsiOf(irq)' = GsiOf(irq) /\ FlagsOf(irq)' = FlagsOf(irq)
             /\ \A gsi : PinFor(gsi)' = PinFor(gsi)
             /\ \A gsi : ioapic_i_from_gsi(gsi)' = ioapic_i_from_gsi(gsi)
             /\ \A r, irq : ForIrq(r, irq)' <=> ForIrq(r, irq)
  <2>1. Madt' = Madt /\ madt_lists' = madt_lists /\ MadtRead'
    BY <1>4, MadtStays
  <2>2. /\ \A irq : GsiOf(irq)' = GsiOf(irq) /\ FlagsOf(irq)' = FlagsOf(irq)
        /\ \A gsi : PinFor(gsi)' = PinFor(gsi)
        /\ \A gsi : ioapic_i_from_gsi(gsi)' = ioapic_i_from_gsi(gsi)
    BY <2>1, SameRoutes
  <2>3. \A r, irq : ForIrq(r, irq)' <=> ForIrq(r, irq)
    BY <2>2 DEF ForIrq
  <2> QED BY <2>1, <2>2, <2>3
<1> QED BY <1>1, <1>2, <1>3, <1>4

\* A step that writes no pin and neither begins a request nor ends one.
LEMMA RouteQuiet ==
    ASSUME RouteInv, AcpiInv, ApicAfterAcpi, [Next]_vars, ApicTypeOK',
           UNCHANGED <<request, ioredtbl, asked>>,
           \/ apic_pc' = apic_pc
           \/ /\ apic_pc # "high"
              /\ apic_pc' \notin {"low", "high", "returned", "panicked"}
    PROVE  RouteInv'
<1>1. apic_pc' = "high" <=> apic_pc = "high"
  OBVIOUS
<1>2. RequestInv'
  <2>1. CASE apic_pc' \notin {"low", "high", "returned", "panicked"}
    BY <2>1 DEF RequestInv, InRequest
  <2>2. CASE apic_pc' = apic_pc /\ apic_pc \in {"low", "high", "returned", "panicked"}
    <3>1. MadtRead
      BY <2>2 DEF ApicAfterAcpi
    <3>2. PICK irq \in Irqs : ForIrq(request, irq)
      BY <2>2 DEF RouteInv, RequestInv, InRequest
    <3>3. ForIrq(request, irq)'
      BY <3>1, <3>2, RoutesStay
    <3>4. \E k \in Irqs : ForIrq(request, k)'
      BY <3>3
    <3> QED BY <2>2, <3>4 DEF RouteInv, RequestInv, InRequest
  <2> QED BY <2>1, <2>2
<1>3. PinInv'
  <2> SUFFICES ASSUME NEW p \in Pins(firmware)
               PROVE  /\ asked'[p] # NoRequest => /\ MadtRead'
                                                  /\ asked'[p].pin = p
                                                  /\ \E irq \in Irqs : ForIrq(asked[p], irq)'
                      /\ IF apic_pc' = "high" /\ p = request'.pin
                         THEN ioredtbl'[p].low = LowWord(request)' /\ ioredtbl'[p].high = asked'[p].lapic_id
                         ELSE ioredtbl'[p] = EntryFor(asked[p])'
    BY RoutesStay DEF PinInv
  <2>1. ASSUME asked[p] # NoRequest
        PROVE  MadtRead' /\ asked[p].pin = p /\ \E irq \in Irqs : ForIrq(asked[p], irq)'
    <3>1. MadtRead /\ asked[p].pin = p
      BY <2>1 DEF RouteInv, PinInv
    <3>2. PICK irq \in Irqs : ForIrq(asked[p], irq)
      BY <2>1 DEF RouteInv, PinInv
    <3> QED BY <3>1, <3>2, RoutesStay
  <2>2. LowWord(request)' = LowWord(request) /\ EntryFor(asked[p])' = EntryFor(asked[p])
    BY DEF LowWord, EntryFor
  <2>3. IF apic_pc = "high" /\ p = request.pin
        THEN ioredtbl[p].low = LowWord(request) /\ ioredtbl[p].high = asked[p].lapic_id
        ELSE ioredtbl[p] = EntryFor(asked[p])
    BY DEF RouteInv, PinInv
  <2> QED BY <1>1, <2>1, <2>2, <2>3
<1> QED BY <1>2, <1>3 DEF RouteInv

\* ioapic_set_irq_redirect resolves the interrupt.
LEMMA RequestBegins ==
    ASSUME RouteInv, AcpiInv, ApicAfterAcpi, [Next]_vars, MadtRead, apic_pc # "high",
           NEW lapic_id \in Lapics \cup {BSP_LAPIC}, NEW vector \in Nat, NEW irq \in Irqs,
           NEW mask \in BOOLEAN,
           ioapic_set_irq_redirect(lapic_id, vector, irq, mask),
           UNCHANGED <<i, irq_bitmap, ioredtbl, asked>>, requests' \in 0 .. MaxRequests
    PROVE  /\ RouteInv'
           /\ ForIrq(request, irq)' /\ request'.vector = vector /\ request'.mask = mask
<1> DEFINE gsi == GsiOf(irq)
           pin == PinFor(gsi)
           r == [lapic_id |-> lapic_id, vector |-> vector, gsi |-> gsi, flags |-> FlagsOf(irq),
                 mask |-> mask, pin |-> pin]
<1>1. request' = r
  BY DEF ioapic_set_irq_redirect, PinFor
<1>2. gsi \in Nat /\ FlagsOf(irq) \in SUBSET {"low", "level"}
  BY GsiType
<1>3. /\ pin \in Pins(firmware) \cup {NoPin}
      /\ ioapic_i_from_gsi(gsi) # 0 <=> pin # NoPin
  BY <1>2, PinForGsi DEF PinsOfGsi
<1>4. apic_pc' = IF pin = NoPin THEN "panicked" ELSE "low"
  BY <1>3 DEF ioapic_set_irq_redirect
<1>5. r \in Request
  BY <1>2, <1>3, RequestMade
<1>6. r.gsi = gsi /\ r.flags = FlagsOf(irq) /\ r.pin = pin /\ r.vector = vector
  OBVIOUS
<1>7. r.mask = mask
  BY Zenon
<1>8. ForIrq(r, irq)
  BY <1>6 DEF ForIrq
<1> HIDE DEF r, pin
<1>9. ForIrq(request, irq)'
  BY <1>1, <1>8, RoutesStay
<1>10. ApicTypeOK'
  BY <1>1, <1>4, <1>5, RoutesStay DEF RouteInv, ApicTypeOK
<1>11. RequestInv'
  <2>1. \E k \in Irqs : ForIrq(request, k)'
    BY <1>9
  <2> QED BY <1>1, <1>4, <1>6, <2>1 DEF RequestInv, InRequest
<1>12. PinInv'
  <2> SUFFICES ASSUME NEW p \in Pins(firmware)
               PROVE  /\ asked'[p] # NoRequest => /\ MadtRead'
                                                  /\ asked'[p].pin = p
                                                  /\ \E k \in Irqs : ForIrq(asked[p], k)'
                      /\ ioredtbl'[p] = EntryFor(asked[p])'
    BY <1>4, RoutesStay DEF PinInv
  <2>1. ASSUME asked[p] # NoRequest
        PROVE  MadtRead' /\ asked[p].pin = p /\ \E k \in Irqs : ForIrq(asked[p], k)'
    <3>1. MadtRead /\ asked[p].pin = p
      BY <2>1 DEF RouteInv, PinInv
    <3>2. PICK k \in Irqs : ForIrq(asked[p], k)
      BY <2>1 DEF RouteInv, PinInv
    <3> QED BY <3>1, <3>2, RoutesStay
  <2>2. EntryFor(asked[p])' = EntryFor(asked[p])
    BY DEF LowWord, EntryFor
  <2>3. ioredtbl[p] = EntryFor(asked[p])
    BY DEF RouteInv, PinInv
  <2> QED BY <2>1, <2>2, <2>3
<1>13. request'.vector = vector
  BY <1>1, <1>6
<1>14. request'.mask = mask
  BY <1>1, <1>7, Zenon
<1> QED BY <1>9, <1>10, <1>11, <1>12, <1>13, <1>14, Zenon DEF RouteInv

\* The first register of the pin's entry is written.
LEMMA WriteLowRoute ==
    ASSUME RouteInv, AcpiInv, ApicAfterAcpi, [Next]_vars, WriteLow
    PROVE  RouteInv'
<1>1. /\ apic_pc = "low" /\ apic_pc' = "high"
      /\ ioredtbl' = [ioredtbl EXCEPT ![request.pin].low = LowWord(request)]
      /\ UNCHANGED <<i, irq_bitmap, request, requests, asked>>
  BY DEF WriteLow
<1>2. MadtRead /\ request.pin # NoPin
  BY <1>1 DEF ApicAfterAcpi, RouteInv, RequestInv, InRequest
<1>3. request \in Request /\ ioredtbl \in [Pins(firmware) -> EntryType]
  BY DEF RouteInv, ApicTypeOK
<1>4. request.pin \in Pins(firmware)
  BY <1>2, <1>3 DEF Request
<1> DEFINE q == request.pin
<1>5. /\ ioredtbl' \in [Pins(firmware) -> EntryType]
      /\ ioredtbl'[q].low = LowWord(request) /\ ioredtbl'[q].high = ioredtbl[q].high
      /\ \A p \in Pins(firmware) : p # q => ioredtbl'[p] = ioredtbl[p]
  <2>1. LowWord(request) \in LowType
    BY <1>3, LowWordType
  <2> QED BY <1>1, <1>3, <1>4, <2>1 DEF EntryType
<1>6. ApicTypeOK'
  BY <1>1, <1>5, RoutesStay DEF RouteInv, ApicTypeOK
<1>7. RequestInv'
  <2>1. PICK irq \in Irqs : ForIrq(request, irq)
    BY <1>1 DEF RouteInv, RequestInv, InRequest
  <2>2. ForIrq(request, irq)'
    BY <1>1, <1>2, <2>1, RoutesStay
  <2>3. \E k \in Irqs : ForIrq(request, k)'
    BY <2>2
  <2> QED BY <1>1, <1>2, <2>3 DEF RequestInv, InRequest
<1>8. PinInv'
  <2> SUFFICES ASSUME NEW p \in Pins(firmware)
               PROVE  /\ asked'[p] # NoRequest => /\ MadtRead'
                                                  /\ asked'[p].pin = p
                                                  /\ \E irq \in Irqs : ForIrq(asked[p], irq)'
                      /\ IF p = request'.pin
                         THEN ioredtbl'[p].low = LowWord(request)' /\ ioredtbl'[p].high = asked'[p].lapic_id
                         ELSE ioredtbl'[p] = EntryFor(asked[p])'
    BY <1>1, RoutesStay DEF PinInv
  <2>1. ASSUME asked[p] # NoRequest
        PROVE  MadtRead' /\ asked[p].pin = p /\ \E irq \in Irqs : ForIrq(asked[p], irq)'
    <3>1. MadtRead /\ asked[p].pin = p
      BY <2>1 DEF RouteInv, PinInv
    <3>2. PICK irq \in Irqs : ForIrq(asked[p], irq)
      BY <2>1 DEF RouteInv, PinInv
    <3> QED BY <1>1, <3>1, <3>2, RoutesStay
  <2>2. LowWord(request)' = LowWord(request) /\ EntryFor(asked[p])' = EntryFor(asked[p])
    BY <1>1 DEF LowWord, EntryFor
  <2>3. ioredtbl[p] = EntryFor(asked[p])
    BY <1>1 DEF RouteInv, PinInv
  <2>4. ioredtbl[p].high = asked[p].lapic_id
    BY <2>3 DEF EntryFor
  <2> QED BY <1>1, <1>5, <2>1, <2>2, <2>3, <2>4
<1> QED BY <1>6, <1>7, <1>8 DEF RouteInv

\* The second register is written, and the request is complete.
LEMMA WriteHighRoute ==
    ASSUME RouteInv, AcpiInv, ApicAfterAcpi, [Next]_vars, WriteHigh
    PROVE  RouteInv'
<1>1. /\ apic_pc = "high" /\ apic_pc' = "returned"
      /\ ioredtbl' = [ioredtbl EXCEPT ![request.pin].high = request.lapic_id]
      /\ asked' = [asked EXCEPT ![request.pin] = request]
      /\ UNCHANGED <<i, irq_bitmap, request, requests>>
  BY DEF WriteHigh
<1>2. MadtRead /\ request.pin # NoPin
  BY <1>1 DEF ApicAfterAcpi, RouteInv, RequestInv, InRequest
<1>3. /\ request \in Request /\ ioredtbl \in [Pins(firmware) -> EntryType]
      /\ asked \in [Pins(firmware) -> Request]
  BY DEF RouteInv, ApicTypeOK
<1>4. request.pin \in Pins(firmware) /\ request.lapic_id \in Lapics \cup {BSP_LAPIC}
  BY <1>2, <1>3 DEF Request
<1> DEFINE q == request.pin
<1>5. /\ ioredtbl' \in [Pins(firmware) -> EntryType]
      /\ ioredtbl'[q].low = ioredtbl[q].low /\ ioredtbl'[q].high = request.lapic_id
      /\ \A p \in Pins(firmware) : p # q => ioredtbl'[p] = ioredtbl[p]
  BY <1>1, <1>3, <1>4 DEF EntryType
<1>6. /\ asked' \in [Pins(firmware) -> Request] /\ asked'[q] = request
      /\ \A p \in Pins(firmware) : p # q => asked'[p] = asked[p]
  BY <1>1, <1>3, <1>4
<1>7. ApicTypeOK'
  BY <1>1, <1>5, <1>6, RoutesStay DEF RouteInv, ApicTypeOK
<1>8. PICK irq \in Irqs : ForIrq(request, irq)
  BY <1>1 DEF RouteInv, RequestInv, InRequest
<1>9. ForIrq(request, irq)'
  BY <1>1, <1>2, <1>8, RoutesStay
<1>10. RequestInv'
  <2>1. \E k \in Irqs : ForIrq(request, k)'
    BY <1>9
  <2> QED BY <1>1, <1>2, <1>6, <2>1 DEF RequestInv, InRequest
<1>11. PinInv'
  <2> SUFFICES ASSUME NEW p \in Pins(firmware)
               PROVE  /\ asked'[p] # NoRequest => /\ MadtRead'
                                                  /\ asked'[p].pin = p
                                                  /\ \E k \in Irqs : ForIrq(asked[p], k)'
                      /\ ioredtbl'[p] = EntryFor(asked[p])'
    BY <1>1, RoutesStay DEF PinInv
  <2>1. CASE p = q
    <3>1. asked'[p] = request /\ asked'[p].pin = p
      BY <1>6, <2>1
    <3>2. \A r : ForIrq(r, irq)' <=> ForIrq(r, irq)
      BY <1>2, RoutesStay
    <3>3. ForIrq(asked[p], irq)'
      BY <1>8, <3>1, <3>2
    <3>4. ioredtbl'[p].low = LowWord(request)
      BY <1>1, <1>5, <2>1 DEF RouteInv, PinInv
    <3>5. ioredtbl'[p] \in EntryType
      BY <1>5
    <3>6. ioredtbl'[p] = EntryFor(request)
      BY <1>5, <2>1, <3>4, <3>5 DEF EntryType, EntryFor
    <3>7. EntryFor(asked[p])' = EntryFor(request)
      BY <3>1 DEF EntryFor, LowWord
    <3> QED BY <1>2, <3>1, <3>3, <3>6, <3>7, RoutesStay
  <2>2. CASE p # q
    <3>1. asked'[p] = asked[p] /\ ioredtbl'[p] = ioredtbl[p]
      BY <1>5, <1>6, <2>2
    <3>2. ioredtbl[p] = EntryFor(asked[p])
      BY <2>2 DEF RouteInv, PinInv
    <3>3. EntryFor(asked[p])' = EntryFor(asked[p])
      BY <3>1 DEF EntryFor, LowWord
    <3>4. ASSUME asked[p] # NoRequest
          PROVE  MadtRead' /\ asked[p].pin = p /\ \E k \in Irqs : ForIrq(asked[p], k)'
      <4>1. asked[p].pin = p
        BY <3>4 DEF RouteInv, PinInv
      <4>2. PICK k \in Irqs : ForIrq(asked[p], k)
        BY <3>4 DEF RouteInv, PinInv
      <4> QED BY <1>2, <3>1, <4>1, <4>2, RoutesStay
    <3> QED BY <3>1, <3>2, <3>3, <3>4
  <2> QED BY <2>1, <2>2
<1> QED BY <1>7, <1>10, <1>11 DEF RouteInv

LEMMA RouteInvNext ==
    ASSUME RouteInv, AcpiInv, ApicAfterAcpi, [Next]_vars
    PROVE  RouteInv'
<1>1. CASE UNCHANGED apic_vars
  <2>1. UNCHANGED <<apic_pc, i, irq_bitmap, request, ioredtbl, requests, asked>>
    BY <1>1 DEF apic_vars
  <2>2. ApicTypeOK'
    BY <2>1, RoutesStay DEF RouteInv, ApicTypeOK
  <2> QED BY <2>1, <2>2, RouteQuiet
<1>2. CASE WriteLow \/ WriteHigh
  BY <1>2, WriteLowRoute, WriteHighRoute
<1>3. CASE MaskIrq
  <2>1. i \in 0 .. ISA_IRQS /\ i < ISA_IRQS
    BY <1>3 DEF MaskIrq, RouteInv, ApicTypeOK
  <2>2. i \in Irqs /\ i + FIRST_VECTOR \in Nat
    BY <2>1, ApicAssumption, PicAssumption DEF Irqs
  <2>3. MadtRead /\ apic_pc # "high"
    BY <1>3 DEF MaskIrq, ApicAfterAcpi
  <2>4. /\ ioapic_set_irq_redirect(BSP_LAPIC, i + FIRST_VECTOR, i, TRUE)
        /\ UNCHANGED <<i, irq_bitmap, ioredtbl, asked>> /\ requests' \in 0 .. MaxRequests
    BY <1>3 DEF MaskIrq, RouteInv, ApicTypeOK
  <2> QED BY <2>2, <2>3, <2>4, RequestBegins
<1>4. ASSUME NEW lapic_id \in Lapics, NEW vector \in Vectors, NEW irq \in Irqs, NEW mask \in BOOLEAN,
             Redirect(lapic_id, vector, irq, mask)
      PROVE  RouteInv'
  <2>1. MadtRead /\ apic_pc # "high"
    BY <1>4 DEF Redirect, ApicAfterAcpi
  <2>2. /\ ioapic_set_irq_redirect(lapic_id, vector, irq, mask)
        /\ UNCHANGED <<i, irq_bitmap, ioredtbl, asked>>
    BY <1>4 DEF Redirect
  <2>3. vector \in Nat /\ requests' \in 0 .. MaxRequests
    BY <1>4, ApicAssumption DEF Redirect, RouteInv, ApicTypeOK
  <2> QED BY <2>1, <2>2, <2>3, RequestBegins
<1>5. CASE SkipIrq \/ MarkGsi
  <2>1. /\ apic_pc' = "loop" /\ apic_pc # "high" /\ i < ISA_IRQS /\ i' = i + 1
        /\ UNCHANGED <<request, ioredtbl, requests, asked>>
        /\ irq_bitmap' = irq_bitmap \/ irq_bitmap' = irq_bitmap \cup {request.gsi}
    BY <1>5 DEF SkipIrq, MarkGsi
  <2>2. request.gsi \in Nat
    BY DEF RouteInv, ApicTypeOK, Request
  <2>3. i' \in 0 .. ISA_IRQS
    BY <2>1, ApicAssumption DEF RouteInv, ApicTypeOK
  <2>4. ApicTypeOK'
    BY <2>1, <2>2, <2>3, RoutesStay DEF RouteInv, ApicTypeOK
  <2> QED BY <2>1, <2>4, RouteQuiet
<1>6. CASE NoApic \/ EndApicInit \/ RedirectReturns \/ BeginApicInit \/ lapic_enable \/ FindHpet
           \/ hpet_init
  <2>1. /\ apic_pc # "high" /\ apic_pc' \in {"no_apic", "ready", "lapic", "loop", "hpet", "timer"}
        /\ UNCHANGED <<i, irq_bitmap, request, ioredtbl, requests, asked>>
    BY <1>6 DEF NoApic, EndApicInit, RedirectReturns, BeginApicInit, lapic_enable, FindHpet, hpet_init
  <2>2. ApicTypeOK'
    BY <2>1, RoutesStay DEF RouteInv, ApicTypeOK
  <2> QED BY <2>1, <2>2, RouteQuiet
<1>7. CASE (\E us \in Delays : Oneshot(us)) \/ (\E pin \in DOMAIN ioredtbl : Deliver(pin))
  <2>1. /\ UNCHANGED <<apic_pc, i, irq_bitmap, request, ioredtbl, asked>>
        /\ requests' = requests \/ (requests < MaxRequests /\ requests' = requests + 1)
    BY <1>7 DEF Oneshot, Deliver
  <2>2. requests' \in 0 .. MaxRequests
    BY <2>1, ApicAssumption DEF RouteInv, ApicTypeOK
  <2>3. ApicTypeOK'
    BY <2>1, <2>2, RoutesStay DEF RouteInv, ApicTypeOK
  <2> QED BY <2>1, <2>3, RouteQuiet
<1>8. CASE UNCHANGED vars
  BY <1>1, <1>8 DEF vars
<1> QED BY <1>1, <1>2, <1>3, <1>4, <1>5, <1>6, <1>7, <1>8 DEF Next, Boot, Time, ApicStep

MachineInv == AcpiInv /\ BootInv /\ ApicAfterAcpi /\ RouteInv

LEMMA MachineInvInit == Init => MachineInv
BY AcpiInvInit, BootInvInit, RouteInvInit DEF Init, ApicAfterAcpi, MachineInv

LEMMA MachineInvNext ==
    ASSUME MachineInv, [Next]_vars
    PROVE  MachineInv'
BY AcpiInvNext, BootInvNext, ApicAfterAcpiNext, RouteInvNext DEF MachineInv

\* Every variable of the boot, the tables, the routes, the clocks and the legacy
\* controllers keeps its type.
THEOREM ApicTypes == Spec => []TypeOK
<1>1. MachineInv /\ TimerTypeOK /\ PicInv => TypeOK
  BY DEF MachineInv, AcpiInv, RouteInv, ApicTypeOK, PicInv, TypeOK, EntryType, LowType
<1>2. Init => MachineInv /\ TimerTypeOK /\ PicInv
  BY MachineInvInit, TimerTypeInit, PicInvInit
<1>3. MachineInv /\ TimerTypeOK /\ PicInv /\ [Next]_vars => MachineInv' /\ TimerTypeOK' /\ PicInv'
  BY MachineInvNext, TimerTypeNext, PicInvNext
<1> QED BY <1>1, <1>2, <1>3, PTL DEF Spec

\* Where an interrupt goes, by the firmware's tables.
LEMMA GsiIs ==
    ASSUME AcpiInv, MadtRead, NEW irq \in Irqs
    PROVE  LET e == MadtEntries(firmware)
           IN  \/ /\ GsiOf(irq) = irq /\ FlagsOf(irq) = {}
                  /\ \A o \in OfType(firmware, ISO) : e[o].irq_source # irq
               \/ \E o \in OfType(firmware, ISO) :
                      /\ GsiOf(irq) = e[o].gsi /\ FlagsOf(irq) = e[o].flags
                      /\ e[o].irq_source = irq
                      /\ \A o2 \in OfType(firmware, ISO) : e[o2].irq_source = irq => o <= o2
<1> DEFINE e == MadtEntries(firmware)
<1>1. CASE OverrideOf(irq) = 0
  BY <1>1, OverrideFound DEF GsiOf, FlagsOf
<1>2. CASE OverrideOf(irq) # 0
  <2> DEFINE o == madt_isos[OverrideOf(irq)]
  <2>1. /\ o \in OfType(firmware, ISO) /\ e[o].irq_source = irq
        /\ \A o2 \in OfType(firmware, ISO) : e[o2].irq_source = irq => o <= o2
    BY <1>2, OverrideFound
  <2>2. Madt.entries = e
    BY ListsComplete, MadtIsTheMachines DEF Kept
  <2>3. GsiOf(irq) = e[o].gsi /\ FlagsOf(irq) = e[o].flags
    BY <1>2, <2>2 DEF GsiOf, FlagsOf
  <2> HIDE DEF o
  <2> QED BY <2>1, <2>3
<1> QED BY <1>1, <1>2

\* A pin is that of an entry of the MADT.
LEMMA PinIsOne ==
    ASSUME AcpiInv, MadtRead, NEW p \in Pins(firmware)
    PROVE  /\ p # NoPin
           /\ p[1] \in OfType(firmware, IOAPIC)
           /\ p[2] \in 0 .. MadtEntries(firmware)[p[1]].pins - 1
<1>1. PICK n \in OfType(firmware, IOAPIC) : p \in {n} \X (0 .. MadtEntries(firmware)[n].pins - 1)
  BY DEF Pins
<1>2. n \in Nat \ {0}
  BY EntryTypes DEF Kept
<1> QED BY <1>1, <1>2 DEF NoPin

\* The flags of a request are those of every override to its GSI.
LEMMA FlagsAsTables ==
    ASSUME FlagsAgree, AcpiInv, MadtRead, NEW irq \in Irqs, NEW o \in Overrides, o.gsi = GsiOf(irq)
    PROVE  FlagsOf(irq) = o.flags
<1> DEFINE e == MadtEntries(firmware)
           T == OfType(firmware, ISO)
<1>1. PICK n \in T : o = e[n]
  BY DEF Overrides
<1>2. firmware \in Firmwares
  BY DEF AcpiInv, AcpiTypeOK
<1>3. /\ \A o2 \in T : e[n].gsi = e[o2].gsi => e[n].flags = e[o2].flags
      /\ (\A o2 \in T : e[o2].irq_source # e[n].gsi) /\ e[n].gsi \in Irqs => e[n].flags = {}
  BY <1>1, <1>2 DEF FlagsAgree
<1> HIDE DEF e, T
<1>4. CASE GsiOf(irq) = irq /\ FlagsOf(irq) = {} /\ \A o2 \in T : e[o2].irq_source # irq
  BY <1>1, <1>3, <1>4
<1>5. CASE \E o2 \in T : GsiOf(irq) = e[o2].gsi /\ FlagsOf(irq) = e[o2].flags
  BY <1>1, <1>3, <1>5
<1> QED BY <1>4, <1>5, GsiIs DEF e, T

\* For every firmware and every sequence of requests, on machines that use no
\* last pin and whose overrides agree about the flags: a pin has what the last
\* request for it asked for, the request went to the pin of the firmware's
\* tables, and the machine is stopped only for a pin that does not exist.
THEOREM RoutesAreAsAsked ==
    ASSUME FlagsAgree, LastPinsUnused
    PROVE  Spec => []RoutedAsAsked
<1>1. MachineInv => RoutedAsAsked
  <2> SUFFICES ASSUME MachineInv PROVE RoutedAsAsked
    OBVIOUS
  <2> USE DEF MachineInv
  <2>1. ASSUME ~Writing, NEW p \in Pins(firmware), asked[p] # NoRequest
        PROVE  /\ ioredtbl[p] = [low |-> LowWord(asked[p]), high |-> asked[p].lapic_id]
               /\ ioapic_get_vector_from_gsi(asked[p].gsi) = asked[p].vector
               /\ p \in PinsOfGsi(asked[p].gsi)
               /\ \A o \in Overrides : o.gsi = asked[p].gsi => asked[p].flags = o.flags
    <3> DEFINE g == asked[p].gsi
    <3>1. MadtRead /\ asked[p].pin = p
      BY <2>1 DEF RouteInv, PinInv
    <3>2. PICK irq \in Irqs : ForIrq(asked[p], irq)
      BY <2>1 DEF RouteInv, PinInv
    <3>3. g = GsiOf(irq) /\ asked[p].flags = FlagsOf(irq) /\ p = PinFor(g)
      BY <3>1, <3>2 DEF ForIrq
    <3>4. g \in Nat
      BY <3>1, <3>3, GsiType
    <3>5. ioredtbl[p] = EntryFor(asked[p])
      BY <2>1 DEF RouteInv, PinInv, Writing
    <3>6. p # NoPin
      BY <3>1, PinIsOne
    <3>7. p \in PinsOfGsi(g) /\ PinAt(ioapic_i_from_gsi(g), g) = p
      BY <3>1, <3>3, <3>4, <3>6, PinForGsi DEF PinFor
    <3>8. ioapic_get_vector_from_gsi(g) = asked[p].vector
      BY <3>5, <3>7 DEF ioapic_get_vector_from_gsi, EntryFor, LowWord
    <3>9. \A o \in Overrides : o.gsi = g => asked[p].flags = o.flags
      BY <3>1, <3>3, FlagsAsTables
    <3> QED BY <3>5, <3>7, <3>8, <3>9 DEF EntryFor
  <2>2. ASSUME apic_pc = "panicked"
        PROVE  PinsOfGsi(request.gsi) = {}
    <3> DEFINE g == request.gsi
               e == MadtEntries(firmware)
    <3>1. MadtRead /\ request.pin = NoPin
      BY <2>2 DEF RouteInv, RequestInv, ApicAfterAcpi
    <3>2. PICK irq \in Irqs : ForIrq(request, irq)
      BY <2>2 DEF RouteInv, RequestInv
    <3>3. g = GsiOf(irq) /\ PinFor(g) = NoPin /\ g \in Nat
      BY <3>1, <3>2, GsiType DEF ForIrq
    <3> SUFFICES ASSUME NEW p \in PinsOfGsi(g) PROVE FALSE
      OBVIOUS
    <3>4. p \in Pins(firmware) /\ e[p[1]].gsi_base + p[2] = g /\ p[2] = e[p[1]].pins - 1
      BY <3>1, <3>3, PinForGsi DEF PinsOfGsi
    <3> DEFINE a == p[1]
    <3>5. a \in OfType(firmware, IOAPIC) /\ IsMadtEntry(e[a]) /\ e[a].type = IOAPIC
      BY <3>1, <3>4, PinIsOne, EntryTypes DEF Kept
    <3>6. e[a].gsi_base \in Nat /\ e[a].pins \in Nat
      BY <3>5 DEF IsMadtEntry
    <3>7. g = e[a].gsi_base + e[a].pins - 1
      BY <3>4, <3>6
    <3>8. firmware \in Firmwares
      BY DEF BootInv
    <3>9. g \notin Irqs /\ \A o \in OfType(firmware, ISO) : e[o].gsi # g
      BY <3>5, <3>7, <3>8 DEF LastPinsUnused
    <3> HIDE DEF e, g, a
    <3> QED BY <3>1, <3>3, <3>9, GsiIs DEF e
  <2> QED BY <2>1, <2>2 DEF RoutedAsAsked
<1> QED BY <1>1, MachineInvInit, MachineInvNext, PTL DEF Spec

\* The words of an entry, as a LAPIC gets them.
LEMMA WordsOf ==
    ASSUME NEW r, NEW w, w = LowWord(r)
    PROVE  w.vector = r.vector /\ w.mask = r.mask
BY Zenon DEF LowWord

\* A device's interrupt is the only step that delivers one.
LEMMA DeliverActs ==
    ASSUME [Next]_vars, delivered' # delivered
    PROVE  \E pin \in DOMAIN ioredtbl : Deliver(pin)
<1>1. CASE UNCHANGED apic_vars \/ UNCHANGED vars
  BY <1>1 DEF apic_vars, vars
<1>2. CASE ApicStep
  BY <1>2 DEF ApicStep, NoApic, SkipIrq, MaskIrq, MarkGsi, EndApicInit, WriteLow, WriteHigh,
              RedirectReturns
<1>3. CASE BeginApicInit \/ lapic_enable \/ FindHpet \/ hpet_init
  BY <1>3 DEF BeginApicInit, lapic_enable, FindHpet, hpet_init
<1>4. CASE \/ \E lapic_id \in Lapics, vector \in Vectors, irq \in Irqs, mask \in BOOLEAN :
                  Redirect(lapic_id, vector, irq, mask)
           \/ \E us \in Delays : Oneshot(us)
  BY <1>4 DEF Redirect, Oneshot
<1> QED BY <1>1, <1>2, <1>3, <1>4 DEF Next, Boot, Time

\* Whatever the firmware is and whichever LAPICs are asked for, an interrupt arrives
\* only on a pin that the last request for it has unmasked, with that request's
\* vector, and at the LAPIC of the last request that has returned.
THEOREM DeliveriesAreAsAsked == Spec => DeliveredAsAsked
<1> DEFINE last(pin) == IF apic_pc = "high" /\ request.pin = pin THEN request ELSE asked[pin]
           AsAsked == /\ last(delivered'.pin).pin = delivered'.pin
                      /\ ~last(delivered'.pin).mask
                      /\ delivered'.vector = last(delivered'.pin).vector
                      /\ delivered'.lapic_id = asked[delivered'.pin].lapic_id
<1>1. ASSUME MachineInv, [Next]_vars, delivered' # delivered
      PROVE  AsAsked
  <2>1. PICK pin \in DOMAIN ioredtbl : Deliver(pin)
    BY <1>1, DeliverActs
  <2> DEFINE w == ioredtbl[pin].low
  <2>2. /\ delivered'.pin = pin /\ delivered'.vector = w.vector
        /\ delivered'.lapic_id = ioredtbl[pin].high
    BY <2>1 DEF Deliver
  <2>3. ~w.mask
    BY <2>1, Zenon DEF Deliver
  <2>4. /\ request \in Request /\ ioredtbl \in [Pins(firmware) -> EntryType]
        /\ asked \in [Pins(firmware) -> Request]
    BY <1>1 DEF MachineInv, RouteInv, ApicTypeOK
  <2>5. pin \in Pins(firmware)
    BY <2>1, <2>4
  <2> HIDE DEF w
  <2>7. CASE apic_pc = "high" /\ pin = request.pin
    <3>1. w = LowWord(request) /\ ioredtbl[pin].high = asked[pin].lapic_id
      BY <1>1, <2>5, <2>7 DEF MachineInv, RouteInv, PinInv, w
    <3>2. ~request.mask /\ request.vector = delivered'.vector
      BY <2>2, <2>3, <3>1, WordsOf, Zenon
    <3>3. request.pin = delivered'.pin /\ delivered'.lapic_id = asked[delivered'.pin].lapic_id
      BY <2>2, <2>7, <3>1
    <3>4. last(delivered'.pin) = request
      BY <2>2, <2>7
    <3> HIDE DEF last
    <3> QED BY <3>2, <3>3, <3>4, Zenon
  <2>8. CASE ~(apic_pc = "high" /\ pin = request.pin)
    <3> DEFINE r == asked[pin]
    <3>1. ioredtbl[pin] = EntryFor(r)
      BY <1>1, <2>5, <2>8 DEF MachineInv, RouteInv, PinInv
    <3>2. w = LowWord(r) /\ ioredtbl[pin].high = r.lapic_id
      BY <3>1 DEF EntryFor, w
    <3> HIDE DEF r
    <3>3. ~r.mask /\ r.vector = delivered'.vector
      BY <2>2, <2>3, <3>2, WordsOf, Zenon
    <3>10. NoRequest.mask
      BY DEF NoRequest
    <3>4. r # NoRequest
      BY <3>3, <3>10, Zenon
    <3>5. r.pin = pin
      BY <1>1, <2>5, <3>4 DEF MachineInv, RouteInv, PinInv, r
    <3>6. r.pin = delivered'.pin /\ r.lapic_id = delivered'.lapic_id /\ r = asked[delivered'.pin]
      BY <2>2, <3>2, <3>5 DEF r
    <3>7. last(delivered'.pin) = r
      BY <2>2, <2>8 DEF r
    <3> HIDE DEF last
    <3> QED BY <3>3, <3>6, <3>7, Zenon
  <2> QED BY <2>7, <2>8
<1>2. MachineInv /\ [Next]_vars => (delivered' # delivered => AsAsked)
  BY <1>1
<1> QED BY <1>2, MachineInvInit, MachineInvNext, PTL DEF Spec, DeliveredAsAsked

-----------------------------------------------------------------------------
(* The ISA interrupts. *)

\* An interrupt has an override, another's override goes to its number, and it
\* has a pin of its own, by the firmware's tables.
Overridden(irq) == \E o \in OfType(firmware, ISO) : MadtEntries(firmware)[o].irq_source = irq
Taken(gsi) == \E o \in OfType(firmware, ISO) : MadtEntries(firmware)[o].gsi = gsi
Own(irq) == Overridden(irq) \/ ~Taken(irq)

\* apic_init's request for an interrupt.
IsaRequest(r, irq) == r.vector = irq + FIRST_VECTOR /\ r.mask

IsaSet(irq) ==
    /\ PinFor(GsiOf(irq)) # NoPin
    /\ IsaRequest(asked[PinFor(GsiOf(irq))], irq)
    /\ GsiOf(irq) \in irq_bitmap

\* The bitmap has the GSIs of interrupts the loop has passed; those it has passed
\* are set until the first request from outside; the interrupt of the request
\* under way was not in the bitmap.
IsaBegun == apic_pc \in {"off", "no_apic", "lapic"} => i = 0 /\ irq_bitmap = {}
IsaMarked == \A g \in irq_bitmap : \E k \in 0 .. i - 1 : g = GsiOf(k)
IsaDone == requests = 0 => \A irq \in 0 .. i - 1 : Own(irq) => IsaSet(irq)
IsaUnderWay ==
    InRequest => \/ i = ISA_IRQS /\ requests # 0
                 \/ /\ i # ISA_IRQS /\ i \notin irq_bitmap
                    /\ ForIrq(request, i) /\ IsaRequest(request, i)
IsaInv == IsaBegun /\ IsaMarked /\ IsaDone /\ IsaUnderWay

\* An interrupt the loop passes over has no pin of its own.
LEMMA SkippedIsTaken ==
    ASSUME PinsApart, AcpiInv, MadtRead, NEW irq \in Irqs, NEW k \in Irqs, k # irq, GsiOf(k) = irq
    PROVE  ~Own(irq)
<1> DEFINE e == MadtEntries(firmware)
           T == OfType(firmware, ISO)
<1>1. firmware \in Firmwares
  BY DEF AcpiInv, AcpiTypeOK
<1>2. \A o, o2 \in T : o # o2 => e[o].gsi # e[o2].gsi /\ e[o].gsi # e[o2].irq_source
  BY <1>1 DEF PinsApart
<1>3. PICK o \in T : e[o].gsi = irq /\ e[o].irq_source = k
  BY GsiIs
<1>4. Taken(irq)
  BY <1>3 DEF Taken
<1>5. ~Overridden(irq)
  BY <1>2, <1>3 DEF Overridden
<1> QED BY <1>4, <1>5 DEF Own

\* The interrupt the loop is at does not go where an earlier one went that has a
\* pin of its own.
LEMMA GsisApart ==
    ASSUME PinsApart, AcpiInv, MadtRead, NEW irq \in Irqs, NEW k \in Irqs, k # irq, Own(k),
           GsiOf(k) \in irq_bitmap, irq \notin irq_bitmap
    PROVE  GsiOf(irq) # GsiOf(k)
<1> DEFINE e == MadtEntries(firmware)
           T == OfType(firmware, ISO)
<1>1. firmware \in Firmwares
  BY DEF AcpiInv, AcpiTypeOK
<1>2. \A o, o2 \in T : o # o2 => e[o].gsi # e[o2].gsi
  BY <1>1 DEF PinsApart
<1>3. CASE GsiOf(irq) = irq
  BY <1>3
<1>4. CASE \E o \in T : GsiOf(irq) = e[o].gsi /\ e[o].irq_source = irq
  <2>1. PICK o \in T : GsiOf(irq) = e[o].gsi /\ e[o].irq_source = irq
    BY <1>4
  <2>2. CASE \E o2 \in T : GsiOf(k) = e[o2].gsi /\ e[o2].irq_source = k
    BY <1>2, <2>1, <2>2
  <2>3. CASE GsiOf(k) = k /\ \A o2 \in T : e[o2].irq_source # k
    <3>1. ~Taken(k)
      BY <2>3 DEF Own, Overridden
    <3> QED BY <2>1, <2>3, <3>1 DEF Taken
  <2> QED BY <2>2, <2>3, GsiIs
<1> QED BY <1>3, <1>4, GsiIs

\* Different GSIs are at different pins.
LEMMA PinsDiffer ==
    ASSUME AcpiInv, MadtRead, NEW g \in Nat, NEW h \in Nat, g # h, PinFor(g) # NoPin
    PROVE  PinFor(g) # PinFor(h)
BY PinForGsi DEF PinsOfGsi

\* What the tables say of an interrupt does not change.
LEMMA OwnStays ==
    ASSUME firmware' = firmware
    PROVE  \A irq : Own(irq)' <=> Own(irq)
<1>1. RootOf(firmware)' = RootOf(firmware)
  BY DEF RootOf, HasXsdt
<1>2. MadtEntries(firmware)' = MadtEntries(firmware)
  BY <1>1 DEF MadtEntries, SelectInSeq
<1>3. OfType(firmware, ISO)' = OfType(firmware, ISO)
  BY <1>2 DEF OfType
<1> QED BY <1>2, <1>3 DEF Own, Overridden, Taken

\* Before apic_init's loop the bitmap is empty, and in it the MADT has been read.
LEMMA LoopAfterMadt ==
    ASSUME MachineInv, IsaInv, i # 0 \/ irq_bitmap # {}
    PROVE  MadtRead
BY DEF MachineInv, ApicAfterAcpi, IsaInv, IsaBegun

LEMMA LoopIrqs ==
    ASSUME MachineInv
    PROVE  \A k \in 0 .. i - 1 : k \in Irqs /\ k # i
<1>1. i \in 0 .. ISA_IRQS /\ ISA_IRQS \in Nat
  BY ApicAssumption DEF MachineInv, BootInv
<1> QED BY <1>1 DEF Irqs

\* A step that leaves the bitmap and the pins' last requests.
LEMMA IsaQuiet ==
    ASSUME MachineInv, IsaInv, [Next]_vars, UNCHANGED <<i, irq_bitmap, asked>>,
           requests' = 0 => requests = 0, IsaBegun', IsaUnderWay'
    PROVE  IsaInv'
<1>1. IsaMarked'
  <2> SUFFICES ASSUME NEW g \in irq_bitmap
               PROVE  \E k \in 0 .. i - 1 : g = GsiOf(k)'
    BY DEF IsaMarked
  <2>1. MadtRead
    BY LoopAfterMadt
  <2>2. PICK k \in 0 .. i - 1 : g = GsiOf(k)
    BY DEF IsaInv, IsaMarked
  <2> QED BY <2>1, <2>2, RoutesStay DEF MachineInv
<1>2. IsaDone'
  <2> SUFFICES ASSUME requests' = 0, NEW irq \in 0 .. i - 1, Own(irq)'
               PROVE  IsaSet(irq)'
    BY DEF IsaDone
  <2>1. i # 0
    OBVIOUS
  <2>2. MadtRead
    BY <2>1, LoopAfterMadt
  <2>3. Own(irq)
    BY OwnStays, RoutesStay DEF MachineInv
  <2>4. IsaSet(irq)
    BY <2>3 DEF IsaInv, IsaDone
  <2>5. GsiOf(irq)' = GsiOf(irq) /\ \A g : PinFor(g)' = PinFor(g)
    BY <2>2, RoutesStay DEF MachineInv
  <2>6. PinFor(GsiOf(irq))' = PinFor(GsiOf(irq))
    BY <2>5 DEF PinFor
  <2>7. IsaRequest(asked[PinFor(GsiOf(irq))], irq)' <=> IsaRequest(asked[PinFor(GsiOf(irq))], irq)
    BY <2>6, Zenon DEF IsaRequest
  <2> QED BY <2>4, <2>5, <2>6, <2>7 DEF IsaSet
<1> QED BY <1>1, <1>2 DEF IsaInv

\* The request under way stays what it is.
LEMMA IsaUnderWayStays ==
    ASSUME MachineInv, IsaInv, [Next]_vars, UNCHANGED <<i, irq_bitmap, request>>,
           requests' = 0 => requests = 0, InRequest' => InRequest
    PROVE  IsaUnderWay'
<1> SUFFICES ASSUME InRequest'
             PROVE  (\/ i = ISA_IRQS /\ requests # 0
                     \/ /\ i # ISA_IRQS /\ i \notin irq_bitmap
                        /\ ForIrq(request, i) /\ IsaRequest(request, i))'
  BY Zenon DEF IsaUnderWay
<1>1. MadtRead
  BY DEF InRequest, MachineInv, ApicAfterAcpi
<1>2. CASE i = ISA_IRQS /\ requests # 0
  BY <1>2
<1>3. CASE /\ i # ISA_IRQS /\ i \notin irq_bitmap
           /\ ForIrq(request, i) /\ IsaRequest(request, i)
  <2>1. ForIrq(request, i)'
    BY <1>1, <1>3, RoutesStay DEF MachineInv
  <2>2. IsaRequest(request, i)'
    BY <1>3, Zenon DEF IsaRequest
  <2> QED BY <1>3, <2>1, <2>2
<1> QED BY <1>2, <1>3 DEF IsaInv, IsaUnderWay

\* apic_init's loop passes over an interrupt.
LEMMA SkipIrqIsa ==
    ASSUME PinsApart, MachineInv, IsaInv, [Next]_vars, SkipIrq
    PROVE  IsaInv'
<1>1. /\ i \in irq_bitmap /\ i' = i + 1 /\ i < ISA_IRQS /\ apic_pc' = "loop"
      /\ UNCHANGED <<irq_bitmap, asked, requests>>
  BY DEF SkipIrq
<1>2. MadtRead
  BY <1>1, LoopAfterMadt
<1>3. i \in Irqs /\ i \in Nat
  BY <1>1, ApicAssumption DEF MachineInv, BootInv, Irqs
<1>4. (\A irq : GsiOf(irq)' = GsiOf(irq)) /\ (\A g : PinFor(g)' = PinFor(g))
  BY <1>2, RoutesStay DEF MachineInv
<1>5. IsaMarked'
  <2> SUFFICES ASSUME NEW g \in irq_bitmap
               PROVE  \E k \in 0 .. i' - 1 : g = GsiOf(k)'
    BY <1>1 DEF IsaMarked
  <2>1. PICK k \in 0 .. i - 1 : g = GsiOf(k)
    BY DEF IsaInv, IsaMarked
  <2> QED BY <1>1, <1>3, <1>4, <2>1
<1>6. ~Own(i)
  <2>1. PICK k \in 0 .. i - 1 : i = GsiOf(k)
    BY <1>1 DEF IsaInv, IsaMarked
  <2>2. k \in Irqs /\ k # i
    BY LoopIrqs
  <2> QED BY <1>2, <1>3, <2>1, <2>2, SkippedIsTaken DEF MachineInv
<1>7. IsaDone'
  <2> SUFFICES ASSUME requests' = 0, NEW irq \in 0 .. i' - 1, Own(irq)'
               PROVE  IsaSet(irq)'
    BY DEF IsaDone
  <2>1. Own(irq)
    BY OwnStays, RoutesStay DEF MachineInv
  <2>2. irq \in 0 .. i - 1
    BY <1>1, <1>3, <1>6, <2>1
  <2>3. IsaSet(irq)
    BY <1>1, <2>1, <2>2 DEF IsaInv, IsaDone
  <2>4. PinFor(GsiOf(irq))' = PinFor(GsiOf(irq))
    BY <1>4 DEF PinFor
  <2>5. IsaRequest(asked[PinFor(GsiOf(irq))], irq)' <=> IsaRequest(asked[PinFor(GsiOf(irq))], irq)
    BY <1>1, <2>4, Zenon DEF IsaRequest
  <2> QED BY <1>1, <1>4, <2>3, <2>4, <2>5 DEF IsaSet
<1>8. IsaBegun' /\ IsaUnderWay'
  BY <1>1 DEF IsaBegun, IsaUnderWay, InRequest
<1> QED BY <1>5, <1>7, <1>8 DEF IsaInv

\* It marks the GSI of the request that has returned.
LEMMA MarkGsiIsa ==
    ASSUME MachineInv, IsaInv, [Next]_vars, MarkGsi
    PROVE  IsaInv'
<1>1. /\ apic_pc = "returned" /\ i' = i + 1 /\ i < ISA_IRQS /\ apic_pc' = "loop"
      /\ irq_bitmap' = irq_bitmap \cup {request.gsi}
      /\ UNCHANGED <<asked, requests>>
  BY DEF MarkGsi
<1>2. MadtRead
  BY <1>1 DEF MachineInv, ApicAfterAcpi
<1>3. i \in Nat
  BY DEF MachineInv, BootInv
<1>4. (\A irq : GsiOf(irq)' = GsiOf(irq)) /\ (\A g : PinFor(g)' = PinFor(g))
  BY <1>2, RoutesStay DEF MachineInv
<1>5. ForIrq(request, i) /\ IsaRequest(request, i)
  BY <1>1, <1>3, ApicAssumption DEF IsaInv, IsaUnderWay, InRequest
<1>6. request.gsi = GsiOf(i) /\ request.pin = PinFor(GsiOf(i))
  BY <1>5 DEF ForIrq
<1>7. request.pin # NoPin /\ asked[request.pin] = request
  BY <1>1 DEF MachineInv, RouteInv, RequestInv, InRequest
<1>8. IsaMarked'
  <2> SUFFICES ASSUME NEW g \in irq_bitmap'
               PROVE  \E k \in 0 .. i' - 1 : g = GsiOf(k)'
    BY DEF IsaMarked
  <2>1. CASE g \in irq_bitmap
    <3>1. PICK k \in 0 .. i - 1 : g = GsiOf(k)
      BY <2>1 DEF IsaInv, IsaMarked
    <3> QED BY <1>1, <1>3, <1>4, <3>1
  <2>2. CASE g = GsiOf(i)
    BY <1>1, <1>3, <1>4, <2>2
  <2> QED BY <1>1, <1>6, <2>1, <2>2
<1>9. IsaDone'
  <2> SUFFICES ASSUME requests' = 0, NEW irq \in 0 .. i' - 1, Own(irq)'
               PROVE  IsaSet(irq)'
    BY DEF IsaDone
  <2>1. Own(irq)
    BY OwnStays, RoutesStay DEF MachineInv
  <2>2. PinFor(GsiOf(irq))' = PinFor(GsiOf(irq))
    BY <1>4 DEF PinFor
  <2>3. IsaRequest(asked[PinFor(GsiOf(irq))], irq)' <=> IsaRequest(asked[PinFor(GsiOf(irq))], irq)
    BY <1>1, <2>2, Zenon DEF IsaRequest
  <2>4. CASE irq = i
    BY <1>1, <1>4, <1>5, <1>6, <1>7, <2>2, <2>3, <2>4 DEF IsaSet
  <2>5. CASE irq \in 0 .. i - 1
    <3>1. IsaSet(irq)
      BY <1>1, <2>1, <2>5 DEF IsaInv, IsaDone
    <3> QED BY <1>1, <1>4, <2>2, <2>3, <3>1 DEF IsaSet
  <2> QED BY <1>1, <1>3, <2>4, <2>5
<1>10. IsaBegun' /\ IsaUnderWay'
  BY <1>1 DEF IsaBegun, IsaUnderWay, InRequest
<1> QED BY <1>8, <1>9, <1>10 DEF IsaInv

\* The second write ends a request: apic_init's own leaves the pins of the
\* interrupts before it alone.
LEMMA WriteHighIsa ==
    ASSUME PinsApart, MachineInv, IsaInv, [Next]_vars, WriteHigh
    PROVE  IsaInv'
<1>1. /\ apic_pc = "high" /\ apic_pc' = "returned"
      /\ asked' = [asked EXCEPT ![request.pin] = request]
      /\ UNCHANGED <<i, irq_bitmap, request, requests>>
  BY DEF WriteHigh
<1>2. MadtRead
  BY <1>1 DEF MachineInv, ApicAfterAcpi
<1>3. (\A irq : GsiOf(irq)' = GsiOf(irq)) /\ (\A g : PinFor(g)' = PinFor(g))
  BY <1>2, RoutesStay DEF MachineInv
<1>4. IsaMarked'
  <2> SUFFICES ASSUME NEW g \in irq_bitmap
               PROVE  \E k \in 0 .. i - 1 : g = GsiOf(k)'
    BY <1>1 DEF IsaMarked
  <2>1. PICK k \in 0 .. i - 1 : g = GsiOf(k)
    BY DEF IsaInv, IsaMarked
  <2> QED BY <1>3, <2>1
<1>5. IsaUnderWay'
  BY <1>1, IsaUnderWayStays DEF InRequest
<1>6. IsaDone'
  <2> SUFFICES ASSUME requests' = 0, NEW irq \in 0 .. i - 1, Own(irq)'
               PROVE  IsaSet(irq)'
    BY <1>1 DEF IsaDone
  <2>1. Own(irq)
    BY OwnStays, RoutesStay DEF MachineInv
  <2>2. IsaSet(irq)
    BY <1>1, <2>1 DEF IsaInv, IsaDone
  <2>3. i # ISA_IRQS /\ i \notin irq_bitmap /\ ForIrq(request, i)
    BY <1>1 DEF IsaInv, IsaUnderWay, InRequest
  <2>4. i \in Irqs /\ irq \in Irqs /\ irq # i
    BY <2>3, LoopIrqs, ApicAssumption DEF MachineInv, BootInv, Irqs
  <2>5. GsiOf(i) # GsiOf(irq)
    BY <1>2, <2>1, <2>2, <2>3, <2>4, GsisApart DEF MachineInv, IsaSet
  <2>6. GsiOf(i) \in Nat /\ GsiOf(irq) \in Nat
    BY <1>2, <2>4, GsiType DEF MachineInv
  <2> DEFINE p == PinFor(GsiOf(irq))
  <2>7. p # NoPin /\ IsaRequest(asked[p], irq) /\ GsiOf(irq) \in irq_bitmap
    BY <2>2 DEF IsaSet
  <2>8. p # request.pin
    BY <1>2, <2>3, <2>5, <2>6, <2>7, PinsDiffer DEF ForIrq, MachineInv
  <2>9. p \in Pins(firmware)
    BY <1>2, <2>6, <2>7, PinForGsi DEF MachineInv, PinsOfGsi
  <2>10. asked \in [Pins(firmware) -> Request]
    BY DEF MachineInv, RouteInv, ApicTypeOK
  <2>11. asked'[p] = asked[p]
    BY <1>1, <2>8, <2>9, <2>10
  <2>12. PinFor(GsiOf(irq))' = p
    BY <1>3 DEF PinFor
  <2>13. IsaRequest(asked[PinFor(GsiOf(irq))], irq)' <=> IsaRequest(asked[p], irq)
    BY <2>11, <2>12, Zenon DEF IsaRequest
  <2> QED BY <1>1, <1>3, <2>7, <2>12, <2>13 DEF IsaSet
<1>7. IsaBegun'
  BY <1>1 DEF IsaBegun
<1> QED BY <1>4, <1>5, <1>6, <1>7 DEF IsaInv

\* apic_init's loop makes a request.
LEMMA MaskIrqIsa ==
    ASSUME MachineInv, IsaInv, [Next]_vars, MaskIrq
    PROVE  IsaInv'
<1>1. /\ i < ISA_IRQS /\ i \notin irq_bitmap /\ apic_pc = "loop"
      /\ ioapic_set_irq_redirect(BSP_LAPIC, i + FIRST_VECTOR, i, TRUE)
      /\ UNCHANGED <<i, irq_bitmap, ioredtbl, requests, asked>>
  BY DEF MaskIrq
<1>2. MadtRead
  BY <1>1 DEF MachineInv, ApicAfterAcpi
<1>3. i \in Irqs /\ i + FIRST_VECTOR \in Nat /\ i # ISA_IRQS
  BY <1>1, ApicAssumption, PicAssumption DEF MachineInv, BootInv, Irqs
<1>4. requests' \in 0 .. MaxRequests
  BY <1>1 DEF MachineInv, RouteInv, ApicTypeOK
<1>5. ForIrq(request, i)' /\ request'.vector = i + FIRST_VECTOR /\ request'.mask = TRUE
  <2>1. ForIrq(request, i)' /\ request'.vector = i + FIRST_VECTOR /\ request'.mask = TRUE
    BY <1>1, <1>2, <1>3, <1>4, RequestBegins DEF MachineInv
  <2> QED BY <1>1, <2>1
<1>6. IsaRequest(request, i)'
  BY <1>1, <1>5, Zenon DEF IsaRequest
<1>7. IsaUnderWay'
  BY <1>1, <1>3, <1>5, <1>6 DEF IsaUnderWay
<1>8. IsaBegun'
  BY <1>1 DEF IsaBegun, ioapic_set_irq_redirect
<1> QED BY <1>1, <1>7, <1>8, IsaQuiet

LEMMA IsaInvNext ==
    ASSUME PinsApart, MachineInv, IsaInv, [Next]_vars
    PROVE  IsaInv'
<1>1. CASE UNCHANGED <<apic_pc, i, irq_bitmap, request, asked>> /\ (requests' = 0 => requests = 0)
  <2>1. IsaBegun'
    BY <1>1 DEF IsaInv, IsaBegun
  <2>2. IsaUnderWay'
    BY <1>1, IsaUnderWayStays DEF InRequest
  <2> QED BY <1>1, <2>1, <2>2, IsaQuiet
<1>2. CASE SkipIrq \/ MarkGsi \/ WriteHigh \/ MaskIrq
  BY <1>2, SkipIrqIsa, MarkGsiIsa, WriteHighIsa, MaskIrqIsa
<1>3. CASE WriteLow
  <2>1. /\ apic_pc = "low" /\ apic_pc' = "high"
        /\ UNCHANGED <<i, irq_bitmap, request, requests, asked>>
    BY <1>3 DEF WriteLow
  <2>2. IsaUnderWay'
    BY <2>1, IsaUnderWayStays DEF InRequest
  <2>3. IsaBegun'
    BY <2>1 DEF IsaBegun
  <2> QED BY <2>1, <2>2, <2>3, IsaQuiet
<1>4. CASE NoApic \/ EndApicInit \/ RedirectReturns \/ BeginApicInit \/ lapic_enable \/ FindHpet
           \/ hpet_init
  <2>1. /\ apic_pc' \in {"no_apic", "ready", "lapic", "loop", "hpet", "timer"}
        /\ apic_pc' \in {"no_apic", "lapic"} => apic_pc = "off"
        /\ UNCHANGED <<i, irq_bitmap, request, requests, asked>>
    BY <1>4 DEF NoApic, EndApicInit, RedirectReturns, BeginApicInit, lapic_enable, FindHpet, hpet_init
  <2>2. IsaBegun'
    BY <2>1 DEF IsaInv, IsaBegun
  <2>3. IsaUnderWay'
    BY <2>1 DEF IsaUnderWay, InRequest
  <2> QED BY <2>1, <2>2, <2>3, IsaQuiet
<1>5. ASSUME NEW lapic_id \in Lapics, NEW vector \in Vectors, NEW irq \in Irqs, NEW mask \in BOOLEAN,
             Redirect(lapic_id, vector, irq, mask)
      PROVE  IsaInv'
  <2>1. /\ apic_pc = "ready" /\ requests' = requests + 1 /\ apic_pc' \in {"panicked", "low"}
        /\ UNCHANGED <<i, irq_bitmap, asked>>
    BY <1>5 DEF Redirect, ioapic_set_irq_redirect
  <2>2. i' = ISA_IRQS /\ requests' # 0
    BY <2>1 DEF MachineInv, BootInv, RouteInv, ApicTypeOK
  <2>3. IsaUnderWay' /\ IsaBegun'
    BY <2>1, <2>2 DEF IsaUnderWay, IsaBegun
  <2> QED BY <2>1, <2>2, <2>3, IsaQuiet
<1>6. CASE (\E us \in Delays : Oneshot(us)) \/ (\E pin \in DOMAIN ioredtbl : Deliver(pin))
  <2>1. /\ UNCHANGED <<apic_pc, i, irq_bitmap, request, asked>>
        /\ requests' = requests \/ requests' = requests + 1
    BY <1>6 DEF Oneshot, Deliver
  <2>2. requests' = 0 => requests = 0
    BY <2>1 DEF MachineInv, RouteInv, ApicTypeOK
  <2> QED BY <1>1, <2>1, <2>2
<1>7. CASE UNCHANGED apic_vars \/ UNCHANGED vars
  BY <1>1, <1>7 DEF apic_vars, vars
<1> QED BY <1>2, <1>3, <1>4, <1>5, <1>6, <1>7 DEF Next, Boot, Time, ApicStep

LEMMA LeastIsMin ==
    ASSUME NEW S \in SUBSET Nat, NEW o \in S, \A n \in S : o <= n
    PROVE  Min(S) = o
<1>1. PICK m \in S : m = Min(S) /\ \A n \in S : m <= n
  BY MinIsLeast
<1>2. m \in Nat /\ o \in Nat /\ m <= o /\ o <= m
  BY <1>1
<1>3. m = o
  BY <1>2
<1> QED BY <1>1, <1>3

\* Where IsaRoutesSet looks for an interrupt is where the code sends it.
LEMMA FirstOverride ==
    ASSUME AcpiInv, MadtRead, NEW irq \in Irqs
    PROVE  LET I == {n \in OfType(firmware, ISO) : MadtEntries(firmware)[n].irq_source = irq}
           IN  GsiOf(irq) = IF Overridden(irq) THEN MadtEntries(firmware)[Min(I)].gsi ELSE irq
<1> DEFINE e == MadtEntries(firmware)
           T == OfType(firmware, ISO)
           I == {n \in T : e[n].irq_source = irq}
<1>1. T \subseteq Nat
  BY EntryTypes DEF Kept
<1>2. CASE GsiOf(irq) = irq /\ \A o \in T : e[o].irq_source # irq
  BY <1>2 DEF Overridden
<1>3. CASE \E o \in T : /\ GsiOf(irq) = e[o].gsi /\ e[o].irq_source = irq
                        /\ \A o2 \in T : e[o2].irq_source = irq => o <= o2
  <2>1. PICK o \in T : /\ GsiOf(irq) = e[o].gsi /\ e[o].irq_source = irq
                       /\ \A o2 \in T : e[o2].irq_source = irq => o <= o2
    BY <1>3
  <2>2. o \in I /\ I \subseteq Nat /\ \A n \in I : o <= n
    BY <1>1, <2>1
  <2>3. Overridden(irq)
    BY <2>1 DEF Overridden
  <2> HIDE DEF I
  <2>4. Min(I) = o
    BY <2>2, LeastIsMin
  <2> QED BY <2>1, <2>3, <2>4 DEF I
<1> QED BY <1>2, <1>3, GsiIs

\* For every firmware, on machines where a GSI is at one pin and overrides stay
\* apart, and go to GSIs that apic_init's bitmap has a bit for: when apic_init
\* returns, each ISA interrupt with a pin of its own is masked there and has its
\* vector, whatever the order of the overrides, and no bit behind the bitmap is set.
THEOREM IsaRoutesAreSet ==
    ASSUME PinsApart, GsisFit
    PROVE  Spec => []IsaRoutesSet
<1>1. MachineInv /\ IsaInv => IsaRoutesSet
  <2>0. ASSUME MachineInv, IsaInv PROVE irq_bitmap \subseteq 0 .. IRQ_BITMAP_BITS - 1
    <3> SUFFICES ASSUME NEW g \in irq_bitmap PROVE g \in 0 .. IRQ_BITMAP_BITS - 1
      OBVIOUS
    <3>1. PICK k \in 0 .. i - 1 : g = GsiOf(k)
      BY <2>0 DEF IsaInv, IsaMarked
    <3>2. MadtRead /\ k \in Irqs /\ AcpiInv /\ firmware \in Firmwares
      BY <2>0, LoopAfterMadt, LoopIrqs DEF MachineInv, AcpiInv, AcpiTypeOK
    <3>3. g \in Nat
      BY <3>1, <3>2, GsiType
    <3>4. g < IRQ_BITMAP_BITS
      <4>1. CASE GsiOf(k) = k
        BY <3>1, <3>2, <4>1, ApicAssumption DEF GsisFit, Irqs
      <4>2. CASE \E o \in OfType(firmware, ISO) : GsiOf(k) = MadtEntries(firmware)[o].gsi
        BY <3>1, <3>2, <4>2 DEF GsisFit
      <4> QED BY <3>2, <4>1, <4>2, GsiIs
    <3> QED BY <3>3, <3>4, ApicAssumption
  <2> SUFFICES ASSUME MachineInv, IsaInv, apic_pc = "ready", requests = 0,
                      NEW irq \in Irqs,
                      irq \in {o.irq_source : o \in Overrides} \/ irq \notin {o.gsi : o \in Overrides},
                      NEW p \in PinsOfGsi(
                          IF irq \in {o.irq_source : o \in Overrides}
                          THEN MadtEntries(firmware)[
                                   Min({n \in OfType(firmware, ISO) :
                                            MadtEntries(firmware)[n].irq_source = irq})].gsi
                          ELSE irq)
               PROVE  ioredtbl[p].low.vector = irq + FIRST_VECTOR /\ ioredtbl[p].low.mask
    BY <2>0, Zenon DEF IsaRoutesSet
  <2>1. /\ irq \in {o.irq_source : o \in Overrides} <=> Overridden(irq)
        /\ irq \in {o.gsi : o \in Overrides} <=> Taken(irq)
    BY DEF Overrides, Overridden, Taken
  <2>2. MadtRead /\ i = ISA_IRQS /\ firmware \in Firmwares
    BY DEF MachineInv, ApicAfterAcpi, BootInv
  <2> DEFINE g == GsiOf(irq)
             q == PinFor(g)
  <2>3. p \in PinsOfGsi(g)
    BY <2>1, <2>2, FirstOverride DEF MachineInv
  <2>4. IsaSet(irq)
    BY <2>1, <2>2 DEF IsaInv, IsaDone, Own, Irqs
  <2>5. q # NoPin /\ IsaRequest(asked[q], irq)
    BY <2>4 DEF IsaSet
  <2>6. g \in Nat
    BY <2>2, GsiType DEF MachineInv
  <2>7. q \in PinsOfGsi(g)
    BY <2>2, <2>5, <2>6, PinForGsi DEF MachineInv
  <2> HIDE DEF q, g
  <2>8. p = q /\ p \in Pins(firmware)
    BY <2>2, <2>3, <2>7 DEF PinsOfGsi, PinsApart
  <2>9. ioredtbl[p] = EntryFor(asked[p])
    BY <2>8 DEF MachineInv, RouteInv, PinInv
  <2>10. ioredtbl[p].low = LowWord(asked[p])
    BY <2>9 DEF EntryFor
  <2>11. ioredtbl[p].low.vector = asked[p].vector /\ ioredtbl[p].low.mask = asked[p].mask
    BY <2>10, WordsOf
  <2> QED BY <2>5, <2>8, <2>11, Zenon DEF IsaRequest
<1>2. Init => IsaInv
  BY ApicAssumption DEF Init, IsaInv, IsaBegun, IsaMarked, IsaDone, IsaUnderWay, InRequest
<1>3. MachineInv /\ IsaInv /\ [Next]_vars => MachineInv' /\ IsaInv'
  BY MachineInvNext, IsaInvNext
<1> QED BY <1>1, <1>2, <1>3, MachineInvInit, PTL DEF Spec
=============================================================================
