---------------------------- MODULE SerialProof -----------------------------
(***************************************************************************)
(* The safety properties of Serial for any number of CPUs.                 *)
(*                                                                         *)
(* What a context still has to execute is a suffix of a program.  The      *)
(* proof never looks at positions in a program: it uses facts of the form  *)
(* "between an F and a later T there is an A", which every suffix of a     *)
(* program inherits, and "the next T comes before any A", which is how a   *)
(* suffix tells what its context holds, has saved or has formatted.        *)
(***************************************************************************)
EXTENDS Serial, SequenceTheorems, TLAPS

-----------------------------------------------------------------------------
(* Sequences of instructions *)

\* Every T of p has an A before it.
Before(p, T, A) ==
    \A m \in DOMAIN p : p[m] \in T => \E k \in 1 .. m - 1 : p[k] \in A

\* Between every F of p and a later T there is an A.
Between(p, F, T, A) ==
    \A n, m \in DOMAIN p :
        n < m /\ p[n] \in F /\ p[m] \in T => \E k \in n + 1 .. m - 1 : p[k] \in A

\* Every F of p has an A after it.
Followed(p, F, A) ==
    \A n \in DOMAIN p : p[n] \in F => \E k \in n + 1 .. Len(p) : p[k] \in A

\* Right after every F of p there is an S.
Then(p, F, S) ==
    \A n \in DOMAIN p : p[n] \in F => n + 1 \in DOMAIN p /\ p[n + 1] \in S

\* The head and the rest of a sequence, by index.
LEMMA TailFacts ==
    ASSUME NEW S, NEW p \in Seq(S), p # <<>>
    PROVE  /\ Tail(p) \in Seq(S) /\ Head(p) \in S /\ Head(p) = p[1] /\ 1 \in DOMAIN p
           /\ \A n \in DOMAIN Tail(p) : Tail(p)[n] = p[n + 1] /\ n + 1 \in DOMAIN p /\ n \in Nat \ {0}
           /\ \A n \in DOMAIN p : n \in Nat \ {0} /\ (n > 1 => n - 1 \in DOMAIN Tail(p)
                                                          /\ Tail(p)[n - 1] = p[n])
  OBVIOUS

\* A T that the head is not an A for stays the next one.
LEMMA BeforeTail ==
    ASSUME NEW S, NEW p \in Seq(S), p # <<>>, NEW T, NEW A,
           Before(p, T, A), Head(p) \notin A
    PROVE  Before(Tail(p), T, A)
<1> SUFFICES ASSUME NEW m \in DOMAIN Tail(p), Tail(p)[m] \in T
             PROVE  \E k \in 1 .. m - 1 : Tail(p)[k] \in A
  BY DEF Before
<1>1. m + 1 \in DOMAIN p /\ p[m + 1] \in T /\ m \in Nat \ {0}
  BY TailFacts
<1>2. PICK k \in 1 .. (m + 1) - 1 : p[k] \in A
  BY <1>1 DEF Before
<1>3. k # 1
  BY <1>2, TailFacts
<1>4. k - 1 \in 1 .. m - 1 /\ k - 1 \in DOMAIN Tail(p) /\ Tail(p)[k - 1] = p[k]
  BY <1>1, <1>2, <1>3
<1> QED BY <1>2, <1>4

\* What was before every T may have been taken off only by taking the T's off.
LEMMA HeadIsFirst ==
    ASSUME NEW S, NEW p \in Seq(S), p # <<>>, NEW T, NEW A, Before(p, T, A)
    PROVE  Head(p) \notin T
  BY TailFacts DEF Before

\* What holds between an F and a later T holds of the rest; once the F is
\* executed, an A comes before the next T.
LEMMA BetweenTail ==
    ASSUME NEW S, NEW p \in Seq(S), p # <<>>, NEW F, NEW T, NEW A, Between(p, F, T, A)
    PROVE  /\ Between(Tail(p), F, T, A)
           /\ Head(p) \in F => Before(Tail(p), T, A)
<1>1. ASSUME NEW n \in DOMAIN p, NEW m \in DOMAIN Tail(p), n < m + 1, p[n] \in F, Tail(p)[m] \in T
      PROVE  \E k \in n .. m - 1 : Tail(p)[k] \in A
  <2>1. m + 1 \in DOMAIN p /\ p[m + 1] \in T /\ m \in Nat /\ n \in Nat \ {0}
    BY <1>1, TailFacts
  <2>2. PICK k \in n + 1 .. (m + 1) - 1 : p[k] \in A
    BY <1>1, <2>1 DEF Between
  <2>3. k - 1 \in n .. m - 1 /\ k - 1 \in DOMAIN Tail(p) /\ Tail(p)[k - 1] = p[k]
    BY <2>1, <2>2
  <2> QED BY <2>2, <2>3
<1>2. Between(Tail(p), F, T, A)
  <2> SUFFICES ASSUME NEW n \in DOMAIN Tail(p), NEW m \in DOMAIN Tail(p),
                      n < m, Tail(p)[n] \in F, Tail(p)[m] \in T
               PROVE  \E k \in n + 1 .. m - 1 : Tail(p)[k] \in A
    BY DEF Between
  <2>1. n + 1 \in DOMAIN p /\ p[n + 1] \in F /\ n + 1 < m + 1
    BY TailFacts
  <2> QED BY <1>1, <2>1
<1>3. ASSUME Head(p) \in F PROVE Before(Tail(p), T, A)
  <2>1. \A m \in DOMAIN Tail(p) : 1 < m + 1
    BY TailFacts
  <2> QED BY <1>1, <1>3, <2>1, TailFacts DEF Before
<1> QED BY <1>2, <1>3

\* Of an F that is executed the successor is next.
LEMMA ThenTail ==
    ASSUME NEW S, NEW p \in Seq(S), p # <<>>, NEW F, NEW G, Then(p, F, G)
    PROVE  /\ Then(Tail(p), F, G)
           /\ Head(p) \in F => Tail(p) # <<>> /\ Head(Tail(p)) \in G
  BY DEF Then

\* Two sequences one after the other, by index.
LEMMA ConcatFacts ==
    ASSUME NEW S, NEW p \in Seq(S), NEW q \in Seq(S)
    PROVE  /\ p \o q \in Seq(S)
           /\ DOMAIN p = 1 .. Len(p) /\ DOMAIN q = 1 .. Len(q)
           /\ DOMAIN (p \o q) = 1 .. Len(p) + Len(q) /\ Len(p) \in Nat /\ Len(q) \in Nat
           /\ Len(p \o q) = Len(p) + Len(q)
           /\ \A n \in DOMAIN p : (p \o q)[n] = p[n]
           /\ \A n \in DOMAIN q : (p \o q)[Len(p) + n] = q[n]
  OBVIOUS

\* An A before the first T of a program, when another one follows it.
LEMMA BeforeConcat ==
    ASSUME NEW S, NEW p \in Seq(S), NEW q \in Seq(S), NEW T, NEW A,
           Before(p, T, A), Before(q, T, A) \/ \E k \in DOMAIN p : p[k] \in A
    PROVE  Before(p \o q, T, A)
<1> SUFFICES ASSUME NEW m \in DOMAIN (p \o q), (p \o q)[m] \in T
             PROVE  \E k \in 1 .. m - 1 : (p \o q)[k] \in A
  BY DEF Before
<1>1. CASE m <= Len(p)
  <2>1. m \in DOMAIN p /\ p[m] \in T /\ m \in Nat
    BY <1>1, ConcatFacts
  <2>2. PICK k \in 1 .. m - 1 : p[k] \in A
    BY <2>1 DEF Before
  <2> QED BY <1>1, <2>1, <2>2, ConcatFacts
<1>2. CASE m > Len(p)
  <2> DEFINE j == m - Len(p)
  <2>1. j \in DOMAIN q /\ m = Len(p) + j /\ q[j] \in T /\ m \in Nat /\ j \in Nat
    BY <1>2, ConcatFacts
  <2>2. CASE Before(q, T, A)
    <3>1. PICK k \in 1 .. j - 1 : q[k] \in A
      BY <2>1, <2>2 DEF Before
    <3>2. k \in DOMAIN q /\ Len(p) + k \in 1 .. m - 1
      BY <2>1, <3>1, ConcatFacts
    <3>3. (p \o q)[Len(p) + k] = q[k]
      BY <3>2, ConcatFacts
    <3> QED BY <3>1, <3>2, <3>3
  <2>3. CASE \E k \in DOMAIN p : p[k] \in A
    <3>1. PICK k \in DOMAIN p : p[k] \in A
      BY <2>3
    <3>2. k \in 1 .. m - 1
      BY <1>2, <2>1, <3>1, ConcatFacts
    <3> QED BY <3>1, <3>2, ConcatFacts
  <2> QED BY <2>2, <2>3
<1>3. m \in Nat /\ Len(p) \in Nat
  BY ConcatFacts
<1> QED BY <1>1, <1>2, <1>3

\* Nothing new lies between an F and a T of two programs in a row if the
\* first leaves no F open, or the second has its A in time.
LEMMA BetweenConcat ==
    ASSUME NEW S, NEW p \in Seq(S), NEW q \in Seq(S), NEW F, NEW T, NEW A,
           Between(p, F, T, A), Between(q, F, T, A),
           Before(q, T, A) \/ Followed(p, F, A)
    PROVE  Between(p \o q, F, T, A)
<1> SUFFICES ASSUME NEW n \in DOMAIN (p \o q), NEW m \in DOMAIN (p \o q),
                    n < m, (p \o q)[n] \in F, (p \o q)[m] \in T
             PROVE  \E k \in n + 1 .. m - 1 : (p \o q)[k] \in A
  BY DEF Between
<1>1. m \in Nat /\ n \in Nat \ {0} /\ Len(p) \in Nat
  BY ConcatFacts
<1>2. CASE m <= Len(p)
  <2>1. n \in DOMAIN p /\ m \in DOMAIN p /\ p[n] \in F /\ p[m] \in T
    BY <1>1, <1>2, ConcatFacts
  <2>2. PICK k \in n + 1 .. m - 1 : p[k] \in A
    BY <2>1 DEF Between
  <2> QED BY <1>1, <1>2, <2>2, ConcatFacts
<1>3. CASE n > Len(p)
  <2> DEFINE i == n - Len(p)
             j == m - Len(p)
  <2>1. i \in DOMAIN q /\ j \in DOMAIN q /\ n = Len(p) + i /\ m = Len(p) + j /\ i < j
        /\ i \in Nat /\ j \in Nat /\ q[i] \in F /\ q[j] \in T
    BY <1>1, <1>3, ConcatFacts
  <2>2. PICK k \in i + 1 .. j - 1 : q[k] \in A
    BY <2>1 DEF Between
  <2>3. k \in DOMAIN q /\ Len(p) + k \in n + 1 .. m - 1
    <3>1. i \in 1 .. Len(q) /\ j \in 1 .. Len(q) /\ Len(q) \in Nat /\ DOMAIN q = 1 .. Len(q)
      BY <2>1, ConcatFacts
    <3> HIDE DEF i, j
    <3> QED BY <1>1, <2>1, <2>2, <3>1
  <2>4. (p \o q)[Len(p) + k] = q[k]
    <3> HIDE DEF i, j
    <3>1. k \in DOMAIN q
      BY <2>3
    <3> QED BY <3>1, ConcatFacts
  <2> QED BY <2>2, <2>3, <2>4
<1>4. CASE n <= Len(p) /\ m > Len(p)
  <2> DEFINE j == m - Len(p)
  <2>1. n \in DOMAIN p /\ p[n] \in F /\ j \in DOMAIN q /\ m = Len(p) + j /\ q[j] \in T /\ j \in Nat
    BY <1>1, <1>4, ConcatFacts
  <2>2. CASE Before(q, T, A)
    <3>1. PICK k \in 1 .. j - 1 : q[k] \in A
      BY <2>1, <2>2 DEF Before
    <3>2. k \in DOMAIN q /\ Len(p) + k \in n + 1 .. m - 1
      BY <1>1, <1>4, <2>1, <3>1, ConcatFacts
    <3>3. (p \o q)[Len(p) + k] = q[k]
      BY <3>2, ConcatFacts
    <3> QED BY <3>1, <3>2, <3>3
  <2>3. CASE Followed(p, F, A)
    <3>1. PICK k \in n + 1 .. Len(p) : p[k] \in A
      BY <2>1, <2>3 DEF Followed
    <3>2. k \in DOMAIN p /\ k \in n + 1 .. m - 1
      BY <1>1, <1>4, <2>1, <3>1, ConcatFacts
    <3> QED BY <3>1, <3>2, ConcatFacts
  <2> QED BY <2>2, <2>3
<1> QED BY <1>1, <1>2, <1>3, <1>4

\* Neither does the successor of an F change.
LEMMA ThenConcat ==
    ASSUME NEW S, NEW p \in Seq(S), NEW q \in Seq(S), NEW F, NEW G,
           Then(p, F, G), Then(q, F, G)
    PROVE  Then(p \o q, F, G)
<1> SUFFICES ASSUME NEW n \in DOMAIN (p \o q), (p \o q)[n] \in F
             PROVE  n + 1 \in DOMAIN (p \o q) /\ (p \o q)[n + 1] \in G
  BY DEF Then
<1>1. n \in Nat \ {0} /\ Len(p) \in Nat
  BY ConcatFacts
<1>2. CASE n <= Len(p)
  <2>1. n \in DOMAIN p /\ p[n] \in F
    BY <1>1, <1>2, ConcatFacts
  <2>2. n + 1 \in DOMAIN p /\ p[n + 1] \in G
    BY <2>1 DEF Then
  <2> QED BY <2>2, ConcatFacts
<1>3. CASE n > Len(p)
  <2> DEFINE j == n - Len(p)
  <2>1. j \in DOMAIN q /\ n = Len(p) + j /\ q[j] \in F /\ j \in Nat
    BY <1>1, <1>3, ConcatFacts
  <2>2. j + 1 \in DOMAIN q /\ q[j + 1] \in G
    BY <2>1 DEF Then
  <2>3. n + 1 = Len(p) + (j + 1)
    BY <2>1, <1>1
  <2>4. (p \o q)[Len(p) + (j + 1)] = q[j + 1] /\ Len(p) + (j + 1) \in DOMAIN (p \o q)
    <3> HIDE DEF j
    <3> QED BY <2>1, <2>2, ConcatFacts
  <2> QED BY <2>2, <2>3, <2>4
<1> QED BY <1>1, <1>2, <1>3

-----------------------------------------------------------------------------
(* Instructions, and the rules that every program obeys *)

Format(b, from) == [op |-> "format", on |-> b, from |-> from]
Sources == {log_buffer, "arguments"}
Sent == {debug_buffer, "color_code"}
LockOps == {"test_and_set", "save", "cli", "restore", "clear"}

Instructions ==
    {Instr(op, l) : op \in LockOps, l \in Locks}
        \cup {Instr(op, b) : op \in {"send_first", "send_last"}, b \in Sent}
        \cup {Format(log_buffer, "arguments")} \cup {Format(debug_buffer, from) : from \in Sources}
        \cup {Instr("eoi", "lapic"), Instr("halt", "cpu")}

\* The instructions that lock l protects, those that end its acquire included.
Guarded(l) ==
    {i \in Instructions :
        \/ i.on = l /\ i.op # "test_and_set"
        \/ l = log_lock /\ (i.on = log_buffer \/ i = Format(debug_buffer, log_buffer))
        \/ l = debug_lock /\ i.on \in Sent}

\* No buffer is used, and nothing sent, after a clear of the lock before the
\* next test_and_set; interrupts are restored once per cli, from the flag saved
\* since the test_and_set; save, cli and clear come where spinlock.c has them.
LockRules(p, l) ==
    /\ Between(p, {Instr("clear", l)}, Guarded(l), {Instr("test_and_set", l)})
    /\ Between(p, {Instr("restore", l)}, {Instr("restore", l)}, {Instr("cli", l)})
    /\ Between(p, {Instr("test_and_set", l)}, {Instr("restore", l)}, {Instr("save", l)})
    /\ Between(p, Instructions \ {Instr("restore", l)}, {Instr("clear", l)}, {Instr("restore", l)})
    /\ Between(p, Instructions \ {Instr("save", l)}, {Instr("cli", l)}, {Instr("save", l)})
    /\ Between(p, Instructions \ {Instr("test_and_set", l)}, {Instr("save", l)},
               {Instr("test_and_set", l)})

\* The same for what a whole program begins with.
LockFresh(p, l) ==
    /\ Before(p, Guarded(l), {Instr("test_and_set", l)})
    /\ Before(p, {Instr("restore", l)}, {Instr("cli", l)})
    /\ Before(p, {Instr("restore", l)}, {Instr("save", l)})
    /\ Before(p, {Instr("clear", l)}, {Instr("restore", l)})
    /\ Before(p, {Instr("cli", l)}, {Instr("save", l)})
    /\ Before(p, {Instr("save", l)}, {Instr("test_and_set", l)})

DebugFormats == {Format(debug_buffer, from) : from \in Sources}

\* debug formats its text right before it sends it, and sends the last
\* character right after the first.
SendRules(p) ==
    /\ Between(p, Instructions \ DebugFormats, {Instr("send_first", debug_buffer)}, DebugFormats)
    /\ \A b \in Sent :
        /\ Between(p, Instructions \ {Instr("send_first", b)}, {Instr("send_last", b)},
                   {Instr("send_first", b)})
        /\ Then(p, {Instr("send_first", b)}, {Instr("send_last", b)})

SendFresh(p) ==
    /\ Before(p, {Instr("send_first", debug_buffer)}, DebugFormats)
    /\ \A b \in Sent : Before(p, {Instr("send_last", b)}, {Instr("send_first", b)})

\* How the two locks nest: debug's is taken and given back inside log's.
NestRules(p) ==
    /\ Between(p, {Instr("restore", log_lock)}, {Instr("restore", debug_lock)},
               {Instr("cli", debug_lock)})
    /\ Between(p, {Instr("cli", log_lock)}, {Instr("restore", debug_lock)},
               {Instr("save", debug_lock)})
    /\ Between(p, {Instr("test_and_set", log_lock)}, {Format(debug_buffer, log_buffer)},
               {Format(log_buffer, "arguments")})

NestFresh(p) ==
    Before(p, {Format(debug_buffer, log_buffer)}, {Format(log_buffer, "arguments")})

DebugRules(p) == LockRules(p, debug_lock) /\ SendRules(p)
DebugFresh(p) == LockFresh(p, debug_lock) /\ SendFresh(p)
Obeys(p) == DebugRules(p) /\ LockRules(p, log_lock) /\ NestRules(p)
Fresh(p) == DebugFresh(p) /\ LockFresh(p, log_lock) /\ NestFresh(p)

\* A program that obeys the rules of locking still does after a step.
LEMMA ObeysTail ==
    ASSUME NEW p \in Seq(Instructions), p # <<>>, Obeys(p)
    PROVE  Obeys(Tail(p))
<1>1. ASSUME NEW l \in Locks, LockRules(p, l) PROVE LockRules(Tail(p), l)
  BY <1>1, BetweenTail DEF LockRules
<1>2. SendRules(Tail(p))
  BY BetweenTail, ThenTail DEF Obeys, DebugRules, SendRules
<1>3. NestRules(Tail(p))
  BY BetweenTail DEF Obeys, NestRules
<1> QED BY <1>1, <1>2, <1>3 DEF Obeys, DebugRules, Locks

\* Programs that only print with debug follow one another.
LEMMA DebugConcat ==
    ASSUME NEW p \in Seq(Instructions), NEW q \in Seq(Instructions),
           DebugRules(p), DebugRules(q), DebugFresh(q)
    PROVE  DebugRules(p \o q)
<1>1. LockRules(p \o q, debug_lock)
  BY BetweenConcat DEF DebugRules, DebugFresh, LockRules, LockFresh
<1>2. SendRules(p \o q)
  BY BetweenConcat, ThenConcat DEF DebugRules, DebugFresh, SendRules, SendFresh
<1> QED BY <1>1, <1>2 DEF DebugRules

\* Two calls of debug in a row start with debug_buffer not yet filled.
LEMMA DebugFreshConcat ==
    ASSUME NEW p \in Seq(Instructions), NEW q \in Seq(Instructions),
           DebugFresh(p), DebugFresh(q)
    PROVE  DebugFresh(p \o q)
<1>1. LockFresh(p \o q, debug_lock)
  BY BeforeConcat DEF DebugFresh, LockFresh
<1>2. SendFresh(p \o q)
  BY BeforeConcat DEF DebugFresh, SendFresh
<1> QED BY <1>1, <1>2 DEF DebugFresh

-----------------------------------------------------------------------------
(* The programs obey the rules *)

\* No instruction of p is about log_lock or log_buffer.
OutsideLog(p) == \A n \in DOMAIN p : p[n].on \notin {log_lock, log_buffer}

\* Nor does it read log_buffer.
QuietForLog(p) == OutsideLog(p) /\ \A n \in DOMAIN p : p[n] # Format(debug_buffer, log_buffer)

Closed(p) == p \in Seq(Instructions) /\ DebugRules(p) /\ DebugFresh(p)

\* The instructions that the functions of log.c, debug.c, com.c and isr.c are
\* made of.
LEMMA InstructionFacts ==
    /\ \A op \in LockOps, l \in Locks : Instr(op, l) \in Instructions
    /\ \A op \in {"send_first", "send_last"}, b \in Sent : Instr(op, b) \in Instructions
    /\ Format(log_buffer, "arguments") \in Instructions
    /\ \A from \in Sources : Format(debug_buffer, from) \in Instructions
    /\ Instr("eoi", "lapic") \in Instructions /\ Instr("halt", "cpu") \in Instructions
    /\ \A op, on : Instr(op, on).op = op /\ Instr(op, on).on = on
    /\ \A on, from : /\ Format(on, from).op = "format" /\ Format(on, from).on = on
                     /\ Format(on, from).from = from
<1>1. \A op \in LockOps, l \in Locks : Instr(op, l) \in Instructions
  BY DEF Instructions
<1>2. \A op \in {"send_first", "send_last"}, b \in Sent : Instr(op, b) \in Instructions
  BY DEF Instructions
<1>3. /\ Format(log_buffer, "arguments") \in Instructions
      /\ \A from \in Sources : Format(debug_buffer, from) \in Instructions
  BY DEF Instructions
<1>4. Instr("eoi", "lapic") \in Instructions /\ Instr("halt", "cpu") \in Instructions
  BY DEF Instructions
<1>5. \A op, on : Instr(op, on).op = op /\ Instr(op, on).on = on
  BY DEF Instr
<1>6. \A on, from : /\ Format(on, from).op = "format" /\ Format(on, from).on = on
                     /\ Format(on, from).from = from
  BY DEF Format
<1> QED BY <1>1, <1>2, <1>3, <1>4, <1>5, <1>6

\* debug_set_color, instruction by instruction.
LEMMA SetColorIs ==
    /\ debug_set_color \in Seq(Instructions) /\ Len(debug_set_color) = 7
    /\ debug_set_color[1] = Instr("test_and_set", debug_lock)
    /\ debug_set_color[2] = Instr("save", debug_lock)
    /\ debug_set_color[3] = Instr("cli", debug_lock)
    /\ debug_set_color[4] = Instr("send_first", "color_code")
    /\ debug_set_color[5] = Instr("send_last", "color_code")
    /\ debug_set_color[6] = Instr("restore", debug_lock)
    /\ debug_set_color[7] = Instr("clear", debug_lock)
<1> DEFINE a == spinlock_acquire(debug_lock)
           b == com_send_string("color_code")
           c == spinlock_release(debug_lock)
<1>1. a \in Seq(Instructions) /\ b \in Seq(Instructions) /\ c \in Seq(Instructions)
  BY InstructionFacts DEF spinlock_acquire, com_send_string, spinlock_release, LockOps, Locks, Sent
<1>2. /\ Len(a) = 3 /\ a[1] = Instr("test_and_set", debug_lock) /\ a[2] = Instr("save", debug_lock)
      /\ a[3] = Instr("cli", debug_lock)
      /\ Len(b) = 2 /\ b[1] = Instr("send_first", "color_code")
      /\ b[2] = Instr("send_last", "color_code")
      /\ Len(c) = 2 /\ c[1] = Instr("restore", debug_lock) /\ c[2] = Instr("clear", debug_lock)
  BY DEF spinlock_acquire, com_send_string, spinlock_release
<1>3. debug_set_color = (a \o b) \o c
  BY DEF debug_set_color
<1> HIDE DEF a, b, c
<1> DEFINE g == a \o b
<1>4. /\ g \in Seq(Instructions) /\ Len(g) = Len(a) + Len(b)
      /\ DOMAIN a = 1 .. Len(a) /\ DOMAIN b = 1 .. Len(b)
      /\ \A n \in DOMAIN a : g[n] = a[n]
      /\ \A n \in DOMAIN b : g[Len(a) + n] = b[n]
  BY <1>1, ConcatFacts
<1> HIDE DEF g
<1>5. /\ g \o c \in Seq(Instructions) /\ Len(g \o c) = Len(g) + Len(c)
      /\ DOMAIN g = 1 .. Len(g) /\ DOMAIN c = 1 .. Len(c)
      /\ \A n \in DOMAIN g : (g \o c)[n] = g[n]
      /\ \A n \in DOMAIN c : (g \o c)[Len(g) + n] = c[n]
  <2>1. g \in Seq(Instructions)
    BY <1>4
  <2> QED BY <1>1, <2>1, ConcatFacts
<1>6. /\ Len(g) = 5 /\ g[1] = a[1] /\ g[2] = a[2] /\ g[3] = a[3] /\ g[4] = b[1] /\ g[5] = b[2]
  BY <1>2, <1>4
<1> DEFINE h == g \o c
<1>7. debug_set_color = h
  BY <1>3 DEF g
<1> HIDE DEF h
<1>8. /\ h \in Seq(Instructions) /\ Len(h) = 7
      /\ h[1] = g[1] /\ h[2] = g[2] /\ h[3] = g[3] /\ h[4] = g[4] /\ h[5] = g[5]
      /\ h[6] = c[1] /\ h[7] = c[2]
  BY <1>2, <1>5, <1>6 DEF h
<1> QED BY <1>2, <1>6, <1>7, <1>8

\* debug, instruction by instruction.
LEMMA DebugIs ==
    ASSUME NEW from \in Sources
    PROVE  /\ debug(from) \in Seq(Instructions) /\ Len(debug(from)) = 8
           /\ debug(from)[1] = Instr("test_and_set", debug_lock)
           /\ debug(from)[2] = Instr("save", debug_lock)
           /\ debug(from)[3] = Instr("cli", debug_lock)
           /\ debug(from)[4] = Format(debug_buffer, from)
           /\ debug(from)[5] = Instr("send_first", debug_buffer)
           /\ debug(from)[6] = Instr("send_last", debug_buffer)
           /\ debug(from)[7] = Instr("restore", debug_lock)
           /\ debug(from)[8] = Instr("clear", debug_lock)
<1> DEFINE a == spinlock_acquire(debug_lock)
           f == vsnprintf(debug_buffer, from)
           b == com_send_string(debug_buffer)
           c == spinlock_release(debug_lock)
<1>1. a \in Seq(Instructions) /\ b \in Seq(Instructions) /\ c \in Seq(Instructions)
  BY InstructionFacts DEF spinlock_acquire, com_send_string, spinlock_release, LockOps, Locks, Sent
<1>2. /\ Len(a) = 3 /\ a[1] = Instr("test_and_set", debug_lock) /\ a[2] = Instr("save", debug_lock)
      /\ a[3] = Instr("cli", debug_lock)
      /\ Len(b) = 2 /\ b[1] = Instr("send_first", debug_buffer)
      /\ b[2] = Instr("send_last", debug_buffer)
      /\ Len(c) = 2 /\ c[1] = Instr("restore", debug_lock) /\ c[2] = Instr("clear", debug_lock)
  BY DEF spinlock_acquire, com_send_string, spinlock_release
<1>3. f \in Seq(Instructions) /\ Len(f) = 1 /\ f[1] = Format(debug_buffer, from)
  <2>1. f = <<Format(debug_buffer, from)>> /\ Format(debug_buffer, from) \in Instructions
    BY InstructionFacts DEF vsnprintf, Format, Buffers
  <2> HIDE DEF f
  <2> QED BY <2>1
<1>4. debug(from) = ((a \o f) \o b) \o c
  BY DEF debug
<1> HIDE DEF a, b, c, f
<1> DEFINE g == a \o f
<1>5. /\ g \in Seq(Instructions) /\ Len(g) = Len(a) + Len(f)
      /\ DOMAIN a = 1 .. Len(a) /\ DOMAIN f = 1 .. Len(f)
      /\ \A n \in DOMAIN a : g[n] = a[n]
      /\ \A n \in DOMAIN f : g[Len(a) + n] = f[n]
  <2>1. f \in Seq(Instructions)
    BY <1>3
  <2> QED BY <1>1, <2>1, ConcatFacts
<1>6. Len(g) = 4 /\ g[1] = a[1] /\ g[2] = a[2] /\ g[3] = a[3] /\ g[4] = f[1]
  BY <1>2, <1>3, <1>5
<1> HIDE DEF g
<1> DEFINE h == g \o b
<1>7. /\ h \in Seq(Instructions) /\ Len(h) = Len(g) + Len(b)
      /\ DOMAIN g = 1 .. Len(g) /\ DOMAIN b = 1 .. Len(b)
      /\ \A n \in DOMAIN g : h[n] = g[n]
      /\ \A n \in DOMAIN b : h[Len(g) + n] = b[n]
  <2>1. g \in Seq(Instructions)
    BY <1>5
  <2> QED BY <1>1, <2>1, ConcatFacts
<1> HIDE DEF h
<1>8. /\ Len(h) = 6 /\ h[1] = g[1] /\ h[2] = g[2] /\ h[3] = g[3] /\ h[4] = g[4]
      /\ h[5] = b[1] /\ h[6] = b[2]
  BY <1>2, <1>6, <1>7
<1> DEFINE d == h \o c
<1>9. /\ d \in Seq(Instructions) /\ Len(d) = Len(h) + Len(c)
      /\ DOMAIN h = 1 .. Len(h) /\ DOMAIN c = 1 .. Len(c)
      /\ \A n \in DOMAIN h : d[n] = h[n]
      /\ \A n \in DOMAIN c : d[Len(h) + n] = c[n]
  <2>1. h \in Seq(Instructions)
    BY <1>7
  <2> QED BY <1>1, <2>1, ConcatFacts
<1>10. debug(from) = d
  BY <1>4 DEF g, h
<1> HIDE DEF d
<1>11. /\ Len(d) = 8 /\ d[1] = h[1] /\ d[2] = h[2] /\ d[3] = h[3] /\ d[4] = h[4]
       /\ d[5] = h[5] /\ d[6] = h[6] /\ d[7] = c[1] /\ d[8] = c[2]
  BY <1>2, <1>8, <1>9
<1> QED BY <1>2, <1>3, <1>6, <1>8, <1>9, <1>10, <1>11

\* p takes lock l first and, unless it halts before, gives it back last.
Section(p, l) ==
    /\ p \in Seq(Instructions) /\ Len(p) >= 3
    /\ p[1] = Instr("test_and_set", l) /\ p[2] = Instr("save", l) /\ p[3] = Instr("cli", l)
    /\ \A n \in 4 .. Len(p) :
        \/ p[n].on # l
        \/ n = Len(p) - 1 /\ p[n] = Instr("restore", l) /\ p[n + 1] = Instr("clear", l)
        \/ n = Len(p) /\ p[n] = Instr("clear", l) /\ n > 4 /\ p[n - 1] = Instr("restore", l)

\* Code between acquire and release of one lock obeys that lock's rules
\* (spinlock.h:48-72).
LEMMA SectionRules ==
    ASSUME NEW l \in Locks, NEW p, Section(p, l)
    PROVE  LockRules(p, l) /\ LockFresh(p, l)
<1>1. \A op, on : Instr(op, on).op = op /\ Instr(op, on).on = on
  BY InstructionFacts
<1>2. DOMAIN p = 1 .. Len(p) /\ Len(p) \in Nat /\ 1 \in DOMAIN p /\ 2 \in DOMAIN p /\ 3 \in DOMAIN p
  BY DEF Section
<1> DEFINE Is(n, op) == p[n] = Instr(op, l)
<1>3. Is(1, "test_and_set") /\ Is(2, "save") /\ Is(3, "cli")
  BY DEF Section
<1>4. \A n \in DOMAIN p : /\ Is(n, "test_and_set") => n = 1
                          /\ Is(n, "save") => n = 2
                          /\ Is(n, "cli") => n = 3
                          /\ Is(n, "restore") => n = Len(p) - 1 /\ n > 3
                          /\ Is(n, "clear") => n = Len(p) /\ n > 4 /\ Is(n - 1, "restore")
  <2> SUFFICES ASSUME NEW n \in DOMAIN p
               PROVE  /\ Is(n, "test_and_set") => n = 1
                      /\ Is(n, "save") => n = 2
                      /\ Is(n, "cli") => n = 3
                      /\ Is(n, "restore") => n = Len(p) - 1 /\ n > 3
                      /\ Is(n, "clear") => n = Len(p) /\ n > 4 /\ Is(n - 1, "restore")
    OBVIOUS
  <2>1. n = 1 \/ n = 2 \/ n = 3 \/ n \in 4 .. Len(p)
    BY <1>2
  <2>2. CASE n \in 4 .. Len(p)
    <3>1. \/ p[n].on # l
          \/ n = Len(p) - 1 /\ Is(n, "restore")
          \/ n = Len(p) /\ Is(n, "clear") /\ n > 4 /\ Is(n - 1, "restore")
      BY <2>2 DEF Section
    <3>2. n \in Nat /\ n > 3 /\ \A op : Is(n, op) => p[n].on = l /\ p[n].op = op
      BY <1>1, <1>2, <2>2
    <3> HIDE DEF Is
    <3> QED BY <3>1, <3>2
  <2>3. CASE n = 1 \/ n = 2 \/ n = 3
    BY <1>1, <1>3, <2>3
  <2> QED BY <2>1, <2>2, <2>3
<1>5. p[1] \notin Guarded(l)
  BY <1>1, <1>3 DEF Guarded, debug_lock, log_lock, Sent, debug_buffer, log_buffer, Locks, Format
<1> HIDE DEF Is
<1>6. LockRules(p, l)
  <2>1. Between(p, {Instr("clear", l)}, Guarded(l), {Instr("test_and_set", l)})
    BY <1>2, <1>4 DEF Between, Is
  <2>2. Between(p, {Instr("restore", l)}, {Instr("restore", l)}, {Instr("cli", l)})
    BY <1>2, <1>4 DEF Between, Is
  <2>3. Between(p, {Instr("test_and_set", l)}, {Instr("restore", l)}, {Instr("save", l)})
    BY <1>2, <1>3, <1>4 DEF Between, Is
  <2>4. Between(p, Instructions \ {Instr("restore", l)}, {Instr("clear", l)}, {Instr("restore", l)})
    BY <1>2, <1>4 DEF Between, Is
  <2>5. Between(p, Instructions \ {Instr("save", l)}, {Instr("cli", l)}, {Instr("save", l)})
    BY <1>2, <1>3, <1>4 DEF Between, Is
  <2>6. Between(p, Instructions \ {Instr("test_and_set", l)}, {Instr("save", l)},
                {Instr("test_and_set", l)})
    BY <1>2, <1>3, <1>4 DEF Between, Is
  <2> QED BY <2>1, <2>2, <2>3, <2>4, <2>5, <2>6 DEF LockRules
<1>7. LockFresh(p, l)
  <2>1. Before(p, Guarded(l), {Instr("test_and_set", l)})
    BY <1>2, <1>3, <1>5 DEF Before, Is
  <2>2. Before(p, {Instr("restore", l)}, {Instr("cli", l)})
    BY <1>2, <1>3, <1>4 DEF Before, Is
  <2>3. Before(p, {Instr("restore", l)}, {Instr("save", l)})
    BY <1>2, <1>3, <1>4 DEF Before, Is
  <2>4. Before(p, {Instr("clear", l)}, {Instr("restore", l)})
    BY <1>2, <1>4 DEF Before, Is
  <2>5. Before(p, {Instr("cli", l)}, {Instr("save", l)})
    BY <1>2, <1>3, <1>4 DEF Before, Is
  <2>6. Before(p, {Instr("save", l)}, {Instr("test_and_set", l)})
    BY <1>2, <1>3, <1>4 DEF Before, Is
  <2> QED BY <2>1, <2>2, <2>3, <2>4, <2>5, <2>6 DEF LockFresh
<1> QED BY <1>6, <1>7

\* debug_set_color takes and releases debug_lock and leaves log's state alone
\* (debug.c).
LEMMA SetColorClosed == Closed(debug_set_color) /\ QuietForLog(debug_set_color)
<1> DEFINE p == debug_set_color
<1>1. /\ p \in Seq(Instructions) /\ DOMAIN p = 1 .. 7 /\ Len(p) = 7
      /\ p[1] = Instr("test_and_set", debug_lock) /\ p[2] = Instr("save", debug_lock)
      /\ p[3] = Instr("cli", debug_lock) /\ p[4] = Instr("send_first", "color_code")
      /\ p[5] = Instr("send_last", "color_code") /\ p[6] = Instr("restore", debug_lock)
      /\ p[7] = Instr("clear", debug_lock)
  BY SetColorIs
<1> HIDE DEF p
<1>2. \A op, on : Instr(op, on).op = op /\ Instr(op, on).on = on
  BY InstructionFacts
<1>3. LockRules(p, debug_lock) /\ LockFresh(p, debug_lock)
  <2>1. Section(p, debug_lock) /\ debug_lock \in Locks
    BY <1>1, <1>2 DEF Section, debug_lock, Locks
  <2> QED BY <2>1, SectionRules
<1>4. SendRules(p) /\ SendFresh(p)
  <2>1. ASSUME NEW n \in DOMAIN p PROVE p[n] # Instr("send_first", debug_buffer)
    BY <1>1, <1>2 DEF debug_buffer
  <2>2. ASSUME NEW b \in Sent
        PROVE  /\ Between(p, Instructions \ {Instr("send_first", b)}, {Instr("send_last", b)},
                          {Instr("send_first", b)})
               /\ Then(p, {Instr("send_first", b)}, {Instr("send_last", b)})
               /\ Before(p, {Instr("send_last", b)}, {Instr("send_first", b)})
    <3>1. \A n \in DOMAIN p : /\ p[n] = Instr("send_first", b) => n = 4 /\ b = "color_code"
                              /\ p[n] = Instr("send_last", b) => n = 5 /\ b = "color_code"
      BY <1>1, <1>2
    <3> QED BY <1>1, <3>1 DEF Between, Then, Before
  <2> QED BY <2>1, <2>2 DEF SendRules, SendFresh, Between, Before
<1>5. QuietForLog(p)
  <2>1. \A n \in DOMAIN p : p[n].on \notin {log_lock, log_buffer} /\ p[n].op # "format"
    BY <1>1, <1>2 DEF log_lock, debug_lock, log_buffer
  <2> QED BY <2>1, InstructionFacts DEF QuietForLog, OutsideLog
<1> QED BY <1>1, <1>3, <1>4, <1>5 DEF Closed, DebugRules, DebugFresh, p

\* So does debug, whatever it formats; unless that is log's buffer it has
\* nothing to do with log_lock (debug.c).
LEMMA DebugClosed ==
    ASSUME NEW from \in Sources
    PROVE  Closed(debug(from)) /\ OutsideLog(debug(from))
           /\ (from = "arguments" => QuietForLog(debug(from)))
<1> DEFINE p == debug(from)
<1>1. /\ p \in Seq(Instructions) /\ DOMAIN p = 1 .. 8 /\ Len(p) = 8
      /\ p[1] = Instr("test_and_set", debug_lock) /\ p[2] = Instr("save", debug_lock)
      /\ p[3] = Instr("cli", debug_lock) /\ p[4] = Format(debug_buffer, from)
      /\ p[5] = Instr("send_first", debug_buffer) /\ p[6] = Instr("send_last", debug_buffer)
      /\ p[7] = Instr("restore", debug_lock) /\ p[8] = Instr("clear", debug_lock)
  BY DebugIs
<1> HIDE DEF p
<1>2. /\ \A op, on : Instr(op, on).op = op /\ Instr(op, on).on = on
      /\ p[4].op = "format" /\ p[4].on = debug_buffer /\ p[4].from = from
  BY <1>1, InstructionFacts
<1>3. LockRules(p, debug_lock) /\ LockFresh(p, debug_lock)
  <2>1. Section(p, debug_lock) /\ debug_lock \in Locks
    BY <1>1, <1>2 DEF Section, debug_lock, debug_buffer, Locks
  <2> QED BY <2>1, SectionRules
<1>4. SendRules(p) /\ SendFresh(p)
  <2>1. \A n \in DOMAIN p : p[n] = Instr("send_first", debug_buffer) => n = 5
    BY <1>1, <1>2
  <2>2. p[4] \in DebugFormats
    BY <1>1 DEF DebugFormats
  <2>3. /\ Between(p, Instructions \ DebugFormats, {Instr("send_first", debug_buffer)}, DebugFormats)
        /\ Before(p, {Instr("send_first", debug_buffer)}, DebugFormats)
    BY <1>1, <2>1, <2>2 DEF Between, Before
  <2>4. ASSUME NEW b \in Sent
        PROVE  /\ Between(p, Instructions \ {Instr("send_first", b)}, {Instr("send_last", b)},
                          {Instr("send_first", b)})
               /\ Then(p, {Instr("send_first", b)}, {Instr("send_last", b)})
               /\ Before(p, {Instr("send_last", b)}, {Instr("send_first", b)})
    <3>1. \A n \in DOMAIN p : /\ p[n] = Instr("send_first", b) => n = 5 /\ b = debug_buffer
                              /\ p[n] = Instr("send_last", b) => n = 6 /\ b = debug_buffer
      BY <1>1, <1>2
    <3> QED BY <1>1, <3>1 DEF Between, Then, Before
  <2> QED BY <2>3, <2>4 DEF SendRules, SendFresh
<1>5. OutsideLog(p)
  BY <1>1, <1>2 DEF log_lock, debug_lock, log_buffer, debug_buffer, OutsideLog
<1>6. ASSUME from = "arguments" PROVE QuietForLog(p)
  <2>1. \A n \in DOMAIN p : p[n].op = "format" => n = 4
    BY <1>1, <1>2
  <2>2. p[4].from # log_buffer
    BY <1>2, <1>6 DEF log_buffer
  <2> QED BY <1>5, <2>1, <2>2, InstructionFacts DEF QuietForLog
<1> QED BY <1>1, <1>3, <1>4, <1>5, <1>6 DEF Closed, DebugRules, DebugFresh, p

\* Functions that release what they take, called in a row, do the same.
LEMMA ClosedConcat ==
    ASSUME NEW p, NEW q, Closed(p), Closed(q)
    PROVE  Closed(p \o q)
<1>1. p \in Seq(Instructions) /\ q \in Seq(Instructions) /\ p \o q \in Seq(Instructions)
  BY DEF Closed
<1> QED BY <1>1, DebugConcat, DebugFreshConcat DEF Closed

\* Functions that leave log_lock alone, called in a row, do the same.
LEMMA OutsideConcat ==
    ASSUME NEW p \in Seq(Instructions), NEW q \in Seq(Instructions), OutsideLog(p), OutsideLog(q)
    PROVE  /\ OutsideLog(p \o q)
           /\ QuietForLog(p) /\ QuietForLog(q) => QuietForLog(p \o q)
<1>1. \A n \in DOMAIN (p \o q) : \/ n \in DOMAIN p /\ (p \o q)[n] = p[n]
                                \/ \E m \in DOMAIN q : (p \o q)[n] = q[m]
  <2> SUFFICES ASSUME NEW n \in DOMAIN (p \o q), ~(n \in DOMAIN p)
               PROVE  \E m \in DOMAIN q : (p \o q)[n] = q[m]
    BY ConcatFacts
  <2>1. n - Len(p) \in DOMAIN q /\ n = Len(p) + (n - Len(p))
    BY ConcatFacts
  <2>2. (p \o q)[Len(p) + (n - Len(p))] = q[n - Len(p)]
    BY <2>1, ConcatFacts
  <2> QED BY <2>1, <2>2
<1>2. OutsideLog(p \o q)
  BY <1>1 DEF OutsideLog
<1>3. QuietForLog(p) /\ QuietForLog(q) => QuietForLog(p \o q)
  BY <1>1, <1>2 DEF QuietForLog
<1> QED BY <1>2, <1>3

\* Code that does not touch debug_lock and sends nothing.
LEMMA SilentClosed ==
    ASSUME NEW p \in Seq(Instructions),
           \A n \in DOMAIN p : p[n].on \notin {debug_lock} \cup Sent
    PROVE  Closed(p)
<1>1. \A n \in DOMAIN p : p[n] \notin Guarded(debug_lock)
  BY DEF Guarded, Format, debug_lock, log_lock
<1>2. \A op, on : Instr(op, on).on = on
  BY InstructionFacts
<1>3. \A n \in DOMAIN p : \A op : \A on \in {debug_lock} \cup Sent : p[n] # Instr(op, on)
  BY <1>2
<1>4. LockRules(p, debug_lock) /\ LockFresh(p, debug_lock)
  BY <1>1, <1>3 DEF LockRules, LockFresh, Between, Before
<1>5. SendRules(p) /\ SendFresh(p)
  BY <1>3 DEF SendRules, SendFresh, Between, Before, Then, Sent
<1> QED BY <1>4, <1>5 DEF Closed, DebugRules, DebugFresh

\* A function that releases what it takes and has nothing to do with log obeys
\* every rule.
LEMMA QuietObeys ==
    ASSUME NEW p, Closed(p), QuietForLog(p)
    PROVE  Obeys(p) /\ Fresh(p)
<1>1. \A n \in DOMAIN p : p[n] \notin Guarded(log_lock)
  BY DEF Guarded, QuietForLog, OutsideLog, log_lock, debug_lock
<1>2. \A op, on : Instr(op, on).on = on
  BY InstructionFacts
<1>3. \A n \in DOMAIN p : \A op : p[n] # Instr(op, log_lock)
  BY <1>2 DEF QuietForLog, OutsideLog
<1>4. LockRules(p, log_lock) /\ LockFresh(p, log_lock)
  BY <1>1, <1>3 DEF LockRules, LockFresh, Between, Before
<1>5. NestRules(p) /\ NestFresh(p)
  BY <1>3 DEF NestRules, NestFresh, Between, Before, QuietForLog
<1> QED BY <1>4, <1>5 DEF Closed, Obeys, Fresh

\* lapic_signal_eoi and the halt take no lock (apic.c, isr.c).
LEMMA SingleClosed ==
    /\ Closed(lapic_signal_eoi) /\ QuietForLog(lapic_signal_eoi)
    /\ Closed(Halt) /\ QuietForLog(Halt)
<1>1. ASSUME NEW i \in {Instr("eoi", "lapic"), Instr("halt", "cpu")}
      PROVE  Closed(<<i>>) /\ QuietForLog(<<i>>)
  <2>1. i \in Instructions /\ i.on \in {"lapic", "cpu"} /\ i.op # "format"
    BY InstructionFacts
  <2>2. <<i>> \in Seq(Instructions) /\ \A n \in DOMAIN <<i>> : <<i>>[n] = i
    BY <2>1
  <2>3. Closed(<<i>>)
    BY <2>1, <2>2, SilentClosed DEF debug_lock, Sent, debug_buffer
  <2>4. i # Format(debug_buffer, log_buffer)
    BY <2>1, InstructionFacts
  <2> QED BY <2>1, <2>2, <2>3, <2>4 DEF QuietForLog, OutsideLog, log_lock, log_buffer
<1> QED BY <1>1 DEF lapic_signal_eoi, Halt

\* The handlers of the vectors, every one of them acknowledged if it is a device's.
LEMMA HandlerObeys ==
    ASSUME NEW vector \in {"timer", "irq", "syscall", "exception", "spurious"}
    PROVE  LET p == isr_handler(vector)
           IN  /\ p \in Seq(Instructions) /\ Obeys(p) /\ Fresh(p)
               /\ vector \in Devices => \E n \in DOMAIN p : p[n] = Instr("eoi", "lapic")
<1> DEFINE say == debug("arguments")
           report == debug_set_color \o debug("arguments") \o debug_set_color
           Good(p) == Closed(p) /\ QuietForLog(p)
           p == isr_handler(vector)
           eoi == Instr("eoi", "lapic")
<1>1. ASSUME NEW a, NEW b, Good(a), Good(b) PROVE Good(a \o b)
  <2>1. a \in Seq(Instructions) /\ b \in Seq(Instructions) /\ OutsideLog(a) /\ OutsideLog(b)
    BY <1>1 DEF Closed, QuietForLog
  <2> QED BY <1>1, <2>1, ClosedConcat, OutsideConcat
<1>2. Good(say) /\ Good(debug_set_color) /\ Good(lapic_signal_eoi) /\ Good(Halt)
  BY SetColorClosed, DebugClosed, SingleClosed DEF Sources
<1>3. Good(report)
  <2> HIDE DEF Good
  <2> QED BY <1>1, <1>2
<1>4. \/ vector = "timer" /\ p = say \o lapic_signal_eoi
      \/ vector = "irq" /\ p = report \o lapic_signal_eoi
      \/ vector = "syscall" /\ p = report
      \/ vector \in {"exception", "spurious"} /\ p = report \o Halt
  BY DEF isr_handler
<1>5. Good(p)
  <2> HIDE DEF Good, p, report, say
  <2> QED BY <1>1, <1>2, <1>3, <1>4
<1>6. ASSUME NEW a, Good(a)
      PROVE  \E n \in DOMAIN (a \o lapic_signal_eoi) : (a \o lapic_signal_eoi)[n] = eoi
  <2>1. a \in Seq(Instructions) /\ lapic_signal_eoi \in Seq(Instructions)
    BY <1>2, <1>6 DEF Closed
  <2>2. 1 \in DOMAIN lapic_signal_eoi /\ lapic_signal_eoi[1] = eoi
    BY DEF lapic_signal_eoi
  <2>3. (a \o lapic_signal_eoi)[Len(a) + 1] = eoi
    BY <2>1, <2>2, ConcatFacts
  <2>4. Len(a) + 1 \in DOMAIN (a \o lapic_signal_eoi)
    BY <2>1, <2>2, ConcatFacts
  <2> QED BY <2>3, <2>4
<1>7. vector \in Devices => \E n \in DOMAIN p : p[n] = eoi
  <2> HIDE DEF Good, p, report, say, eoi
  <2> QED BY <1>2, <1>3, <1>4, <1>6 DEF Devices
<1> QED BY <1>5, <1>7, QuietObeys DEF Closed

\* log_impl up to some point before its release: log_lock is taken, log_buffer
\* filled, and nothing else touches either.
Opens(p) ==
    /\ p \in Seq(Instructions) /\ Len(p) >= 4
    /\ p[1] = Instr("test_and_set", log_lock) /\ p[2] = Instr("save", log_lock)
    /\ p[3] = Instr("cli", log_lock) /\ p[4] = Format(log_buffer, "arguments")
    /\ \A n \in 5 .. Len(p) : p[n].on \notin {log_lock, log_buffer}

\* What follows the start of log, up to its release, does not close log_lock.
LEMMA OpensConcat ==
    ASSUME NEW p, Opens(p), NEW q \in Seq(Instructions), OutsideLog(q)
    PROVE  Opens(p \o q)
<1>1. p \in Seq(Instructions) /\ Len(p) >= 4
  BY DEF Opens
<1>2. /\ p \o q \in Seq(Instructions) /\ Len(p \o q) = Len(p) + Len(q)
      /\ DOMAIN p = 1 .. Len(p) /\ DOMAIN q = 1 .. Len(q) /\ Len(p) \in Nat /\ Len(q) \in Nat
      /\ \A n \in DOMAIN p : (p \o q)[n] = p[n]
      /\ \A n \in DOMAIN q : (p \o q)[Len(p) + n] = q[n]
  BY <1>1, ConcatFacts
<1>3. Len(p \o q) >= 4 /\ \A n \in 1 .. 4 : (p \o q)[n] = p[n]
  BY <1>1, <1>2
<1>4. ASSUME NEW n \in 5 .. Len(p \o q) PROVE (p \o q)[n].on \notin {log_lock, log_buffer}
  <2>1. CASE n <= Len(p)
    BY <1>2, <2>1 DEF Opens
  <2>2. CASE n > Len(p)
    <3>1. n - Len(p) \in DOMAIN q /\ n = Len(p) + (n - Len(p))
      BY <1>2, <2>2
    <3>2. (p \o q)[n] = q[n - Len(p)]
      BY <1>2, <3>1
    <3> QED BY <3>1, <3>2 DEF OutsideLog
  <2> QED BY <1>2, <2>1, <2>2
<1> QED BY <1>2, <1>3, <1>4 DEF Opens

\* log_impl obeys the rules: it takes log_lock, and debug_lock only inside it,
\* and formats before it prints (log.c:39-81).
LEMMA LogObeys ==
    ASSUME NEW status
    PROVE  log_impl(status) \in Seq(Instructions) /\ Obeys(log_impl(status)) /\ Fresh(log_impl(status))
<1> DEFINE start == spinlock_acquire(log_lock) \o vsnprintf(log_buffer, "arguments")
           rest == start \o debug_set_color \o debug(log_buffer)
           release == spinlock_release(log_lock)
           p == log_impl(status)
<1>1. \A op, on : Instr(op, on).op = op /\ Instr(op, on).on = on
  BY InstructionFacts
<1>2. Opens(start) /\ Closed(start)
  <2> DEFINE f == Format(log_buffer, "arguments")
             a == spinlock_acquire(log_lock)
             v == vsnprintf(log_buffer, "arguments")
  <2>1. /\ a = <<Instr("test_and_set", log_lock), Instr("save", log_lock), Instr("cli", log_lock)>>
        /\ v = <<f>> /\ start = a \o v
    BY DEF spinlock_acquire, vsnprintf, Format
  <2>2. /\ Instr("test_and_set", log_lock) \in Instructions /\ Instr("save", log_lock) \in Instructions
        /\ Instr("cli", log_lock) \in Instructions /\ f \in Instructions /\ f.on = log_buffer
    BY InstructionFacts DEF LockOps, Locks, Sources, Buffers
  <2> HIDE DEF start, f, a, v
  <2>3. /\ start \in Seq(Instructions) /\ Len(start) = 4 /\ DOMAIN start = 1 .. 4
        /\ start[1] = Instr("test_and_set", log_lock) /\ start[2] = Instr("save", log_lock)
        /\ start[3] = Instr("cli", log_lock) /\ start[4] = f
    <3>1. a \in Seq(Instructions) /\ v \in Seq(Instructions)
      BY <2>1, <2>2
    <3>2. /\ Len(a) = 3 /\ a[1] = Instr("test_and_set", log_lock) /\ a[2] = Instr("save", log_lock)
          /\ a[3] = Instr("cli", log_lock) /\ Len(v) = 1 /\ v[1] = f
      BY <2>1
    <3> DEFINE g == a \o v
    <3>3. /\ g \in Seq(Instructions) /\ Len(g) = Len(a) + Len(v)
          /\ DOMAIN a = 1 .. Len(a) /\ DOMAIN v = 1 .. Len(v) /\ DOMAIN g = 1 .. Len(a) + Len(v)
          /\ \A n \in DOMAIN a : g[n] = a[n]
          /\ \A n \in DOMAIN v : g[Len(a) + n] = v[n]
      BY <3>1, ConcatFacts
    <3>4. start = g
      BY <2>1
    <3> HIDE DEF g
    <3> QED BY <3>2, <3>3, <3>4
  <2>4. Opens(start)
    BY <2>3 DEF Opens, f
  <2>5. \A n \in DOMAIN start : start[n].on \in {log_lock, log_buffer}
    BY <1>1, <2>2, <2>3
  <2>6. Closed(start)
    BY <2>3, <2>5, SilentClosed DEF log_lock, log_buffer, debug_lock, debug_buffer, Sent
  <2> QED BY <2>4, <2>6
<1>3. /\ release \in Seq(Instructions) /\ Closed(release) /\ Len(release) = 2
      /\ release[1] = Instr("restore", log_lock) /\ release[2] = Instr("clear", log_lock)
  <2>1. Instr("restore", log_lock) \in Instructions /\ Instr("clear", log_lock) \in Instructions
    BY InstructionFacts DEF LockOps, Locks
  <2>2. release = <<Instr("restore", log_lock), Instr("clear", log_lock)>>
    BY DEF spinlock_release
  <2> HIDE DEF release
  <2>3. /\ release \in Seq(Instructions) /\ Len(release) = 2 /\ DOMAIN release = 1 .. 2
        /\ release[1] = Instr("restore", log_lock) /\ release[2] = Instr("clear", log_lock)
    BY <2>1, <2>2
  <2>4. \A n \in DOMAIN release : release[n].on = log_lock
    BY <1>1, <2>3
  <2> QED BY <2>3, <2>4, SilentClosed DEF log_lock, debug_lock, debug_buffer, Sent
<1>4. /\ Closed(debug_set_color) /\ OutsideLog(debug_set_color)
      /\ Closed(debug(log_buffer)) /\ OutsideLog(debug(log_buffer))
      /\ Closed(Halt) /\ OutsideLog(Halt)
  BY SetColorClosed, DebugClosed, SingleClosed DEF Sources, QuietForLog
<1>5. ASSUME NEW a, NEW b, Opens(a), Closed(a), Closed(b), OutsideLog(b)
      PROVE  Opens(a \o b) /\ Closed(a \o b)
  BY <1>5, OpensConcat, ClosedConcat DEF Closed
<1> HIDE DEF start
<1>6. Opens(rest) /\ Closed(rest)
  BY <1>2, <1>4, <1>5
<1>7. p = rest \o IF status = "PANIC" THEN Halt ELSE debug_set_color \o release
  BY DEF log_impl, start
<1> HIDE DEF rest, release, p
<1>8. Closed(p) /\ Section(p, log_lock)
      /\ p[4] = Format(log_buffer, "arguments") /\ Len(p) >= 4
      /\ \A n \in DOMAIN p : n > 4 => p[n] # Format(log_buffer, "arguments")
  <2>1. CASE status = "PANIC"
    <3>1. p = rest \o Halt
      BY <1>7, <2>1
    <3>2. Opens(p) /\ Closed(p)
      BY <1>4, <1>5, <1>6, <3>1
    <3>3. p[4].on = log_buffer /\ log_buffer # log_lock
      BY <3>2, InstructionFacts DEF Opens, log_buffer, log_lock
    <3>4. Section(p, log_lock)
      BY <3>2, <3>3 DEF Opens, Section
    <3>5. \A n \in DOMAIN p : n > 4 => p[n] # Format(log_buffer, "arguments")
      BY <3>2, InstructionFacts DEF Opens
    <3> QED BY <3>2, <3>4, <3>5 DEF Opens
  <2>2. CASE status # "PANIC"
    <3> DEFINE o == rest \o debug_set_color
    <3>1. p = o \o release
      <4>1. rest \in Seq(Instructions) /\ debug_set_color \in Seq(Instructions)
        BY <1>4, <1>6 DEF Closed
      <4>2. release \in Seq(Instructions)
        BY <1>3
      <4>3. rest \o (debug_set_color \o release) = (rest \o debug_set_color) \o release
        BY <4>1, <4>2, ConcatAssociative
      <4> QED BY <1>7, <2>2, <4>3
    <3>2. Opens(o) /\ Closed(o)
      BY <1>4, <1>5, <1>6
    <3> HIDE DEF o
    <3>3. Closed(p)
      BY <1>3, <3>1, <3>2, ClosedConcat
    <3>4. o \in Seq(Instructions) /\ release \in Seq(Instructions)
      BY <1>3, <3>2 DEF Opens
    <3>5. /\ p \in Seq(Instructions) /\ Len(p) = Len(o) + Len(release)
          /\ DOMAIN o = 1 .. Len(o) /\ DOMAIN release = 1 .. Len(release) /\ Len(o) \in Nat
          /\ \A n \in DOMAIN o : p[n] = o[n]
          /\ \A n \in DOMAIN release : p[Len(o) + n] = release[n]
      BY <3>1, <3>4, ConcatFacts
    <3>6. /\ Len(p) = Len(o) + 2 /\ Len(o) >= 4 /\ \A n \in 1 .. Len(o) : p[n] = o[n]
          /\ p[Len(o) + 1] = Instr("restore", log_lock) /\ p[Len(o) + 2] = Instr("clear", log_lock)
      BY <1>3, <3>2, <3>5 DEF Opens
    <3>7. p[4] = Format(log_buffer, "arguments") /\ p[4].on # log_lock
      BY <3>2, <3>5, <3>6, InstructionFacts DEF Opens, log_buffer, log_lock
    <3>8. /\ p[1] = Instr("test_and_set", log_lock) /\ p[2] = Instr("save", log_lock)
          /\ p[3] = Instr("cli", log_lock)
      BY <3>2, <3>5, <3>6 DEF Opens
    <3>9. ASSUME NEW n \in 4 .. Len(p)
          PROVE  \/ p[n].on # log_lock
                 \/ /\ n = Len(p) - 1 /\ p[n] = Instr("restore", log_lock)
                    /\ p[n + 1] = Instr("clear", log_lock)
                 \/ /\ n = Len(p) /\ p[n] = Instr("clear", log_lock) /\ n > 4
                    /\ p[n - 1] = Instr("restore", log_lock)
      <4>1. n = 4 \/ n \in 5 .. Len(o) \/ n = Len(o) + 1 \/ n = Len(o) + 2
        BY <3>5, <3>6
      <4>2. n \in 5 .. Len(o) => p[n].on # log_lock
        BY <3>2, <3>5, <3>6 DEF Opens
      <4> QED BY <3>5, <3>6, <3>7, <4>1, <4>2
    <3>10. Section(p, log_lock)
      BY <3>5, <3>6, <3>8, <3>9 DEF Section
    <3>11. ASSUME NEW n \in DOMAIN p, n > 4 PROVE p[n] # Format(log_buffer, "arguments")
      <4>1. n \in 5 .. Len(o) \/ n = Len(o) + 1 \/ n = Len(o) + 2
        BY <3>5, <3>6, <3>11
      <4>2. n \in 5 .. Len(o) => p[n].on # log_buffer
        BY <3>2, <3>5, <3>6 DEF Opens
      <4>3. Format(log_buffer, "arguments").on = log_buffer /\ Format(log_buffer, "arguments").op = "format"
        BY InstructionFacts
      <4> QED BY <1>1, <3>6, <4>1, <4>2, <4>3
    <3> QED BY <3>3, <3>5, <3>6, <3>7, <3>10, <3>11
  <2> QED BY <2>1, <2>2
<1>9. p \in Seq(Instructions) /\ LockRules(p, log_lock) /\ LockFresh(p, log_lock)
  BY <1>8, SectionRules DEF Section, Locks
<1>10. NestFresh(p) /\ NestRules(p)
  <2>1. /\ DOMAIN p = 1 .. Len(p) /\ Len(p) \in Nat /\ 4 \in DOMAIN p
    BY <1>8, <1>9
  <2>2. \A n \in 1 .. 3 : p[n].on = log_lock /\ p[n].op # "format" /\ p[n].op # "restore"
    BY <1>1, <1>8 DEF Section
  <2>3. p[4].on = log_buffer /\ p[4].op = "format"
    BY <1>8, InstructionFacts
  <2>4. \A n \in DOMAIN p : p[n] = Format(debug_buffer, log_buffer) => n > 4
    BY <2>1, <2>2, <2>3, InstructionFacts DEF debug_buffer, log_buffer
  <2>5. NestFresh(p)
    BY <1>8, <2>1, <2>4 DEF NestFresh, Before
  <2>6. Between(p, {Instr("test_and_set", log_lock)}, {Format(debug_buffer, log_buffer)},
                {Format(log_buffer, "arguments")})
    <3>1. \A n \in DOMAIN p : p[n] = Instr("test_and_set", log_lock) => n < 4
      <4> SUFFICES ASSUME NEW n \in DOMAIN p, p[n] = Instr("test_and_set", log_lock), n \in 4 .. Len(p)
                   PROVE  FALSE
        BY <2>1
      <4>1. p[n].on = log_lock /\ p[n].op = "test_and_set"
        BY <1>1
      <4> QED BY <1>1, <1>8, <4>1 DEF Section
    <3> QED BY <1>8, <2>1, <2>4, <3>1 DEF Between
  <2>7. Between(p, {Instr("cli", log_lock)}, {Instr("restore", debug_lock)}, {Instr("save", debug_lock)})
    <3>1. ASSUME NEW n \in DOMAIN p, p[n] = Instr("cli", log_lock) PROVE n < 4
      <4> SUFFICES ASSUME n \in 4 .. Len(p) PROVE FALSE
        BY <2>1
      <4>1. p[n].on = log_lock /\ p[n].op = "cli"
        BY <1>1, <3>1
      <4> QED BY <1>1, <1>8, <4>1 DEF Section
    <3>2. ASSUME NEW k \in DOMAIN p, p[k] = Instr("save", debug_lock) PROVE k >= 4
      BY <1>1, <2>1, <2>2, <3>2 DEF log_lock, debug_lock
    <3>3. Before(p, {Instr("restore", debug_lock)}, {Instr("save", debug_lock)})
      BY <1>8 DEF Closed, DebugFresh, LockFresh
    <3> SUFFICES ASSUME NEW n \in DOMAIN p, NEW m \in DOMAIN p,
                        n < m, p[n] = Instr("cli", log_lock), p[m] = Instr("restore", debug_lock)
                 PROVE  \E k \in n + 1 .. m - 1 : p[k] = Instr("save", debug_lock)
      BY DEF Between
    <3>4. PICK k \in 1 .. m - 1 : p[k] = Instr("save", debug_lock)
      BY <3>3 DEF Before
    <3>5. n < 4 /\ k >= 4 /\ n \in Nat /\ k \in Nat /\ m \in Nat
      <4>1. k \in DOMAIN p
        BY <2>1, <3>4
      <4> QED BY <2>1, <3>1, <3>2, <3>4, <4>1
    <3>6. k \in n + 1 .. m - 1
      BY <3>4, <3>5
    <3> QED BY <3>4, <3>6
  <2>8. Between(p, {Instr("restore", log_lock)}, {Instr("restore", debug_lock)}, {Instr("cli", debug_lock)})
    <3> SUFFICES ASSUME NEW n \in DOMAIN p, NEW m \in DOMAIN p,
                        n < m, p[n] = Instr("restore", log_lock), p[m] = Instr("restore", debug_lock)
                 PROVE  FALSE
      BY DEF Between
    <3>1. p[n].on = log_lock /\ p[n].op = "restore" /\ p[m].on = debug_lock
      BY <1>1
    <3>2. n \in 4 .. Len(p)
      BY <2>1, <2>2, <3>1
    <3>3. n = Len(p) - 1 /\ p[n + 1] = Instr("clear", log_lock)
      BY <1>1, <1>8, <3>1, <3>2 DEF Section
    <3>4. m = n + 1
      BY <2>1, <3>3
    <3> QED BY <1>1, <3>1, <3>3, <3>4 DEF log_lock, debug_lock
  <2> QED BY <2>5, <2>6, <2>7, <2>8 DEF NestRules
<1> QED BY <1>8, <1>9, <1>10 DEF Closed, Obeys, Fresh, p

-----------------------------------------------------------------------------
(* The inductive invariant *)

\* What is left of a program tells what its context has taken, what it may
\* restore, and whether its text is in log_buffer.
Locked(p, l) == ~Before(p, Guarded(l), {Instr("test_and_set", l)})
Masked(p, l) == ~Before(p, {Instr("restore", l)}, {Instr("cli", l)})
Saved(p, l) == ~Before(p, {Instr("restore", l)}, {Instr("save", l)})
LogReady(p) == ~Before(p, {Format(debug_buffer, log_buffer)}, {Format(log_buffer, "arguments")})

\* The interrupt flag of the thread of CPU c, also while a handler runs.
ThreadIF(c) == IF in_isr[c] THEN rflags[c] ELSE IFLAG[c]

Programs ==
    /\ todo \in [Contexts -> Seq(Instructions)]
    /\ \A x \in Contexts : Obeys(todo[x])

OneHolder ==
    \A l \in Locks, x \in Contexts :
        Locked(todo[x], l) => /\ lock[l] = TRUE
                              /\ \A y \in Contexts : Locked(todo[y], l) => y = x

Sending ==
    \A x \in Contexts :
        port = x <=> todo[x] # <<>> /\ Head(todo[x]).op = "send_last"

Formatted ==
    \A x \in Contexts :
        /\ todo[x] # <<>> /\ Head(todo[x]) \in {Instr("send_first", debug_buffer),
                                                 Instr("send_last", debug_buffer)} =>
               buffer[debug_buffer] = x
        /\ LogReady(todo[x]) => buffer[log_buffer] = x

HandlerIdle == \A c \in CPUs : in_isr[c] = FALSE => todo[<<c, ISR>>] = <<>>

Masking ==
    \A c \in CPUs :
        /\ in_isr[c] = TRUE => IFLAG[c] = FALSE
        /\ \A l \in Locks : Masked(todo[<<c, THREAD>>], l) => ThreadIF(c) = FALSE

Saving ==
    \A c \in CPUs :
        /\ Masked(todo[<<c, THREAD>>], log_lock) /\ Saved(todo[<<c, THREAD>>], debug_lock) =>
               interrupts[debug_lock] = FALSE
        /\ \A l \in Locks : Saved(todo[<<c, ISR>>], l) => interrupts[l] = FALSE

Acknowledging ==
    \A c \in CPUs :
        in_service[c] = TRUE =>
            /\ in_isr[c] = TRUE
            /\ \E n \in DOMAIN todo[<<c, ISR>>] : todo[<<c, ISR>>][n] = Instr("eoi", "lapic")

SerialInv ==
    /\ TypeOK /\ Programs /\ OneHolder /\ Sending /\ Formatted
    /\ HandlerIdle /\ Masking /\ Saving /\ Acknowledging

-----------------------------------------------------------------------------
(* What executing the head of a program does to the rest of it *)

\* An instruction is of one of these kinds.
LEMMA Kinds ==
    ASSUME NEW i \in Instructions
    PROVE  \/ i.op \in LockOps /\ i.on \in Locks /\ i = Instr(i.op, i.on)
           \/ i.op \in {"send_first", "send_last"} /\ i.on \in Sent /\ i = Instr(i.op, i.on)
           \/ /\ i.op = "format" /\ i.on \in Buffers /\ i.from \in Sources /\ i = Format(i.on, i.from)
              /\ i.on = log_buffer => i.from = "arguments"
           \/ i.op = "eoi" /\ i = Instr("eoi", "lapic")
           \/ i.op = "halt" /\ i = Instr("halt", "cpu")
<1>1. CASE i \in {Instr(op, l) : op \in LockOps, l \in Locks}
  BY <1>1, InstructionFacts
<1>2. CASE i \in {Instr(op, b) : op \in {"send_first", "send_last"}, b \in Sent}
  BY <1>2, InstructionFacts
<1>3. CASE i \in {Format(log_buffer, "arguments")} \cup {Format(debug_buffer, from) : from \in Sources}
  <2>1. PICK b \in Buffers, from \in Sources : i = Format(b, from) /\ (b = log_buffer => from = "arguments")
    BY <1>3 DEF Buffers, Sources, log_buffer, debug_buffer
  <2> QED BY <2>1, InstructionFacts
<1>4. CASE i \in {Instr("eoi", "lapic"), Instr("halt", "cpu")}
  BY <1>4, InstructionFacts
<1> QED BY <1>1, <1>2, <1>3, <1>4 DEF Instructions

\* The instructions that only the holder of a lock may execute.
LEMMA RestoreIsGuarded ==
    /\ \A l \in Locks : \A op \in LockOps \ {"test_and_set"} : Instr(op, l) \in Guarded(l)
    /\ \A from \in Sources : Format(debug_buffer, from) \in Guarded(debug_lock)
    /\ Format(log_buffer, "arguments") \in Guarded(log_lock)
    /\ Format(debug_buffer, log_buffer) \in Guarded(log_lock)
    /\ \A op \in {"send_first", "send_last"}, b \in Sent : Instr(op, b) \in Guarded(debug_lock)
<1>1. \A l \in Locks : \A op \in LockOps \ {"test_and_set"} : Instr(op, l) \in Guarded(l)
  BY InstructionFacts DEF Guarded
<1>2. \A from \in Sources : Format(debug_buffer, from) \in Guarded(debug_lock)
  BY InstructionFacts DEF Guarded, Sent, Buffers
<1>3. Format(log_buffer, "arguments") \in Guarded(log_lock)
  BY InstructionFacts DEF Guarded, Buffers
<1>4. Format(debug_buffer, log_buffer) \in Guarded(log_lock)
  BY InstructionFacts DEF Guarded, Buffers, Sources
<1>5. \A op \in {"send_first", "send_last"}, b \in Sent : Instr(op, b) \in Guarded(debug_lock)
  BY InstructionFacts DEF Guarded
<1> QED BY <1>1, <1>2, <1>3, <1>4, <1>5 DEF Sources

\* Who has saved the flag for l, or filled log_buffer for itself, holds the lock.
LEMMA PendingIsLocked ==
    ASSUME NEW p \in Seq(Instructions), Obeys(p), NEW l \in Locks
    PROVE  /\ Saved(p, l) => Locked(p, l)
           /\ LogReady(p) => Locked(p, log_lock)
<1>1. ASSUME NEW t, NEW A, NEW k \in Locks, t \in Guarded(k), ~Before(p, {t}, A),
             Between(p, {Instr("test_and_set", k)}, {t}, A)
      PROVE  Locked(p, k)
  <2> SUFFICES ASSUME Before(p, Guarded(k), {Instr("test_and_set", k)}) PROVE FALSE
    BY DEF Locked
  <2>1. PICK m \in DOMAIN p : p[m] = t /\ \A j \in 1 .. m - 1 : p[j] \notin A
    BY <1>1 DEF Before
  <2>2. PICK j \in 1 .. m - 1 : p[j] = Instr("test_and_set", k)
    BY <1>1, <2>1 DEF Before
  <2>3. j \in DOMAIN p /\ j < m /\ m \in Nat /\ j \in Nat
    BY <2>1, <2>2
  <2>4. PICK h \in j + 1 .. m - 1 : p[h] \in A
    BY <1>1, <2>1, <2>2, <2>3 DEF Between
  <2>5. h \in 1 .. m - 1
    BY <2>3, <2>4
  <2> QED BY <2>1, <2>4, <2>5
<1>2. Saved(p, l) => Locked(p, l)
  <2>1. Instr("restore", l) \in Guarded(l)
    BY RestoreIsGuarded DEF LockOps
  <2>2. Between(p, {Instr("test_and_set", l)}, {Instr("restore", l)}, {Instr("save", l)})
    BY DEF Obeys, DebugRules, LockRules, Locks
  <2> QED BY <1>1, <2>1, <2>2 DEF Saved
<1>3. LogReady(p) => Locked(p, log_lock)
  <2>1. Between(p, {Instr("test_and_set", log_lock)}, {Format(debug_buffer, log_buffer)},
                {Format(log_buffer, "arguments")})
    BY DEF Obeys, NestRules
  <2> QED BY <1>1, <2>1, RestoreIsGuarded DEF LogReady, Locks
<1> QED BY <1>2, <1>3

\* What executing the first instruction of a program does to the places of
\* the locks in it.
LEMMA HeadFacts ==
    ASSUME NEW p \in Seq(Instructions), p # <<>>, Obeys(p), NEW i, i = Head(p), NEW q, q = Tail(p),
           NEW l \in Locks
    PROVE  /\ i \in Instructions /\ q \in Seq(Instructions) /\ Obeys(q)
           /\ i \in Guarded(l) => Locked(p, l)
           /\ Locked(q, l) => Locked(p, l) \/ i = Instr("test_and_set", l)
           /\ i = Instr("clear", l) => ~Locked(q, l)
           /\ Masked(q, l) => Masked(p, l) \/ i = Instr("cli", l)
           /\ i = Instr("restore", l) => ~Masked(q, l) /\ Masked(p, l) /\ Saved(p, l)
           /\ i = Instr("restore", log_lock) => ~Masked(q, debug_lock)
           /\ Saved(q, l) => Saved(p, l) \/ i = Instr("save", l)
           /\ i = Instr("cli", log_lock) => ~Saved(q, debug_lock)
           /\ LogReady(q) => LogReady(p) \/ i = Format(log_buffer, "arguments")
           /\ i = Format(debug_buffer, log_buffer) => LogReady(p)
<1>1. i \in Instructions /\ q \in Seq(Instructions) /\ Obeys(q)
  BY ObeysTail, TailFacts
<1>2. ASSUME NEW T, NEW A, ~Before(q, T, A) PROVE ~Before(p, T, A) \/ i \in A
  BY <1>2, BeforeTail
<1>3. ASSUME NEW T, NEW A, i \in T PROVE ~Before(p, T, A)
  BY <1>3, HeadIsFirst
<1>4. ASSUME NEW F, NEW T, NEW A, Between(p, F, T, A), i \in F PROVE Before(q, T, A)
  BY <1>4, BetweenTail
<1>5. /\ i \in Guarded(l) => Locked(p, l)
      /\ Locked(q, l) => Locked(p, l) \/ i = Instr("test_and_set", l)
  BY <1>2, <1>3 DEF Locked
<1>6. i = Instr("clear", l) => ~Locked(q, l)
  BY <1>4 DEF Locked, Obeys, DebugRules, LockRules, Locks
<1>7. Masked(q, l) => Masked(p, l) \/ i = Instr("cli", l)
  BY <1>2 DEF Masked
<1>8. i = Instr("restore", l) => ~Masked(q, l)
  BY <1>4 DEF Masked, Obeys, DebugRules, LockRules, Locks
<1>9. i = Instr("restore", l) => Masked(p, l) /\ Saved(p, l)
  BY <1>3 DEF Masked, Saved
<1>10. i = Instr("restore", log_lock) => ~Masked(q, debug_lock)
  BY <1>4 DEF Masked, Obeys, NestRules
<1>11. Saved(q, l) => Saved(p, l) \/ i = Instr("save", l)
  BY <1>2 DEF Saved
<1>12. i = Instr("cli", log_lock) => ~Saved(q, debug_lock)
  BY <1>4 DEF Saved, Obeys, NestRules
<1>13. LogReady(q) => LogReady(p) \/ i = Format(log_buffer, "arguments")
  BY <1>2 DEF LogReady
<1>14. i = Format(debug_buffer, log_buffer) => LogReady(p)
  BY <1>3 DEF LogReady
<1> QED BY <1>1, <1>5, <1>6, <1>7, <1>8, <1>9, <1>10, <1>11, <1>12, <1>13, <1>14

\* Around the two halves of sending a string.
LEMMA SendFacts ==
    ASSUME NEW p \in Seq(Instructions), p # <<>>, Obeys(p)
    PROVE  /\ \A b \in Sent :
                /\ Head(p) = Instr("send_first", b) =>
                       Tail(p) # <<>> /\ Head(Tail(p)) = Instr("send_last", b)
                /\ Tail(p) # <<>> /\ Head(Tail(p)) = Instr("send_last", b) =>
                       Head(p) = Instr("send_first", b)
           /\ Tail(p) # <<>> /\ Head(Tail(p)) = Instr("send_first", debug_buffer) =>
                  Head(p) \in DebugFormats
<1> DEFINE i == Head(p)
           q == Tail(p)
<1>1. i \in Instructions /\ q \in Seq(Instructions)
  BY TailFacts
<1>2. ASSUME NEW b \in Sent, i = Instr("send_first", b)
      PROVE  q # <<>> /\ Head(q) = Instr("send_last", b)
  <2>1. Then(p, {Instr("send_first", b)}, {Instr("send_last", b)})
    BY DEF Obeys, DebugRules, SendRules
  <2>2. i \in {Instr("send_first", b)} => q # <<>> /\ Head(q) \in {Instr("send_last", b)}
    BY <2>1, ThenTail
  <2> QED BY <1>2, <2>2
<1>3. ASSUME NEW T, NEW A, Between(p, Instructions \ A, T, A), q # <<>>, Head(q) \in T
      PROVE  i \in A
  <2> SUFFICES ASSUME i \in Instructions \ A PROVE FALSE
    BY <1>1
  <2>1. Before(q, T, A)
    BY <1>3, BetweenTail
  <2> QED BY <1>1, <1>3, <2>1, HeadIsFirst
<1>4. ASSUME NEW b \in Sent, q # <<>>, Head(q) = Instr("send_last", b)
      PROVE  i = Instr("send_first", b)
  <2>1. Between(p, Instructions \ {Instr("send_first", b)}, {Instr("send_last", b)},
                {Instr("send_first", b)})
    BY DEF Obeys, DebugRules, SendRules
  <2>2. i \in {Instr("send_first", b)}
    BY <1>3, <1>4, <2>1
  <2> QED BY <2>2
<1>5. q # <<>> /\ Head(q) = Instr("send_first", debug_buffer) => i \in DebugFormats
  <2>1. Between(p, Instructions \ DebugFormats, {Instr("send_first", debug_buffer)}, DebugFormats)
    BY DEF Obeys, DebugRules, SendRules
  <2> QED BY <1>3, <2>1
<1> QED BY <1>2, <1>4, <1>5

-----------------------------------------------------------------------------
(* One instruction *)

\* A context is the thread or the handler of a processor.
LEMMA ContextFacts ==
    /\ \A x \in Contexts : x[1] \in CPUs /\ x[2] \in {THREAD, ISR} /\ x = <<x[1], x[2]>> /\ x # Nobody
    /\ \A c \in CPUs : <<c, THREAD>> \in Contexts /\ <<c, ISR>> \in Contexts
    /\ \A c, d \in CPUs : <<c, THREAD>> # <<d, ISR>>
    /\ THREAD # ISR
  BY DEF Contexts, THREAD, ISR, Nobody

\* One instruction of one context; the programs of the others stay.
LEMMA ExecuteFacts ==
    ASSUME TypeOK, Programs, NEW x \in Contexts, Execute(x)
    PROVE  /\ todo[x] \in Seq(Instructions) /\ todo[x] # <<>> /\ Obeys(todo[x])
           /\ Head(todo[x]) \in Instructions /\ Effect(x, Head(todo[x]))
           /\ todo'[x] = Tail(todo[x]) /\ DOMAIN todo' = Contexts
           /\ \A y \in Contexts : y # x => todo'[y] = todo[y]
           /\ Programs'
           /\ in_isr' = in_isr /\ rflags' = rflags /\ calls' = calls
           /\ Running(x)
<1>1. /\ todo[x] \in Seq(Instructions) /\ todo[x] # <<>> /\ Obeys(todo[x])
      /\ todo' = [todo EXCEPT ![x] = Tail(todo[x])] /\ Effect(x, Head(todo[x])) /\ Running(x)
      /\ in_isr' = in_isr /\ rflags' = rflags /\ calls' = calls
  BY DEF Programs, Execute
<1>2. Head(todo[x]) \in Instructions /\ Tail(todo[x]) \in Seq(Instructions)
  BY <1>1, TailFacts
<1>3. Obeys(Tail(todo[x]))
  BY <1>1, ObeysTail
<1>4. /\ todo'[x] = Tail(todo[x]) /\ DOMAIN todo' = Contexts
      /\ \A y \in Contexts : y # x => todo'[y] = todo[y]
  BY <1>1 DEF TypeOK
<1>5. Programs'
  BY <1>1, <1>2, <1>3, <1>4 DEF Programs
<1> QED BY <1>1, <1>2, <1>4, <1>5

\* The lock itself.
LEMMA LockEffect ==
    ASSUME TypeOK, NEW x \in Contexts, NEW i \in Instructions, Effect(x, i), NEW l \in Locks
    PROVE  /\ lock' \in [Locks -> BOOLEAN]
           /\ i = Instr("test_and_set", l) => lock[l] = FALSE /\ lock'[l] = TRUE
           /\ i # Instr("test_and_set", l) /\ i # Instr("clear", l) => lock'[l] = lock[l]
<1>1. \A op, on : Instr(op, on).op = op /\ Instr(op, on).on = on
  BY InstructionFacts
<1>2. i.op \in LockOps => i.on \in Locks /\ i = Instr(i.op, i.on)
  BY Kinds DEF LockOps
<1>3. CASE i.op = "test_and_set"
  <2>1. i.on \in Locks /\ i = Instr("test_and_set", i.on)
    BY <1>2, <1>3 DEF LockOps
  <2>2. ~lock[i.on] /\ lock' = [lock EXCEPT ![i.on] = TRUE]
    BY <1>3 DEF Effect
  <2>3. i # Instr("clear", l) /\ (i = Instr("test_and_set", l) => i.on = l)
    BY <1>1, <1>3
  <2>4. i # Instr("test_and_set", l) => i.on # l
    BY <2>1
  <2> QED BY <2>1, <2>2, <2>3, <2>4, Zenon DEF TypeOK
<1>4. CASE i.op = "clear"
  <2>1. i.on \in Locks /\ i = Instr("clear", i.on)
    BY <1>2, <1>4 DEF LockOps
  <2>2. lock' = [lock EXCEPT ![i.on] = FALSE]
    BY <1>4 DEF Effect
  <2>3. i # Instr("test_and_set", l)
    BY <1>1, <1>4
  <2>4. i # Instr("clear", l) => i.on # l
    BY <2>1
  <2> QED BY <2>1, <2>2, <2>3, <2>4, Zenon DEF TypeOK
<1>5. CASE i.op \notin {"test_and_set", "clear"}
  <2>1. lock' = lock
    BY <1>5 DEF Effect
  <2>2. i # Instr("test_and_set", l)
    BY <1>1, <1>5
  <2> QED BY <2>1, <2>2 DEF TypeOK
<1> QED BY <1>3, <1>4, <1>5

\* What is saved in it.
LEMMA SaveEffect ==
    ASSUME TypeOK, NEW x \in Contexts, NEW i \in Instructions, Effect(x, i), NEW l \in Locks
    PROVE  /\ i = Instr("save", l) => interrupts'[l] = IFLAG[x[1]]
           /\ i # Instr("save", l) => interrupts'[l] = interrupts[l]
<1>1. x[1] \in CPUs
  BY ContextFacts
<1>2. \A op, on : Instr(op, on).op = op /\ Instr(op, on).on = on
  BY InstructionFacts
<1>3. CASE i.op = "save"
  <2>1. i.on \in Locks /\ i = Instr("save", i.on)
    BY <1>3, Kinds DEF LockOps
  <2>2. interrupts' = [interrupts EXCEPT ![i.on] = IFLAG[x[1]]]
    BY <1>3 DEF Effect, asm_get_interrupt_flag
  <2>3. i = Instr("save", l) => i.on = l
    BY <1>2
  <2>4. i # Instr("save", l) => i.on # l
    BY <2>1
  <2> QED BY <2>1, <2>2, <2>3, <2>4 DEF TypeOK
<1>4. CASE i.op # "save"
  <2>1. interrupts' = interrupts
    BY <1>4 DEF Effect
  <2>2. i # Instr("save", l)
    BY <1>2, <1>4
  <2> QED BY <2>1, <2>2
<1> QED BY <1>3, <1>4

\* The saved interrupt flags are flags.
LEMMA SaveType ==
    ASSUME TypeOK, NEW x \in Contexts, NEW i \in Instructions, Effect(x, i)
    PROVE  interrupts' \in [Locks -> BOOLEAN]
<1>1. CASE i.op = "save"
  <2>1. i.on \in Locks /\ IFLAG[x[1]] \in BOOLEAN
    BY <1>1, Kinds, ContextFacts DEF LockOps, TypeOK
  <2>2. interrupts' = [interrupts EXCEPT ![i.on] = IFLAG[x[1]]]
    BY <1>1 DEF Effect, asm_get_interrupt_flag
  <2> QED BY <2>1, <2>2 DEF TypeOK
<1>2. CASE i.op # "save"
  BY <1>2 DEF Effect, TypeOK
<1> QED BY <1>1, <1>2

\* The flags of the CPU.
LEMMA FlagEffect ==
    ASSUME TypeOK, NEW x \in Contexts, NEW i \in Instructions, Effect(x, i), NEW c \in CPUs
    PROVE  /\ IFLAG' \in [CPUs -> BOOLEAN] /\ in_service' \in [CPUs -> BOOLEAN]
           /\ halted' \in [CPUs -> BOOLEAN]
           /\ c # x[1] => IFLAG'[c] = IFLAG[c] /\ in_service'[c] = in_service[c]
           /\ i.op \in {"cli", "halt"} => IFLAG'[x[1]] = FALSE
           /\ i.op = "restore" => IFLAG'[x[1]] = interrupts[i.on]
           /\ i.op \notin {"cli", "halt", "restore"} => IFLAG' = IFLAG
           /\ i.op = "eoi" => in_service'[x[1]] = FALSE
           /\ i.op # "eoi" => in_service' = in_service
<1>1. x[1] \in CPUs
  BY ContextFacts
<1>2. CASE i.op = "cli"
  <2>1. IFLAG' = [IFLAG EXCEPT ![x[1]] = FALSE] /\ in_service' = in_service /\ halted' = halted
    BY <1>2 DEF Effect
  <2> QED BY <1>1, <1>2, <2>1, Zenon DEF TypeOK
<1>3. CASE i.op = "restore"
  <2>1. IFLAG' = [IFLAG EXCEPT ![x[1]] = interrupts[i.on]] /\ in_service' = in_service /\ halted' = halted
    BY <1>3 DEF Effect
  <2>2. interrupts[i.on] \in BOOLEAN
    BY <1>3, Kinds DEF TypeOK, LockOps
  <2> QED BY <1>1, <1>3, <2>1, <2>2 DEF TypeOK
<1>4. CASE i.op = "halt"
  <2>1. /\ IFLAG' = [IFLAG EXCEPT ![x[1]] = FALSE] /\ in_service' = in_service
        /\ halted' = [halted EXCEPT ![x[1]] = TRUE]
    BY <1>4 DEF Effect
  <2> QED BY <1>1, <1>4, <2>1, Zenon DEF TypeOK
<1>5. CASE i.op = "eoi"
  <2>1. /\ IFLAG' = IFLAG /\ halted' = halted /\ in_service' = [in_service EXCEPT ![x[1]] = FALSE]
    BY <1>5 DEF Effect
  <2> QED BY <1>1, <1>5, <2>1, Zenon DEF TypeOK
<1>6. CASE i.op \notin {"cli", "restore", "halt", "eoi"}
  <2>1. IFLAG' = IFLAG /\ in_service' = in_service /\ halted' = halted
    BY <1>6 DEF Effect
  <2> QED BY <1>6, <2>1 DEF TypeOK
<1> QED BY <1>2, <1>3, <1>4, <1>5, <1>6

\* The buffers and the port.
LEMMA TextEffect ==
    ASSUME TypeOK, NEW x \in Contexts, NEW i \in Instructions, Effect(x, i)
    PROVE  /\ buffer' \in [Buffers -> Contexts \cup {Nobody}] /\ port' \in Contexts \cup {Nobody}
           /\ i = Format(log_buffer, "arguments") => buffer'[log_buffer] = x
           /\ i = Format(debug_buffer, "arguments") => buffer'[debug_buffer] = x
           /\ i = Format(debug_buffer, log_buffer) => buffer'[debug_buffer] = buffer[log_buffer]
           /\ \A b \in Buffers : ~(i.op = "format" /\ i.on = b) => buffer'[b] = buffer[b]
           /\ i.op = "send_first" => port' = x
           /\ i.op = "send_last" => port' = Nobody
           /\ i.op \notin {"send_first", "send_last"} => port' = port
<1>1. CASE i.op = "format"
  <2>1. i.on \in Buffers /\ i.from \in Sources /\ i = Format(i.on, i.from)
    BY <1>1, Kinds DEF LockOps
  <2>2. /\ buffer' = [buffer EXCEPT ![i.on] = IF i.from \in Buffers THEN buffer[i.from] ELSE x]
        /\ port' = port
    BY <1>1 DEF Effect
  <2>3. \A on, from : Format(on, from).on = on /\ Format(on, from).from = from
    BY InstructionFacts
  <2>4. log_buffer \in Buffers /\ debug_buffer \in Buffers /\ "arguments" \notin Buffers
    BY DEF Buffers, log_buffer, debug_buffer
  <2>5. (IF i.from \in Buffers THEN buffer[i.from] ELSE x) \in Contexts \cup {Nobody}
    BY DEF TypeOK
  <2> QED BY <1>1, <2>1, <2>2, <2>3, <2>4, <2>5 DEF TypeOK
<1>2. CASE i.op # "format"
  <2>1. buffer' = buffer
    BY <1>2 DEF Effect
  <2>2. \A on, from : i # Format(on, from)
    BY <1>2, InstructionFacts
  <2>3. /\ i.op = "send_first" => port' = x
        /\ i.op = "send_last" => port' = Nobody
        /\ i.op \notin {"send_first", "send_last"} => port' = port
    BY <1>2 DEF Effect
  <2> QED BY <2>1, <2>2, <2>3 DEF TypeOK
<1> QED BY <1>1, <1>2

\* One holder per lock: a clear gives it up, and only a test_and_set of a free
\* lock takes it.
LEMMA ExecuteHolder ==
    ASSUME TypeOK, Programs, OneHolder, NEW x \in Contexts, Execute(x)
    PROVE  OneHolder'
<1> SUFFICES ASSUME NEW l \in Locks, NEW y \in Contexts, Locked(todo'[y], l)
             PROVE  lock'[l] = TRUE /\ \A z \in Contexts : Locked(todo'[z], l) => z = y
  BY DEF OneHolder
<1> DEFINE i == Head(todo[x])
<1>1. /\ i \in Instructions /\ Effect(x, i) /\ todo'[x] = Tail(todo[x])
      /\ \A z \in Contexts : z # x => todo'[z] = todo[z]
  BY ExecuteFacts
<1>2. /\ i \in Guarded(l) => Locked(todo[x], l)
      /\ Locked(todo'[x], l) => Locked(todo[x], l) \/ i = Instr("test_and_set", l)
      /\ i = Instr("clear", l) => ~Locked(todo'[x], l)
  BY <1>1, ExecuteFacts, HeadFacts
<1>3. /\ i = Instr("test_and_set", l) => lock[l] = FALSE /\ lock'[l] = TRUE
      /\ i # Instr("test_and_set", l) /\ i # Instr("clear", l) => lock'[l] = lock[l]
  <2> HIDE DEF i
  <2> QED BY <1>1, LockEffect
<1>4. Instr("clear", l) \in Guarded(l)
  BY RestoreIsGuarded DEF LockOps
<1> HIDE DEF i
<1>5. CASE i = Instr("test_and_set", l)
  <2>1. \A z \in Contexts : ~Locked(todo[z], l)
    BY <1>3, <1>5 DEF OneHolder
  <2>2. \A z \in Contexts : Locked(todo'[z], l) => z = x
    BY <1>1, <2>1
  <2> QED BY <1>3, <1>5, <2>2
<1>6. CASE i = Instr("clear", l)
  <2>1. \A z \in Contexts : Locked(todo[z], l) => z = x
    BY <1>2, <1>4, <1>6 DEF OneHolder
  <2> QED BY <1>1, <1>2, <1>6, <2>1
<1>7. CASE i # Instr("test_and_set", l) /\ i # Instr("clear", l)
  <2>1. \A z \in Contexts : Locked(todo'[z], l) => Locked(todo[z], l)
    BY <1>1, <1>2, <1>7
  <2> QED BY <1>3, <1>7, <2>1 DEF OneHolder
<1> QED BY <1>5, <1>6, <1>7

\* The port is in the middle of a string of whoever is about to end it.
LEMMA ExecuteSending ==
    ASSUME TypeOK, Programs, OneHolder, Sending, NEW x \in Contexts, Execute(x)
    PROVE  Sending'
<1> DEFINE i == Head(todo[x])
           q == Tail(todo[x])
           Last(p) == p # <<>> /\ Head(p).op = "send_last"
<1>1. /\ todo[x] \in Seq(Instructions) /\ todo[x] # <<>> /\ Obeys(todo[x])
      /\ i \in Instructions /\ Effect(x, i) /\ todo'[x] = q
      /\ \A z \in Contexts : z # x => todo'[z] = todo[z]
  BY ExecuteFacts
<1>2. /\ i.op = "send_first" => port' = x
      /\ i.op = "send_last" => port' = Nobody
      /\ i.op \notin {"send_first", "send_last"} => port' = port
  BY <1>1, TextEffect
<1>3. /\ i.op \in {"send_first", "send_last"} => i.on \in Sent /\ i = Instr(i.op, i.on)
      /\ i.op \in {"send_first", "send_last"} => i \in Guarded(debug_lock)
  <2>1. i.op \in {"send_first", "send_last"} => i.on \in Sent /\ i = Instr(i.op, i.on)
    BY <1>1, Kinds DEF LockOps
  <2> QED BY <2>1, RestoreIsGuarded
<1>4. q \in Seq(Instructions) /\ Obeys(q)
  BY <1>1, HeadFacts DEF Locks
<1>5. Last(q) <=> i.op = "send_first"
  <2>1. ASSUME i.op = "send_first" PROVE Last(q)
    <3>1. q # <<>> /\ Head(q) = Instr("send_last", i.on)
      BY <1>1, <1>3, <2>1, SendFacts
    <3> QED BY <3>1, InstructionFacts
  <2>2. ASSUME Last(q) PROVE i.op = "send_first"
    <3>1. Head(q) \in Instructions
      BY <1>4, <2>2, TailFacts
    <3>2. PICK b \in Sent : Head(q) = Instr("send_last", b)
      BY <2>2, <3>1, Kinds DEF LockOps
    <3>3. i = Instr("send_first", b)
      BY <1>1, <2>2, <3>2, SendFacts
    <3> QED BY <3>3, InstructionFacts
  <2> QED BY <2>1, <2>2
<1>6. ASSUME NEW y \in Contexts, y # x, i.op \in {"send_first", "send_last"}, Last(todo[y])
      PROVE  FALSE
  <2>1. /\ todo[y] \in Seq(Instructions) /\ todo[y] # <<>> /\ Obeys(todo[y])
    BY <1>6 DEF Programs
  <2>2. Head(todo[y]) \in Guarded(debug_lock)
    <3>1. Head(todo[y]) \in Instructions
      BY <2>1, TailFacts
    <3>2. Head(todo[y]).on \in Sent /\ Head(todo[y]) = Instr("send_last", Head(todo[y]).on)
      BY <1>6, <3>1, Kinds DEF LockOps
    <3> QED BY <3>2, RestoreIsGuarded
  <2>3. Locked(todo[y], debug_lock) /\ Locked(todo[x], debug_lock)
    BY <1>1, <1>3, <1>6, <2>1, <2>2, HeadFacts DEF Locks
  <2> QED BY <1>6, <2>3 DEF OneHolder, Locks
<1>7. \A y \in Contexts : port = y <=> Last(todo[y])
  BY DEF Sending
<1>8. \A y \in Contexts : port' = y <=> Last(todo'[y])
  <2> SUFFICES ASSUME NEW y \in Contexts PROVE port' = y <=> Last(todo'[y])
    OBVIOUS
  <2>1. Last(todo[x]) <=> i.op = "send_last"
    BY <1>1
  <2>2. y # Nobody /\ x # Nobody
    BY ContextFacts
  <2> HIDE DEF Last, i, q
  <2>3. CASE y = x
    BY <1>1, <1>2, <1>5, <1>7, <2>1, <2>2, <2>3
  <2>4. CASE y # x
    BY <1>1, <1>2, <1>6, <1>7, <2>2, <2>4
  <2> QED BY <2>3, <2>4
<1> QED BY <1>8 DEF Sending

\* debug_buffer holds the text that is being sent, log_buffer the text that its
\* holder is going to send.
LEMMA ExecuteFormatted ==
    ASSUME TypeOK, Programs, OneHolder, Formatted, NEW x \in Contexts, Execute(x)
    PROVE  Formatted'
<1> DEFINE i == Head(todo[x])
           q == Tail(todo[x])
           First == Instr("send_first", debug_buffer)
           Last == Instr("send_last", debug_buffer)
           Ends(p) == p # <<>> /\ Head(p) \in {First, Last}
<1>1. /\ todo[x] \in Seq(Instructions) /\ todo[x] # <<>> /\ Obeys(todo[x])
      /\ i \in Instructions /\ Effect(x, i) /\ todo'[x] = q
      /\ \A z \in Contexts : z # x => todo'[z] = todo[z]
  BY ExecuteFacts
<1>2. /\ i = Format(log_buffer, "arguments") => buffer'[log_buffer] = x
      /\ i = Format(debug_buffer, "arguments") => buffer'[debug_buffer] = x
      /\ i = Format(debug_buffer, log_buffer) => buffer'[debug_buffer] = buffer[log_buffer]
      /\ \A b \in Buffers : ~(i.op = "format" /\ i.on = b) => buffer'[b] = buffer[b]
  BY <1>1, TextEffect
<1>3. /\ log_buffer \in Buffers /\ debug_buffer \in Buffers /\ debug_buffer \in Sent
      /\ debug_lock \in Locks /\ log_lock \in Locks /\ log_buffer # debug_buffer
  BY DEF Buffers, Sent, Locks, log_buffer, debug_buffer
<1>4. ASSUME i.op = "format" PROVE i \in {Format(log_buffer, "arguments")} \cup DebugFormats
  BY <1>1, <1>4, Kinds DEF LockOps, Sources, Buffers, DebugFormats
<1>5. \A z \in Contexts :
        Ends(todo[z]) => Locked(todo[z], debug_lock)
  <2> SUFFICES ASSUME NEW z \in Contexts, Ends(todo[z]) PROVE Locked(todo[z], debug_lock)
    OBVIOUS
  <2>1. Head(todo[z]) \in Guarded(debug_lock)
    BY <1>3, RestoreIsGuarded
  <2> QED BY <1>3, <2>1, HeadFacts DEF Programs
<1>6. \A z \in Contexts : LogReady(todo[z]) => Locked(todo[z], log_lock)
  BY <1>3, PendingIsLocked DEF Programs
<1>7. /\ i \in Guarded(log_lock) => Locked(todo[x], log_lock)
      /\ i \in Guarded(debug_lock) => Locked(todo[x], debug_lock)
      /\ LogReady(q) => LogReady(todo[x]) \/ i = Format(log_buffer, "arguments")
      /\ i = Format(debug_buffer, log_buffer) => LogReady(todo[x])
  BY <1>1, <1>3, HeadFacts
<1>8. i.op = "format" /\ i.on = log_buffer => i \in Guarded(log_lock)
  BY <1>1 DEF Guarded
<1>9. i.op = "format" /\ i.on = debug_buffer => i \in Guarded(debug_lock) /\ i \in DebugFormats
  <2> SUFFICES ASSUME i.op = "format" /\ i.on = debug_buffer
               PROVE  i \in Guarded(debug_lock) /\ i \in DebugFormats
    OBVIOUS
  <2>1. i \in DebugFormats
    BY <1>3, <1>4, InstructionFacts
  <2> QED BY <2>1, RestoreIsGuarded DEF DebugFormats
<1>10. /\ q # <<>> /\ Head(q) = Last => i = First
       /\ q # <<>> /\ Head(q) = First => i \in DebugFormats
  BY <1>1, <1>3, SendFacts
<1>11. i \in DebugFormats => i = Format(debug_buffer, "arguments") \/ i = Format(debug_buffer, log_buffer)
  BY DEF DebugFormats, Sources
<1>12. First.op # "format" /\ First.op = "send_first"
  BY InstructionFacts
<1>13. \A z \in Contexts : /\ Ends(todo[z]) => buffer[debug_buffer] = z
                           /\ LogReady(todo[z]) => buffer[log_buffer] = z
  BY DEF Formatted
<1>14. ASSUME NEW y \in Contexts, Ends(todo'[y]) PROVE buffer'[debug_buffer] = y
  <2>1. CASE y = x
    <3>1. CASE i = First
      <4>1. buffer[debug_buffer] = x
        BY <1>1, <1>13, <3>1
      <4> QED BY <1>2, <1>3, <1>12, <2>1, <3>1, <4>1
    <3>2. CASE i \in DebugFormats
      BY <1>2, <1>7, <1>11, <1>13, <2>1, <3>2
    <3> QED BY <1>1, <1>10, <1>14, <2>1, <3>1, <3>2
  <2>2. CASE y # x
    <3>1. Ends(todo[y])
      BY <1>1, <1>14, <2>2
    <3>2. Locked(todo[y], debug_lock) /\ buffer[debug_buffer] = y
      BY <1>5, <1>13, <3>1
    <3>3. ~(i.op = "format" /\ i.on = debug_buffer)
      BY <1>3, <1>7, <1>9, <2>2, <3>2 DEF OneHolder
    <3> QED BY <1>2, <1>3, <3>2, <3>3
  <2> QED BY <2>1, <2>2
<1>15. ASSUME NEW y \in Contexts, LogReady(todo'[y]) PROVE buffer'[log_buffer] = y
  <2>1. CASE i = Format(log_buffer, "arguments") /\ y = x
    BY <1>2, <2>1
  <2>2. CASE ~(i = Format(log_buffer, "arguments") /\ y = x)
    <3>1. LogReady(todo[y])
      BY <1>1, <1>7, <1>15, <2>2
    <3>2. Locked(todo[y], log_lock) /\ buffer[log_buffer] = y
      BY <1>6, <1>13, <3>1
    <3>3. CASE i.op = "format" /\ i.on = log_buffer
      <4>1. y = x
        BY <1>3, <1>7, <1>8, <3>2, <3>3 DEF OneHolder
      <4> QED BY <1>3, <1>4, <2>2, <3>3, <4>1, InstructionFacts DEF DebugFormats
    <3>4. CASE ~(i.op = "format" /\ i.on = log_buffer)
      BY <1>2, <1>3, <3>2, <3>4
    <3> QED BY <3>3, <3>4
  <2> QED BY <2>1, <2>2
<1> QED BY <1>14, <1>15 DEF Formatted

\* The handler runs while there is one, the thread otherwise.
LEMMA RunningFacts ==
    ASSUME TypeOK, NEW x \in Contexts, Running(x)
    PROVE  \/ x = <<x[1], ISR>> /\ in_isr[x[1]] = TRUE
           \/ x = <<x[1], THREAD>> /\ in_isr[x[1]] = FALSE
<1>1. x[1] \in CPUs /\ x = <<x[1], x[2]>> /\ (x[2] = ISR \/ x[2] = THREAD) /\ THREAD # ISR
  BY ContextFacts
<1>2. in_isr[x[1]] \in BOOLEAN
  BY <1>1 DEF TypeOK
<1>3. in_isr[x[1]] = (x[2] = ISR)
  BY DEF Running
<1>4. CASE x[2] = ISR
  BY <1>1, <1>2, <1>3, <1>4
<1>5. CASE x[2] = THREAD
  BY <1>1, <1>2, <1>3, <1>5
<1> QED BY <1>1, <1>4, <1>5

\* In locked code, and in handlers, interrupts stay off: the flag that is
\* restored was saved when they were off, by the same context.
LEMMA ExecuteMasking ==
    ASSUME TypeOK, Programs, Masking, Saving, NEW x \in Contexts, Execute(x)
    PROVE  Masking'
<1> DEFINE i == Head(todo[x])
           q == Tail(todo[x])
<1>1. /\ todo[x] \in Seq(Instructions) /\ todo[x] # <<>> /\ Obeys(todo[x])
      /\ i \in Instructions /\ Effect(x, i) /\ todo'[x] = q /\ Running(x)
      /\ (\A z \in Contexts : z # x => todo'[z] = todo[z]) /\ in_isr' = in_isr /\ rflags' = rflags
  BY ExecuteFacts
<1>2. x[1] \in CPUs /\ (\/ x = <<x[1], ISR>> /\ in_isr[x[1]] = TRUE
                        \/ x = <<x[1], THREAD>> /\ in_isr[x[1]] = FALSE)
  BY <1>1, RunningFacts, ContextFacts
<1>3. /\ i.op \in {"cli", "halt"} => IFLAG'[x[1]] = FALSE
      /\ i.op = "restore" => IFLAG'[x[1]] = interrupts[i.on]
      /\ i.op \notin {"cli", "halt", "restore"} => IFLAG' = IFLAG
      /\ \A c \in CPUs : c # x[1] => IFLAG'[c] = IFLAG[c]
  <2> HIDE DEF i
  <2> QED BY <1>1, <1>2, FlagEffect
<1>4. ASSUME i.op = "restore" PROVE i.on \in Locks /\ i = Instr("restore", i.on)
  BY <1>1, <1>4, Kinds DEF LockOps
<1>5. \A l \in Locks :
        /\ Masked(q, l) => Masked(todo[x], l) \/ i = Instr("cli", l)
        /\ i = Instr("restore", l) => ~Masked(q, l) /\ Saved(todo[x], l)
        /\ i = Instr("restore", log_lock) => ~Masked(q, debug_lock)
  <2> SUFFICES ASSUME NEW l \in Locks
               PROVE  /\ Masked(q, l) => Masked(todo[x], l) \/ i = Instr("cli", l)
                      /\ i = Instr("restore", l) => ~Masked(q, l) /\ Saved(todo[x], l)
                      /\ i = Instr("restore", log_lock) => ~Masked(q, debug_lock)
    OBVIOUS
  <2>1. todo[x] \in Seq(Instructions) /\ todo[x] # <<>> /\ Obeys(todo[x])
    BY <1>1
  <2> QED BY <2>1, HeadFacts
<1>6. \A op, on : Instr(op, on).op = op
  BY InstructionFacts
<1> HIDE DEF i, q
<1>7. ASSUME NEW c \in CPUs, in_isr[c] = TRUE PROVE IFLAG'[c] = FALSE
  <2>1. IFLAG[c] = FALSE
    BY <1>7 DEF Masking
  <2>2. CASE c # x[1]
    BY <1>3, <2>1, <2>2
  <2>3. CASE c = x[1]
    <3>1. CASE i.op = "restore"
      <4>1. x = <<c, ISR>> /\ Saved(todo[x], i.on)
        BY <1>2, <1>4, <1>5, <1>7, <2>3, <3>1
      <4>2. interrupts[i.on] = FALSE
        BY <1>4, <3>1, <4>1 DEF Saving
      <4> QED BY <1>3, <2>3, <3>1, <4>2
    <3>2. CASE i.op # "restore"
      BY <1>3, <2>1, <2>3, <3>2
    <3> QED BY <3>1, <3>2
  <2> QED BY <2>2, <2>3
<1>8. ASSUME NEW c \in CPUs, NEW l \in Locks, Masked(todo'[<<c, THREAD>>], l)
      PROVE  ThreadIF(c)' = FALSE
  <2>1. <<c, THREAD>> \in Contexts /\ <<c, THREAD>> # <<c, ISR>> /\ in_isr[c] \in BOOLEAN
    BY ContextFacts DEF TypeOK
  <2>2. CASE <<c, THREAD>> # x
    <3>1. ThreadIF(c) = FALSE
      BY <1>1, <1>8, <2>1, <2>2 DEF Masking
    <3>2. CASE in_isr[c] = TRUE
      BY <1>1, <3>1, <3>2 DEF ThreadIF
    <3>3. CASE in_isr[c] = FALSE
      <4>1. c # x[1]
        BY <1>2, <2>2, <3>3
      <4> QED BY <1>1, <1>3, <3>1, <3>3, <4>1 DEF ThreadIF
    <3> QED BY <2>1, <3>2, <3>3
  <2>3. CASE <<c, THREAD>> = x
    <3>1. x[1] = c /\ in_isr[c] = FALSE
      BY <1>2, <2>1, <2>3
    <3>2. Masked(q, l)
      BY <1>1, <1>8, <2>3
    <3>3. ThreadIF(c)' = IFLAG'[c] /\ ThreadIF(c) = IFLAG[c]
      BY <1>1, <3>1 DEF ThreadIF
    <3>4. CASE i.op = "restore"
      <4>1. i.on = debug_lock /\ l = log_lock
        BY <1>4, <1>5, <3>2, <3>4 DEF Locks
      <4>2. Masked(todo[x], log_lock) /\ Saved(todo[x], debug_lock)
        BY <1>4, <1>5, <1>6, <3>2, <3>4, <4>1
      <4>3. interrupts[debug_lock] = FALSE
        BY <2>3, <4>2 DEF Saving
      <4> QED BY <1>3, <3>1, <3>3, <3>4, <4>1, <4>3
    <3>5. CASE i.op \in {"cli", "halt"}
      BY <1>3, <3>1, <3>3, <3>5
    <3>6. CASE i.op \notin {"cli", "halt", "restore"}
      <4>1. Masked(todo[x], l)
        BY <1>5, <1>6, <3>2, <3>6
      <4>2. ThreadIF(c) = FALSE
        BY <2>3, <4>1 DEF Masking
      <4> QED BY <1>3, <3>1, <3>3, <3>6, <4>2
    <3> QED BY <3>4, <3>5, <3>6
  <2> QED BY <2>2, <2>3
<1> QED BY <1>1, <1>7, <1>8 DEF Masking

\* The flag saved in a lock is the holder's own until it is restored: saving
\* and restoring is done by the one who holds the lock (spinlock.h:55, 62).
LEMMA ExecuteSaving ==
    ASSUME TypeOK, Programs, OneHolder, Masking, Saving, NEW x \in Contexts, Execute(x)
    PROVE  Saving'
<1> DEFINE i == Head(todo[x])
           q == Tail(todo[x])
<1>1. /\ todo[x] \in Seq(Instructions) /\ todo[x] # <<>> /\ Obeys(todo[x])
      /\ i \in Instructions /\ Effect(x, i) /\ todo'[x] = q /\ Running(x)
      /\ \A z \in Contexts : z # x => todo'[z] = todo[z]
  BY ExecuteFacts
<1>2. x[1] \in CPUs /\ (\/ x = <<x[1], ISR>> /\ in_isr[x[1]] = TRUE
                        \/ x = <<x[1], THREAD>> /\ in_isr[x[1]] = FALSE)
  BY <1>1, RunningFacts, ContextFacts
<1>3. \A l \in Locks : /\ i = Instr("save", l) => interrupts'[l] = IFLAG[x[1]]
                       /\ i # Instr("save", l) => interrupts'[l] = interrupts[l]
  <2> SUFFICES ASSUME NEW l \in Locks
               PROVE  /\ i = Instr("save", l) => interrupts'[l] = IFLAG[x[1]]
                      /\ i # Instr("save", l) => interrupts'[l] = interrupts[l]
    OBVIOUS
  <2>1. i \in Instructions /\ Effect(x, i)
    BY <1>1
  <2> HIDE DEF i
  <2> QED BY <2>1, SaveEffect
<1>4. \A l \in Locks :
        /\ i \in Guarded(l) => Locked(todo[x], l)
        /\ Masked(q, l) => Masked(todo[x], l) \/ i = Instr("cli", l)
        /\ Saved(q, l) => Saved(todo[x], l) \/ i = Instr("save", l)
        /\ i = Instr("cli", log_lock) => ~Saved(q, debug_lock)
  <2> SUFFICES ASSUME NEW l \in Locks
               PROVE  /\ i \in Guarded(l) => Locked(todo[x], l)
                      /\ Masked(q, l) => Masked(todo[x], l) \/ i = Instr("cli", l)
                      /\ Saved(q, l) => Saved(todo[x], l) \/ i = Instr("save", l)
                      /\ i = Instr("cli", log_lock) => ~Saved(q, debug_lock)
    OBVIOUS
  <2>1. todo[x] \in Seq(Instructions) /\ todo[x] # <<>> /\ Obeys(todo[x])
    BY <1>1
  <2> QED BY <2>1, HeadFacts
<1>5. \A op, on : Instr(op, on).op = op
  BY InstructionFacts
<1>6. debug_lock \in Locks /\ log_lock \in Locks
  BY DEF Locks
\* What somebody else saves is not what y has saved: y holds the lock.
<1>7. ASSUME NEW y \in Contexts, y # x, NEW l \in Locks, Saved(todo'[y], l)
      PROVE  interrupts'[l] = interrupts[l] /\ Saved(todo[y], l)
  <2>1. todo'[y] = todo[y] /\ todo[y] \in Seq(Instructions) /\ Obeys(todo[y])
    BY <1>1, <1>7 DEF Programs
  <2>2. Locked(todo[y], l)
    BY <1>7, <2>1, PendingIsLocked
  <2>3. Instr("save", l) \in Guarded(l)
    BY RestoreIsGuarded DEF LockOps
  <2>4. i # Instr("save", l)
    <3> HIDE DEF i
    <3> QED BY <1>4, <1>7, <2>2, <2>3 DEF OneHolder
  <2> HIDE DEF i
  <2> QED BY <1>3, <1>7, <2>1, <2>4
<1> HIDE DEF i, q
<1>8. ASSUME NEW c \in CPUs, Masked(todo'[<<c, THREAD>>], log_lock), Saved(todo'[<<c, THREAD>>], debug_lock)
      PROVE  interrupts'[debug_lock] = FALSE
  <2>1. <<c, THREAD>> \in Contexts /\ <<c, THREAD>> # <<c, ISR>>
    BY ContextFacts
  <2>2. CASE <<c, THREAD>> # x
    <3>1. interrupts'[debug_lock] = interrupts[debug_lock] /\ Saved(todo[<<c, THREAD>>], debug_lock)
      BY <1>6, <1>7, <1>8, <2>1, <2>2
    <3>2. Masked(todo[<<c, THREAD>>], log_lock)
      BY <1>1, <1>8, <2>1, <2>2
    <3> QED BY <3>1, <3>2 DEF Saving
  <2>3. CASE <<c, THREAD>> = x
    <3>1. x[1] = c /\ in_isr[c] = FALSE
      BY <1>2, <2>1, <2>3
    <3>2. Masked(q, log_lock) /\ Saved(q, debug_lock)
      BY <1>1, <1>8, <2>3
    <3>3. Masked(todo[x], log_lock)
      BY <1>4, <1>6, <3>2
    <3>4. CASE i = Instr("save", debug_lock)
      <4>1. ThreadIF(c) = FALSE
        BY <1>6, <2>3, <3>3 DEF Masking
      <4> QED BY <1>3, <1>6, <3>1, <3>4, <4>1 DEF ThreadIF
    <3>5. CASE i # Instr("save", debug_lock)
      <4>1. Saved(todo[x], debug_lock)
        BY <1>4, <1>6, <3>2, <3>5
      <4>2. interrupts[debug_lock] = FALSE
        BY <2>3, <3>3, <4>1 DEF Saving
      <4> QED BY <1>3, <1>6, <3>5, <4>2
    <3> QED BY <3>4, <3>5
  <2> QED BY <2>2, <2>3
<1>9. ASSUME NEW c \in CPUs, NEW l \in Locks, Saved(todo'[<<c, ISR>>], l)
      PROVE  interrupts'[l] = FALSE
  <2>1. <<c, ISR>> \in Contexts /\ <<c, THREAD>> # <<c, ISR>>
    BY ContextFacts
  <2>2. CASE <<c, ISR>> # x
    BY <1>7, <1>9, <2>1, <2>2 DEF Saving
  <2>3. CASE <<c, ISR>> = x
    <3>1. x[1] = c /\ in_isr[c] = TRUE
      <4>1. x[1] = c
        BY <2>3
      <4> QED BY <1>2, <2>3, <4>1, ContextFacts
    <3>2. Saved(q, l)
      BY <1>1, <1>9, <2>3
    <3>3. CASE i = Instr("save", l)
      BY <1>3, <3>1, <3>3 DEF Masking
    <3>4. CASE i # Instr("save", l)
      BY <1>3, <1>4, <2>3, <3>2, <3>4 DEF Saving
    <3> QED BY <3>3, <3>4
  <2> QED BY <2>2, <2>3
<1> QED BY <1>8, <1>9 DEF Saving

\* An instruction keeps the invariant.
LEMMA ExecuteKeeps ==
    ASSUME SerialInv, NEW x \in Contexts, Execute(x)
    PROVE  SerialInv'
<1> DEFINE i == Head(todo[x])
<1>1. /\ todo[x] \in Seq(Instructions) /\ todo[x] # <<>>
      /\ i \in Instructions /\ Effect(x, i) /\ todo'[x] = Tail(todo[x]) /\ DOMAIN todo' = Contexts
      /\ (\A z \in Contexts : z # x => todo'[z] = todo[z])
      /\ Programs' /\ in_isr' = in_isr /\ rflags' = rflags /\ calls' = calls
  BY ExecuteFacts DEF SerialInv
<1> HIDE DEF i
<1>2. TypeOK'
  <2>1. lock' \in [Locks -> BOOLEAN] /\ interrupts' \in [Locks -> BOOLEAN]
    BY <1>1, LockEffect, SaveType DEF SerialInv, Locks
  <2>2. IFLAG' \in [CPUs -> BOOLEAN] /\ in_service' \in [CPUs -> BOOLEAN] /\ halted' \in [CPUs -> BOOLEAN]
    BY <1>1, FlagEffect, ContextFacts DEF SerialInv
  <2>3. buffer' \in [Buffers -> Contexts \cup {Nobody}] /\ port' \in Contexts \cup {Nobody}
    BY <1>1, TextEffect DEF SerialInv
  <2> QED BY <1>1, <2>1, <2>2, <2>3 DEF TypeOK, SerialInv
<1>3. HandlerIdle'
  <2> SUFFICES ASSUME NEW c \in CPUs, in_isr[c] = FALSE PROVE todo'[<<c, ISR>>] = <<>>
    BY <1>1 DEF HandlerIdle
  <2>1. todo[<<c, ISR>>] = <<>> /\ <<c, ISR>> \in Contexts
    BY ContextFacts DEF SerialInv, HandlerIdle
  <2> QED BY <1>1, <2>1
<1>4. Acknowledging'
  <2> SUFFICES ASSUME NEW c \in CPUs, in_service'[c] = TRUE
               PROVE  /\ in_isr[c] = TRUE
                      /\ \E n \in DOMAIN todo'[<<c, ISR>>] : todo'[<<c, ISR>>][n] = Instr("eoi", "lapic")
    BY <1>1 DEF Acknowledging
  <2>1. /\ c # x[1] => in_service'[c] = in_service[c]
        /\ i.op = "eoi" => in_service'[x[1]] = FALSE
        /\ i.op # "eoi" => in_service' = in_service
    BY <1>1, FlagEffect DEF SerialInv
  <2>2. in_service[c] = TRUE /\ (c = x[1] => i.op # "eoi")
    BY <2>1
  <2>3. PICK n \in DOMAIN todo[<<c, ISR>>] : todo[<<c, ISR>>][n] = Instr("eoi", "lapic") /\ in_isr[c] = TRUE
    BY <2>2 DEF SerialInv, Acknowledging
  <2>4. CASE <<c, ISR>> # x
    BY <1>1, <2>3, <2>4, ContextFacts
  <2>5. CASE <<c, ISR>> = x
    <3>1. i.op # "eoi" /\ Instr("eoi", "lapic").op = "eoi"
      <4>1. x[1] = c
        BY <2>5
      <4> QED BY <2>2, <4>1, InstructionFacts
    <3>2. n # 1
      <4>1. Head(todo[x]) = todo[x][1]
        BY <1>1, TailFacts
      <4> QED BY <2>3, <2>5, <3>1, <4>1 DEF i
    <3>3. n - 1 \in DOMAIN Tail(todo[x]) /\ Tail(todo[x])[n - 1] = todo[x][n]
      <4>1. \A m \in DOMAIN todo[x] : m \in Nat \ {0} /\ (m > 1 => /\ m - 1 \in DOMAIN Tail(todo[x])
                                                                 /\ Tail(todo[x])[m - 1] = todo[x][m])
        BY <1>1, TailFacts
      <4> QED BY <2>3, <2>5, <3>2, <4>1
    <3> QED BY <1>1, <2>3, <2>5, <3>3
  <2> QED BY <2>4, <2>5
<1> QED BY <1>1, <1>2, <1>3, <1>4, ExecuteHolder, ExecuteSending, ExecuteFormatted, ExecuteMasking,
           ExecuteSaving DEF SerialInv

-----------------------------------------------------------------------------
(* Calls and interrupts begin whole programs *)

\* A context that had nothing to do starts a program.
LEMMA StartKeeps ==
    ASSUME TypeOK, Programs, OneHolder, Sending, Formatted,
           NEW x \in Contexts, todo[x] = <<>>,
           NEW p \in Seq(Instructions), Obeys(p), Fresh(p),
           todo' = [todo EXCEPT ![x] = p], UNCHANGED <<lock, interrupts, buffer, port>>
    PROVE  /\ Programs' /\ OneHolder' /\ Sending' /\ Formatted'
           /\ DOMAIN todo' = Contexts /\ todo'[x] = p
           /\ \A y \in Contexts : y # x => todo'[y] = todo[y]
           /\ \A l \in Locks : ~Saved(p, l) /\ ~Masked(p, l)
<1>1. /\ DOMAIN todo' = Contexts /\ todo'[x] = p
      /\ \A y \in Contexts : y # x => todo'[y] = todo[y]
  BY DEF TypeOK
<1>2. Programs'
  BY <1>1 DEF Programs
<1>3. ASSUME NEW l \in Locks PROVE ~Locked(p, l) /\ ~Saved(p, l) /\ ~Masked(p, l)
  BY DEF Fresh, DebugFresh, LockFresh, Locked, Saved, Masked, Locks
<1>4. ~LogReady(p)
  BY DEF Fresh, NestFresh, LogReady
<1>5. p # <<>> => Head(p) \notin Guarded(debug_lock) /\ Head(p) \in Instructions
  <2> SUFFICES ASSUME p # <<>> PROVE Head(p) \notin Guarded(debug_lock) /\ Head(p) \in Instructions
    OBVIOUS
  <2>1. Before(p, Guarded(debug_lock), {Instr("test_and_set", debug_lock)})
    BY DEF Fresh, DebugFresh, LockFresh
  <2>2. Head(p) \in Instructions
    BY TailFacts
  <2> QED BY <2>1, <2>2, HeadIsFirst
<1>6. p # <<>> => Head(p).op # "send_last" /\ \A op \in {"send_first", "send_last"} :
                                                 Head(p) # Instr(op, debug_buffer)
  <2> SUFFICES ASSUME p # <<>>
               PROVE  Head(p).op # "send_last" /\ \A op \in {"send_first", "send_last"} :
                                                 Head(p) # Instr(op, debug_buffer)
    OBVIOUS
  <2>1. \A op \in {"send_first", "send_last"}, b \in Sent : Head(p) # Instr(op, b)
    BY <1>5, RestoreIsGuarded
  <2>2. ASSUME Head(p).op = "send_last" PROVE FALSE
    BY <1>5, <2>1, <2>2, Kinds DEF LockOps
  <2> QED BY <2>1, <2>2 DEF Sent
<1>7. OneHolder'
  <2>1. \A l \in Locks, y \in Contexts : Locked(todo'[y], l) => Locked(todo[y], l)
    BY <1>1, <1>3
  <2> QED BY <2>1 DEF OneHolder
<1>8. Sending'
  BY <1>1, <1>6 DEF Sending
<1>9. Formatted'
  BY <1>1, <1>4, <1>6 DEF Formatted
<1> QED BY <1>1, <1>2, <1>3, <1>7, <1>8, <1>9

\* So does the start of a call: its program obeys the rules and holds nothing.
LEMMA BeginKeeps ==
    ASSUME SerialInv, NEW c \in CPUs, NEW p \in Seq(Instructions), Obeys(p), Fresh(p), BeginCall(c, p)
    PROVE  SerialInv'
<1>1. /\ todo[<<c, THREAD>>] = <<>> /\ <<c, THREAD>> \in Contexts
      /\ todo' = [todo EXCEPT ![<<c, THREAD>>] = p]
      /\ UNCHANGED <<lock, interrupts, IFLAG, in_isr, rflags, in_service, halted, buffer, port>>
  BY ContextFacts DEF BeginCall
<1>2. /\ Programs' /\ OneHolder' /\ Sending' /\ Formatted'
      /\ DOMAIN todo' = Contexts /\ todo'[<<c, THREAD>>] = p
      /\ \A y \in Contexts : y # <<c, THREAD>> => todo'[y] = todo[y]
      /\ \A l \in Locks : ~Saved(p, l) /\ ~Masked(p, l)
  BY <1>1, StartKeeps DEF SerialInv
<1>3. TypeOK'
  <2>1. calls' \in [CPUs -> 0 .. MaxCalls]
    BY SerialAssumption DEF BeginCall, SerialInv, TypeOK
  <2> QED BY <1>1, <1>2, <2>1 DEF SerialInv, TypeOK
<1>4. \A d \in CPUs : /\ <<d, ISR>> \in Contexts /\ todo'[<<d, ISR>>] = todo[<<d, ISR>>]
                      /\ <<d, THREAD>> \in Contexts
                      /\ d # c => todo'[<<d, THREAD>>] = todo[<<d, THREAD>>]
  <2>1. \A d \in CPUs : /\ <<d, ISR>> \in Contexts /\ <<d, ISR>> # <<c, THREAD>> /\ <<d, THREAD>> \in Contexts
                        /\ d # c => <<d, THREAD>> # <<c, THREAD>>
    BY ContextFacts
  <2> QED BY <1>2, <2>1
<1>5. HandlerIdle' /\ Acknowledging'
  BY <1>1, <1>4 DEF SerialInv, HandlerIdle, Acknowledging
<1>6. \A d \in CPUs : ThreadIF(d)' = ThreadIF(d)
  BY <1>1 DEF ThreadIF
<1>7. Masking' /\ Saving'
  <2>1. Masking'
    BY <1>1, <1>2, <1>4, <1>6 DEF SerialInv, Masking
  <2>2. Saving'
    BY <1>1, <1>2, <1>4 DEF SerialInv, Saving, Locks
  <2> QED BY <2>1, <2>2
<1> QED BY <1>2, <1>3, <1>5, <1>7 DEF SerialInv

\* So does an interrupt: it comes only where no lock has masked it, and its
\* handler starts masked and holding nothing (isr.c:90-188).
LEMMA InterruptKeeps ==
    ASSUME SerialInv, NEW c \in CPUs, NEW vector \in Vectors, Interrupt(c, vector)
    PROVE  SerialInv'
<1> DEFINE p == isr_handler(vector)
           x == <<c, ISR>>
<1>1. /\ p \in Seq(Instructions) /\ Obeys(p) /\ Fresh(p)
      /\ vector \in Devices => \E n \in DOMAIN p : p[n] = Instr("eoi", "lapic")
  BY HandlerObeys, SerialAssumption
<1>2. /\ in_isr[c] = FALSE /\ todo' = [todo EXCEPT ![x] = p]
      /\ in_isr' = [in_isr EXCEPT ![c] = TRUE] /\ rflags' = [rflags EXCEPT ![c] = IFLAG[c]]
      /\ IFLAG' = [IFLAG EXCEPT ![c] = FALSE]
      /\ UNCHANGED <<lock, interrupts, halted, buffer, port, calls>>
  BY DEF Interrupt, SerialInv, TypeOK
<1>3. x \in Contexts /\ todo[x] = <<>>
  BY <1>2, ContextFacts DEF SerialInv, HandlerIdle
<1> HIDE DEF p
<1>4. /\ Programs' /\ OneHolder' /\ Sending' /\ Formatted'
      /\ DOMAIN todo' = Contexts /\ todo'[x] = p
      /\ \A y \in Contexts : y # x => todo'[y] = todo[y]
      /\ \A l \in Locks : ~Saved(p, l) /\ ~Masked(p, l)
  BY <1>1, <1>2, <1>3, StartKeeps DEF SerialInv
<1>5. /\ in_isr'[c] = TRUE /\ (\A d \in CPUs : d # c => in_isr'[d] = in_isr[d])
      /\ rflags'[c] = IFLAG[c] /\ (\A d \in CPUs : d # c => rflags'[d] = rflags[d])
      /\ IFLAG'[c] = FALSE /\ (\A d \in CPUs : d # c => IFLAG'[d] = IFLAG[d])
  <2>1. in_isr'[c] = TRUE /\ \A d \in CPUs : d # c => in_isr'[d] = in_isr[d]
    BY <1>2, Zenon DEF SerialInv, TypeOK
  <2>2. rflags'[c] = IFLAG[c] /\ \A d \in CPUs : d # c => rflags'[d] = rflags[d]
    BY <1>2, Zenon DEF SerialInv, TypeOK
  <2>3. IFLAG'[c] = FALSE /\ \A d \in CPUs : d # c => IFLAG'[d] = IFLAG[d]
    BY <1>2, Zenon DEF SerialInv, TypeOK
  <2> QED BY <2>1, <2>2, <2>3
<1>6. /\ in_service' \in [CPUs -> BOOLEAN]
      /\ \A d \in CPUs : d # c => in_service'[d] = in_service[d]
      /\ in_service'[c] = TRUE => vector \in Devices
  <2>1. in_service' = [in_service EXCEPT ![c] = in_service[c] \/ vector \in Devices]
    BY DEF Interrupt
  <2>2. in_service[c] = FALSE /\ in_service \in [CPUs -> BOOLEAN]
    BY <1>2 DEF SerialInv, Acknowledging, TypeOK
  <2>4. in_service'[c] = (in_service[c] \/ vector \in Devices)
    BY <2>1, <2>2
  <2>5. in_service' \in [CPUs -> BOOLEAN] /\ \A d \in CPUs : d # c => in_service'[d] = in_service[d]
    BY <2>1, <2>2
  <2> QED BY <2>2, <2>4, <2>5
<1>7. TypeOK'
  <2>1. in_isr' \in [CPUs -> BOOLEAN] /\ rflags' \in [CPUs -> BOOLEAN] /\ IFLAG' \in [CPUs -> BOOLEAN]
    BY <1>2 DEF SerialInv, TypeOK
  <2> QED BY <1>2, <1>4, <1>6, <2>1 DEF SerialInv, TypeOK
<1>8. \A d \in CPUs : /\ <<d, ISR>> \in Contexts /\ <<d, THREAD>> \in Contexts
                      /\ d # c => todo'[<<d, ISR>>] = todo[<<d, ISR>>]
                      /\ todo'[<<d, THREAD>>] = todo[<<d, THREAD>>]
  <2>1. \A d \in CPUs : /\ <<d, ISR>> \in Contexts /\ <<d, THREAD>> # x /\ <<d, THREAD>> \in Contexts
                        /\ d # c => <<d, ISR>> # x
    BY ContextFacts
  <2> QED BY <1>4, <2>1
<1>9. HandlerIdle' /\ Acknowledging'
  <2>1. HandlerIdle'
    <3> SUFFICES ASSUME NEW d \in CPUs, in_isr'[d] = FALSE PROVE todo'[<<d, ISR>>] = <<>>
      BY DEF HandlerIdle
    <3>1. d # c /\ in_isr[d] = FALSE
      BY <1>5
    <3> QED BY <1>8, <3>1 DEF SerialInv, HandlerIdle
  <2>2. Acknowledging'
    <3> SUFFICES ASSUME NEW d \in CPUs, in_service'[d] = TRUE
                 PROVE  /\ in_isr'[d] = TRUE
                        /\ \E n \in DOMAIN todo'[<<d, ISR>>] : todo'[<<d, ISR>>][n] = Instr("eoi", "lapic")
      BY DEF Acknowledging
    <3>1. CASE d = c
      <4>1. \E n \in DOMAIN p : p[n] = Instr("eoi", "lapic")
        BY <1>1, <1>6, <3>1
      <4>2. in_isr'[d] = TRUE
        BY <1>5, <3>1
      <4> QED BY <1>4, <3>1, <4>1, <4>2
    <3>2. CASE d # c
      <4>1. in_service[d] = TRUE
        BY <1>6, <3>2
      <4>2. /\ in_isr[d] = TRUE
            /\ \E n \in DOMAIN todo[<<d, ISR>>] : todo[<<d, ISR>>][n] = Instr("eoi", "lapic")
        BY <4>1 DEF SerialInv, Acknowledging
      <4>3. in_isr'[d] = TRUE
        BY <1>5, <3>2, <4>2
      <4>4. todo'[<<d, ISR>>] = todo[<<d, ISR>>]
        BY <1>8, <3>2
      <4> QED BY <4>2, <4>3, <4>4
    <3> QED BY <3>1, <3>2
  <2> QED BY <2>1, <2>2
<1>10. \A d \in CPUs : ThreadIF(d)' = ThreadIF(d)
  BY <1>2, <1>5 DEF ThreadIF
<1>11. Masking' /\ Saving'
  <2>1. Masking'
    <3>1. \A d \in CPUs : in_isr'[d] = TRUE => IFLAG'[d] = FALSE
      BY <1>5 DEF SerialInv, Masking
    <3> QED BY <1>8, <1>10, <3>1 DEF SerialInv, Masking
  <2>2. Saving'
    BY <1>2, <1>4, <1>8 DEF SerialInv, Saving
  <2> QED BY <2>1, <2>2
<1> QED BY <1>4, <1>7, <1>9, <1>11 DEF SerialInv

\* So does the return from a handler, which gives back the thread's flags.
LEMMA ReturnKeeps ==
    ASSUME SerialInv, NEW c \in CPUs, InterruptReturn(c)
    PROVE  SerialInv'
<1>1. /\ in_isr[c] = TRUE /\ todo[<<c, ISR>>] = <<>>
      /\ in_isr' = [in_isr EXCEPT ![c] = FALSE] /\ IFLAG' = [IFLAG EXCEPT ![c] = rflags[c]]
      /\ UNCHANGED <<lock, interrupts, todo, rflags, in_service, halted, buffer, port, calls>>
  BY DEF InterruptReturn, SerialInv, TypeOK
<1>2. /\ in_isr'[c] = FALSE /\ (\A d \in CPUs : d # c => in_isr'[d] = in_isr[d])
      /\ IFLAG'[c] = rflags[c] /\ (\A d \in CPUs : d # c => IFLAG'[d] = IFLAG[d])
  <2>1. in_isr'[c] = FALSE /\ \A d \in CPUs : d # c => in_isr'[d] = in_isr[d]
    BY <1>1, Zenon DEF SerialInv, TypeOK
  <2>2. IFLAG'[c] = rflags[c] /\ \A d \in CPUs : d # c => IFLAG'[d] = IFLAG[d]
    BY <1>1, Zenon DEF SerialInv, TypeOK
  <2> QED BY <2>1, <2>2
<1>3. TypeOK'
  <2>1. in_isr' \in [CPUs -> BOOLEAN] /\ IFLAG' \in [CPUs -> BOOLEAN]
    BY <1>1 DEF SerialInv, TypeOK
  <2> QED BY <1>1, <2>1 DEF SerialInv, TypeOK
<1>4. Programs' /\ OneHolder' /\ Sending' /\ Formatted' /\ Saving'
  BY <1>1 DEF SerialInv, Programs, OneHolder, Sending, Formatted, Saving
<1>5. HandlerIdle'
  BY <1>1, <1>2 DEF SerialInv, HandlerIdle
<1>6. Acknowledging'
  <2> SUFFICES ASSUME NEW d \in CPUs, in_service[d] = TRUE
               PROVE  /\ in_isr'[d] = TRUE
                      /\ \E n \in DOMAIN todo[<<d, ISR>>] : todo[<<d, ISR>>][n] = Instr("eoi", "lapic")
    BY <1>1 DEF Acknowledging
  <2>1. /\ in_isr[d] = TRUE
        /\ \E n \in DOMAIN todo[<<d, ISR>>] : todo[<<d, ISR>>][n] = Instr("eoi", "lapic")
    BY DEF SerialInv, Acknowledging
  <2>2. d # c
    BY <1>1, <2>1
  <2> QED BY <1>2, <2>1, <2>2
<1>7. \A d \in CPUs : ThreadIF(d)' = ThreadIF(d)
  BY <1>1, <1>2 DEF ThreadIF
<1>8. Masking'
  <2>1. \A d \in CPUs : in_isr'[d] = TRUE => IFLAG'[d] = FALSE
    BY <1>2 DEF SerialInv, Masking
  <2> QED BY <1>1, <1>7, <2>1 DEF SerialInv, Masking
<1> QED BY <1>3, <1>4, <1>5, <1>6, <1>8 DEF SerialInv

\* At the start nothing runs and nothing is held.
LEMMA SerialInvInit == Init => SerialInv
<1> SUFFICES ASSUME Init PROVE SerialInv
  OBVIOUS
<1>1. /\ \A x \in Contexts : todo[x] = <<>>
      /\ todo = [x \in Contexts |-> <<>>]
      /\ port = Nobody /\ \A c \in CPUs : in_service[c] = FALSE /\ in_isr[c] = FALSE
  BY DEF Init
<1>2. TypeOK
  BY SerialAssumption DEF Init, TypeOK
<1> DEFINE empty == <<>>
<1>3. /\ empty \in Seq(Instructions) /\ DOMAIN empty = {}
  OBVIOUS
<1> HIDE DEF empty
<1>4. Closed(empty) /\ QuietForLog(empty)
  BY <1>3, SilentClosed DEF QuietForLog, OutsideLog
<1>5. Obeys(empty) /\ Fresh(empty)
  BY <1>4, QuietObeys
<1>6. Programs
  BY <1>1, <1>3, <1>5 DEF Programs, empty
<1>7. ~LogReady(empty) /\ \A l \in Locks : ~Locked(empty, l) /\ ~Masked(empty, l) /\ ~Saved(empty, l)
  BY <1>3 DEF Before, LogReady, Locked, Masked, Saved
<1>8. \A c \in CPUs : todo[<<c, THREAD>>] = <<>> /\ todo[<<c, ISR>>] = <<>>
  BY <1>1, ContextFacts
<1>9. OneHolder /\ Formatted
  BY <1>1, <1>7 DEF OneHolder, Formatted, empty
<1>10. Sending
  BY <1>1, ContextFacts DEF Sending
<1>11. HandlerIdle /\ Acknowledging
  BY <1>1, <1>8 DEF HandlerIdle, Acknowledging
<1>12. Masking /\ Saving
  BY <1>1, <1>7, <1>8 DEF Masking, Saving, Locks, empty
<1> QED BY <1>2, <1>6, <1>9, <1>10, <1>11, <1>12 DEF SerialInv

\* Every step keeps the invariant.
LEMMA SerialInvNext ==
    ASSUME SerialInv, [Next]_vars
    PROVE  SerialInv'
<1>1. ASSUME NEW c \in CPUs, NEW status \in Statuses, BeginCall(c, log_impl(status)) PROVE SerialInv'
  BY <1>1, LogObeys, BeginKeeps
<1>2. ASSUME NEW c \in CPUs, BeginCall(c, debug("arguments")) PROVE SerialInv'
  <2>1. Closed(debug("arguments")) /\ QuietForLog(debug("arguments"))
    BY DebugClosed DEF Sources
  <2>2. debug("arguments") \in Seq(Instructions) /\ Obeys(debug("arguments")) /\ Fresh(debug("arguments"))
    BY <2>1, QuietObeys DEF Closed
  <2> QED BY <1>2, <2>2, BeginKeeps
<1>3. CASE UNCHANGED vars
  <2>1. TypeOK' /\ Programs' /\ OneHolder'
    BY <1>3 DEF vars, SerialInv, TypeOK, Programs, OneHolder
  <2>2. Sending' /\ Formatted' /\ HandlerIdle'
    BY <1>3 DEF vars, SerialInv, Sending, Formatted, HandlerIdle
  <2>3. Masking' /\ Saving'
    BY <1>3 DEF vars, SerialInv, Masking, Saving, ThreadIF
  <2>4. Acknowledging'
    BY <1>3 DEF vars, SerialInv, Acknowledging
  <2> QED BY <2>1, <2>2, <2>3, <2>4 DEF SerialInv
<1> QED BY <1>1, <1>2, <1>3, ExecuteKeeps, InterruptKeeps, ReturnKeeps DEF Next

-----------------------------------------------------------------------------
(* The properties *)

\* Outside cli and restore, a context that is past its test_and_set of l and has
\* its clear of l ahead is at one of the other instructions of acquire and
\* release.
LEMMA UnmaskedHolder ==
    ASSUME NEW p \in Seq(Instructions), Obeys(p), NEW l \in Locks, ~Masked(p, l),
           NEW n \in DOMAIN p, p[n] = Instr("clear", l),
           \A k \in 1 .. n - 1 : p[k] # Instr("test_and_set", l)
    PROVE  p # <<>> /\ Head(p) \in {Instr("save", l), Instr("cli", l), Instr("clear", l)}
<1>1. LockRules(p, l)
  BY DEF Obeys, DebugRules, Locks
<1>2. DOMAIN p = 1 .. Len(p) /\ Len(p) \in Nat /\ n \in 1 .. Len(p) /\ p # <<>> /\ Head(p) = p[1]
  BY TailFacts
<1>3. ASSUME NEW s \in Instructions, NEW t, NEW m \in DOMAIN p, m > 1, p[m] = t,
             Between(p, Instructions \ {s}, {t}, {s})
      PROVE  p[m - 1] = s
  <2> SUFFICES ASSUME p[m - 1] # s PROVE FALSE
    OBVIOUS
  <2>1. m - 1 \in DOMAIN p /\ m - 1 < m /\ m \in Nat
    BY <1>2, <1>3
  <2>2. p[m - 1] \in Instructions \ {s}
    BY <2>1
  <2>3. PICK k \in (m - 1) + 1 .. m - 1 : TRUE
    BY <1>3, <2>1, <2>2 DEF Between
  <2> QED BY <2>1, <2>3
<1>4. /\ Instr("restore", l) \in Instructions /\ Instr("save", l) \in Instructions
      /\ Instr("test_and_set", l) \in Instructions
  BY InstructionFacts DEF LockOps
<1>5. CASE n = 1
  BY <1>2, <1>5
<1>6. CASE n > 1
  <2>1. p[n - 1] = Instr("restore", l) /\ n - 1 \in DOMAIN p
    <3>1. Between(p, Instructions \ {Instr("restore", l)}, {Instr("clear", l)}, {Instr("restore", l)})
      BY <1>1 DEF LockRules
    <3>2. p[n - 1] = Instr("restore", l)
      BY <1>3, <1>4, <1>6, <3>1
    <3> QED BY <1>2, <1>6, <3>2
  <2>2. PICK k \in 1 .. (n - 1) - 1 : p[k] = Instr("cli", l)
    BY <2>1 DEF Masked, Before
  <2>3. k \in DOMAIN p /\ k \in Nat /\ k < n
    BY <1>2, <2>2
  <2>4. CASE k = 1
    BY <1>2, <2>2, <2>4
  <2>5. CASE k > 1
    <3>1. p[k - 1] = Instr("save", l) /\ k - 1 \in DOMAIN p
      <4>1. Between(p, Instructions \ {Instr("save", l)}, {Instr("cli", l)}, {Instr("save", l)})
        BY <1>1 DEF LockRules
      <4>2. p[k - 1] = Instr("save", l)
        BY <1>3, <1>4, <2>2, <2>3, <2>5, <4>1
      <4> QED BY <1>2, <2>3, <2>5, <4>2
    <3>2. CASE k - 1 = 1
      BY <1>2, <3>1, <3>2
    <3>3. CASE k - 1 > 1
      <4> DEFINE j == k - 1
      <4>1. j \in DOMAIN p /\ j > 1 /\ p[j] = Instr("save", l) /\ j - 1 \in 1 .. n - 1
        BY <1>2, <2>3, <3>1, <3>3
      <4> HIDE DEF j
      <4>2. p[j - 1] = Instr("test_and_set", l)
        BY <1>1, <1>3, <1>4, <4>1 DEF LockRules
      <4> QED BY <4>1, <4>2
    <3> QED BY <1>2, <2>3, <2>5, <3>2, <3>3
  <2> QED BY <2>3, <2>4, <2>5
<1> QED BY <1>2, <1>5, <1>6

\* Every variable keeps its type.
THEOREM SerialTypeCorrect == Spec => []TypeOK
<1>1. SerialInv /\ [Next]_vars => SerialInv'
  BY SerialInvNext
<1>2. SerialInv => TypeOK
  BY DEF SerialInv
<1> QED BY <1>1, <1>2, SerialInvInit, PTL DEF Spec

\* However many CPUs print, from threads and from handlers, each string reaches
\* COM1 whole and is the one its caller formatted (log_impl, debug, isr_handler).
THEOREM StringsStayWhole == Spec => []StringsArriveWhole
<1>1. SerialInv /\ [Next]_vars => SerialInv'
  BY SerialInvNext
<1>2. SerialInv => StringsArriveWhole
  <2> SUFFICES ASSUME SerialInv, NEW x \in Contexts, NEW b \in Sent
               PROVE  /\ At(x, "send_first", b) => port = Nobody
                      /\ At(x, "send_last", b) => port = x
                      /\ b = debug_buffer /\ (At(x, "send_first", b) \/ At(x, "send_last", b)) =>
                             buffer[b] = x
    BY DEF StringsArriveWhole, Sent
  <2>1. ASSUME NEW y \in Contexts, NEW op \in {"send_first", "send_last"},
               todo[y] # <<>>, Head(todo[y]).op = op
        PROVE  /\ Head(todo[y]).on \in Sent /\ Head(todo[y]) = Instr(op, Head(todo[y]).on)
               /\ Locked(todo[y], debug_lock)
    <3>1. todo[y] \in Seq(Instructions) /\ Obeys(todo[y])
      BY DEF SerialInv, Programs
    <3>2. Head(todo[y]) \in Instructions
      BY <2>1, <3>1, TailFacts
    <3>3. Head(todo[y]).on \in Sent /\ Head(todo[y]) = Instr(op, Head(todo[y]).on)
      BY <2>1, <3>2, Kinds DEF LockOps
    <3>4. Head(todo[y]) \in Guarded(debug_lock)
      BY <3>3, RestoreIsGuarded
    <3>5. Locked(todo[y], debug_lock)
      BY <2>1, <3>1, <3>4, HeadFacts DEF Locks
    <3> QED BY <3>3, <3>5
  <2>2. ASSUME At(x, "send_first", b) PROVE port = Nobody
    <3>1. Locked(todo[x], debug_lock) /\ Head(todo[x]).op = "send_first"
      BY <2>1, <2>2 DEF At
    <3>2. ASSUME port \in Contexts PROVE FALSE
      <4>1. PICK y \in Contexts : y = port
        BY <3>2
      <4>2. todo[y] # <<>> /\ Head(todo[y]).op = "send_last"
        BY <4>1 DEF SerialInv, Sending
      <4>3. Locked(todo[y], debug_lock)
        BY <2>1, <4>2
      <4>4. y = x
        BY <3>1, <4>3 DEF SerialInv, OneHolder, Locks
      <4> QED BY <3>1, <4>2, <4>4
    <3> QED BY <3>2 DEF SerialInv, TypeOK
  <2>3. At(x, "send_last", b) => port = x
    BY DEF At, SerialInv, Sending
  <2>4. ASSUME b = debug_buffer, At(x, "send_first", b) \/ At(x, "send_last", b) PROVE buffer[b] = x
    <3>1. todo[x] # <<>> /\ Head(todo[x]) \in {Instr("send_first", debug_buffer),
                                               Instr("send_last", debug_buffer)}
      BY <2>1, <2>4 DEF At
    <3> QED BY <2>4, <3>1 DEF SerialInv, Formatted
  <2> QED BY <2>2, <2>3, <2>4
<1> QED BY <1>1, <1>2, SerialInvInit, PTL DEF Spec

\* A thread that holds a lock runs with interrupts off but for the instructions
\* of acquire and release, though log_impl's lock is held across the acquire and
\* the release of debug's.
THEOREM LockedCodeMasked == Spec => []LockedCodeNotInterrupted
<1>1. SerialInv /\ [Next]_vars => SerialInv'
  BY SerialInvNext
<1>2. SerialInv => LockedCodeNotInterrupted
  <2> SUFFICES ASSUME SerialInv, NEW c \in CPUs, NEW l \in Locks,
                      ~in_isr[c], IFLAG[c], Holds(<<c, THREAD>>, l)
               PROVE  \/ At(<<c, THREAD>>, "save", l) \/ At(<<c, THREAD>>, "cli", l)
                      \/ At(<<c, THREAD>>, "clear", l)
    BY DEF LockedCodeNotInterrupted
  <2> DEFINE p == todo[<<c, THREAD>>]
  <2>1. p \in Seq(Instructions) /\ Obeys(p)
    BY ContextFacts DEF SerialInv, Programs
  <2>2. ThreadIF(c) = TRUE
    BY DEF ThreadIF, SerialInv, TypeOK
  <2>3. ~Masked(p, l)
    BY <2>2 DEF SerialInv, Masking
  <2>4. PICK n \in DOMAIN p : /\ p[n] = Instr("clear", l)
                              /\ \A k \in 1 .. n - 1 : p[k] # Instr("test_and_set", l)
    BY DEF Holds
  <2>5. p # <<>> /\ Head(p) \in {Instr("save", l), Instr("cli", l), Instr("clear", l)}
    BY <2>1, <2>3, <2>4, UnmaskedHolder
  <2> QED BY <2>5, InstructionFacts DEF At
<1> QED BY <1>1, <1>2, SerialInvInit, PTL DEF Spec

\* No device interrupt stays unacknowledged when its handler returns
\* (isr_handler, lapic_signal_eoi).
THEOREM DevicesAcknowledged == Spec => []AcknowledgedBeforeReturn
<1>1. SerialInv /\ [Next]_vars => SerialInv'
  BY SerialInvNext
<1>2. SerialInv => AcknowledgedBeforeReturn
  BY DEF SerialInv, Acknowledging, AcknowledgedBeforeReturn, TypeOK
<1> QED BY <1>1, <1>2, SerialInvInit, PTL DEF Spec

\* Handlers run with interrupts off to their end.
THEOREM HandlersMasked == Spec => []HandlerStaysMasked
<1>1. SerialInv /\ [Next]_vars => SerialInv'
  BY SerialInvNext
<1>2. SerialInv => HandlerStaysMasked
  BY DEF SerialInv, Masking, HandlerStaysMasked, TypeOK
<1> QED BY <1>1, <1>2, SerialInvInit, PTL DEF Spec

=============================================================================
