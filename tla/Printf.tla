------------------------------- MODULE Printf -------------------------------
(***************************************************************************)
(* Formatted printing, libk/printf/printf.c: _vsnprintf behind sprintf_,   *)
(* snprintf_, vsnprintf_ and fctprintf, as the kernel builds it, without   *)
(* SSE_SUPPORT and so without %f, %e and %g.                               *)
(*                                                                         *)
(* A call is described by its parts, text and conversions, from which its  *)
(* format and its arguments follow.  The steps below read the format as    *)
(* the code does; the properties compare the outcome with what C says of   *)
(* the parts.  A string argument is the sequence of the bytes of its       *)
(* array, the terminating NUL included where it has one.                   *)
(***************************************************************************)
EXTENDS Integers, SequencesExt

CONSTANTS
    CHAR_BITS, SHORT_BITS, INT_BITS,
    LONG_BITS,               \* bits of long, of long long and of pointers
    SIZE_RANGE,              \* the number of values of size_t, 2^64 in the code
    PRINTF_NTOA_BUFFER_SIZE, \* room for one converted number, 32 in the code
    Calls                    \* the calls that are made

ASSUME PrintfAssumption ==
    {CHAR_BITS, SHORT_BITS, INT_BITS, LONG_BITS, SIZE_RANGE, PRINTF_NTOA_BUFFER_SIZE}
        \subseteq Nat \ {0}

NUL == "NUL"
FlagChars == {"0", "-", "+", " ", "#"}
SignedConversions == {"d", "i"}
IntegerConversions == SignedConversions \cup {"u", "x", "X", "o", "b"}
Decimal == <<"0", "1", "2", "3", "4", "5", "6", "7", "8", "9">>
Lowercase == Decimal \o <<"a", "b", "c", "d", "e", "f">>
Uppercase == Decimal \o <<"A", "B", "C", "D", "E", "F">>

VARIABLES
    call,       \* the function, its buffer's size, its count and the parts
    format,     \* the format: its characters without the terminating NUL
    va,         \* the arguments still to be taken
    stage,      \* which field of the format is evaluated next
    at,         \* the position in the format
    flags,      \* the characters of the flags and of the length, "." for
                \* FLAGS_PRECISION, "UPPERCASE"
    width,
    precision,
    idx,
    buffer,     \* the bytes written, by their distance from the buffer's address
    sent,       \* the characters given to fctprintf's function
    strayed     \* history: what was read outside its array, "format", "string", or
                \* "next" for a single byte, the one behind a string argument

vars == <<call, format, va, stage, at, flags, width, precision, idx, buffer, sent, strayed>>

-----------------------------------------------------------------------------
(* Calls *)

Repeat(c, n) == [i \in 1 .. n |-> c]

\* The numeral of value in base, of at least this many digits.
Numeral(value, base, least, digits) ==
    LET length == CHOOSE k \in 0 .. LONG_BITS :
                      value < base ^ k /\ \A j \in 0 .. k - 1 : value >= base ^ j
        n == Max({length, least})
    IN [i \in 1 .. n |-> digits[((value \div base ^ (n - i)) % base) + 1]]

Number(n) == [number |-> n, string |-> <<>>]
String(s) == [number |-> 0, string |-> s]

\* A width of 0 is none; a precision is <<>> or of one element.
Conversion(fl, w, prec, length, conversion, value) ==
    [flags |-> fl, width |-> w, precision |-> prec, stars |-> {}, length |-> length,
     conversion |-> conversion, value |-> value]
Text(chars) == Conversion({}, 0, <<>>, <<>>, "", String(chars))

\* A field of the format; a precision of 0 is a period alone.
FieldOf(name, n, part) ==
    IF name \in part.stars THEN <<"*">> ELSE Numeral(n, 10, 0, Decimal)

FormatOf(part) ==
    IF part.conversion = ""
    THEN part.value.string
    ELSE <<"%">> \o SetToSeq(part.flags) \o FieldOf("width", part.width, part)
             \o (IF part.precision = <<>>
                 THEN <<>>
                 ELSE <<".">> \o FieldOf("precision", part.precision[1], part))
             \o part.length \o <<part.conversion>>

ArgumentsOf(part) ==
    (IF "width" \in part.stars THEN <<Number(part.width)>> ELSE <<>>)
        \o (IF "precision" \in part.stars THEN <<Number(part.precision[1])>> ELSE <<>>)
        \o (IF part.conversion \in {"", "%"} THEN <<>> ELSE <<part.value>>)

Init ==
    /\ call \in Calls
    /\ format = FlattenSeq([i \in DOMAIN call.parts |-> FormatOf(call.parts[i])])
    /\ va = FlattenSeq([i \in DOMAIN call.parts |-> ArgumentsOf(call.parts[i])])
    /\ stage = "text"
    /\ at = 1
    /\ flags = {}
    /\ width = 0
    /\ precision = 0
    /\ idx = 0
    /\ buffer = <<>>
    /\ sent = <<>>
    /\ strayed = {}

-----------------------------------------------------------------------------
(* Output *)

\* What the four functions pass on as maxlen.
maxlen == IF call.fn \in {"sprintf_", "fctprintf"} THEN SIZE_RANGE - 1 ELSE call.count

\* Variant: the last place counts as room.
_out_buffer_at_end(text, from) ==
    [i \in {k \in from .. from + Len(text) - 1 : k <= maxlen} |-> text[i - from + 1]] @@ buffer

_out_buffer(text, from) ==
    [i \in {k \in from .. from + Len(text) - 1 : k < maxlen} |-> text[i - from + 1]] @@ buffer

_out_fct(text) == sent \o SelectSeq(text, LAMBDA c : c # NUL)

\* out for each character of text; _out_null for a null buffer does nothing.
out(text, from) ==
    CASE call.fn = "fctprintf" -> sent' = _out_fct(text) /\ UNCHANGED buffer
      [] call.fn # "fctprintf" /\ call.size > 0 -> buffer' = _out_buffer(text, from) /\ UNCHANGED sent
      [] OTHER -> UNCHANGED <<buffer, sent>>

Emit(text) == out(text, idx) /\ idx' = idx + Len(text)

\* The padding of %c and %s, on the side that FLAGS_LEFT asks for.
Padded(text) ==
    LET spaces == Repeat(" ", Max({width - Len(text), 0}))
    IN IF "-" \in flags THEN text \o spaces ELSE spaces \o text

_out_rev(buf, w, fl) ==
    LET spaces == Repeat(" ", Max({w - Len(buf), 0}))
    IN (IF fl \cap {"-", "0"} = {} THEN spaces ELSE <<>>)
           \o Reverse(buf)
           \o (IF "-" \in fl THEN spaces ELSE <<>>)

-----------------------------------------------------------------------------
(* Numbers *)

\* buf[len++] = c, where the code tests for room.
Store(buf, c) == IF Len(buf) < PRINTF_NTOA_BUFFER_SIZE THEN Append(buf, c) ELSE buf

PadZeros(buf, n) ==
    buf \o Repeat("0", Max({Min({n, PRINTF_NTOA_BUFFER_SIZE}) - Len(buf), 0}))

\* Variant: the place of the sign is not taken from the width.
WidthWithSign(w, negative, fl) == w

WidthWithoutSign(w, negative, fl) ==
    IF w > 0 /\ "0" \in fl /\ (negative \/ fl \cap {"+", " "} # {}) THEN w - 1 ELSE w

LeadingZeros(buf, w, fl) ==
    LET precise == PadZeros(buf, precision)
    IN IF "0" \in fl THEN PadZeros(precise, w) ELSE precise

\* A prefix takes the place of zeros up to a width, or what is taken for them.
RoomForHash(buf, base, w, fl) ==
    IF "." \notin fl /\ Len(buf) > 0 /\ Len(buf) \in {precision, w}
    THEN SubSeq(buf, 1, Len(buf) - (IF Len(buf) > 1 /\ base = 16 THEN 2 ELSE 1))
    ELSE buf

Hash(buf, base, w, fl) ==
    LET room == RoomForHash(buf, base, w, fl)
        letter == CASE base = 16 -> Store(room, IF "UPPERCASE" \in fl THEN "X" ELSE "x")
                    [] base = 2 -> Store(room, "b")
                    [] OTHER -> room
    IN Store(letter, "0")

Sign(buf, negative, fl) ==
    CASE negative -> Store(buf, "-")
      [] ~negative /\ "+" \in fl -> Store(buf, "+")
      [] ~negative /\ "+" \notin fl /\ " " \in fl -> Store(buf, " ")
      [] OTHER -> buf

_ntoa_format(digits, negative, base, w, fl) ==
    LET left   == "-" \in fl
        narrow == IF left THEN w ELSE WidthWithoutSign(w, negative, fl)
        zeros  == IF left THEN digits ELSE LeadingZeros(digits, narrow, fl)
        hashed == IF "#" \in fl THEN Hash(zeros, base, narrow, fl) ELSE zeros
    IN _out_rev(Sign(hashed, negative, fl), narrow, fl)

\* The do-while loop of _ntoa_long and _ntoa_long_long.
RECURSIVE DigitLoop(_, _, _, _)
DigitLoop(value, base, digits, buf) ==
    LET next == Append(buf, digits[(value % base) + 1])
        rest == value \div base
    IN IF rest > 0 /\ Len(next) < PRINTF_NTOA_BUFFER_SIZE
       THEN DigitLoop(rest, base, digits, next)
       ELSE next

_ntoa_long(value, negative, base, w, fl) ==
    LET kept   == IF value = 0 THEN fl \ {"#"} ELSE fl
        table  == IF "UPPERCASE" \in fl THEN Uppercase ELSE Lowercase
        digits == IF "." \notin fl \/ value # 0 THEN DigitLoop(value, base, table, <<>>) ELSE <<>>
    IN _ntoa_format(digits, negative, base, w, kept)

-----------------------------------------------------------------------------
(* The fields of a conversion *)

\* *format; the byte behind the NUL is no longer the format's.
Here == IF at <= Len(format) THEN format[at] ELSE NUL
Ahead == IF at < Len(format) THEN format[at + 1] ELSE NUL

_is_digit(c) == c \in ToSet(Decimal)

\* The digits at p, their value as an unsigned int, and where they end.
DigitsEnd(p) == Min({q \in p .. Len(format) + 1 : q > Len(format) \/ ~_is_digit(format[q])})
_atoi(p) ==
    FoldLeft(LAMBDA n, c : (n * 10 + Min({d \in 0 .. 9 : Decimal[d + 1] = c})) % (2 ^ INT_BITS),
             0, SubSeq(format, p, DigitsEnd(p) - 1))

Argument == Head(va)
SignedOf(n, bits) == ((n + 2 ^ (bits - 1)) % (2 ^ bits)) - 2 ^ (bits - 1)
UnsignedOf(n, bits) == n % (2 ^ bits)

\* The characters of a string, at most maxsize of them unless that is 0, for which
\* the code passes (size_t) -1.
_strnlen_s(string, maxsize) ==
    LET ends == {k \in 0 .. Len(string) : k = Len(string) \/ string[k + 1] = NUL}
    IN Min(ends \cup (IF maxsize > 0 THEN {maxsize} ELSE {}))

\* The loop of _strnlen_s reads a byte before it tests maxsize, so also the byte
\* behind the last one counted.
ReadBehind(string, maxsize) ==
    CASE _strnlen_s(string, maxsize) < Len(string) -> {}
      [] _strnlen_s(string, maxsize) = Len(string) /\ maxsize = Len(string) -> {"next"}
      [] OTHER -> {"string"}

PlainChar ==
    /\ stage = "text" /\ Here \notin {"%", NUL}
    /\ Emit(<<Here>>)
    /\ at' = at + 1
    /\ UNCHANGED <<call, format, va, stage, flags, width, precision, strayed>>

BeginConversion ==
    /\ stage = "text" /\ Here = "%"
    /\ stage' = "flags"
    /\ at' = at + 1
    /\ flags' = {} /\ width' = 0 /\ precision' = 0
    /\ UNCHANGED <<call, format, va, idx, buffer, sent, strayed>>

EvaluateFlag ==
    /\ stage = "flags" /\ Here \in FlagChars
    /\ flags' = flags \cup {Here}
    /\ at' = at + 1
    /\ UNCHANGED <<call, format, va, stage, width, precision, idx, buffer, sent, strayed>>

EvaluateWidth ==
    /\ stage = "flags" /\ Here \notin FlagChars
    /\ stage' = "precision"
    /\ IF Here = "*"
       THEN LET w == Argument.number IN
            /\ width' = IF w < 0 THEN -w ELSE w
            /\ flags' = IF w < 0 THEN flags \cup {"-"} ELSE flags
            /\ va' = Tail(va)
            /\ at' = at + 1
       ELSE /\ width' = _atoi(at)
            /\ at' = DigitsEnd(at)
            /\ UNCHANGED <<flags, va>>
    /\ UNCHANGED <<call, format, precision, idx, buffer, sent, strayed>>

EvaluatePrecision ==
    /\ stage = "precision"
    /\ stage' = "length"
    /\ CASE Here # "." ->
                UNCHANGED <<flags, precision, va, at>>
         [] Here = "." /\ Ahead = "*" ->
                /\ flags' = flags \cup {"."}
                /\ precision' = Max({Argument.number, 0})
                /\ va' = Tail(va)
                /\ at' = at + 2
         [] Here = "." /\ Ahead # "*" ->
                /\ flags' = flags \cup {"."}
                /\ precision' = _atoi(at + 1)
                /\ at' = DigitsEnd(at + 1)
                /\ UNCHANGED va
    /\ UNCHANGED <<call, format, width, idx, buffer, sent, strayed>>

\* ptrdiff_t, intmax_t and size_t have the size of long.
EvaluateLength ==
    /\ stage = "length"
    /\ stage' = "specifier"
    /\ CASE Here \in {"l", "h"} /\ Ahead = Here ->
                flags' = flags \cup {Here, IF Here = "l" THEN "ll" ELSE "hh"} /\ at' = at + 2
         [] Here \in {"l", "h"} /\ Ahead # Here ->
                flags' = flags \cup {Here} /\ at' = at + 1
         [] Here \in {"t", "j", "z"} ->
                flags' = flags \cup {"l"} /\ at' = at + 1
         [] OTHER ->
                UNCHANGED <<flags, at>>
    /\ UNCHANGED <<call, format, va, width, precision, idx, buffer, sent, strayed>>

-----------------------------------------------------------------------------
(* The conversions *)

Convert(text) ==
    /\ Emit(text)
    /\ stage' = "text"
    /\ at' = at + 1
    /\ UNCHANGED <<call, format, flags, width, precision>>

Base == CASE Here \in {"x", "X"} -> 16
          [] Here = "o" -> 8
          [] Here = "b" -> 2
          [] OTHER -> 10

IntegerFlags ==
    (flags \cup (IF Here = "X" THEN {"UPPERCASE"} ELSE {}))
        \ ((IF Base = 10 THEN {"#"} ELSE {})
            \cup (IF Here \in SignedConversions THEN {} ELSE {"+", " "})
            \cup (IF "." \in flags THEN {"0"} ELSE {}))

\* va_arg with the type that the length asks for.
IntegerValue ==
    LET bits == CASE flags \cap {"l", "ll"} # {} -> LONG_BITS
                  [] "hh" \in flags -> CHAR_BITS
                  [] "h" \in flags /\ "hh" \notin flags -> SHORT_BITS
                  [] OTHER -> INT_BITS
    IN IF Here \in SignedConversions
       THEN SignedOf(Argument.number, bits)
       ELSE UnsignedOf(Argument.number, bits)

\* 0 - value overflows for the least value of a signed type; the build negates it
\* in a register, and the unsigned type has room for the result.
ConvertInteger ==
    /\ stage = "specifier" /\ Here \in IntegerConversions
    /\ LET value == IntegerValue
       IN Convert(_ntoa_long(IF value > 0 THEN value ELSE 0 - value, value < 0, Base, width,
                             IntegerFlags))
    /\ va' = Tail(va)
    /\ UNCHANGED strayed

ConvertChar ==
    /\ stage = "specifier" /\ Here = "c"
    /\ Convert(Padded(Argument.string))
    /\ va' = Tail(va)
    /\ UNCHANGED strayed

ConvertString ==
    /\ stage = "specifier" /\ Here = "s"
    /\ LET string == Argument.string
           counted == _strnlen_s(string, precision)
           l == IF "." \in flags THEN Min({counted, precision}) ELSE counted
       IN /\ Convert(Padded(SubSeq(string, 1, l)))
          /\ strayed' = strayed \cup ReadBehind(string, precision)
    /\ va' = Tail(va)

ConvertPointer ==
    /\ stage = "specifier" /\ Here = "p"
    /\ Convert(_ntoa_long(UnsignedOf(Argument.number, LONG_BITS), FALSE, 16, LONG_BITS \div 4,
                          flags \cup {"0", "UPPERCASE"}))
    /\ va' = Tail(va)
    /\ UNCHANGED strayed

\* '%' and any other character, the NUL at the end of the format included.
ConvertOther ==
    /\ stage = "specifier" /\ Here \notin IntegerConversions \cup {"c", "s", "p"}
    /\ Convert(<<Here>>)
    /\ strayed' = strayed \cup (IF Here = NUL THEN {"format"} ELSE {})
    /\ UNCHANGED va

Terminate ==
    /\ stage = "text" /\ Here = NUL
    /\ stage' = "done"
    /\ out(<<NUL>>, IF idx < maxlen THEN idx ELSE (maxlen - 1) % SIZE_RANGE)
    /\ UNCHANGED <<call, format, va, at, flags, width, precision, idx, strayed>>

\* The call has returned.
Returned == stage = "done" /\ UNCHANGED vars

Next ==
    \/ PlainChar
    \/ BeginConversion
    \/ EvaluateFlag
    \/ EvaluateWidth
    \/ EvaluatePrecision
    \/ EvaluateLength
    \/ ConvertInteger
    \/ ConvertChar
    \/ ConvertString
    \/ ConvertPointer
    \/ ConvertOther
    \/ Terminate
    \/ Returned

Spec == Init /\ [][Next]_vars

-----------------------------------------------------------------------------
(* What C says of a call *)

Given(part) == part.precision # <<>> /\ part.precision[1] >= 0

\* prefix and body in a field of the width, filled with zeros between the two or
\* with spaces on one side.
Justified(prefix, body, part, zeros) ==
    LET missing == Max({Max({part.width, -part.width}) - Len(prefix) - Len(body), 0})
    IN CASE part.width < 0 \/ "-" \in part.flags -> prefix \o body \o Repeat(" ", missing)
         [] part.width >= 0 /\ "-" \notin part.flags /\ zeros -> prefix \o Repeat("0", missing) \o body
         [] OTHER -> Repeat(" ", missing) \o prefix \o body

IntegerText(part) ==
    LET c      == part.conversion
        signed == c \in SignedConversions
        bits   == CASE part.length = <<>> -> INT_BITS
                    [] part.length = <<"h">> -> SHORT_BITS
                    [] part.length = <<"h", "h">> -> CHAR_BITS
                    [] OTHER -> LONG_BITS
        value  == IF signed THEN SignedOf(part.value.number, bits)
                            ELSE UnsignedOf(part.value.number, bits)
        base   == CASE c \in {"d", "i", "u"} -> 10 [] c = "o" -> 8 [] c = "b" -> 2 [] OTHER -> 16
        plain  == Numeral(Max({value, -value}), base, IF Given(part) THEN part.precision[1] ELSE 1,
                          IF c = "X" THEN Uppercase ELSE Lowercase)
        body   == IF "#" \in part.flags /\ c = "o" /\ (plain = <<>> \/ plain[1] # "0")
                  THEN <<"0">> \o plain ELSE plain
        prefix == CASE signed /\ value < 0 -> <<"-">>
                    [] signed /\ value >= 0 /\ "+" \in part.flags -> <<"+">>
                    [] signed /\ value >= 0 /\ "+" \notin part.flags /\ " " \in part.flags -> <<" ">>
                    [] "#" \in part.flags /\ c \in {"x", "X", "b"} /\ value > 0 -> <<"0", c>>
                    [] OTHER -> <<>>
    IN Justified(prefix, body, part, "0" \in part.flags /\ ~Given(part))

TextOf(part) ==
    LET c == part.conversion
        s == part.value.string
        characters == Min({k \in 0 .. Len(s) : k = Len(s) \/ s[k + 1] = NUL})
    IN CASE c = "" -> s
         [] c = "%" -> <<"%">>
         [] c = "c" -> Justified(<<>>, s, part, FALSE)
         [] c = "s" -> Justified(<<>>, SubSeq(s, 1, IF Given(part)
                                                   THEN Min({part.precision[1], characters})
                                                   ELSE characters), part, FALSE)
         [] c = "p" -> Numeral(part.value.number, 16, LONG_BITS \div 4, Uppercase)
         [] OTHER -> IntegerText(part)

Whole == FlattenSeq([i \in DOMAIN call.parts |-> TextOf(call.parts[i])])

\* At the end of a call the caller has what C promises for its format and arguments:
\* the number of characters of the whole text as the result, and in the buffer as much
\* of the text as count allows with a NUL behind it and nothing else, or nothing at all
\* for a count of 0 or a null buffer, or each character given to fctprintf's function.
PrintsAsSpecified ==
    stage = "done" =>
        LET stored == Min({Len(Whole), maxlen - 1})
        IN /\ idx = Len(Whole)
           /\ sent = IF call.fn = "fctprintf" THEN Whole ELSE <<>>
           /\ buffer = [i \in IF call.fn = "fctprintf" \/ call.size = 0 THEN {} ELSE 0 .. stored |->
                            IF i = stored THEN NUL ELSE Whole[i + 1]]

\* At any point of a call, no byte is written behind count or behind the text and its
\* NUL.  So a count of the buffer's size keeps a call inside its buffer whatever the
\* text, and a call without one, such as log's with its count of -1, while the text
\* fits.  No byte is read outside the format or the array of a string argument, but
\* for the one behind an array that has as many bytes as the precision and no NUL.
StaysInBounds ==
    /\ DOMAIN buffer \subseteq 0 .. Len(Whole)
    /\ maxlen <= call.size \/ Len(Whole) < call.size => DOMAIN buffer \subseteq 0 .. call.size - 1
    /\ strayed \subseteq {"next"}
    /\ "next" \in strayed =>
           \E i \in DOMAIN call.parts :
               LET part == call.parts[i]
               IN /\ part.conversion = "s" /\ Given(part)
                  /\ part.precision[1] = Len(part.value.string)
                  /\ NUL \notin ToSet(part.value.string)

\* No byte is written outside the caller's buffer, and none is read outside the format
\* or the array of a string argument.  Neither holds of every call the kernel can make:
\* log's buffer can be too small for a message, and the vendor string of cpu.h is
\* printed from registers.
NeverStrays == DOMAIN buffer \subseteq 0 .. call.size - 1 /\ strayed = {}
=============================================================================
