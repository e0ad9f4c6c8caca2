------------------------------ MODULE MCPrintf ------------------------------
(* Integer types and the conversion buffer have a quarter of their bits    *)
(* and bytes, so %p prints four digits and %.16llx is %.4llx.              *)
EXTENDS Printf

Unlimited == SIZE_RANGE - 1
Star(part, fields) == [part EXCEPT !.stars = fields]

\* log and debug pass a count of -1.
Log(parts) == [fn |-> "vsnprintf_", size |-> 20, count |-> Unlimited, parts |-> parts]

\* Integers of every conversion, alone.  Out of the set are the fields that the
\* code lays out differently from C: "-" with a precision, "#" with either field,
\* and a prefix for which the digits leave no room in the conversion buffer.
LaidOutAsInC(part) ==
    /\ "-" \in part.flags => part.precision = <<>>
    /\ "#" \in part.flags => part.precision = <<>> /\ part.width = 0
    /\ "#" \in part.flags /\ part.conversion = "b" => part.value.number \in 0 .. 63
Numbers == {part \in
    {Conversion(fl, w, p, <<>>, c, Number(n)) :
        fl \in SUBSET FlagChars, w \in {0, 1, 2, 5, 8}, p \in {<<>>, <<0>>, <<4>>},
        c \in IntegerConversions \ {"i"}, n \in {-27, 0, 5, 100}} : LaidOutAsInC(part)}

\* Lengths, with the least and the greatest value of each type and its neighbours.
Sized == {Conversion({}, 0, <<>>, len, c, Number(n)) :
    len \in {<<>>, <<"h">>, <<"h", "h">>, <<"l">>, <<"l", "l">>, <<"t">>, <<"j">>, <<"z">>},
    c \in {"i", "u", "x"},
    n \in {-32768, -129, -128, -9, -8, -3, -2, 1, 2, 7, 8, 127, 128, 255, 32767}}

\* Strings and characters, with a width and a precision from the format or from
\* the arguments, and %p.  An array without a NUL has at least as many bytes as the
\* precision, which is not 0.
Strings == {Star(Conversion(fl, w, p, <<>>, "s", String(s)), IF p = <<>> THEN st \ {"precision"} ELSE st) :
    fl \in SUBSET {"-", "0"}, w \in {0, 1, 4}, p \in {<<>>, <<0>>, <<1>>, <<3>>},
    s \in {<<NUL>>, <<"a", NUL>>, <<"a", "b", "c", NUL>>}, st \in SUBSET {"width", "precision"}}
Arrays == {Star(Conversion(fl, w, p, <<>>, "s", String(<<"a", "b", "c">>)), st) :
    fl \in SUBSET {"-", "0"}, w \in {0, 1, 4}, p \in {<<1>>, <<2>>, <<3>>},
    st \in SUBSET {"width", "precision"}}
Others ==
    {Star(Conversion({}, w, <<>>, <<>>, "c", String(<<"c">>)), st) :
        w \in {0, 1, 3}, st \in {{}, {"width"}}}
    \cup {Star(Conversion({}, -3, <<>>, <<>>, c, v), {"width"}) :
        c \in {"c", "d"}, v \in {[number |-> 7, string |-> <<"c">>]}}
    \cup {Conversion({}, 0, <<>>, <<>>, "p", Number(n)) : n \in {0, 4095, 32768}}

\* The formats of the kernel's calls: a message of log, an address in a line of the
\* page fault handler, and the vendor string of cpu.h, printed from three registers
\* of four bytes, whose twelve characters and NUL fill a count of 13 exactly.
Word(n) == String(SubSeq(<<"a", "b", "c", "d">>, 1, n) \o <<NUL>>)
Register(a, b, c, d) == Conversion({}, 0, <<4>>, <<>>, "s", String(<<a, b, c, d>>))
Vendor == <<Register("a", "b", "c", "d"), Register("e", "f", "g", "h"), Register("i", "j", "k", "l")>>
Message == <<Text(<<"a", " ">>), Conversion({}, 0, <<>>, <<>>, "s", Word(3)), Text(<<":">>),
             Conversion({}, 0, <<>>, <<>>, "d", Number(42)), Text(<<"\n">>)>>
Address == <<Text(<<"0", "x">>), Conversion({}, 0, <<4>>, <<"l", "l">>, "x", Number(2748)),
             Conversion({}, 0, <<>>, <<>>, "%", Number(0))>>

\* Every count from none to more than the text needs, into a buffer of that size, a
\* null buffer, and the two functions without a count.
Bounded(parts) ==
    {[fn |-> f, size |-> n, count |-> n, parts |-> parts] :
        f \in {"snprintf_", "vsnprintf_"}, n \in 0 .. 14}
    \cup {[fn |-> "snprintf_", size |-> 0, count |-> 5, parts |-> parts],
          [fn |-> "sprintf_", size |-> 14, count |-> 0, parts |-> parts],
          [fn |-> "fctprintf", size |-> 0, count |-> 0, parts |-> parts]}

\* Messages whose text and NUL just fill log's buffer, and need a byte or more behind it.
Lengthy == {Log(<<Conversion({}, w, <<>>, <<>>, c, [number |-> 7, string |-> <<"c", NUL>>])>>) :
    w \in {19, 20, 24}, c \in {"d", "s"}}

GoodCalls ==
    {Log(<<part>>) : part \in Numbers \cup Sized \cup Strings \cup Arrays \cup Others}
        \cup Lengthy
        \cup UNION {Bounded(parts) : parts \in {Vendor, Message, Address}}

\* Calls whose outcome is not C's: %#4x of four digits loses two of them, %-4.3d its
\* zeros, %.8d of a negative number (%.32d in the code) its sign; a precision of -1 is
\* taken for 0; fctprintf counts a NUL it does not send; and a format ends in %.  And
\* the calls of the kernel's that go outside an array: a text longer than log's buffer,
\* and the vendor string.
Deviating ==
    {Log(<<part>>) : part \in
        {Conversion({"#"}, 4, <<>>, <<"l">>, "x", Number(4660)),
         Conversion({"-"}, 4, <<3>>, <<>>, "d", Number(5)),
         Conversion({}, 0, <<8>>, <<>>, "d", Number(-5)),
         Star(Conversion({}, 0, <<-1>>, <<>>, "s", Word(3)), {"precision"}),
         Text(<<"a", "%">>)}}
    \cup Lengthy
    \cup {[fn |-> "snprintf_", size |-> 13, count |-> 13, parts |-> Vendor]}
    \cup {[fn |-> "fctprintf", size |-> 0, count |-> 0,
           parts |-> <<Conversion({}, 0, <<>>, <<>>, "c", String(<<NUL>>))>>]}
=============================================================================
