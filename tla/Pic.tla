--------------------------------- MODULE Pic ---------------------------------
(***************************************************************************)
(* The two legacy interrupt controllers, hardware/pic/pic.c, from idt_init *)
(* (tables/idt.c), which remaps them and then allows interrupts, to        *)
(* apic_init, which disables them.                                         *)
(*                                                                         *)
(* The code is a list of port writes; what a write to a data port means    *)
(* depends on the writes before it, so the writes are steps of their own.  *)
(* A mask is the byte with a bit set for each line that is ignored.        *)
(***************************************************************************)
EXTENDS Integers, Sequences

CONSTANTS
    LINES,         \* lines of one controller, 8
    EveryLine,     \* the byte pic_disable writes, 0xFF in the code
    FIRST_VECTOR   \* the vector of IRQ 0, 32 in the code

IsMasked(mask, line) == (mask \div 2^line) % 2 = 1

ASSUME PicAssumption ==
    /\ LINES \in Nat \ {0}
    /\ EveryLine \in Nat \ {0}
    /\ \A line \in 0 .. LINES - 1 : IsMasked(EveryLine, line)
    /\ FIRST_VECTOR \in Nat

VARIABLES
    pic,         \* pic[c]: the mask, the first vector, and the data bytes to come of an
                 \* initialisation: "vector", "wiring", "mode"
    port_writes, \* the writes still to be done: controller, port and byte
    mask_read,   \* the masks pic_remap has read
    sti          \* interrupts are allowed

pic_vars == <<pic, port_writes, mask_read, sti>>

Pic1 == 1
Pic2 == 2
Data(c, byte) == [pic |-> c, port |-> "data", byte |-> byte]
Command(c, byte) == [pic |-> c, port |-> "command", byte |-> byte]
ICW1 == 17

\* At reset a controller has the vectors of the processor's exceptions.
PicInit(masks) ==
    /\ pic = [c \in {Pic1, Pic2} |-> [mask |-> masks[c], vector |-> 8, to_come |-> <<>>]]
    /\ port_writes = <<>>
    /\ mask_read = <<>>
    /\ sti = FALSE

-----------------------------------------------------------------------------
(* The controller *)

\* ICW1 begins an initialisation and clears the mask.
AfterCommand(p, byte) ==
    IF byte = ICW1 THEN [p EXCEPT !.mask = 0, !.to_come = <<"vector", "wiring", "mode">>] ELSE p

\* A data byte is the next one of an initialisation, or else the mask.
AfterData(p, byte) ==
    IF p.to_come = <<>> THEN [p EXCEPT !.mask = byte]
    ELSE [p EXCEPT !.to_come = Tail(@),
                   !.vector = IF Head(p.to_come) = "vector" THEN byte ELSE @]

PortWrite ==
    LET w == Head(port_writes)
    IN  /\ port_writes # <<>>
        /\ pic' = [pic EXCEPT ![w.pic] = IF w.port = "data" THEN AfterData(@, w.byte)
                                         ELSE AfterCommand(@, w.byte)]
        /\ port_writes' = Tail(port_writes)
        /\ UNCHANGED <<mask_read, sti>>

-----------------------------------------------------------------------------
(* pic_remap, in idt_init, and pic_disable *)

\* Variant: the second controller gets no vector of its own.
RemapWritesAlike(mask1, mask2) ==
    <<Command(Pic1, ICW1), Command(Pic2, ICW1), Data(Pic1, FIRST_VECTOR), Data(Pic2, FIRST_VECTOR),
      Data(Pic1, 4), Data(Pic2, 2), Data(Pic1, 1), Data(Pic2, 1), Data(Pic1, 0), Data(Pic2, 0),
      Data(Pic1, 1), Data(Pic2, 1), Data(Pic1, mask1), Data(Pic2, mask2)>>

RemapWrites(mask1, mask2) ==
    <<Command(Pic1, ICW1), Command(Pic2, ICW1),
      Data(Pic1, FIRST_VECTOR), Data(Pic2, FIRST_VECTOR + LINES),
      Data(Pic1, 4), Data(Pic2, 2),
      Data(Pic1, 1), Data(Pic2, 1),
      Data(Pic1, 0), Data(Pic2, 0),
      Data(Pic1, 1), Data(Pic2, 1),
      Data(Pic1, mask1), Data(Pic2, mask2)>>

pic_remap ==
    /\ mask_read = <<>>
    /\ mask_read' = <<pic[Pic1].mask, pic[Pic2].mask>>
    /\ port_writes' = RemapWrites(pic[Pic1].mask, pic[Pic2].mask)
    /\ UNCHANGED <<pic, sti>>

\* idt_init loads its table and allows interrupts.
idt_init ==
    /\ mask_read # <<>> /\ port_writes = <<>>
    /\ ~sti
    /\ sti' = TRUE
    /\ UNCHANGED <<pic, port_writes, mask_read>>

DisableWrites == <<Data(Pic2, EveryLine), Data(Pic1, EveryLine)>>

\* pic_disable, called by apic_init.
pic_disable ==
    /\ port_writes' = DisableWrites
    /\ UNCHANGED <<pic, mask_read, sti>>

PicStep == pic_remap \/ idt_init \/ PortWrite

-----------------------------------------------------------------------------
(* Properties *)

PicTypeOK ==
    /\ pic \in [{Pic1, Pic2} -> [mask : Nat, vector : Nat,
                                 to_come : Seq({"vector", "wiring", "mode"})]]
    /\ port_writes \in Seq([pic : {Pic1, Pic2}, port : {"data", "command"}, byte : Nat])
    /\ mask_read \in Seq(Nat)
    /\ sti \in BOOLEAN

\* The line of an interrupt, counted over both controllers, and its vector; the
\* second controller's lines pass through line 2 of the first.
Raised(c) == {pic[c].vector + line : line \in {n \in 0 .. LINES - 1 :
                  /\ ~IsMasked(pic[c].mask, n)
                  /\ c = Pic2 => ~IsMasked(pic[Pic1].mask, 2)}}
=============================================================================
