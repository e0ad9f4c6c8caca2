------------------------------- MODULE MCVmm -------------------------------
(* Tables of four entries, one per region of vmm_init.  The 4 GiB that     *)
(* vmm_init maps are five pages, which need two tables of the last level.  *)
EXTENDS Vmm

\* A memory map whose entries lie in the first five pages, and one whose
\* entry lies behind them.
LowMap == <<[base |-> 0, length |-> 1], [base |-> 1, length |-> 3]>>
HighMap == <<[base |-> 5, length |-> 2]>>

\* A page that shares all tables with the pages that vmm_init maps, and a range of
\* two: the first needs a table of the last level, the second two tables of its own.
NewPages == {<<1, 0, 1, 1>>, <<1, 0, 3, 3>>, <<1, 1, 0, 0>>}
NewRanges == {[region |-> 1, page |-> 15, left |-> 2]}
CodePages == {<<3, 0, 1, 1>>}
NoRanges == {}
=============================================================================
