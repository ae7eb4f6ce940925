--------------------------- MODULE MCLlScCounter ---------------------------
(* Two cores that run the loop, with two increments and one exception      *)
(* each, and one that runs anything; the fourth is disabled.               *)
EXTENDS LlScCounter

Acc(pa, size) == [pa |-> pa, size |-> size]
MCCounter == Acc(0, 4)
MCKernel == Acc(4, 4)

(* Two words used in one size; a doubleword, its upper word and a byte of  *)
(* its lower word; and a disk read over the doubleword.                    *)
MCAccesses == {MCCounter, MCKernel, Acc(8, 8), Acc(12, 4), Acc(9, 1)}
MCBlocks == {{8, 12}}
=============================================================================
