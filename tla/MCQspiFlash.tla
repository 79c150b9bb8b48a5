----------------------------- MODULE MCQspiFlash -----------------------------
(* Two blocks, the first of two cells, the second of one.                  *)
EXTENDS QspiFlash

MCBlockOf == [c \in 0..2 |-> c \div 2]
=============================================================================
