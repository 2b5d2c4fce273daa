------------------------------ MODULE MCBootEnv ------------------------------
EXTENDS BootEnv

\* Cells of a block: one or two for a short or a long value.
MCCellsOf == [kv \in Keys \X Values |-> IF kv[2] = "long" THEN 2 ELSE 1]
=============================================================================
