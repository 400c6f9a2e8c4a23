------------------------------ MODULE MCStreams ------------------------------
EXTENDS Streams
CONSTANTS m1, c1, r1, r2
FullDef == [i \in Items |-> 1]
OutputDef == <<r1, r2, m1, c1>>
=============================================================================
