---------------------------- MODULE MCLogChunks ----------------------------
(* Small instances of LogChunks for TLC: every file of up to MaxLen bytes.   *)
EXTENDS LogChunks

CONSTANT MaxLen

SmallFiles == UNION {[1 .. n -> {"n", "t", "x"}] : n \in 0 .. MaxLen}
=============================================================================
