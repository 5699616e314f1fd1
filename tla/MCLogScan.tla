----------------------------- MODULE MCLogScan -----------------------------
(***************************************************************************)
(* Records for LogScan.  A store's: a word of path and the zeros behind    *)
(* it, or behind op.  The coordinator's: padding that was never written,   *)
(* and happens to look like COMMIT.                                        *)
(***************************************************************************)
EXTENDS LogScan

Rests == [p \in Program |-> IF p = "store" THEN <<5, 0>> ELSE <<2>>]
=============================================================================
