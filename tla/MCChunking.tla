----------------------------- MODULE MCChunking -----------------------------
(***************************************************************************)
(* Instances of Chunking for TLC.                                          *)
(***************************************************************************)
EXTENDS Chunking

CONSTANT MaxLength   \* bound: length of a text

MCTexts == UNION {[1..n -> CodeUnits] : n \in 0..MaxLength}

=============================================================================
