---------------------------- MODULE MCMemoryIndex ----------------------------
(***************************************************************************)
(* Instances of MemoryIndex for TLC.                                       *)
(***************************************************************************)
EXTENDS MemoryIndex

CONSTANTS short, long

\* A text of one chunk and one of two; Gmail returns one of them changed.
MCBodies == {short, long}
MCSize == [b \in MCBodies |-> IF b = short THEN 1 ELSE 2]
MCRendered == [b \in MCBodies |-> short]

=============================================================================
