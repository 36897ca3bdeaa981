-------------------------- MODULE MCSearchAnswers --------------------------
(***************************************************************************)
(* A mailbox of four messages and one of another user.  Messages 1 and 2   *)
(* are a thread, 3 starts in the trash, 4 is a draft that nobody indexed.  *)
(* "why" has its meaning in 3, in its second chunk, and a rare word in 1,  *)
(* beyond the floor; nothing is near "odd", which only words find.         *)
(***************************************************************************)
EXTENDS SearchAnswers

MCThreadOf == <<1, 1, 2, 3, 4>>
MCChunks   == {<<1, 0>>, <<2, 0>>, <<3, 0>>, <<3, 1>>, <<5, 0>>}

MCQueryDistance ==
  [q \in Queries |-> [c \in MCChunks |->
     CASE q = "odd"                             -> 40
       [] q = "words"                           -> IF c[1] = 5 THEN 1 ELSE 10
       [] q = "why" /\ (c = <<3, 1>> \/ c[1] = 5) -> 4
       [] OTHER                                 -> 30]]
MCChunkDistance ==
  [m \in 1..5 |-> [c \in MCChunks |-> IF {m, c[1]} = {1, 3} THEN 30 ELSE 5]]
MCRareRows  == [q \in Queries |-> IF q = "why" THEN {<<1, 0>>} ELSE {}]
MCWholeHits == [q \in Queries |-> IF q = "words" THEN {1, 3} ELSE {4}]
MCTermHits  == [q \in Queries |-> IF q = "words" THEN {1, 3} ELSE {2, 4}]
MCOverlap   == [q \in Queries |-> CASE q = "why" -> <<3, 4, 1>> [] q = "odd" -> <<>>
                                    [] OTHER -> <<3, 2>>]
MCDemoNear  == <<<<3>>, <<3>>, <<2, 1>>, <<2>>, <<>>>>
MCInitial   == {<<"inbox", "inbox", "trash", "draft", "inbox">>}
MCCitations == {{}, {9}, {2, 9}}
=============================================================================
