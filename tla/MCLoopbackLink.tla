-------------------------- MODULE MCLoopbackLink --------------------------
(***************************************************************************)
(* Instances of LoopbackLink for TLC.  A thread is named by the end it     *)
(* calls and a number, 11 and 12 for the threads that close; a message is  *)
(* the sequence of its part lengths.                                       *)
(***************************************************************************)
EXTENDS LoopbackLink

MCEnds == {"up", "down"}
OneEach == {<<"up", 1>>, <<"down", 1>>}
TwoDown == {<<"down", 1>>, <<"down", 2>>}
CloseUp == {<<"up", 11>>}
CloseDown == {<<"down", 11>>}
CloseBoth == CloseUp \cup CloseDown
TwoCloseDown == {<<"down", 11>>, <<"down", 12>>}
MCAt == [t \in Receivers \cup Closers |-> t[1]]

\* An empty part, and a message of two parts.
MCMessages == {<<0>>, <<2, 1>>}
MCMalformed == {<<>>}
OneMessage == {<<2, 1>>}
MCBytes == [m \in Messages |-> FoldSeq(+, 0, m)]

TwoAndOne == [e \in MCEnds |-> IF e = "up" THEN 2 ELSE 1]
Two == [e \in MCEnds |-> IF e = "up" THEN 2 ELSE 0]
One == [e \in MCEnds |-> IF e = "up" THEN 1 ELSE 0]
=============================================================================
