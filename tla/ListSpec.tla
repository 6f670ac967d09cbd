------------------------------ MODULE ListSpec ------------------------------
(***************************************************************************)
(* What the comments of lib/cc_link.c promise: a sequence of data, and for *)
(* each operation the new sequence and the value returned.  LinkedList     *)
(* shows where the code keeps the promise and where it does not.           *)
(***************************************************************************)
EXTENDS Integers, Sequences, SequencesExt

CONSTANTS None, CC_ERROR, CC_NO_ERROR

VARIABLES list, result

LSInit == list = <<>> /\ result = None

\* the first place that holds an element of D, or 0
Place(D) == SelectInSubSeq(list, 1, Len(list), LAMBDA d : d \in D)

Returns(l, r) == list' = l /\ result' = r

Create == Returns(<<>>, CC_NO_ERROR)
AtFront(d) == Returns(<<d>> \o list, CC_NO_ERROR)
AtEnd(d) == Returns(Append(list, d), CC_NO_ERROR)
Before(s, d) ==
    LET i == Place({s}) IN IF i = 0 THEN Returns(list, CC_ERROR)
                           ELSE Returns(InsertAt(list, i, d), CC_NO_ERROR)
Delete(d) ==
    LET i == Place({d}) IN IF i = 0 THEN Returns(list, CC_ERROR)
                           ELSE Returns(RemoveAt(list, i), CC_NO_ERROR)
Length == Returns(list, Len(list))
Find(D) == LET i == Place(D) IN Returns(list, IF i = 0 THEN None ELSE list[i])
Clear == Returns(<<>>, CC_NO_ERROR)
\* a call without the address of a head
Refuse == Returns(list, CC_ERROR)
=============================================================================
