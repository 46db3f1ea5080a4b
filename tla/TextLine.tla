------------------------------ MODULE TextLine ------------------------------
(***************************************************************************)
(* What a line editor promises: a text with a cursor in it.  left is the   *)
(* text before the cursor, right the text behind it, entered the last line *)
(* that was handed over.                                                   *)
(***************************************************************************)
EXTENDS Integers, Sequences

CONSTANTS Chars, Size

VARIABLES left, right, entered

Init == left = <<>> /\ right = <<>> /\ entered = <<>>

Front(s) == SubSeq(s, 1, Len(s) - 1)

Insert(c) ==
  /\ Len(left) + Len(right) < Size
  /\ left' = Append(left, c)
  /\ UNCHANGED <<right, entered>>

Erase ==
  /\ left # <<>>
  /\ left' = Front(left)
  /\ UNCHANGED <<right, entered>>

MoveLeft ==
  /\ left # <<>>
  /\ left' = Front(left)
  /\ right' = <<left[Len(left)]>> \o right
  /\ UNCHANGED entered

MoveRight ==
  /\ right # <<>>
  /\ left' = Append(left, Head(right))
  /\ right' = Tail(right)
  /\ UNCHANGED entered

Enter ==
  /\ left \o right # <<>>
  /\ entered' = left \o right
  /\ left' = <<>>
  /\ right' = <<>>

Next == (\E c \in Chars : Insert(c)) \/ Erase \/ MoveLeft \/ MoveRight \/ Enter

Spec == Init /\ [][Next]_<<left, right, entered>>

=============================================================================
