------------------------------ MODULE ByteDeque ------------------------------
(***************************************************************************)
(* What BufferQueue promises: a double-ended queue of non-empty pieces of  *)
(* data.  Pieces go in and out whole at both ends, and data can be taken   *)
(* or removed from the front across the pieces.  out is what the last call *)
(* has delivered.                                                          *)
(***************************************************************************)
EXTENDS Naturals, Sequences

CONSTANT Piece      \* the pieces that may be pushed, non-empty sequences

VARIABLES pieces, out

Init == pieces = <<>> /\ out = <<>>

Push(d) ==
    /\ pieces' = <<d>> \o pieces \/ pieces' = pieces \o <<d>>
    /\ out' = <<>>

First(s, n) == SubSeq(s, 1, n)

\* A whole piece leaves, the call delivers its first n bytes.
PopFront(n) ==
    /\ pieces # <<>> /\ n <= Len(Head(pieces))
    /\ out' = First(Head(pieces), n)
    /\ pieces' = Tail(pieces)

PopBack(n) ==
    /\ pieces # <<>> /\ n <= Len(pieces[Len(pieces)])
    /\ out' = First(pieces[Len(pieces)], n)
    /\ pieces' = First(pieces, Len(pieces) - 1)

\* A call that takes data from several pieces begins.
Begin == out' = <<>> /\ UNCHANGED pieces

Shortened(n) ==
    IF n = Len(Head(pieces))
    THEN Tail(pieces)
    ELSE <<SubSeq(Head(pieces), n + 1, Len(Head(pieces)))>> \o Tail(pieces)

\* n bytes of the first piece are delivered, or just removed.
Take(n) ==
    /\ pieces # <<>> /\ n \in 1 .. Len(Head(pieces))
    /\ out' = out \o First(Head(pieces), n)
    /\ pieces' = Shortened(n)

Remove(n) ==
    /\ pieces # <<>> /\ n \in 1 .. Len(Head(pieces))
    /\ pieces' = Shortened(n)
    /\ UNCHANGED out

Clear == pieces' = <<>> /\ out' = <<>>

Sizes == {Len(d) : d \in Piece} \cup {0}
Counts == UNION {0 .. n : n \in Sizes}

Next ==
    \/ \E d \in Piece : Push(d)
    \/ \E n \in Counts : PopFront(n) \/ PopBack(n) \/ Take(n) \/ Remove(n)
    \/ Begin \/ Clear

Spec == Init /\ [][Next]_<<pieces, out>>
=============================================================================
