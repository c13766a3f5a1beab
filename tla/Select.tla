------------------------------- MODULE Select -------------------------------
(***************************************************************************)
(* The elements of a sequence that lie in a set, in their order.  This is  *)
(* SelectSeq with a set for its test, as a recursive function: the proof   *)
(* system has no definition of SelectSeq to reason from.                   *)
(***************************************************************************)
EXTENDS Integers, Sequences

Select(s, T) ==
    LET sel[i \in 0 .. Len(s)] ==
            IF i = 0 THEN <<>>
            ELSE IF s[i] \in T THEN Append(sel[i - 1], s[i]) ELSE sel[i - 1]
    IN  sel[Len(s)]
=============================================================================
