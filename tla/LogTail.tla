------------------------------ MODULE LogTail ------------------------------
(***************************************************************************)
(* What live readers promise: an append-only log, and readers that each    *)
(* start at some position of it and are handed the values they asked for   *)
(* one at a time, in order, none twice and none left out.  GmcLive         *)
(* implements it with a file, an atomic size and a condition variable.     *)
(***************************************************************************)
EXTENDS Integers, Sequences, Select

CONSTANTS Value,     \* what may be committed
          Readers,
          Wanted     \* the values every reader asks for

VARIABLES log,       \* committed values
          start,     \* first position of every reader, 0 before it starts
          got        \* what every reader has been handed

vars == <<log, start, got>>

\* What reader r asked for among the positions from its start up to n.
Asked(r, n) == Select(SubSeq(log, start[r], n), Wanted[r])

Init ==
    /\ log = <<>>
    /\ start = [r \in Readers |-> 0] /\ got = [r \in Readers |-> <<>>]

Commit ==
    /\ \E c \in Value : log' = Append(log, c)
    /\ UNCHANGED <<start, got>>

Join(r) ==
    /\ start[r] = 0
    /\ \E n \in 1 .. Len(log) + 1 : start' = [start EXCEPT ![r] = n]
    /\ UNCHANGED <<log, got>>

\* The next value r asked for that it does not have yet.
Deliver(r) ==
    /\ start[r] > 0
    /\ \E n \in start[r] .. Len(log) :
          /\ log[n] \in Wanted[r]
          /\ got[r] = Asked(r, n - 1)
          /\ got' = [got EXCEPT ![r] = Append(@, log[n])]
    /\ UNCHANGED <<log, start>>

Next == Commit \/ \E r \in Readers : Join(r) \/ Deliver(r)

Spec == Init /\ [][Next]_vars
=============================================================================
