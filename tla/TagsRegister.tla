---------------------------- MODULE TagsRegister ----------------------------
(***************************************************************************)
(* What SetTag promises, without slots or sequence numbers: the tags that  *)
(* an Open of the file would show are one map, replaced as a whole by one  *)
(* update at a time.  An update that reports success took effect, one that *)
(* reports an error did not, and a process crash leaves the map as it was  *)
(* before the update under way or as it is after it.                       *)
(***************************************************************************)
CONSTANT Maps           \* the tag snapshots there can be

VARIABLES value,        \* what Open shows
          pending,      \* the snapshots the update under way may install: at most one
          installed,    \* it has been installed
          running       \* the writing process runs and is not closed

vars == <<value, pending, installed, running>>

Init == /\ \E m \in Maps : value = m
        /\ pending = {} /\ installed = FALSE /\ running = TRUE

Begin == /\ running /\ pending = {}
         /\ \E m \in Maps : pending' = {m}
         /\ UNCHANGED <<value, installed, running>>

Install == /\ running /\ ~installed
           /\ \E m \in pending : value' = m
           /\ installed' = TRUE
           /\ UNCHANGED <<pending, running>>

Succeed == /\ running /\ installed
           /\ pending' = {} /\ installed' = FALSE
           /\ UNCHANGED <<value, running>>

Fail == /\ running /\ ~installed /\ pending # {}
        /\ pending' = {}
        /\ UNCHANGED <<value, installed, running>>

\* The process crashes or closes the file; nothing changes any more.
Stop == /\ running /\ running' = FALSE
        /\ UNCHANGED <<value, pending, installed>>

Next == Begin \/ Install \/ Succeed \/ Fail \/ Stop

Spec == Init /\ [][Next]_vars
=============================================================================
