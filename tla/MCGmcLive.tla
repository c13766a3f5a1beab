----------------------------- MODULE MCGmcLive -----------------------------
(***************************************************************************)
(* A small instance of GmcLive for TLC: follower f1 asks for all tracks,   *)
(* iterator i1 for the video track only.                                   *)
(***************************************************************************)
EXTENDS GmcLive
CONSTANTS f1, i1, v, a,
          FollowChunks     \* bound: positions written when there is a follower
MCFilter == [x \in Followers \cup Iterators |-> IF x = f1 THEN Tracks ELSE {v}]

\* An iterator takes no lock and is seen by nobody, so a behaviour has either
\* followers or iterators.  What is left out here is the start of a call, of an
\* append or of a reader, none of which fairness demands.
NoFollower == \A f \in Followers : fpc'[f] = "new" /\ ~canceled'[f]
NoIterator == /\ \A i \in Iterators : ipc'[i] = "new"
              /\ Len(log') <= FollowChunks
              /\ wpc' \in {"append", "writing", "store"} => Len(log') < FollowChunks

MCSpec == Init /\ [][Next /\ (NoFollower \/ NoIterator)]_vars /\ Fairness
=============================================================================
