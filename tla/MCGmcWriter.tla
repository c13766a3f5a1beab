---------------------------- MODULE MCGmcWriter ----------------------------
(***************************************************************************)
(* Small instances of GmcWriter for TLC.  Frames: keyframes at three pts,  *)
(* a non-keyframe (a B-frame when it follows pts 4 on a reordered track)   *)
(* and a keyframe whose dts runs ahead of its pts.  A unit of the first    *)
(* track is 10/13 ns, so that two can be lost in a conversion; on the      *)
(* second pts 1 is a time beyond int64 and pts 4 beyond uint64.            *)
(***************************************************************************)
EXTENDS GmcQueries

PlainFrame(p, k)  == [pts |-> p, dts |-> 0, hasDTS |-> FALSE, key |-> k]
DTSFrame(p, d, k) == [pts |-> p, dts |-> d, hasDTS |-> TRUE, key |-> k]

MCFrames == {PlainFrame(p, TRUE) : p \in {0, 1, 4}}
            \cup {PlainFrame(1, FALSE), DTSFrame(0, 1, TRUE)}
MCTrackModes == {[kind |-> "video", reordered |-> FALSE],
                 [kind |-> "video", reordered |-> TRUE],
                 [kind |-> "audio", reordered |-> FALSE]}
MCTimebase == [id \in TrackIDs |-> IF id = 2 THEN [num |-> 7, den |-> 1] ELSE [num |-> 1, den |-> 13]]
MCStartTimes == {-60, 60}
MCTimes == {-64, 3, 63}
=============================================================================
