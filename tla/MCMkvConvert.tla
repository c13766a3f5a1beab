--------------------------- MODULE MCMkvConvert ----------------------------
(***************************************************************************)
(* Small instances of MkvConvert for TLC: an audio track whose codec is    *)
(* not supported and one whose envelope is not one, without frames; a      *)
(* video track whose timebase is the Matroska scale; a subtitle track with *)
(* a timebase of one and a half ns, so that its times are rounded, and     *)
(* payloads that are no text; an audio track without frames but with every *)
(* parameter.                                                              *)
(***************************************************************************)
EXTENDS MkvConvert
CONSTANTS x, bad, v, t, a, other
MCOrder == <<x, v, bad, t, a>>

Audio(codec, envelope) == [kind |-> "audio", codec |-> codec, private |-> envelope]
Sound == [rate |-> 2, outRate |-> 4, channels |-> 2, depth |-> 24]

MCTrackInfo ==
    [tr \in Tracks |->
        CASE tr = x   -> Audio("vorbis", EncodePrivate(Sound, <<>>))
          [] tr = bad -> Audio("pcm", [EncodePrivate(Sound, <<>>) EXCEPT !.length = 1])
          [] tr = a   -> Audio("pcm", EncodePrivate(Sound, <<>>))
          [] tr = v   -> [kind |-> "video", codec |-> "avc",
                          private |-> EncodePrivate([width |-> 4, height |-> 2], <<1, 2>>)]
          [] OTHER    -> [kind |-> "data", codec |-> "text",
                          private |-> EncodePrivate([none |-> TRUE], <<>>)]]
MCTimebase == [tr \in Tracks |-> IF tr = t THEN [num |-> 3, den |-> 4] ELSE [num |-> 1, den |-> 1]]
MCSourceTags == [name \in {"title", "gmc.start", "gmc.other"} |-> name]
MCRanges   == {Whole} \cup {[from |-> 3, to |-> 0], [from |-> 3, to |-> 5], [from |-> 0, to |-> 2]}
MCSelections == {{}, {t}, {x}, {t, other}}
=============================================================================
