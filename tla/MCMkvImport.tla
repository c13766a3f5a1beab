---------------------------- MODULE MCMkvImport ----------------------------
(***************************************************************************)
(* Small instances of MkvImport for TLC: a video track, an audio track of  *)
(* which a frame lasts one and a half timestamp units, a subtitle track    *)
(* and a track whose codec is not supported.  Two blocks have one frame in *)
(* EBML lacing, the one with a payload that reads as a size, the other     *)
(* without.  The time scale of one header is a multiple of Uint32.         *)
(***************************************************************************)
EXTENDS MkvImport

Entry(number, type, codec) == [number |-> number, type |-> type, codec |-> codec]
MCTracks == TrackList(<<Entry(1, "video", "avc"),
                        ("defaultDuration" :> 3) @@ Entry(2, "audio", "pcm"),
                        Entry(3, "subtitle", "text"), Entry(4, "audio", "vorbis")>>)

MCTags(names, value) == Tags([name \in names |-> value])
MCFront(matroska) == <<EBML(matroska), Segment(Unknown)>>
MCHeaders == {<<EBML(TRUE)>>, MCFront(FALSE),
              MCFront(TRUE) \o <<Info(2, {4}, 0), MCTracks, MCTags({"title"}, "early")>>,
              MCFront(TRUE) \o <<Info(8, {}, 0), MCTracks>>}
MCClusters == {[ts |-> 0, size |-> Unknown], [ts |-> 2, size |-> 2]}

Frame1(track, rel, key) ==
    [track |-> track, rel |-> rel, key |-> key, group |-> FALSE, dur |-> 0, lacing |-> "none",
     sizes |-> <<1>>, vint |-> 0]
MCBlocks ==
    {Frame1(1, 0, TRUE),
     [Frame1(1, -1, FALSE) EXCEPT !.group = TRUE, !.lacing = "ebml", !.sizes = <<2>>, !.vint = 1],
     [Frame1(2, 0, TRUE) EXCEPT !.lacing = "ebml"],
     [Frame1(2, 0, TRUE) EXCEPT !.lacing = "ebml", !.sizes = <<2, 1, 2>>],
     [Frame1(4, 1, TRUE) EXCEPT !.lacing = "fixed", !.sizes = <<1, 2>>],
     [Frame1(3, 1, TRUE) EXCEPT !.group = TRUE, !.dur = 2, !.lacing = "xiph", !.sizes = <<1, 2>>]}
MCLateTags == {[name \in names |-> "late"] : names \in {{"title"}, {"title", "place"}}}

Opts(from, to, tracks) == [from |-> from, to |-> to, tracks |-> tracks]
MCFineOptions == {Opts(0, 1, {}), Opts(2, 3, {})}
MCOptions == {Opts(0, 0, {}), Opts(3, 5, {}), Opts(0, 2, {1, 3}), Opts(2, 0, {2, 4}), Opts(0, 0, {9})}
=============================================================================
