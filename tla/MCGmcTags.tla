----------------------------- MODULE MCGmcTags -----------------------------
(* A small instance of GmcTagsOpen for TLC: three keys, slots of two entries. *)
EXTENDS GmcTagsOpen
CONSTANTS start, location, other
=============================================================================
