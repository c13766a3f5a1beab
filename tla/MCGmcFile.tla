----------------------------- MODULE MCGmcFile -----------------------------
(* Small instances of GmcFile for TLC. *)
EXTENDS GmcFile
=============================================================================
