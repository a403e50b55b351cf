----------------------------- MODULE MCAnchors -----------------------------
(* Small instances of Anchors for TLC. *)
EXTENDS Anchors
=============================================================================
