---------------------------- MODULE MCFrameParser ----------------------------
(***************************************************************************)
(* TLC instance of FrameParser: headers of three bytes, empty frames, frames *)
(* of one to three bytes and frames that are too long.                     *)
(***************************************************************************)
EXTENDS FrameParser
=============================================================================
