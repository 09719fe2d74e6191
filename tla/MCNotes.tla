------------------------------ MODULE MCNotes ------------------------------
(* An instance of NotesPages for TLC: per_page below, in and above the     *)
(* clamp, and as many times as make ties and a late commit possible.       *)
EXTENDS NotesPages, TLC

CONSTANTS u1, u2
=============================================================================
