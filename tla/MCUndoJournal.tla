--------------------------- MODULE MCUndoJournal ---------------------------
(* Small instances of UndoJournal for TLC.                                 *)
EXTENDS UndoJournal
=============================================================================
