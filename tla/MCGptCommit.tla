---------------------------- MODULE MCGptCommit ----------------------------
(* Small instances of GptCommit for TLC.                                   *)
EXTENDS GptCommit

OneMove == <<<<1, "b">>>>
TwoMoves == <<<<1, "b">>, <<2, "b">>>>
=============================================================================
