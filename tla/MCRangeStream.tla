---------------------------- MODULE MCRangeStream ----------------------------
(* SdkRange over every object of three or four chunks of one or two bytes   *)
(* (self-encryption makes at least three chunks), for TLC.                 *)
EXTENDS SdkRange

SmallObjects == [1 .. 3 -> 1 .. 2] \cup [1 .. 4 -> 1 .. 2]

=============================================================================
