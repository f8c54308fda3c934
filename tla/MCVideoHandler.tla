---------------------------- MODULE MCVideoHandler ----------------------------
(***************************************************************************)
(* VideoHandler with two frames and two settings that differ in the bytes  *)
(* of a frame.                                                             *)
(***************************************************************************)
EXTENDS VideoHandler

CONSTANTS rgb, packed, c1, c2

MCBytes == [s \in Setting |-> IF s = packed THEN 1 ELSE 2]

Use(does, max, files, threads, shown) ==
    [ops |-> does, max |-> max, files |-> files, threads |-> threads, selected |-> shown]

\* Playback over changes of the format; a file that is written; two caching threads.
MCUses ==
    {Use({"control", "size", "play", "show"}, 2, 0, {c1}, TRUE),
     Use({"control"}, 1, 1, {c1}, TRUE),
     Use({"control", "size", "custom"}, 2, 0, {c1, c2}, FALSE)}
Playback == {Use({"play", "show"}, 3, 1, {}, TRUE)}
===============================================================================
