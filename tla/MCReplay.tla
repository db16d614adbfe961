-------------------------------- MODULE MCReplay --------------------------------
(***************************************************************************)
(* Replay for TLC: two hourly files, of the instants 2..3 and 4..5.        *)
(***************************************************************************)
EXTENDS Replay

(* Before the epoch, the last instant of the first hour, the first of the next,
   and one of an hour in EarlyNames. *)
MCWindowEnds == {-1, 3, 4, 10}
=============================================================================
