----------------------------- MODULE MCClockOffset -----------------------------
(***************************************************************************)
(* ClockOffset for TLC.                                                    *)
(***************************************************************************)
EXTENDS ClockOffset

(* Behind, equal, and further ahead than an offset may be. *)
MCSkews == {-2, 0, 5}
=============================================================================
