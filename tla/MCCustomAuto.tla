----------------------------- MODULE MCCustomAuto -----------------------------
(***************************************************************************)
(* Three speeds with the boundaries 1 and 2, and a reading on each side of *)
(* each boundary: 1 and 2 are on a boundary themselves.                    *)
(***************************************************************************)
EXTENDS CustomAuto

MCThresholds == <<1, 2>>

==============================================================================
