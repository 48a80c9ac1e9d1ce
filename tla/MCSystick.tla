----------------------------- MODULE MCSystick -----------------------------
(***************************************************************************)
(* Systick with four steps of the counter to a period and words of two     *)
(* values, so that ticks and carries into the high word come at every step *)
(* of a reader.                                                            *)
(***************************************************************************)
EXTENDS Systick
=============================================================================
