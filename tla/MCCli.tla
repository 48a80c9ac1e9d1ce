------------------------------- MODULE MCCli -------------------------------
(***************************************************************************)
(* Cli with the ring of the code, lines of one character, two slots for    *)
(* files and two names: every ring position, with lines too long, edited   *)
(* to nothing, and read while files are open.                              *)
(***************************************************************************)
EXTENDS Cli
=============================================================================
