------------------------------ MODULE MCFlash ------------------------------
(* Small instances of Flash for TLC.                                        *)
EXTENDS Flash

CONSTANTS a, erased, torn, mixed, none
Contents == {a}
=============================================================================
