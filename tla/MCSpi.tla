------------------------------- MODULE MCSpi -------------------------------
(* Small instances of Spi for TLC: clients are interchangeable.             *)
EXTENDS Spi, TLC

CONSTANTS flash, sdcard, bus0, cs0, cs1, none

Clients   == {flash, sdcard}
Buses     == {bus0}
Selects   == {cs0, cs1}
(* Part of the ladder of select_clock: its slowest clock, the clock of a    *)
(* fresh bus, the SD card clock and the initial clock of spi_config.        *)
Clocks    == {10000, 100000, 2000000, 4000000}
(* An SD card asks for 100 kHz, the radio for 4 MHz.                        *)
Requests  == {100000, 4500000}
Symmetry  == Permutations(Clients)
=============================================================================
