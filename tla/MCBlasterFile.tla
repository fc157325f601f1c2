--------------------------- MODULE MCBlasterFile ---------------------------
(* BLF files of up to three records for TLC: six-bit integers, two-bit digits. *)
EXTENDS BlasterFile

\* Fields at the edges of the signed and the unsigned range. The colors may be each
\* of the three magics; 0 and 4 are sizes of files that end like a trailer.
MCKeys == {31, 32, 63} \X {0, 4, 31, 32, 63}
MCMagics == [blf |-> 63, blfz |-> 32, blfzl |-> 31]
=============================================================================
