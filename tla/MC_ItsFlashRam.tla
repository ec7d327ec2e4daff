--------------------------- MODULE MC_ItsFlashRam ---------------------------
(* Two blocks of two bytes in a RAM buffer of 3 to 5 bytes.               *)
EXTENDS ItsFlashRam

\* The file system's calls: every valid range of the abstract device.
MCRanges == Flash!Ranges

=============================================================================
