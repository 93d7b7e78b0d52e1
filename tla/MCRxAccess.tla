----------------------------- MODULE MCRxAccess -----------------------------
(* The accesses of RxAccess on a few words: a device register, two words of  *)
(* the first 32 KiB that the window swaps, a word of SRAM, one of the APE's  *)
(* space and one of the ROM.                                                 *)
EXTENDS RxAccess

CONSTANTS v1, v2, f1, f2

MCWord == {v1, v2}
MCOneWord == {v1}
MCFw   == {f1, f2}

\* 0xC0000068, 0x0B50, 0x0B54, 0x08003000, 0xC0010008 and 0x40000010.
MCAddr == {805306394, 724, 725, 33557504, 805322754, 268435460}

\* One word for each of the techniques that borrow the CPU, and the APE.
MCFewAddr == {33557504, 268435460}

=============================================================================
