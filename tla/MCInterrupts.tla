---------------------------- MODULE MCInterrupts ----------------------------
(***************************************************************************)
(* Lines of both PICs, with the ones that can be spurious and the timer;   *)
(* three processes; nibbles of 4 values, and stubs on both sides of the    *)
(* half words.                                                             *)
(***************************************************************************)
EXTENDS Interrupts

MCAddress == [s \in Stubs |->
    250 + 97 * (s[2] + IF s[1] = "isr" THEN 21 ELSE 0)]
=============================================================================
