----------------------------- MODULE MCDevices -----------------------------
(***************************************************************************)
(* Three keys for TLC: A, a key above 255 that is truncated to A's code,   *)
(* and one that is not mapped.                                             *)
(***************************************************************************)
EXTENDS Devices

MCScancodes == {0, 4}
MCKeymap == [s \in MCScancodes |-> IF s = 4 THEN "A" ELSE KEY_NONE]
MCKeys == {0, 4, 260}
MCTruncated == [k \in MCKeys |-> k % 256]
=============================================================================
