---------------------------- MODULE MCLeasePower ----------------------------
(* Small instances of LeasePower for TLC. *)
EXTENDS LeasePower

CONSTANTS worker, h1, amd64

MCMacs == {1, 2}
MCOneMac == {1}
MCArchitectureOf == [m \in Macs |-> amd64]
=============================================================================
