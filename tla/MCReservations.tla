--------------------------- MODULE MCReservations ---------------------------
(* Small instances of Reservations for TLC. *)
EXTENDS Reservations

CONSTANTS school, worker, h1, h2, amd64, arm64

MCMacs == {1, 2}
MCArchitectureOf == [m \in MCMacs |-> IF m = 1 THEN amd64 ELSE arm64]
=============================================================================
