------------------------ MODULE MCRegistryStatements ------------------------
(* Small instances of RegistryStatements for TLC. *)
EXTENDS RegistryStatements

CONSTANTS school, h1, amd64, c1

MCMacs == {1, 2}
MCArchitectureOf == [m \in MCMacs |-> amd64]
MCRules == {[macs |-> MCMacs, profile |-> school]}

=============================================================================
