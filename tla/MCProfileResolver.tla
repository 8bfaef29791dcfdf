-------------------------- MODULE MCProfileResolver --------------------------
(* A small instance of ProfileResolver for TLC. *)
EXTENDS ProfileResolver

\* Base (4) and three profiles that inherit from each other in every way,
\* themselves included; base may name a parent and profile 1 an unknown name
\* (5), so there are circles through base and parents that do not exist.
MCProfiles == 1..4
MCNames == 1..5
MCInputs ==
    {g \in [MCProfiles -> SUBSET {1, 2, 3, 5}] :
        /\ \A p \in 2..4 : 5 \notin g[p]
        /\ g[4] \in {{}, {1}}}
=============================================================================
