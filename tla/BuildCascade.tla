---------------------------- MODULE BuildCascade ----------------------------
(***************************************************************************)
(* compute_build_cascade of fleetboot/server/build_jobs.py: the list of    *)
(* profiles to rebuild when one profile changes.  First a work list        *)
(* collects everything that inherits from the root, then rounds emit the   *)
(* profiles whose parents are all emitted, alphabetically within a round.  *)
(* What if profiles inherit from each other in a circle: one last round    *)
(* emits whatever is left.                                                 *)
(*                                                                         *)
(* The steps are the iterations of the two loops.  Profile names are       *)
(* numbers, ordered as sorted() orders the names.                          *)
(***************************************************************************)
EXTENDS Integers, FiniteSets

CONSTANTS
    Profiles,   \* the directories under image/profiles
    Names,      \* names a parent file may hold, existing profile or not
    Base,       \* BASE_PROFILE
    Inputs      \* the parent files to consider: functions from Profiles

ASSUME ProfilesAssumption ==
    Profiles \subseteq Nat /\ IsFiniteSet(Profiles) /\ Profiles \subseteq Names
ASSUME InputsAssumption == Inputs \subseteq [Profiles -> SUBSET Names]

VARIABLES
    declared,   \* the parent file of every profile
    root,       \* the profile to rebuild
    pc,         \* which loop is running
    inSet,      \* in_set
    stack,      \* nodes pushed and not yet popped (their order is immaterial)
    remaining,  \* remaining_parents
    position    \* 1-based index in `ordered`; 0: not in it (yet)

vars == <<declared, root, pc, inSet, stack, remaining, position>>

\* _read_profile_parents: Base is everybody's parent, when it exists.
Parents(p) ==
    declared[p] \cup (IF p # Base /\ Base \in Profiles THEN {Base} ELSE {})

Children(p) == {c \in Profiles : p \in Parents(c)}

InSetParents(p) == Parents(p) \cap inSet

Emitted == {p \in inSet : position[p] > 0}

\* Variant: one outstanding parent does not hurt.
ReadyTooSoon ==
    {n \in DOMAIN remaining : Cardinality(remaining[n]) <= 1}

\* The nodes a round emits, and sorted() over a set of them.
Ready == {n \in DOMAIN remaining : remaining[n] = {}}

Emit(S) ==
    position' = [n \in inSet |->
        IF n \in S THEN Cardinality(Emitted) + Cardinality({k \in S : k <= n})
                   ELSE position[n]]

-----------------------------------------------------------------------------
Init ==
    /\ declared \in Inputs
    /\ root \in Profiles
    /\ pc = "collect"
    /\ inSet = {root}
    /\ stack = Children(root)
    /\ remaining = [p \in {} |-> {}]
    /\ position = [p \in {root} |-> 0]

\* Variant: children of children are not looked at.
CollectOneLevel(node) ==
    /\ pc = "collect"
    /\ node \in stack
    /\ stack' = stack \ {node}
    /\ inSet' = inSet \cup {node}
    /\ UNCHANGED <<declared, root, pc, remaining, position>>

\* node = stack.pop(); a node already in the set is dropped.
Collect(node) ==
    /\ pc = "collect"
    /\ node \in stack
    /\ IF node \in inSet
       THEN /\ stack' = stack \ {node}
            /\ UNCHANGED inSet
       ELSE /\ stack' = (stack \ {node}) \cup Children(node)
            /\ inSet' = inSet \cup {node}
    /\ UNCHANGED <<declared, root, pc, remaining, position>>

\* Variant: parents outside the set are waited for.
StartSortUnfiltered ==
    /\ pc = "collect"
    /\ stack = {}
    /\ pc' = "sort"
    /\ remaining' = [n \in inSet |-> Parents(n)]
    /\ position' = [n \in inSet |-> 0]
    /\ UNCHANGED <<declared, root, inSet, stack>>

StartSort ==
    /\ pc = "collect"
    /\ stack = {}
    /\ pc' = "sort"
    /\ remaining' = [n \in inSet |-> InSetParents(n)]
    /\ position' = [n \in inSet |-> 0]
    /\ UNCHANGED <<declared, root, inSet, stack>>

\* One round: every node without a remaining parent.
EmitReady ==
    /\ pc = "sort"
    /\ Ready # {}
    /\ Emit(Ready)
    /\ remaining' =
           [n \in DOMAIN remaining \ Ready |-> remaining[n] \ Ready]
    /\ UNCHANGED <<declared, root, pc, inSet, stack>>

\* Variant: there is no fallback.
NoFallback == FALSE

\* Variant: the fallback takes the whole set, the profiles that are already
\* in the order included.
FallbackTakesAll ==
    /\ pc = "sort"
    /\ DOMAIN remaining # {} /\ Ready = {}
    /\ Emit(inSet)
    /\ pc' = "done"
    /\ UNCHANGED <<declared, root, inSet, stack, remaining>>

\* No node is ready: a circle; emit what is left.
EmitCircle ==
    /\ pc = "sort"
    /\ DOMAIN remaining # {} /\ Ready = {}
    /\ Emit(DOMAIN remaining)
    /\ pc' = "done"
    /\ UNCHANGED <<declared, root, inSet, stack, remaining>>

Finish ==
    /\ pc = "sort"
    /\ DOMAIN remaining = {}
    /\ pc' = "done"
    /\ UNCHANGED <<declared, root, inSet, stack, remaining, position>>

Next == (\E node \in stack : Collect(node))
        \/ StartSort \/ EmitReady \/ EmitCircle \/ Finish

Spec == Init /\ [][Next]_vars

-----------------------------------------------------------------------------
(* The reference: what a cascade is.                                       *)

\* A set of profiles closed under "inherits from a member".
Downward(S) == \A p \in S : Children(p) \subseteq S

\* Everything downstream of root: the least such set that has it.
Downstream ==
    {p \in Profiles :
        \A S \in SUBSET Profiles : root \in S /\ Downward(S) => p \in S}

\* No circle: every nonempty part has a member with no parent in it.
Acyclic(S) ==
    \A T \in SUBSET S : T # {} => \E n \in T : Parents(n) \cap T = {}

-----------------------------------------------------------------------------
(* Properties.                                                             *)

\* The values the variables range over.
TypeOK ==
    /\ declared \in Inputs
    /\ root \in Profiles
    /\ pc \in {"collect", "sort", "done"}
    /\ inSet \in SUBSET Profiles
    /\ stack \in SUBSET Profiles
    /\ DOMAIN remaining \subseteq inSet
    /\ position \in [DOMAIN position -> Nat]

\* The cascade is the root and everything downstream of it, and nothing else,
\* circles and missing parents included.
CascadeIsComplete == pc = "done" => inSet = Downstream

\* Every profile of the cascade has a build of its own, none has two.
EachBuiltOnce ==
    pc = "done" =>
        \A i \in 1..Cardinality(inSet) :
            \E p \in inSet : \A q \in inSet : position[q] = i <=> q = p

\* A profile is built after the parents it inherits from.
ParentsFirst ==
    pc = "done" /\ Acyclic(inSet) =>
        \A n \in inSet : \A p \in InSetParents(n) : position[p] < position[n]

\* Without circles the root is built first, which is what _run_cascade and
\* start_build take jobs[0] for.
RootFirst == pc = "done" /\ Acyclic(inSet) => position[root] = 1

-----------------------------------------------------------------------------
(* The inductive strengthening.                                            *)

\* The work list: what is found is downstream, every found profile but the
\* root has a found parent, and no child is forgotten.
Found == inSet \cup stack

WorklistInv ==
    /\ root \in inSet
    /\ \A S \in SUBSET Profiles : root \in S /\ Downward(S) => Found \subseteq S
    /\ \A n \in Found \ {root} : InSetParents(n) # {}
    /\ \A p \in inSet : Children(p) \subseteq Found
    /\ pc # "collect" => stack = {}

\* The rounds: what is left to emit and which parents it waits for.
Left == DOMAIN remaining

RoundsInv ==
    /\ DOMAIN position \subseteq inSet
    /\ pc # "collect" =>
           /\ DOMAIN position = inSet
           /\ \A n \in Left : remaining[n] = InSetParents(n) \cap Left
    /\ pc = "sort" => \A n \in inSet : n \in Left <=> position[n] = 0

\* Without circles nothing is emitted before its parents, positions are
\* consumed from 1 upwards and the first of them goes to the root.
OrderInv ==
    pc # "collect" /\ Acyclic(inSet) =>
        /\ pc = "done" => Left = {}
        /\ \A n \in inSet \ Left :
               /\ position[n] \in 1..Cardinality(inSet \ Left)
               /\ \A p \in InSetParents(n) :
                      p \notin Left /\ position[p] < position[n]
        /\ IF root \in Left THEN Left = inSet ELSE position[root] = 1

\* Circles or not, no position is given twice and none is left out: when
\* both loops are done, every profile has one.
NumberingInv ==
    pc # "collect" =>
        /\ \A p \in Emitted : position[p] \in 1..Cardinality(Emitted)
        /\ \A p, q \in Emitted : position[p] = position[q] => p = q
        /\ pc = "done" => Emitted = inSet

IInv == TypeOK /\ WorklistInv /\ RoundsInv /\ OrderInv /\ NumberingInv

=============================================================================
