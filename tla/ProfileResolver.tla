--------------------------- MODULE ProfileResolver ---------------------------
(***************************************************************************)
(* resolve_chain of scripts/resolve-profile.py, which "make image" runs    *)
(* for each profile of a cascade, composed with the computation of the     *)
(* cascade in build_jobs.py: two programs that read the same parent files  *)
(* and have to agree about what inherits from what.                        *)
(*                                                                         *)
(* The steps are the calls and returns of visit.  The parents of a profile *)
(* are visited in any order, the one of its parent file among them.        *)
(***************************************************************************)
EXTENDS BuildCascade, Sequences

VARIABLES
    target,     \* the profile of the image that is built, once there is one
    chain,      \* the chain so far
    calls,      \* calls of visit under way, the innermost first
    outcome     \* of the script

resolverVars == <<target, chain, calls, outcome>>
allVars == <<vars, resolverVars>>

\* Variant: only base's children inherit from base.
ReadParentsDeclared(p) == declared[p]

\* _read_parents: "every profile except `base` implicitly inherits from
\* `base`".
ReadParents(p) ==
    IF p # Base /\ Base \in Profiles THEN declared[p] \cup {Base} ELSE declared[p]

\* A call of visit, and the parents it has yet to visit.
Call(p) == [name |-> p, left |-> ReadParents(p)]

Chained == {chain[i] : i \in DOMAIN chain}

\* Variant: no profile has been seen.
SeenNever == {}

\* seen
Seen == Chained

\* visiting
Visiting == {calls[i].name : i \in DOMAIN calls}

-----------------------------------------------------------------------------

\* The script is run for profile p.
Resolve(p) ==
    /\ pc = "done" /\ outcome = "none"
    /\ target' = {p}
    /\ calls' = <<Call(p)>>
    /\ outcome' = "running"
    /\ UNCHANGED <<vars, chain>>

\* Variant: what cannot be visited is passed over.
VisitTolerant(q) ==
    /\ outcome = "running" /\ q \in Head(calls).left
    /\ LET rest == <<[Head(calls) EXCEPT !.left = @ \ {q}]>> \o Tail(calls)
       IN  calls' = IF q \in Seen \cup Visiting \/ q \notin Profiles
                    THEN rest ELSE <<Call(q)>> \o rest
    /\ UNCHANGED <<vars, target, chain, outcome>>

\* The innermost call goes on to one more parent: another call of visit,
\* unless the parent has been seen.  A parent that is being visited or is no
\* directory ends the script.
Visit(q) ==
    /\ outcome = "running" /\ q \in Head(calls).left
    /\ LET rest == <<[Head(calls) EXCEPT !.left = @ \ {q}]>> \o Tail(calls)
       IN  IF q \in Seen THEN calls' = rest /\ UNCHANGED outcome
           ELSE IF q \in Visiting \/ q \notin Profiles
           THEN calls' = <<>> /\ outcome' = "failed"
           ELSE calls' = <<Call(q)>> \o rest /\ UNCHANGED outcome
    /\ UNCHANGED <<vars, target, chain>>

\* The innermost call has visited all parents.
Return ==
    /\ outcome = "running" /\ Head(calls).left = {}
    /\ chain' = Append(chain, Head(calls).name)
    /\ calls' = Tail(calls)
    /\ outcome' = IF Tail(calls) = <<>> THEN "resolved" ELSE "running"
    /\ UNCHANGED <<vars, target>>

ResolverInit ==
    /\ Init
    /\ target = {} /\ chain = <<>> /\ calls = <<>> /\ outcome = "none"

ResolverNext ==
    \/ Next /\ UNCHANGED resolverVars
    \/ \E p \in Profiles : Resolve(p)
    \/ \E q \in Names : Visit(q)
    \/ Return

ResolverSpec ==
    ResolverInit /\ [][ResolverNext]_allVars /\ WF_allVars(ResolverNext)

-----------------------------------------------------------------------------
(* The reference: what a chain is.                                         *)

Upward(S) == \A p \in S \cap Profiles : Parents(p) \subseteq S

\* What the target inherits from, the target itself included.
Ancestry ==
    {n \in Names : \A S \in SUBSET Names : target \subseteq S /\ Upward(S) => n \in S}

Resolvable == Ancestry \subseteq Profiles /\ Acyclic(Ancestry)

-----------------------------------------------------------------------------
(* Properties.                                                             *)

\* The chain has everything the target inherits from exactly once, parents
\* before children and so the target last: "a diamond ... contributes exactly
\* once", and what a child's overlay shadows is its parents'.
ChainIsAncestry ==
    outcome = "resolved" =>
        /\ Chained = Ancestry
        /\ \A i, j \in DOMAIN chain :
               chain[i] = chain[j] \/ chain[i] \in Parents(chain[j]) => i <= j

\* The script fails on circles and on parents that do not exist, wherever
\* they are above the target, and on nothing else.
FailsExactlyIfBroken ==
    /\ outcome = "failed" => ~Resolvable
    /\ outcome = "resolved" => Resolvable

\* "every profile whose inheritance chain includes `root`", and no other, is
\* rebuilt: an image that embeds the root's contribution does not stay stale.
CascadeCoversChains ==
    outcome = "resolved" => (root \in Chained <=> target \subseteq inSet)

\* Both programs end, on every set of parent files.
BothTerminate == <>(outcome \in {"resolved", "failed"})

-----------------------------------------------------------------------------
(* The inductive strengthening.                                            *)

\* The values the variables range over.
ResolverTypeOK ==
    /\ target \in SUBSET Profiles
    /\ chain \in Seq(Profiles)
    /\ calls \in Seq([name : Profiles, left : SUBSET Names])
    /\ outcome \in {"none", "running", "resolved", "failed"}

\* Nothing is in the chain twice or before a parent of its own, and nothing
\* that is not above the target.
ChainInv ==
    /\ \A i, j \in DOMAIN chain : i # j => chain[i] # chain[j]
    /\ \A j \in DOMAIN chain :
           Parents(chain[j]) \subseteq {chain[i] : i \in 1..(j - 1)}
    /\ Chained \subseteq Ancestry

\* The profile whose call of visit the i-th call is waiting for.
Awaited(i) == IF i = 1 THEN {} ELSE {calls[i - 1].name}

\* Every call on the stack is of a profile of its own, above the target and
\* not in the chain yet; it was made for a child that waits for it, and
\* forgets none of its parents.
CallsInv ==
    /\ \A i, j \in DOMAIN calls : i # j => calls[i].name # calls[j].name
    /\ \A i \in DOMAIN calls :
           /\ calls[i].name \in Ancestry \ Chained
           /\ calls[i].left \cup Awaited(i) \subseteq Parents(calls[i].name)
           /\ Parents(calls[i].name)
                  \subseteq Chained \cup calls[i].left \cup Awaited(i)

OutcomeInv ==
    /\ outcome = "running" <=> calls # <<>>
    /\ IF outcome = "none" THEN target = {} /\ chain = <<>>
       ELSE pc = "done" /\ \E p \in Profiles : target = {p}
    /\ outcome = "running" => target = {calls[Len(calls)].name}
    /\ outcome = "resolved" => target \subseteq Chained
    /\ outcome = "failed" => ~Resolvable

ResolverIInv == IInv /\ ResolverTypeOK /\ ChainInv /\ CallsInv /\ OutcomeInv

=============================================================================
