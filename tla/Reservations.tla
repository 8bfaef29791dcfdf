---------------------------- MODULE Reservations ----------------------------
(***************************************************************************)
(* The ownership record of the fleet: the machines and reservations tables *)
(* of fleetboot/server/registry.py and the operations that change them.    *)
(*                                                                         *)
(* Every operation of MachineRegistry that writes runs entirely under      *)
(* _write_lock, so it is one step here.  What the callers do after the     *)
(* lock is dropped (switching machines on and off) is module LeasePower.   *)
(***************************************************************************)
EXTENDS Integers, FiniteSets

CONSTANTS
    Macs,          \* MAC addresses, as the numbers they are (ORDER BY mac)
    Profiles,      \* profile names
    Architectures, \* architecture families (aliases of one count as one)
    ArchitectureOf,\* the architecture each machine is enrolled with
    Holders,       \* agents that lease machines
    Admin,         \* holder of the permanent holds
    Ttls,          \* lease lengths an agent may ask for
    MaxTime,       \* bound on the clock
    CanCrash,      \* may the server process be restarted?
    NULL           \* SQL NULL

ASSUME MacsAssumption == Macs \subseteq Nat /\ IsFiniteSet(Macs)
ASSUME ArchitectureAssumption == ArchitectureOf \in [Macs -> Architectures]
ASSUME TtlAssumption == Ttls \subseteq Nat \ {0}
ASSUME MaxTimeAssumption == MaxTime \in Nat
ASSUME CrashAssumption == CanCrash \in BOOLEAN
ASSUME NullAssumption == NULL \notin Nat /\ NULL \notin Profiles

VARIABLES
    up,            \* is the server process running?
    pinnedFlag,    \* settings row 'reservations_pinned_existing' exists
    profile,       \* machines.profile_name; NULL: no row for that MAC
    reservations,  \* the reservation rows with released_at NULL
    clock,         \* datetime('now')
    optedIn        \* history: machines an admin has put in the pool

vars == <<up, pinnedFlag, profile, reservations, clock, optedIn>>

-----------------------------------------------------------------------------
(* Rows and the predicates of the SQL text.                                *)

Kinds == {"permanent", "lease"}

Reservation ==
    [mac : Macs, holder : Holders \cup {Admin}, kind : Kinds,
     profile : Profiles \cup {NULL}, expires : Nat \cup {NULL}]

Registered(m) == profile[m] # NULL

\* _ACTIVE_RESERVATION_WHERE (released rows are not in the set)
Active(r) == r.expires = NULL \/ r.expires > clock

\* Variant: the sweep runs one time unit early.
ExpiredEarly(r) ==
    r.kind = "lease" /\ r.expires # NULL /\ r.expires <= clock + 1

\* The WHERE clause of reap_expired.
Expired(r) == r.kind = "lease" /\ r.expires # NULL /\ r.expires <= clock

ActiveLease(r) == r.kind = "lease" /\ Active(r)

Held(m) == \E r \in reservations : r.mac = m /\ Active(r)

PermanentlyHeld(m) ==
    \E r \in reservations : r.mac = m /\ r.kind = "permanent"

ExpiredLease(m) == \E r \in reservations : r.mac = m /\ Expired(r)

PermanentHold(m, h, p) ==
    [mac |-> m, holder |-> h, kind |-> "permanent", profile |-> p,
     expires |-> NULL]

\* Variant: the INSERT leaves the holder out.
LeaseOfNobody(m, h, p, t) ==
    [mac |-> m, holder |-> NULL, kind |-> "lease", profile |-> p,
     expires |-> t]

Lease(m, h, p, t) ==
    [mac |-> m, holder |-> h, kind |-> "lease", profile |-> p, expires |-> t]

\* Variant: only leases are released before the INSERT.
ReleaseOnlyLeases(S) ==
    {r \in reservations : r.mac \notin S \/ r.kind = "permanent"}

\* What _release_unreleased leaves, for every machine of S.
ReleaseUnreleased(S) == {r \in reservations : r.mac \notin S}

\* ORDER BY m.mac LIMIT n
FirstByMac(S, n) ==
    {m \in S : Cardinality({k \in S : k < m}) < n}

\* The machines a reserve call may lease, and those it leases: the first n.
Free(a) == {m \in Macs : /\ Registered(m) /\ ~Held(m)
                         /\ a = NULL \/ ArchitectureOf[m] = a}
Leasable(a, n) == FirstByMac(Free(a), n)

\* Variant: the kind is not tested.
HoldsOn(S) == {r \in reservations : r.mac \in S /\ Active(r)}

\* The active leases on the machines of S, and those of one holder.
LeasesOn(S) == {r \in reservations : r.mac \in S /\ ActiveLease(r)}
LeasedBy(h) == {r.mac : r \in {q \in reservations :
                                   q.holder = h /\ ActiveLease(q)}}

MacsOf(R) == {r.mac : r \in R}
ExpiredRows == {r \in reservations : Expired(r)}

-----------------------------------------------------------------------------
(* Admin operations.                                                       *)

\* enroll: a new machine is pinned; re-enrolling replaces the row and leaves
\* the reservations alone.
Enroll(m, p) ==
    /\ up
    /\ profile' = [profile EXCEPT ![m] = p]
    /\ IF Registered(m)
       THEN UNCHANGED <<reservations, optedIn>>
       ELSE /\ reservations' = reservations \cup {PermanentHold(m, Admin, p)}
            /\ optedIn' = optedIn \ {m}
    /\ UNCHANGED <<up, pinnedFlag, clock>>

\* Variant: the machine goes, its holds stay.
RemoveKeepingHolds(m) ==
    /\ up
    /\ Registered(m)
    /\ profile' = [profile EXCEPT ![m] = NULL]
    /\ optedIn' = optedIn \ {m}
    /\ UNCHANGED <<up, pinnedFlag, reservations, clock>>

\* remove
Remove(m) ==
    /\ up
    /\ Registered(m)
    /\ profile' = [profile EXCEPT ![m] = NULL]
    /\ reservations' = ReleaseUnreleased({m})
    /\ optedIn' = optedIn \ {m}
    /\ UNCHANGED <<up, pinnedFlag, clock>>

\* set_profile
SetProfile(m, p) ==
    /\ up
    /\ Registered(m)
    /\ profile' = [profile EXCEPT ![m] = p]
    /\ UNCHANGED <<up, pinnedFlag, reservations, clock, optedIn>>

\* pin; p is NULL when the caller names no profile.
Pin(m, h, p) ==
    /\ up
    /\ Registered(m)
    /\ reservations' = ReleaseUnreleased({m}) \cup {PermanentHold(m, h, p)}
    /\ profile' = IF p = NULL THEN profile ELSE [profile EXCEPT ![m] = p]
    /\ optedIn' = optedIn \ {m}
    /\ UNCHANGED <<up, pinnedFlag, clock>>

\* release_to_pool
ReleaseToPool(m) ==
    /\ up
    /\ Registered(m)
    /\ reservations' = {r \in reservations :
                           ~(r.mac = m /\ r.kind = "permanent" /\ Active(r))}
    /\ optedIn' = optedIn \cup {m}
    /\ UNCHANGED <<up, pinnedFlag, profile, clock>>

-----------------------------------------------------------------------------
(* Agent operations and the reaper's.                                      *)

\* reserve: any row still un-released on a leased machine (an expired lease)
\* is released first, and the machine is switched to the worker profile.
Reserve(h, p, n, a, ttl) ==
    LET leased == Leasable(a, n)
    IN  /\ up
        /\ reservations' = ReleaseUnreleased(leased)
                           \cup {Lease(m, h, p, clock + ttl) : m \in leased}
        /\ profile' = [m \in Macs |-> IF m \in leased THEN p ELSE profile[m]]
        /\ UNCHANGED <<up, pinnedFlag, clock, optedIn>>

\* renew: the expiry becomes ttl from now.
Renew(m, ttl) ==
    /\ up
    /\ LeasesOn({m}) # {}
    /\ reservations' = (reservations \ LeasesOn({m}))
           \cup {[r EXCEPT !.expires = clock + ttl] : r \in LeasesOn({m})}
    /\ UNCHANGED <<up, pinnedFlag, profile, clock, optedIn>>

\* release(macs): active leases only, whoever holds them.
Release(targets) ==
    /\ up
    /\ reservations' = reservations \ LeasesOn(targets)
    /\ UNCHANGED <<up, pinnedFlag, profile, clock, optedIn>>

\* release(holder)
ReleaseHolder(h) == Release(LeasedBy(h))

\* Variant: the expired rows are listed and not updated.
ReapNothing == up /\ UNCHANGED vars

\* reap_expired
ReapExpired ==
    /\ up
    /\ reservations' = ReleaseUnreleased(MacsOf(ExpiredRows))
    /\ UNCHANGED <<up, pinnedFlag, profile, clock, optedIn>>

-----------------------------------------------------------------------------
(* The process and the clock.                                              *)

\* Machines _pin_existing_machines_once would pin.
Unheld == {m \in Macs : Registered(m) /\ \A r \in reservations : r.mac # m}

\* Variant: the migration runs at every start.
StartupPinningAgain ==
    /\ ~up
    /\ up' = TRUE
    /\ pinnedFlag' = TRUE
    /\ reservations' =
           reservations \cup {PermanentHold(m, Admin, profile[m]) : m \in Unheld}
    /\ UNCHANGED <<profile, clock, optedIn>>

\* MachineRegistry.__init__
Startup ==
    /\ ~up
    /\ up' = TRUE
    /\ pinnedFlag' = TRUE
    /\ reservations' =
           IF pinnedFlag THEN reservations
           ELSE reservations
                \cup {PermanentHold(m, Admin, profile[m]) : m \in Unheld}
    /\ UNCHANGED <<profile, clock, optedIn>>

\* The process dies between two operations; the database survives.
Crash ==
    /\ CanCrash
    /\ up
    /\ up' = FALSE
    /\ UNCHANGED <<pinnedFlag, profile, reservations, clock, optedIn>>

Tick ==
    /\ clock < MaxTime
    /\ clock' = clock + 1
    /\ UNCHANGED <<up, pinnedFlag, profile, reservations, optedIn>>

-----------------------------------------------------------------------------
\* A database from before reservations: any fleet, no reservation row yet.
Init ==
    /\ up = FALSE
    /\ pinnedFlag = FALSE
    /\ profile \in [Macs -> Profiles \cup {NULL}]
    /\ reservations = {}
    /\ clock = 0
    /\ optedIn = {}

\* What a pool-client token may call (mcp.POOL_CLIENT_TOOLS).
AgentStep ==
    \/ \E h \in Holders, p \in Profiles, n \in 1..Cardinality(Macs),
          a \in Architectures \cup {NULL}, ttl \in Ttls :
              Reserve(h, p, n, a, ttl)
    \/ \E m \in Macs, ttl \in Ttls : Renew(m, ttl)
    \/ \E S \in SUBSET Macs : Release(S)
    \/ \E h \in Holders : ReleaseHolder(h)

AdminStep ==
    \/ \E m \in Macs, p \in Profiles : Enroll(m, p) \/ SetProfile(m, p)
    \/ \E m \in Macs : Remove(m) \/ ReleaseToPool(m)
    \/ \E m \in Macs, p \in Profiles \cup {NULL} : Pin(m, Admin, p)

Next == AgentStep \/ AdminStep \/ ReapExpired \/ Startup \/ Crash \/ Tick

Spec == Init /\ [][Next]_vars

-----------------------------------------------------------------------------
(* Properties.                                                             *)

\* The values the variables range over.
TypeOK ==
    /\ up \in BOOLEAN
    /\ pinnedFlag \in BOOLEAN
    /\ profile \in [Macs -> Profiles \cup {NULL}]
    /\ reservations \in SUBSET Reservation
    /\ clock \in Nat
    /\ optedIn \in SUBSET Macs

\* At most one un-released row per machine: no INSERT of enroll, reserve, pin
\* or the migration ever hits the index idx_reservations_one_active.
UniqueIndexNeverConflicts ==
    \A r, s \in reservations : r.mac = s.mac => r = s

\* Deleting a machine leaves no hold behind that a later enrolment of the
\* same MAC would collide with.
NoOrphanHold == \A r \in reservations : Registered(r.mac)

\* "Permanent unless opted in": once the migration has run, a machine is
\* permanently held exactly when no admin has put it in the pool since it was
\* enrolled or last pinned.  A restart does not pin a pool machine again, and
\* no sequence of leases, renewals, releases, reaps and restarts moves a
\* permanent machine into the pool.
PoolIsOptIn ==
    pinnedFlag =>
        \A m \in Macs :
            Registered(m) => (PermanentlyHeld(m) <=> m \notin optedIn)

\* A lease runs to its term: while it is active only its renewal, a release,
\* a pin or the machine's deletion ends it.  Another agent's reserve, a
\* re-enrolment, the reaper and a restart never do.
LeaseRunsToTerm ==
    [][\A r \in reservations :
          ActiveLease(r) /\ r \notin reservations' =>
              \/ \E ttl \in Ttls : Renew(r.mac, ttl)
              \/ \E S \in SUBSET Macs : r.mac \in S /\ Release(S)
              \/ \E p \in Profiles \cup {NULL} : Pin(r.mac, Admin, p)
              \/ Remove(r.mac)]_vars

RowsOf(m) == {r \in reservations : r.mac = m}

Touched(m) == profile'[m] # profile[m] \/ RowsOf(m)' # RowsOf(m)

\* Nothing a pool-client token can call changes the row or the holds of a
\* machine outside the pool.
AgentsLeavePermanentAlone ==
    [][\A m \in Macs \ optedIn : Touched(m) => ~AgentStep]_vars

-----------------------------------------------------------------------------
(* The inductive strengthening of the safety invariants: how the two kinds *)
(* of row differ, what is true before the migration has run, and that only *)
(* a machine somebody opted in has a lease.                                *)

RowsWellFormed ==
    \A r \in reservations : (r.kind = "permanent") <=> (r.expires = NULL)

NoRowsBeforeMigration ==
    ~pinnedFlag => ~up /\ reservations = {} /\ optedIn = {}

LeasedMachinesAreOptedIn ==
    \A r \in reservations : r.kind = "lease" => r.mac \in optedIn

IInv ==
    /\ TypeOK
    /\ RowsWellFormed
    /\ NoRowsBeforeMigration
    /\ LeasedMachinesAreOptedIn
    /\ UniqueIndexNeverConflicts
    /\ NoOrphanHold
    /\ PoolIsOptIn

=============================================================================
