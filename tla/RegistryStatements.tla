------------------------- MODULE RegistryStatements -------------------------
(***************************************************************************)
(* MachineRegistry of fleetboot/server/registry.py statement by statement, *)
(* with the automatic enrolment of /resolve (fleetboot/server/app.py).     *)
(*                                                                         *)
(* Connections are opened with isolation_level=None, so each statement of  *)
(* an operation commits on its own.  The operation holds _write_lock; what *)
(* is read without the lock sees the states in between, and a crash leaves *)
(* them behind.  Where there is no such crash the module implements        *)
(* Reservations, where an operation is one step.  All statements of one    *)
(* operation see one time.                                                 *)
(***************************************************************************)
EXTENDS Reservations, Sequences, Functions

CONSTANTS
    Wirings,       \* power commands and aliases an admin may give a machine
    RuleIds,       \* numbers: rules are tried in the order of their ids
    Rules,         \* what a rule may say: [macs, profile]
    Calls          \* concurrent calls of /resolve

ASSUME WiringAssumption == NULL \notin Wirings
ASSUME RuleAssumption ==
    /\ RuleIds \subseteq Nat /\ IsFiniteSet(RuleIds)
    /\ Rules \subseteq [macs : SUBSET Macs, profile : Profiles]
    /\ NULL \notin Rules

\* What a call of /resolve has read: the rule, once it has looked for one.
Lookups == [mac : Macs, rule : Rules \cup {NULL}]

ASSUME LookupAssumption == NULL \notin Lookups

VARIABLES
    todo,          \* the database after each statement still to be executed
    wiring,        \* power columns of machines, carried by enroll
    rules,         \* auto_enrol_rules
    resolving,     \* what each call of /resolve is doing
    torn,          \* history: machines an operation was cut short on
    given          \* history: the wiring last given to each machine

tables == <<pinnedFlag, profile, reservations, optedIn, wiring, rules>>
allVars == <<vars, todo, wiring, rules, resolving, torn, given>>

-----------------------------------------------------------------------------
(* The database, and what single statements make of it.                    *)

Database ==
    [pinnedFlag |-> pinnedFlag, profile |-> profile,
     reservations |-> reservations, optedIn |-> optedIn, wiring |-> wiring,
     rules |-> rules]

\* INSERT OR REPLACE INTO machines
Replaced(db, m, p) == [db EXCEPT !.profile[m] = p, !.wiring[m] = NULL]

\* UPDATE machines SET ... = ? WHERE mac = ?, of one group of columns each
Switched(db, m, p) == [db EXCEPT !.profile[m] = p]
Wired(db, m, w) == [db EXCEPT !.wiring[m] = w]

\* INSERT INTO reservations
Inserted(db, r) ==
    [db EXCEPT !.reservations = @ \cup {r},
               !.optedIn = IF r.kind = "permanent" THEN @ \ {r.mac} ELSE @]

\* UPDATE reservations SET released_at = ... WHERE ...; DELETE
Freed(db, R) == [db EXCEPT !.reservations = @ \ R]

\* DELETE FROM machines
Dropped(db, m) ==
    [db EXCEPT !.profile[m] = NULL, !.wiring[m] = NULL, !.optedIn = @ \ {m}]

RowsOn(m) == {r \in reservations : r.mac = m}

\* A statement commits; the others are still to be executed.
Commit(dbs) ==
    /\ LET db == Head(dbs)
       IN  /\ pinnedFlag' = db.pinnedFlag /\ profile' = db.profile
           /\ reservations' = db.reservations /\ optedIn' = db.optedIn
           /\ wiring' = db.wiring /\ rules' = db.rules
    /\ todo' = Tail(dbs)

\* The operation gets the lock and executes its first statement.
Run(dbs) ==
    /\ up /\ todo = <<>>
    /\ Commit(dbs)
    /\ UNCHANGED <<up, clock, torn>>

\* It executes its next statement.
Execute ==
    /\ up /\ todo # <<>>
    /\ Commit(todo)
    /\ UNCHANGED <<up, clock, resolving, torn, given>>

\* The database when the operation under way, if any, will be done.
Settled == IF todo = <<>> THEN Database ELSE todo[Len(todo)]

-----------------------------------------------------------------------------
(* The operations of module Reservations.                                  *)

\* Variant: the row is replaced, and nothing more.
EnrollStatementsBare(m, p) == <<Replaced(Database, m, p)>>

\* enroll: the row is replaced; then its power columns are put back, or a
\* new machine is pinned.
EnrollStatements(m, p) ==
    LET new == Replaced(Database, m, p)
    IN  IF Registered(m) THEN <<new, Wired(new, m, wiring[m])>>
        ELSE <<new, Inserted(new, PermanentHold(m, Admin, p))>>

EnrollManually(m, p) ==
    /\ Run(EnrollStatements(m, p))
    /\ UNCHANGED <<resolving, given>>

\* Variant: the row goes before the holds.
RemoveStatementsRowFirst(m) ==
    LET gone == Dropped(Database, m) IN <<gone, Freed(gone, RowsOn(m))>>

\* remove: the sessions and events, the holds, the row.
RemoveStatements(m) ==
    LET free == Freed(Database, RowsOn(m)) IN <<free, Dropped(free, m)>>

RemoveMachine(m) ==
    /\ Registered(m)
    /\ Run(RemoveStatements(m))
    /\ given' = [given EXCEPT ![m] = NULL]
    /\ UNCHANGED resolving

SwitchProfile(m, p) ==
    /\ Registered(m)
    /\ Run(<<Switched(Database, m, p)>>)
    /\ UNCHANGED <<resolving, given>>

\* Variant: the new hold is inserted first.
PinStatementsInsertFirst(m, p) ==
    LET held == Inserted(Database, PermanentHold(m, Admin, p))
        free == Freed(held, RowsOn(m))
    IN  <<held, free>>

\* pin
PinStatements(m, p) ==
    LET free == Freed(Database, RowsOn(m))
        held == Inserted(free, PermanentHold(m, Admin, p))
    IN  IF p = NULL THEN <<free, held>> ELSE <<free, held, Switched(held, m, p)>>

PinMachine(m, p) ==
    /\ Registered(m)
    /\ Run(PinStatements(m, p))
    /\ UNCHANGED <<resolving, given>>

\* release_to_pool
OptIn(m) ==
    /\ Registered(m)
    /\ Run(<<[Freed(Database, {r \in RowsOn(m) : r.kind = "permanent"})
                EXCEPT !.optedIn = @ \cup {m}]>>)
    /\ UNCHANGED <<resolving, given>>

\* The elements of S one after the other, and the first k of them.
Orders(S) == Surjection(1..Cardinality(S), S)
FirstOf(order, k) == {order[i] : i \in 1..k}

\* Some machines have lost their old row, some of these have the lease, and
\* some of these are switched to the profile.
PartlyLeased(free, held, switched, h, p, t) ==
    [Database EXCEPT
        !.reservations = ReleaseUnreleased(free) \cup {Lease(m, h, p, t) : m \in held},
        !.profile = [m \in Macs |-> IF m \in switched THEN p ELSE profile[m]]]

\* reserve: three statements for each machine.
LeaseStatements(order, h, p, t) ==
    [i \in 1..3 * Len(order) |->
        PartlyLeased(FirstOf(order, (i + 2) \div 3), FirstOf(order, (i + 1) \div 3),
                     FirstOf(order, i \div 3), h, p, t)]

ReserveMachines(h, p, n, a, ttl) ==
    /\ Leasable(a, n) # {}
    /\ \E order \in Orders(Leasable(a, n)) :
           /\ \A i, j \in DOMAIN order : i < j => order[i] < order[j]
           /\ Run(LeaseStatements(order, h, p, clock + ttl))
    /\ UNCHANGED <<resolving, given>>

\* renew
RenewLease(m, ttl) ==
    /\ LeasesOn({m}) # {}
    /\ Run(<<[Database EXCEPT !.reservations =
                  (@ \ LeasesOn({m}))
                  \cup {[r EXCEPT !.expires = clock + ttl] : r \in LeasesOn({m})}]>>)
    /\ UNCHANGED <<resolving, given>>

\* release and reap_expired: one UPDATE for each row.
FreeEach(rows) ==
    /\ rows # {}
    /\ \E order \in Orders(rows) :
           Run([i \in 1..Len(order) |-> Freed(Database, FirstOf(order, i))])
    /\ UNCHANGED <<resolving, given>>

ReleaseLeases(S) == FreeEach(LeasesOn(S))
ReapLeases == FreeEach(ExpiredRows)

\* set_power_command, set_pdu_alias
Wire(m, w) ==
    /\ Registered(m)
    /\ Run(<<Wired(Database, m, w)>>)
    /\ given' = [given EXCEPT ![m] = w]
    /\ UNCHANGED resolving

-----------------------------------------------------------------------------
(* Rules, and the enrolment of unknown machines.                           *)

\* add_auto_enrol_rule
AddRule(i, r) ==
    /\ rules[i] = NULL
    /\ Run(<<[Database EXCEPT !.rules[i] = r]>>)
    /\ UNCHANGED <<resolving, given>>

\* update_auto_enrol_rule (the machines' record of the rule's name, which a
\* rename rewrites in a second statement, is left out)
UpdateRule(i, r) ==
    /\ rules[i] # NULL
    /\ Run(<<[Database EXCEPT !.rules[i] = r]>>)
    /\ UNCHANGED <<resolving, given>>

\* remove_auto_enrol_rule
RemoveRule(i) ==
    /\ rules[i] # NULL
    /\ Run(<<[Database EXCEPT !.rules[i] = NULL]>>)
    /\ UNCHANGED <<resolving, given>>

\* resolve_machine finds no row for the MAC, without the lock; the app is only
\* made once the migration is done.
LookUp(c, m) ==
    /\ up /\ pinnedFlag
    /\ resolving[c] = NULL /\ ~Registered(m)
    /\ resolving' = [resolving EXCEPT ![c] = [mac |-> m, rule |-> NULL]]
    /\ UNCHANGED <<vars, todo, wiring, rules, torn, given>>

\* _rule_matches, of the MAC, address and platform the request came with
Matches(i, m) == rules[i] # NULL /\ m \in rules[i].macs

\* find_matching_rule: the lowest id, again without the lock; 404 if none.
FindRule(c) ==
    LET matching == {i \in RuleIds : Matches(i, resolving[c].mac)}
    IN  /\ up /\ resolving[c] # NULL /\ resolving[c].rule = NULL
        /\ \/ /\ matching = {}
              /\ resolving' = [resolving EXCEPT ![c] = NULL]
           \/ \E i \in matching :
                  /\ \A j \in matching : i <= j
                  /\ resolving' = [resolving EXCEPT ![c].rule = rules[i]]
        /\ UNCHANGED <<vars, todo, wiring, rules, torn, given>>

\* enroll, with what the rule said.
EnrolByRule(c) ==
    /\ resolving[c] # NULL /\ resolving[c].rule # NULL
    /\ Run(EnrollStatements(resolving[c].mac, resolving[c].rule.profile))
    /\ resolving' = [resolving EXCEPT ![c] = NULL]
    /\ UNCHANGED given

-----------------------------------------------------------------------------
(* The process.                                                            *)

\* _pin_existing_machines_once
MigrationStatements ==
    LET pinned == [Database EXCEPT !.reservations =
             @ \cup {PermanentHold(m, Admin, profile[m]) : m \in Unheld}]
    IN  <<pinned, [pinned EXCEPT !.pinnedFlag = TRUE]>>

\* MachineRegistry.__init__, before any other call can come in.
StartUp ==
    /\ ~up
    /\ up' = TRUE
    /\ Commit(IF pinnedFlag THEN <<Database>> ELSE MigrationStatements)
    /\ UNCHANGED <<clock, resolving, torn, given>>

\* Do two databases differ about machine m?
Differ(d, e, m) ==
    \/ d.profile[m] # e.profile[m] \/ d.wiring[m] # e.wiring[m]
    \/ {r \in d.reservations : r.mac = m} # {r \in e.reservations : r.mac = m}

Die ==
    /\ CanCrash /\ up
    /\ up' = FALSE
    /\ todo' = <<>>
    /\ torn' = torn \cup {m \in Macs : Differ(Database, Settled, m)}
    /\ resolving' = [c \in Calls |-> NULL]
    /\ UNCHANGED <<tables, clock, given>>

Time ==
    /\ Tick
    /\ UNCHANGED <<todo, wiring, rules, resolving, torn, given>>

-----------------------------------------------------------------------------

StatementsInit ==
    /\ Init
    /\ todo = <<>>
    /\ wiring = [m \in Macs |-> NULL]
    /\ rules = [i \in RuleIds |-> NULL]
    /\ resolving = [c \in Calls |-> NULL]
    /\ torn = {}
    /\ given = [m \in Macs |-> NULL]

\* What the dashboard's three forms for rules do.
RuleStatements ==
    \/ \E i \in RuleIds : RemoveRule(i)
    \/ \E i \in RuleIds, r \in Rules : AddRule(i, r) \/ UpdateRule(i, r)

AdminStatements ==
    \/ \E m \in Macs, p \in Profiles : EnrollManually(m, p) \/ SwitchProfile(m, p)
    \/ \E m \in Macs : RemoveMachine(m) \/ OptIn(m)
    \/ \E m \in Macs, p \in Profiles \cup {NULL} : PinMachine(m, p)
    \/ \E m \in Macs, w \in Wirings : Wire(m, w)
    \/ RuleStatements

AgentStatements ==
    \/ \E h \in Holders, p \in Profiles, n \in 1..Cardinality(Macs),
          a \in Architectures \cup {NULL}, ttl \in Ttls :
              ReserveMachines(h, p, n, a, ttl)
    \/ \E m \in Macs, ttl \in Ttls : RenewLease(m, ttl)
    \/ \E S \in SUBSET Macs : ReleaseLeases(S)

Resolution ==
    \E c \in Calls : (\E m \in Macs : LookUp(c, m)) \/ FindRule(c) \/ EnrolByRule(c)

StatementsNext ==
    \/ AdminStatements \/ AgentStatements \/ ReapLeases \/ Resolution
    \/ Execute \/ StartUp \/ Die \/ Time

StatementsSpec == StatementsInit /\ [][StatementsNext]_allVars

-----------------------------------------------------------------------------
(* Properties.                                                             *)

\* An operation counts as done when its first statement is.
R == INSTANCE Reservations WITH
         pinnedFlag <- Settled.pinnedFlag, profile <- Settled.profile,
         reservations <- Settled.reservations, optedIn <- Settled.optedIn

CutShort == todo # <<>> /\ ~up'

\* Operations are atomic to each other, those of /resolve included: whatever
\* is not cut short by a crash is a step of Reservations.
ImplementsReservations ==
    R!Init /\ [][CutShort \/ R!Next]_(R!vars)

\* Wherever a crash cuts an operation short: there is one un-released row per
\* machine and none without a machine, so no later INSERT fails.
HoldsSurviveCrashes == UniqueIndexNeverConflicts /\ NoOrphanHold

\* A machine is permanent until it is opted in, unless an operation on it is
\* under way or was cut short.  A migration that is cut short is made up for.
PinnedUnlessTorn ==
    pinnedFlag /\ todo = <<>> =>
        \A m \in Macs \ torn :
            Registered(m) => (PermanentlyHeld(m) <=> m \notin optedIn)

\* "Power wiring is physical and survives a profile change": no sequence of
\* enrolments, manual and automatic, loses what an admin has set.
WiringSurvives ==
    todo = <<>> => \A m \in Macs \ torn : wiring[m] = given[m]

\* "If the MAC isn't registered, we check the auto-enrol rules": a rule enrols
\* machines that have no row.  What resolve_machine has seen without the lock
\* may no longer be so when enroll gets it.
RulesTakeUnknownMachines ==
    [][\A c \in Calls : EnrolByRule(c) => ~Registered(resolving[c].mac)]_allVars

-----------------------------------------------------------------------------
(* The inductive strengthening: what is true of every database an          *)
(* operation under way passes through, not only of the one it started from *)
(* and the one it will end with.                                           *)

Databases ==
    [pinnedFlag : BOOLEAN, profile : [Macs -> Profiles \cup {NULL}],
     reservations : SUBSET Reservation, optedIn : SUBSET Macs,
     wiring : [Macs -> Wirings \cup {NULL}],
     rules : [RuleIds -> Rules \cup {NULL}]]

\* The values the variables range over.
StatementsTypeOK ==
    /\ up \in BOOLEAN
    /\ clock \in Nat
    /\ Database \in Databases
    /\ todo \in Seq(Databases)
    /\ resolving \in [Calls -> Lookups \cup {NULL}]
    /\ torn \in SUBSET Macs
    /\ given \in [Macs -> Wirings \cup {NULL}]

\* What a crash after any statement leaves: the index and the foreign key
\* hold, and before the migration is done there is nothing but its rows.
Sound(db) ==
    /\ \A r, s \in db.reservations : r.mac = s.mac => r = s
    /\ \A r \in db.reservations : db.profile[r.mac] # NULL
    /\ \A r \in db.reservations : r.kind = "permanent" <=> r.expires = NULL
    /\ ~db.pinnedFlag =>
           db.optedIn = {} /\ \A r \in db.reservations : r.kind = "permanent"

\* An operation never looks undone when it is not: where a machine's row and
\* holds are those of the end, so is its place in the pool.
LeadsTo(db, last) ==
    /\ db.pinnedFlag => last.pinnedFlag
    /\ \A m \in Macs :
           ~Differ(db, last, m) => (m \in db.optedIn <=> m \in last.optedIn)

\* What the end of each operation owes a machine no crash has touched, of
\* which w is the wiring last given.
Intact(db, m, w) ==
    /\ db.pinnedFlag /\ db.profile[m] # NULL =>
           ((\E r \in db.reservations : r.mac = m /\ r.kind = "permanent")
                <=> m \notin db.optedIn)
    /\ db.wiring[m] = w
    /\ db.profile[m] = NULL => w = NULL

StatementsIInv ==
    /\ StatementsTypeOK
    /\ Sound(Database) /\ LeadsTo(Database, Settled)
    /\ \A i \in DOMAIN todo : Sound(todo[i]) /\ LeadsTo(todo[i], Settled)
    /\ \A m \in Macs \ torn : Intact(Settled, m, given[m])
    /\ IF up THEN Settled.pinnedFlag ELSE todo = <<>>

=============================================================================
