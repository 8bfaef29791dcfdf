---------------------- MODULE RegistryStatementsProofs ----------------------
(* Proofs about module RegistryStatements. *)
EXTENDS RegistryStatements, FiniteSetTheorems, TLAPS

USE MacsAssumption, NullAssumption, TtlAssumption

(***************************************************************************)
(* What single statements make of a database.                              *)
(***************************************************************************)

\* A database is the record of its tables.
LEMMA SameTables ==
    ASSUME NEW db \in Databases
    PROVE  db = [pinnedFlag |-> db.pinnedFlag, profile |-> db.profile,
                 reservations |-> db.reservations, optedIn |-> db.optedIn,
                 wiring |-> db.wiring, rules |-> db.rules]
BY DEF Databases

\* INSERT OR REPLACE INTO machines
LEMMA ReplacedTables ==
    ASSUME NEW db \in Databases, NEW m \in Macs, NEW p \in Profiles
    PROVE  /\ Replaced(db, m, p) \in Databases
           /\ Replaced(db, m, p).pinnedFlag = db.pinnedFlag
           /\ Replaced(db, m, p).profile = [db.profile EXCEPT ![m] = p]
           /\ Replaced(db, m, p).reservations = db.reservations
           /\ Replaced(db, m, p).optedIn = db.optedIn
           /\ Replaced(db, m, p).wiring = [db.wiring EXCEPT ![m] = NULL]
           /\ Replaced(db, m, p).rules = db.rules
BY DEF Databases, Replaced

\* UPDATE machines SET profile_name
LEMMA SwitchedTables ==
    ASSUME NEW db \in Databases, NEW m \in Macs, NEW p \in Profiles
    PROVE  /\ Switched(db, m, p) \in Databases
           /\ Switched(db, m, p).pinnedFlag = db.pinnedFlag
           /\ Switched(db, m, p).profile = [db.profile EXCEPT ![m] = p]
           /\ Switched(db, m, p).reservations = db.reservations
           /\ Switched(db, m, p).optedIn = db.optedIn
           /\ Switched(db, m, p).wiring = db.wiring
           /\ Switched(db, m, p).rules = db.rules
BY DEF Databases, Switched

\* UPDATE machines SET the power columns
LEMMA WiredTables ==
    ASSUME NEW db \in Databases, NEW m \in Macs, NEW w \in Wirings \cup {NULL}
    PROVE  /\ Wired(db, m, w) \in Databases
           /\ Wired(db, m, w).pinnedFlag = db.pinnedFlag
           /\ Wired(db, m, w).profile = db.profile
           /\ Wired(db, m, w).reservations = db.reservations
           /\ Wired(db, m, w).optedIn = db.optedIn
           /\ Wired(db, m, w).wiring = [db.wiring EXCEPT ![m] = w]
           /\ Wired(db, m, w).rules = db.rules
BY DEF Databases, Wired

\* The power columns have nothing to do with the holds.
LEMMA WiredKeepsHolds ==
    ASSUME NEW db \in Databases, NEW m \in Macs, NEW w \in Wirings \cup {NULL}
    PROVE  /\ Wired(db, m, w) \in Databases
           /\ Wired(db, m, w).pinnedFlag = db.pinnedFlag
           /\ Wired(db, m, w).profile = db.profile
           /\ Wired(db, m, w).reservations = db.reservations
           /\ Wired(db, m, w).optedIn = db.optedIn
BY WiredTables

\* The permanent hold of enroll, pin and the migration.
LEMMA HoldRow ==
    ASSUME NEW m \in Macs, NEW p \in Profiles \cup {NULL}
    PROVE  /\ PermanentHold(m, Admin, p) \in Reservation
           /\ PermanentHold(m, Admin, p).mac = m
           /\ PermanentHold(m, Admin, p).kind = "permanent"
           /\ PermanentHold(m, Admin, p).expires = NULL
BY DEF PermanentHold, Reservation, Kinds

\* INSERT INTO reservations, of a permanent hold
LEMMA InsertedTables ==
    ASSUME NEW db \in Databases, NEW r \in Reservation, r.kind = "permanent"
    PROVE  /\ Inserted(db, r) \in Databases
           /\ Inserted(db, r).pinnedFlag = db.pinnedFlag
           /\ Inserted(db, r).profile = db.profile
           /\ Inserted(db, r).reservations = db.reservations \cup {r}
           /\ Inserted(db, r).optedIn = db.optedIn \ {r.mac}
           /\ Inserted(db, r).wiring = db.wiring
           /\ Inserted(db, r).rules = db.rules
<1> DEFINE new == [db EXCEPT !.reservations = @ \cup {r},
                             !.optedIn = @ \ {r.mac}]
<1>1. Inserted(db, r) = new
  BY DEF Inserted
<1>2. /\ new \in Databases
      /\ new.pinnedFlag = db.pinnedFlag /\ new.profile = db.profile
      /\ new.reservations = db.reservations \cup {r}
      /\ new.optedIn = db.optedIn \ {r.mac}
      /\ new.wiring = db.wiring /\ new.rules = db.rules
  BY DEF Databases
<1> HIDE DEF new
<1>3. QED
  BY <1>1, <1>2

\* UPDATE reservations SET released_at
LEMMA FreedTables ==
    ASSUME NEW db \in Databases, NEW rows
    PROVE  /\ Freed(db, rows) \in Databases
           /\ Freed(db, rows).pinnedFlag = db.pinnedFlag
           /\ Freed(db, rows).profile = db.profile
           /\ Freed(db, rows).reservations = db.reservations \ rows
           /\ Freed(db, rows).optedIn = db.optedIn
           /\ Freed(db, rows).wiring = db.wiring
           /\ Freed(db, rows).rules = db.rules
BY DEF Databases, Freed

\* DELETE FROM machines
LEMMA DroppedTables ==
    ASSUME NEW db \in Databases, NEW m \in Macs
    PROVE  /\ Dropped(db, m) \in Databases
           /\ Dropped(db, m).pinnedFlag = db.pinnedFlag
           /\ Dropped(db, m).profile = [db.profile EXCEPT ![m] = NULL]
           /\ Dropped(db, m).reservations = db.reservations
           /\ Dropped(db, m).optedIn = db.optedIn \ {m}
           /\ Dropped(db, m).wiring = [db.wiring EXCEPT ![m] = NULL]
           /\ Dropped(db, m).rules = db.rules
BY DEF Databases, Dropped

(***************************************************************************)
(* The step every operation shares: its first statement commits.           *)
(***************************************************************************)

\* After a commit the rest of the statements is still to be executed, and
\* where the operation leads is where its last statement leads.
LEMMA CommitSettles ==
    ASSUME NEW dbs \in Seq(Databases), dbs # <<>>, Commit(dbs)
    PROVE  /\ Database' = dbs[1]
           /\ Settled' = dbs[Len(dbs)]
           /\ todo' \in Seq(Databases)
           /\ \A i \in DOMAIN todo' : i + 1 \in DOMAIN dbs /\ todo'[i] = dbs[i + 1]
<1>1. /\ Len(dbs) \in Nat \ {0} /\ dbs[1] \in Databases
      /\ Head(dbs) = dbs[1]
  OBVIOUS
<1>2. Database' = dbs[1]
  BY <1>1, SameTables DEF Commit, Database
<1>3. /\ todo' = Tail(dbs) /\ todo' \in Seq(Databases)
      /\ Len(todo') = Len(dbs) - 1
      /\ \A i \in 1..Len(todo') : i + 1 \in DOMAIN dbs /\ todo'[i] = dbs[i + 1]
  BY <1>1 DEF Commit
<1>4. Settled' = dbs[Len(dbs)]
  <2>1. CASE Len(dbs) = 1
    BY <2>1, <1>1, <1>2, <1>3 DEF Settled
  <2>2. CASE Len(dbs) # 1
    <3>1. Len(todo') \in 1..Len(todo') /\ Len(todo') + 1 = Len(dbs)
      BY <2>2, <1>1, <1>3
    <3>2. todo'[Len(todo')] = dbs[Len(todo') + 1]
      BY <3>1, <1>3
    <3>3. todo' # <<>>
      BY <3>1
    <3>4. QED
      BY <3>1, <3>2, <3>3 DEF Settled
  <2>3. QED
    BY <2>1, <2>2
<1>5. QED
  BY <1>2, <1>3, <1>4

\* An operation every statement of which is sound and leads to the last
\* keeps the invariant, if the last leaves the machines intact.
LEMMA CommitKeepsIInv ==
    ASSUME StatementsIInv, up', clock' = clock, torn' = torn, up' \in BOOLEAN,
           resolving' \in [Calls -> Lookups \cup {NULL}],
           given' \in [Macs -> Wirings \cup {NULL}],
           NEW dbs \in Seq(Databases), dbs # <<>>, Commit(dbs),
           \A i \in DOMAIN dbs : Sound(dbs[i]) /\ LeadsTo(dbs[i], dbs[Len(dbs)]),
           dbs[Len(dbs)].pinnedFlag,
           \A m \in Macs \ torn : Intact(dbs[Len(dbs)], m, given'[m])
    PROVE  StatementsIInv'
<1>1. /\ Database' = dbs[1] /\ Settled' = dbs[Len(dbs)]
      /\ todo' \in Seq(Databases)
      /\ \A i \in DOMAIN todo' : i + 1 \in DOMAIN dbs /\ todo'[i] = dbs[i + 1]
  BY CommitSettles
<1>2. 1 \in DOMAIN dbs /\ dbs[1] \in Databases
  OBVIOUS
<1>3. StatementsTypeOK'
  BY <1>1, <1>2 DEF StatementsIInv, StatementsTypeOK
<1>4. Sound(Database') /\ LeadsTo(Database', Settled')
  BY <1>1, <1>2
<1>5. \A i \in DOMAIN todo' : Sound(todo'[i]) /\ LeadsTo(todo'[i], Settled')
  BY <1>1
<1>6. \A m \in Macs \ torn' : Intact(Settled', m, given'[m])
  BY <1>1
<1>7. Settled'.pinnedFlag
  BY <1>1
<1>8. QED
  BY <1>3, <1>4, <1>5, <1>6, <1>7
     DEF StatementsIInv, Sound, LeadsTo, Differ, Intact

\* Where no operation is under way, the database is where the last one led.
LEMMA AtRest ==
    ASSUME StatementsIInv, up, todo = <<>>
    PROVE  /\ Database \in Databases
           /\ Database.pinnedFlag = pinnedFlag /\ Database.profile = profile
           /\ Database.reservations = reservations
           /\ Database.optedIn = optedIn /\ Database.wiring = wiring
           /\ Database.rules = rules
           /\ Settled = Database
           /\ pinnedFlag = TRUE
           /\ Sound(Database)
           /\ \A m \in Macs \ torn : Intact(Database, m, given[m])
<1>1. /\ Database \in Databases /\ Settled = Database /\ Sound(Database)
      /\ \A m \in Macs \ torn : Intact(Settled, m, given[m])
  BY DEF StatementsIInv, StatementsTypeOK, Settled
<1>2. /\ Database.pinnedFlag = pinnedFlag /\ Database.profile = profile
      /\ Database.reservations = reservations
      /\ Database.optedIn = optedIn /\ Database.wiring = wiring
      /\ Database.rules = rules
  BY DEF Database
<1>3. pinnedFlag \in BOOLEAN
  BY <1>1, <1>2 DEF Databases
<1>4. Settled.pinnedFlag
  BY DEF StatementsIInv
<1>5. QED
  BY <1>1, <1>2, <1>3, <1>4

\* A database leads to itself.
LEMMA LeadsToItself == ASSUME NEW db PROVE LeadsTo(db, db)
BY DEF LeadsTo, Differ

\* Operations of one statement, of two and of three.
LEMMA RunOne ==
    ASSUME StatementsIInv, NEW db \in Databases, Run(<<db>>),
           resolving' \in [Calls -> Lookups \cup {NULL}],
           given' \in [Macs -> Wirings \cup {NULL}],
           Sound(db), db.pinnedFlag,
           \A m \in Macs \ torn : Intact(db, m, given'[m])
    PROVE  StatementsIInv'
<1> DEFINE dbs == <<db>>
<1>1. /\ dbs \in Seq(Databases) /\ dbs # <<>> /\ DOMAIN dbs = {1}
      /\ Len(dbs) = 1 /\ dbs[1] = db
  OBVIOUS
<1>2. up' /\ up' \in BOOLEAN /\ clock' = clock /\ torn' = torn /\ Commit(dbs)
  BY DEF Run, StatementsIInv, StatementsTypeOK
<1> HIDE DEF dbs
<1>3. QED
  BY <1>1, <1>2, LeadsToItself, CommitKeepsIInv

LEMMA RunTwo ==
    ASSUME StatementsIInv, NEW db \in Databases, NEW last \in Databases,
           Run(<<db, last>>),
           resolving' \in [Calls -> Lookups \cup {NULL}],
           given' \in [Macs -> Wirings \cup {NULL}],
           Sound(db), Sound(last), LeadsTo(db, last), last.pinnedFlag,
           \A m \in Macs \ torn : Intact(last, m, given'[m])
    PROVE  StatementsIInv'
<1> DEFINE dbs == <<db, last>>
<1>1. /\ dbs \in Seq(Databases) /\ dbs # <<>> /\ DOMAIN dbs = {1, 2}
      /\ Len(dbs) = 2 /\ dbs[1] = db /\ dbs[2] = last
  OBVIOUS
<1>2. up' /\ up' \in BOOLEAN /\ clock' = clock /\ torn' = torn /\ Commit(dbs)
  BY DEF Run, StatementsIInv, StatementsTypeOK
<1> HIDE DEF dbs
<1>3. QED
  BY <1>1, <1>2, LeadsToItself, CommitKeepsIInv

LEMMA RunThree ==
    ASSUME StatementsIInv, NEW db \in Databases, NEW next \in Databases,
           NEW last \in Databases, Run(<<db, next, last>>),
           resolving' \in [Calls -> Lookups \cup {NULL}],
           given' \in [Macs -> Wirings \cup {NULL}],
           Sound(db), Sound(next), Sound(last),
           LeadsTo(db, last), LeadsTo(next, last), last.pinnedFlag,
           \A m \in Macs \ torn : Intact(last, m, given'[m])
    PROVE  StatementsIInv'
<1> DEFINE dbs == <<db, next, last>>
<1>1. /\ dbs \in Seq(Databases) /\ dbs # <<>> /\ DOMAIN dbs = {1, 2, 3}
      /\ Len(dbs) = 3 /\ dbs[1] = db /\ dbs[2] = next /\ dbs[3] = last
  OBVIOUS
<1>2. up' /\ up' \in BOOLEAN /\ clock' = clock /\ torn' = torn /\ Commit(dbs)
  BY DEF Run, StatementsIInv, StatementsTypeOK
<1> HIDE DEF dbs
<1>3. QED
  BY <1>1, <1>2, LeadsToItself, CommitKeepsIInv

(***************************************************************************)
(* The operations an admin calls.                                          *)
(***************************************************************************)

\* enroll, by an admin or by a rule
LEMMA EnrollKeepsIInv ==
    ASSUME StatementsIInv, NEW m \in Macs, NEW p \in Profiles,
           Run(EnrollStatements(m, p)), given' = given,
           resolving' \in [Calls -> Lookups \cup {NULL}]
    PROVE  StatementsIInv'
<1> DEFINE new == Replaced(Database, m, p)
<1>1. up /\ todo = <<>>
  BY DEF Run
<1>2. /\ Database \in Databases
      /\ Database.pinnedFlag = TRUE /\ Database.profile = profile
      /\ Database.reservations = reservations
      /\ Database.optedIn = optedIn /\ Database.wiring = wiring
      /\ Sound(Database)
      /\ \A k \in Macs \ torn : Intact(Database, k, given[k])
  BY <1>1, AtRest
<1>3. /\ profile \in [Macs -> Profiles \cup {NULL}]
      /\ wiring \in [Macs -> Wirings \cup {NULL}]
      /\ reservations \in SUBSET Reservation /\ optedIn \in SUBSET Macs
      /\ given' \in [Macs -> Wirings \cup {NULL}]
  BY <1>2 DEF Databases, StatementsIInv, StatementsTypeOK
<1>4. /\ new \in Databases /\ new.pinnedFlag = TRUE
      /\ new.profile = [profile EXCEPT ![m] = p]
      /\ new.reservations = reservations /\ new.optedIn = optedIn
      /\ new.wiring = [wiring EXCEPT ![m] = NULL]
  BY <1>2, ReplacedTables
<1>5. Sound(new)
  BY <1>2, <1>3, <1>4 DEF Sound, Reservation
<1> HIDE DEF new
<1>6. CASE Registered(m)
  <2> DEFINE wired == Wired(new, m, wiring[m])
  <2>1. /\ wired \in Databases /\ wired.pinnedFlag = TRUE
        /\ wired.profile = new.profile /\ wired.reservations = reservations
        /\ wired.optedIn = optedIn
        /\ wired.wiring = [new.wiring EXCEPT ![m] = wiring[m]]
    <3>1. wiring[m] \in Wirings \cup {NULL} /\ new \in Databases
      BY <1>3, <1>4
    <3>2. /\ wired \in Databases /\ wired.pinnedFlag = new.pinnedFlag
          /\ wired.profile = new.profile
          /\ wired.reservations = new.reservations
          /\ wired.optedIn = new.optedIn
          /\ wired.wiring = [new.wiring EXCEPT ![m] = wiring[m]]
      BY <3>1, WiredTables
    <3>3. QED
      BY <1>4, <3>2
  <2>2. wired.wiring = wiring
    BY <1>3, <1>4, <2>1
  <2> HIDE DEF wired
  <2>3. Sound(wired)
    BY <1>4, <1>5, <2>1 DEF Sound
  <2>4. LeadsTo(new, wired)
    BY <1>4, <2>1 DEF LeadsTo
  <2>5. ASSUME NEW k \in Macs \ torn PROVE Intact(wired, k, given'[k])
    <3>1. Intact(Database, k, given[k]) /\ given'[k] = given[k]
      BY <1>2
    <3>2. profile \in [Macs -> Profiles \cup {NULL}] /\ profile[m] # NULL
      BY <1>3, <1>6 DEF Registered
    <3>3. wired.profile[k] # NULL <=> profile[k] # NULL
      BY <1>4, <2>1, <3>2
    <3>4. /\ wired.reservations = Database.reservations
          /\ wired.optedIn = Database.optedIn
          /\ wired.wiring = Database.wiring
          /\ wired.profile[k] # NULL <=> Database.profile[k] # NULL
          /\ wired.pinnedFlag = TRUE /\ Database.pinnedFlag = TRUE
      BY <1>2, <2>1, <2>2, <3>3
    <3>5. wired.wiring[k] = given'[k]
      BY <3>1, <3>4 DEF Intact
    <3>6. wired.profile[k] = NULL => given'[k] = NULL
      BY <3>1, <3>4 DEF Intact
    <3>7. wired.profile[k] # NULL =>
              ((\E r \in wired.reservations : r.mac = k /\ r.kind = "permanent")
                   <=> k \notin wired.optedIn)
      BY <3>1, <3>4 DEF Intact
    <3> HIDE DEF new
    <3>8. QED
      BY <3>5, <3>6, <3>7 DEF Intact
  <2>6. EnrollStatements(m, p) = <<new, wired>>
    BY <1>6 DEF EnrollStatements, new, wired
  <2>7. Run(<<new, wired>>)
    BY <2>6
  <2>8. QED
    BY <1>3, <1>4, <1>5, <2>1, <2>3, <2>4, <2>5, <2>7, RunTwo
<1>7. CASE ~Registered(m)
  <2> DEFINE hold == PermanentHold(m, Admin, p)
             held == Inserted(new, hold)
  <2>1. hold \in Reservation /\ hold.mac = m /\ hold.kind = "permanent" /\ hold.expires = NULL
    BY HoldRow
  <2>2. /\ held \in Databases /\ held.pinnedFlag = TRUE
        /\ held.profile = new.profile
        /\ held.reservations = reservations \cup {hold}
        /\ held.optedIn = optedIn \ {m} /\ held.wiring = new.wiring
    BY <1>4, <2>1, InsertedTables
  <2> HIDE DEF hold, held
  <2>3. \A r \in reservations : r.mac # m
    BY <1>2, <1>7 DEF Sound, Registered
  <2>4. Sound(held)
    BY <1>3, <1>4, <1>5, <2>1, <2>2, <2>3 DEF Sound
  <2>5. Differ(new, held, m)
    BY <1>4, <2>1, <2>2, <2>3 DEF Differ
  <2>6. LeadsTo(new, held)
    BY <1>4, <2>2, <2>5 DEF LeadsTo
  <2>7. \A k \in Macs \ torn : Intact(held, k, given'[k])
    BY <1>2, <1>3, <1>4, <1>7, <2>1, <2>2 DEF Intact, Registered
  <2>8. EnrollStatements(m, p) = <<new, held>>
    BY <1>7 DEF EnrollStatements, new, held, hold
  <2>9. Run(<<new, held>>)
    BY <2>8
  <2>10. QED
    BY <1>3, <1>4, <1>5, <2>2, <2>4, <2>6, <2>7, <2>9, RunTwo
<1>8. QED
  BY <1>6, <1>7

\* An operation of an admin or an agent leaves the calls of /resolve alone.
LEMMA CallsUnchanged ==
    ASSUME StatementsIInv, resolving' = resolving
    PROVE  resolving' \in [Calls -> Lookups \cup {NULL}]
BY DEF StatementsIInv, StatementsTypeOK

\* enroll, called by an admin
LEMMA EnrollManuallyKeepsIInv ==
    ASSUME StatementsIInv, NEW m \in Macs, NEW p \in Profiles,
           EnrollManually(m, p)
    PROVE  StatementsIInv'
BY CallsUnchanged, EnrollKeepsIInv DEF EnrollManually

\* enroll, with what a rule said
LEMMA EnrolByRuleKeepsIInv ==
    ASSUME StatementsIInv, NEW c \in Calls, EnrolByRule(c)
    PROVE  StatementsIInv'
<1> DEFINE r == resolving[c].rule
           m == resolving[c].mac
<1>1. /\ resolving[c] # NULL /\ r # NULL
      /\ Run(EnrollStatements(m, r.profile)) /\ given' = given
      /\ resolving' = [resolving EXCEPT ![c] = NULL]
  BY DEF EnrolByRule
<1>2. resolving \in [Calls -> Lookups \cup {NULL}]
  BY DEF StatementsIInv, StatementsTypeOK
<1>3. m \in Macs /\ r \in Rules
  BY <1>1, <1>2 DEF Lookups
<1>4. r.profile \in Profiles
  BY <1>3, RuleAssumption
<1> HIDE DEF m, r
<1>5. resolving' \in [Calls -> Lookups \cup {NULL}]
  BY <1>1, <1>2
<1>6. QED
  BY <1>1, <1>3, <1>4, <1>5, EnrollKeepsIInv

\* remove
LEMMA RemoveMachineKeepsIInv ==
    ASSUME StatementsIInv, NEW m \in Macs, RemoveMachine(m)
    PROVE  StatementsIInv'
<1> DEFINE free == Freed(Database, RowsOn(m))
           gone == Dropped(free, m)
<1>1. /\ up /\ todo = <<>> /\ Registered(m) /\ Run(<<free, gone>>)
      /\ given' = [given EXCEPT ![m] = NULL] /\ resolving' = resolving
  BY DEF RemoveMachine, RemoveStatements, Run
<1>2. /\ Database \in Databases
      /\ Database.pinnedFlag = TRUE /\ Database.profile = profile
      /\ Database.reservations = reservations
      /\ Database.optedIn = optedIn /\ Database.wiring = wiring
      /\ Sound(Database)
      /\ \A k \in Macs \ torn : Intact(Database, k, given[k])
  BY <1>1, AtRest
<1>3. /\ profile \in [Macs -> Profiles \cup {NULL}]
      /\ wiring \in [Macs -> Wirings \cup {NULL}]
      /\ reservations \in SUBSET Reservation /\ optedIn \in SUBSET Macs
      /\ given \in [Macs -> Wirings \cup {NULL}]
      /\ given' \in [Macs -> Wirings \cup {NULL}]
  BY <1>1, <1>2 DEF Databases, StatementsIInv, StatementsTypeOK
<1>4. /\ free \in Databases /\ free.pinnedFlag = TRUE
      /\ free.profile = profile /\ free.optedIn = optedIn
      /\ free.reservations = reservations \ RowsOn(m)
      /\ free.wiring = wiring
  BY <1>2, FreedTables
<1>5. /\ gone \in Databases /\ gone.pinnedFlag = TRUE
      /\ gone.profile = [profile EXCEPT ![m] = NULL]
      /\ gone.optedIn = optedIn \ {m}
      /\ gone.reservations = reservations \ RowsOn(m)
      /\ gone.wiring = [wiring EXCEPT ![m] = NULL]
  BY <1>4, DroppedTables
<1> HIDE DEF free, gone
<1>6. Sound(free) /\ Sound(gone)
  BY <1>2, <1>3, <1>4, <1>5 DEF Sound, RowsOn
<1>7. Differ(free, gone, m)
  BY <1>1, <1>3, <1>4, <1>5 DEF Differ, Registered
<1>8. LeadsTo(free, gone)
  BY <1>3, <1>4, <1>5, <1>7 DEF LeadsTo
<1>9. \A k \in Macs \ torn : Intact(gone, k, given'[k])
  BY <1>1, <1>2, <1>3, <1>5 DEF Intact, RowsOn
<1>10. resolving' \in [Calls -> Lookups \cup {NULL}]
  BY <1>1, CallsUnchanged
<1>11. QED
  BY <1>1, <1>3, <1>4, <1>5, <1>6, <1>8, <1>9, <1>10, RunTwo

\* set_profile
LEMMA SwitchProfileKeepsIInv ==
    ASSUME StatementsIInv, NEW m \in Macs, NEW p \in Profiles,
           SwitchProfile(m, p)
    PROVE  StatementsIInv'
<1> DEFINE db == Switched(Database, m, p)
<1>1. /\ up /\ todo = <<>> /\ Registered(m) /\ Run(<<db>>)
      /\ given' = given /\ resolving' = resolving
  BY DEF SwitchProfile, Run
<1>2. /\ Database \in Databases
      /\ Database.pinnedFlag = TRUE /\ Database.profile = profile
      /\ Database.reservations = reservations
      /\ Database.optedIn = optedIn /\ Database.wiring = wiring
      /\ Sound(Database)
      /\ \A k \in Macs \ torn : Intact(Database, k, given[k])
  BY <1>1, AtRest
<1>3. /\ profile \in [Macs -> Profiles \cup {NULL}]
      /\ reservations \in SUBSET Reservation
      /\ given' \in [Macs -> Wirings \cup {NULL}]
  BY <1>1, <1>2 DEF Databases, StatementsIInv, StatementsTypeOK
<1>4. /\ db \in Databases /\ db.pinnedFlag = TRUE
      /\ db.profile = [profile EXCEPT ![m] = p] /\ db.optedIn = optedIn
      /\ db.reservations = reservations /\ db.wiring = wiring
  BY <1>2, SwitchedTables
<1> HIDE DEF db
<1>5. Sound(db)
  BY <1>2, <1>3, <1>4 DEF Sound, Reservation
<1>6. \A k \in Macs \ torn : Intact(db, k, given'[k])
  <2> SUFFICES ASSUME NEW k \in Macs \ torn PROVE Intact(db, k, given'[k])
    OBVIOUS
  <2>1. db.profile[k] = NULL <=> profile[k] = NULL
    BY <1>1, <1>3, <1>4 DEF Registered
  <2>2. Intact(Database, k, given[k]) /\ given'[k] = given[k]
    BY <1>1, <1>2
  <2>3. QED
    BY <1>2, <1>4, <2>1, <2>2 DEF Intact
<1>7. resolving' \in [Calls -> Lookups \cup {NULL}]
  BY <1>1, CallsUnchanged
<1>8. QED
  BY <1>1, <1>3, <1>4, <1>5, <1>6, <1>7, RunOne

\* set_power_command, set_pdu_alias
LEMMA WireKeepsIInv ==
    ASSUME StatementsIInv, NEW m \in Macs, NEW w \in Wirings, Wire(m, w)
    PROVE  StatementsIInv'
<1> DEFINE db == Wired(Database, m, w)
<1>1. /\ up /\ todo = <<>> /\ Registered(m) /\ Run(<<db>>)
      /\ given' = [given EXCEPT ![m] = w] /\ resolving' = resolving
  BY DEF Wire, Run
<1>2. /\ Database \in Databases
      /\ Database.pinnedFlag = TRUE /\ Database.profile = profile
      /\ Database.reservations = reservations
      /\ Database.optedIn = optedIn /\ Database.wiring = wiring
      /\ Sound(Database)
      /\ \A k \in Macs \ torn : Intact(Database, k, given[k])
  BY <1>1, AtRest
<1>3. /\ wiring \in [Macs -> Wirings \cup {NULL}]
      /\ given \in [Macs -> Wirings \cup {NULL}]
      /\ given' \in [Macs -> Wirings \cup {NULL}]
  BY <1>1, <1>2 DEF Databases, StatementsIInv, StatementsTypeOK
<1>4. /\ db \in Databases /\ db.pinnedFlag = TRUE
      /\ db.profile = profile /\ db.optedIn = optedIn
      /\ db.reservations = reservations
      /\ db.wiring = [wiring EXCEPT ![m] = w]
  BY <1>2, WiredTables
<1> HIDE DEF db
<1>5. Sound(db)
  BY <1>2, <1>4 DEF Sound
<1>6. \A k \in Macs \ torn : Intact(db, k, given'[k])
  BY <1>1, <1>2, <1>3, <1>4 DEF Intact, Registered
<1>7. resolving' \in [Calls -> Lookups \cup {NULL}]
  BY <1>1, CallsUnchanged
<1>8. QED
  BY <1>1, <1>3, <1>4, <1>5, <1>6, <1>7, RunOne

\* pin
LEMMA PinMachineKeepsIInv ==
    ASSUME StatementsIInv, NEW m \in Macs, NEW p \in Profiles \cup {NULL},
           PinMachine(m, p)
    PROVE  StatementsIInv'
<1> DEFINE free == Freed(Database, RowsOn(m))
           hold == PermanentHold(m, Admin, p)
           held == Inserted(free, hold)
           last == Switched(held, m, p)
<1>1. /\ up /\ todo = <<>> /\ Registered(m)
      /\ Run(IF p = NULL THEN <<free, held>> ELSE <<free, held, last>>)
      /\ given' = given /\ resolving' = resolving
  BY DEF PinMachine, PinStatements, Run
<1>2. /\ Database \in Databases
      /\ Database.pinnedFlag = TRUE /\ Database.profile = profile
      /\ Database.reservations = reservations
      /\ Database.optedIn = optedIn /\ Database.wiring = wiring
      /\ Sound(Database)
      /\ \A k \in Macs \ torn : Intact(Database, k, given[k])
  BY <1>1, AtRest
<1>3. /\ profile \in [Macs -> Profiles \cup {NULL}]
      /\ reservations \in SUBSET Reservation /\ optedIn \in SUBSET Macs
      /\ given' \in [Macs -> Wirings \cup {NULL}]
  BY <1>1, <1>2 DEF Databases, StatementsIInv, StatementsTypeOK
<1>4. /\ free \in Databases /\ free.pinnedFlag = TRUE
      /\ free.profile = profile /\ free.optedIn = optedIn
      /\ free.reservations = reservations \ RowsOn(m)
      /\ free.wiring = wiring
  BY <1>2, FreedTables
<1>5. /\ hold \in Reservation /\ hold.mac = m
      /\ hold.kind = "permanent" /\ hold.expires = NULL
  BY HoldRow
<1> HIDE DEF free, hold
<1>6. /\ held \in Databases /\ held.pinnedFlag = TRUE
      /\ held.profile = profile /\ held.optedIn = optedIn \ {m}
      /\ held.reservations = (reservations \ RowsOn(m)) \cup {hold}
      /\ held.wiring = wiring
  BY <1>4, <1>5, InsertedTables
<1> HIDE DEF held
<1>7. Sound(free) /\ Sound(held)
  BY <1>1, <1>2, <1>3, <1>4, <1>5, <1>6 DEF Sound, RowsOn, Registered
<1>8. \A db : db.reservations = held.reservations => Differ(free, db, m)
  BY <1>4, <1>5, <1>6 DEF Differ, RowsOn
<1>9. \A k \in Macs \ torn : Intact(held, k, given'[k])
  BY <1>1, <1>2, <1>3, <1>5, <1>6 DEF Intact, RowsOn
<1>10. CASE p = NULL
  <2>1. Run(<<free, held>>)
    BY <1>1, <1>10
  <2>2. LeadsTo(free, held)
    BY <1>4, <1>6, <1>8 DEF LeadsTo
  <2>3. resolving' \in [Calls -> Lookups \cup {NULL}]
    BY <1>1, CallsUnchanged
  <2>4. QED
    BY <1>3, <1>4, <1>6, <1>7, <1>9, <2>1, <2>2, <2>3, RunTwo
<1>11. CASE p # NULL
  <2>1. Run(<<free, held, last>>) /\ p \in Profiles
    BY <1>1, <1>11
  <2>2. /\ last \in Databases /\ last.pinnedFlag = TRUE
        /\ last.profile = [profile EXCEPT ![m] = p]
        /\ last.optedIn = held.optedIn
        /\ last.reservations = held.reservations /\ last.wiring = wiring
    <3>1. held \in Databases /\ p \in Profiles
      BY <1>6, <2>1
    <3>2. /\ last \in Databases /\ last.pinnedFlag = held.pinnedFlag
          /\ last.profile = [held.profile EXCEPT ![m] = p]
          /\ last.optedIn = held.optedIn
          /\ last.reservations = held.reservations
          /\ last.wiring = held.wiring
      BY <3>1, SwitchedTables
    <3>3. QED
      BY <1>6, <3>2
  <2> HIDE DEF last
  <2>3. Sound(last)
    BY <1>1, <1>3, <1>6, <1>7, <2>1, <2>2 DEF Sound, Reservation
  <2>4. \A k \in Macs : last.profile[k] # NULL <=> profile[k] # NULL
    BY <1>1, <1>3, <2>1, <2>2 DEF Registered
  <2>5. LeadsTo(free, last) /\ LeadsTo(held, last)
    BY <1>4, <1>6, <1>8, <2>2, <2>4 DEF LeadsTo
  <2>6. \A k \in Macs \ torn : Intact(last, k, given'[k])
    BY <1>6, <1>9, <2>2, <2>4 DEF Intact
  <2>7. resolving' \in [Calls -> Lookups \cup {NULL}]
    BY <1>1, CallsUnchanged
  <2>8. QED
    BY <1>3, <1>4, <1>6, <1>7, <2>1, <2>2, <2>3, <2>5, <2>6, <2>7, RunThree
<1>12. QED
  BY <1>10, <1>11

\* release_to_pool
LEMMA OptInKeepsIInv ==
    ASSUME StatementsIInv, NEW m \in Macs, OptIn(m)
    PROVE  StatementsIInv'
<1> DEFINE rows == {r \in RowsOn(m) : r.kind = "permanent"}
           free == Freed(Database, rows)
           db == [free EXCEPT !.optedIn = @ \cup {m}]
<1>1. /\ up /\ todo = <<>> /\ Registered(m) /\ Run(<<db>>)
      /\ given' = given /\ resolving' = resolving
  BY DEF OptIn, Run
<1>2. /\ Database \in Databases
      /\ Database.pinnedFlag = TRUE /\ Database.profile = profile
      /\ Database.reservations = reservations
      /\ Database.optedIn = optedIn /\ Database.wiring = wiring
      /\ Sound(Database)
      /\ \A k \in Macs \ torn : Intact(Database, k, given[k])
  BY <1>1, AtRest
<1>3. /\ reservations \in SUBSET Reservation /\ optedIn \in SUBSET Macs
      /\ given' \in [Macs -> Wirings \cup {NULL}]
  BY <1>1, <1>2 DEF Databases, StatementsIInv, StatementsTypeOK
<1>4. /\ free \in Databases /\ free.pinnedFlag = TRUE
      /\ free.profile = profile /\ free.optedIn = optedIn
      /\ free.reservations = reservations \ rows
      /\ free.wiring = wiring
  BY <1>2, FreedTables
<1> HIDE DEF free, rows
<1>5. /\ db \in Databases /\ db.pinnedFlag = TRUE
      /\ db.profile = profile /\ db.optedIn = optedIn \cup {m}
      /\ db.reservations = reservations \ rows
      /\ db.wiring = wiring
  BY <1>4 DEF Databases
<1> HIDE DEF db
<1>6. Sound(db)
  BY <1>2, <1>3, <1>5 DEF Sound
<1>7. \A k \in Macs \ torn : Intact(db, k, given'[k])
  BY <1>1, <1>2, <1>3, <1>5 DEF Intact, RowsOn, rows
<1>8. resolving' \in [Calls -> Lookups \cup {NULL}]
  BY <1>1, CallsUnchanged
<1>9. QED
  BY <1>1, <1>3, <1>5, <1>6, <1>7, <1>8, RunOne

\* The rules table has nothing to do with the machines.
LEMMA RulesKeepIInv ==
    ASSUME StatementsIInv, NEW table \in [RuleIds -> Rules \cup {NULL}],
           Run(<<[Database EXCEPT !.rules = table]>>),
           UNCHANGED <<resolving, given>>
    PROVE  StatementsIInv'
<1> DEFINE db == [Database EXCEPT !.rules = table]
<1>1. up /\ todo = <<>>
  BY DEF Run
<1>2. /\ Database \in Databases
      /\ Database.pinnedFlag = TRUE /\ Database.profile = profile
      /\ Sound(Database)
      /\ \A k \in Macs \ torn : Intact(Database, k, given[k])
  BY <1>1, AtRest
<1>3. given' \in [Macs -> Wirings \cup {NULL}]
  BY DEF StatementsIInv, StatementsTypeOK
<1>4. /\ db \in Databases /\ db.pinnedFlag = TRUE
      /\ db.profile = profile /\ db.optedIn = Database.optedIn
      /\ db.reservations = Database.reservations
      /\ db.wiring = Database.wiring
  BY <1>2 DEF Databases
<1>5. Run(<<db>>)
  OBVIOUS
<1> HIDE DEF db
<1>6. Sound(db)
  BY <1>2, <1>4 DEF Sound
<1>7. \A k \in Macs \ torn : Intact(db, k, given'[k])
  BY <1>2, <1>4 DEF Intact
<1>8. resolving' \in [Calls -> Lookups \cup {NULL}]
  BY <1>1, CallsUnchanged
<1>9. QED
  BY <1>3, <1>4, <1>5, <1>6, <1>7, <1>8, RunOne

\* add_auto_enrol_rule, update_auto_enrol_rule, remove_auto_enrol_rule
LEMMA ChangeRulesKeepsIInv ==
    ASSUME StatementsIInv, NEW i \in RuleIds,
           \/ \E r \in Rules : AddRule(i, r) \/ UpdateRule(i, r)
           \/ RemoveRule(i)
    PROVE  StatementsIInv'
<1>1. PICK v \in Rules \cup {NULL} : /\ Run(<<[Database EXCEPT !.rules[i] = v]>>)
                                     /\ UNCHANGED <<resolving, given>>
  BY DEF AddRule, UpdateRule, RemoveRule
<1>2. up /\ todo = <<>>
  BY <1>1 DEF Run
<1>3. Database \in Databases
  BY <1>2, AtRest
<1> DEFINE table == [Database.rules EXCEPT ![i] = v]
<1>4. /\ table \in [RuleIds -> Rules \cup {NULL}]
      /\ [Database EXCEPT !.rules[i] = v] = [Database EXCEPT !.rules = table]
  BY <1>3 DEF Databases
<1>5. QED
  BY <1>1, <1>4, RulesKeepIInv

(***************************************************************************)
(* The operations on leases.                                               *)
(***************************************************************************)

\* renew changes nothing of a row but the expiry.
LEMMA RenewedRow ==
    ASSUME NEW r \in Reservation, NEW t \in Nat
    PROVE  /\ [r EXCEPT !.expires = t] \in Reservation
           /\ [r EXCEPT !.expires = t].mac = r.mac
           /\ [r EXCEPT !.expires = t].kind = r.kind
           /\ [r EXCEPT !.expires = t].expires = t
BY DEF Reservation

\* renew
LEMMA RenewLeaseKeepsIInv ==
    ASSUME StatementsIInv, NEW m \in Macs, NEW ttl \in Ttls, RenewLease(m, ttl)
    PROVE  StatementsIInv'
<1> DEFINE t == clock + ttl
           old == LeasesOn({m})
           renewed == {[r EXCEPT !.expires = t] : r \in old}
           db == [Database EXCEPT !.reservations = (@ \ old) \cup renewed]
<1>1. /\ up /\ todo = <<>> /\ Run(<<db>>)
      /\ given' = given /\ resolving' = resolving
  BY DEF RenewLease, Run
<1>2. /\ Database \in Databases
      /\ Database.pinnedFlag = TRUE /\ Database.profile = profile
      /\ Database.reservations = reservations
      /\ Database.optedIn = optedIn /\ Database.wiring = wiring
      /\ Sound(Database)
      /\ \A k \in Macs \ torn : Intact(Database, k, given[k])
  BY <1>1, AtRest
<1>3. /\ reservations \in SUBSET Reservation
      /\ given' \in [Macs -> Wirings \cup {NULL}]
      /\ t \in Nat
  BY <1>1, <1>2 DEF Databases, StatementsIInv, StatementsTypeOK
<1>4. \A r \in old : /\ r \in reservations /\ r \in Reservation
                     /\ r.mac = m /\ r.kind = "lease"
  BY <1>3 DEF LeasesOn, ActiveLease
<1> HIDE DEF t, old
<1>5. \A q \in renewed : /\ q \in Reservation /\ q.mac = m
                         /\ q.kind = "lease" /\ q.expires # NULL
  <2>1. \A r \in old : LET q == [r EXCEPT !.expires = t]
                       IN  /\ q \in Reservation /\ q.mac = m
                           /\ q.kind = "lease" /\ q.expires = t
    BY <1>3, <1>4, RenewedRow
  <2>2. t # NULL
    BY <1>3
  <2>3. QED
    BY <2>1, <2>2
<1>6. \A r, s \in old : r = s
  BY <1>2, <1>4 DEF Sound
<1>7. \A q, s \in renewed : q = s
  BY <1>6
<1>8. renewed # {} => old # {}
  OBVIOUS
<1> HIDE DEF renewed
<1>9. renewed # {} => /\ profile[m] # NULL
                      /\ \A s \in reservations \ old : s.mac # m
  BY <1>2, <1>4, <1>8 DEF Sound
<1>10. /\ db \in Databases /\ db.pinnedFlag = TRUE
       /\ db.profile = profile /\ db.optedIn = optedIn
       /\ db.reservations = (reservations \ old) \cup renewed
       /\ db.wiring = wiring
  BY <1>2, <1>3, <1>5 DEF Databases
<1> HIDE DEF db
<1>11. Sound(db)
  <2>1. \A r, s \in db.reservations : r.mac = s.mac => r = s
    BY <1>2, <1>5, <1>7, <1>9, <1>10 DEF Sound
  <2>2. \A r \in db.reservations : db.profile[r.mac] # NULL
    BY <1>2, <1>5, <1>9, <1>10 DEF Sound
  <2>3. \A r \in db.reservations : r.kind = "permanent" <=> r.expires = NULL
    BY <1>2, <1>5, <1>10 DEF Sound
  <2>4. QED
    BY <1>10, <2>1, <2>2, <2>3 DEF Sound
<1>12. \A k \in Macs \ torn : Intact(db, k, given'[k])
  <2>1. \A r : r.kind = "permanent" =>
                   (r \in db.reservations <=> r \in reservations)
    BY <1>4, <1>5, <1>10
  <2>2. QED
    BY <1>1, <1>2, <1>10, <2>1 DEF Intact
<1>13. resolving' \in [Calls -> Lookups \cup {NULL}]
  BY <1>1, CallsUnchanged
<1>14. QED
  BY <1>1, <1>3, <1>10, <1>11, <1>12, <1>13, RunOne

\* There are no more un-released rows than machines.
LEMMA RowsAreFinite ==
    ASSUME NEW db \in Databases, Sound(db), NEW rows \in SUBSET db.reservations
    PROVE  IsFiniteSet(rows)
<1> DEFINE f == [r \in rows |-> r.mac]
<1>1. \A r \in rows : r.mac \in Macs
  BY DEF Databases, Reservation
<1>2. f \in [rows -> Macs]
  BY <1>1
<1>3. \A r, s \in rows : f[r] = f[s] => r = s
  BY DEF Sound
<1> HIDE DEF f
<1>4. f \in Injection(rows, Macs)
  BY <1>2, <1>3 DEF Injection, IsInjective
<1>5. QED
  BY <1>4, FS_Injection

\* An order of a finite set is a sequence, and all of it is the set.
LEMMA OrderIsSequence ==
    ASSUME NEW S, IsFiniteSet(S), S # {}, NEW order \in Orders(S)
    PROVE  /\ Len(order) \in Nat \ {0}
           /\ Len(order) = Cardinality(S)
           /\ \A k : FirstOf(order, k) = {order[i] : i \in 1..k}
           /\ \A k \in 0..Len(order) : FirstOf(order, k) \subseteq S
           /\ \A j, k \in Nat : j <= k => FirstOf(order, j) \subseteq FirstOf(order, k)
           /\ FirstOf(order, Len(order)) = S
<1> DEFINE n == Cardinality(S)
<1>1. n \in Nat \ {0}
  BY FS_CardinalityType, FS_EmptySet
<1>2. order \in [1..n -> S] /\ \A t \in S : \E i \in 1..n : order[i] = t
  BY DEF Orders, Surjection
<1> HIDE DEF n
<1>3. order \in Seq(S) /\ Len(order) = n
  BY <1>1, <1>2
<1>4. \A k \in 0..n : FirstOf(order, k) \subseteq S
  BY <1>1, <1>2 DEF FirstOf
<1>5. FirstOf(order, n) = S
  BY <1>1, <1>2 DEF FirstOf
<1>6. QED
  BY <1>1, <1>3, <1>4, <1>5 DEF FirstOf, n

\* release and reap_expired, with rows of leases
LEMMA FreeEachKeepsIInv ==
    ASSUME StatementsIInv, NEW rows \in SUBSET reservations,
           \A r \in rows : r.kind = "lease", FreeEach(rows)
    PROVE  StatementsIInv'
<1>1. PICK order \in Orders(rows) :
          Run([i \in 1..Len(order) |-> Freed(Database, FirstOf(order, i))])
  BY DEF FreeEach
<1> DEFINE free(i) == Freed(Database, FirstOf(order, i))
           n == Len(order)
           dbs == [i \in 1..n |-> free(i)]
<1>2. /\ up /\ todo = <<>> /\ rows # {} /\ Commit(dbs)
      /\ up' /\ up' \in BOOLEAN /\ clock' = clock /\ torn' = torn
      /\ given' = given /\ resolving' = resolving
  BY <1>1 DEF FreeEach, Run, StatementsIInv, StatementsTypeOK
<1>3. /\ Database \in Databases
      /\ Database.pinnedFlag = TRUE /\ Database.profile = profile
      /\ Database.reservations = reservations
      /\ Database.optedIn = optedIn /\ Database.wiring = wiring
      /\ Sound(Database)
      /\ \A k \in Macs \ torn : Intact(Database, k, given[k])
  BY <1>2, AtRest
<1>4. given' \in [Macs -> Wirings \cup {NULL}]
  BY <1>2 DEF StatementsIInv, StatementsTypeOK
<1>5. IsFiniteSet(rows)
  BY <1>3, RowsAreFinite
<1>6. n \in Nat \ {0} /\ FirstOf(order, n) = rows
  BY <1>2, <1>5, OrderIsSequence
<1> HIDE DEF n
<1>7. \A i \in 1..n :
          /\ free(i) \in Databases /\ free(i).pinnedFlag = TRUE
          /\ free(i).profile = profile /\ free(i).optedIn = optedIn
          /\ free(i).reservations = reservations \ FirstOf(order, i)
          /\ free(i).wiring = wiring
  BY <1>3, FreedTables
<1> HIDE DEF free
<1>8. /\ dbs \in Seq(Databases) /\ dbs # <<>> /\ DOMAIN dbs = 1..n
      /\ Len(dbs) = n /\ \A i \in 1..n : dbs[i] = free(i)
  BY <1>6, <1>7
<1> HIDE DEF dbs
<1>9. \A i \in 1..n : Sound(free(i)) /\ LeadsTo(free(i), free(n))
  BY <1>3, <1>6, <1>7 DEF Sound, LeadsTo
<1>10. \A k \in Macs \ torn : Intact(free(n), k, given'[k])
  BY <1>2, <1>3, <1>6, <1>7 DEF Intact
<1>11. resolving' \in [Calls -> Lookups \cup {NULL}]
  BY <1>2, CallsUnchanged
<1>12. QED
  <2>1. /\ n \in 1..n /\ dbs[Len(dbs)] = free(n)
        /\ dbs[Len(dbs)].pinnedFlag
    BY <1>6, <1>7, <1>8
  <2>2. \A i \in DOMAIN dbs : Sound(dbs[i]) /\ LeadsTo(dbs[i], dbs[Len(dbs)])
    BY <1>8, <1>9, <2>1
  <2>3. QED
    BY <1>2, <1>4, <1>8, <1>10, <1>11, <2>1, <2>2, CommitKeepsIInv

\* reserve: the row inserted for a lease
LEMMA LeaseRow ==
    ASSUME NEW m \in Macs, NEW h \in Holders, NEW p \in Profiles, NEW t \in Nat
    PROVE  /\ Lease(m, h, p, t) \in Reservation
           /\ Lease(m, h, p, t).mac = m
           /\ Lease(m, h, p, t).kind = "lease"
           /\ Lease(m, h, p, t).expires = t
BY DEF Lease, Reservation, Kinds

\* A sound database that differs from the present one in leases and profile
\* names only.
OnlyLeasesDiffer(db) ==
    /\ db \in Databases /\ db.pinnedFlag = TRUE
    /\ db.optedIn = optedIn /\ db.wiring = wiring
    /\ \A m \in Macs : db.profile[m] # NULL <=> profile[m] # NULL
    /\ \A r : r.kind = "permanent" =>
           (r \in db.reservations <=> r \in reservations)
    /\ Sound(db)

\* reserve: a database the statements pass through, with the machines of F
\* freed, those of H leased again and those of S switched.
LEMMA PartlyLeasedTables ==
    ASSUME StatementsIInv, up, todo = <<>>,
           NEW h \in Holders, NEW p \in Profiles, NEW t \in Nat,
           NEW F \in SUBSET Macs, \A m \in F : Registered(m) /\ ~Held(m),
           NEW H \in SUBSET F, NEW S \in SUBSET H
    PROVE  OnlyLeasesDiffer(PartlyLeased(F, H, S, h, p, t))
<1> DEFINE leases == {Lease(m, h, p, t) : m \in H}
           switched == [m \in Macs |-> IF m \in S THEN p ELSE profile[m]]
           db == PartlyLeased(F, H, S, h, p, t)
<1>1. /\ Database \in Databases
      /\ Database.pinnedFlag = TRUE /\ Database.profile = profile
      /\ Database.reservations = reservations
      /\ Database.optedIn = optedIn /\ Database.wiring = wiring
      /\ Sound(Database)
  BY AtRest
<1>2. /\ profile \in [Macs -> Profiles \cup {NULL}]
      /\ reservations \in SUBSET Reservation
  BY <1>1 DEF Databases
<1>3. \A q \in leases : /\ q \in Reservation /\ q.mac \in H
                        /\ q.kind = "lease" /\ q.expires # NULL
  BY LeaseRow
<1>4. \A q, s \in leases : q.mac = s.mac => q = s
  BY LeaseRow
<1>5. /\ switched \in [Macs -> Profiles \cup {NULL}]
      /\ \A m \in Macs : switched[m] # NULL <=> profile[m] # NULL
  BY <1>2 DEF Registered
<1>6. db = [Database EXCEPT !.reservations = ReleaseUnreleased(F) \cup leases,
                            !.profile = switched]
  BY DEF PartlyLeased
<1> HIDE DEF leases, switched, db
<1>7. /\ db \in Databases /\ db.pinnedFlag = TRUE
      /\ db.optedIn = optedIn /\ db.wiring = wiring
      /\ db.profile = switched
      /\ db.reservations = ReleaseUnreleased(F) \cup leases
  <2> DEFINE rows == ReleaseUnreleased(F) \cup leases
  <2>1. rows \in SUBSET Reservation
    BY <1>2, <1>3 DEF ReleaseUnreleased
  <2> HIDE DEF rows
  <2>2. db = [Database EXCEPT !.reservations = rows, !.profile = switched]
    BY <1>6 DEF rows
  <2>3. /\ db \in Databases /\ db.pinnedFlag = Database.pinnedFlag
        /\ db.optedIn = Database.optedIn /\ db.wiring = Database.wiring
        /\ db.profile = switched /\ db.reservations = rows
    BY <1>1, <1>5, <2>1, <2>2 DEF Databases
  <2>4. QED
    BY <1>1, <2>3 DEF rows
<1>8. \A r : r.kind = "permanent" =>
                 (r \in db.reservations <=> r \in reservations)
  <2>1. \A r \in reservations : r.kind = "permanent" => r.mac \notin F
    BY <1>1 DEF Sound, Held, Active
  <2>2. QED
    BY <1>3, <1>7, <2>1 DEF ReleaseUnreleased
<1>9. Sound(db)
  <2>1. \A r, s \in db.reservations : r.mac = s.mac => r = s
    BY <1>1, <1>3, <1>4, <1>7 DEF Sound, ReleaseUnreleased
  <2>2. \A r \in db.reservations : db.profile[r.mac] # NULL
    <3>1. \A r \in db.reservations : r.mac \in Macs /\ profile[r.mac] # NULL
      BY <1>1, <1>2, <1>3, <1>7 DEF Sound, ReleaseUnreleased, Registered, Reservation
    <3>2. QED
      BY <1>5, <1>7, <3>1
  <2>3. \A r \in db.reservations : r.kind = "permanent" <=> r.expires = NULL
    BY <1>1, <1>3, <1>7 DEF Sound, ReleaseUnreleased
  <2>4. QED
    BY <1>7, <2>1, <2>2, <2>3 DEF Sound
<1>10. OnlyLeasesDiffer(db)
  BY <1>5, <1>7, <1>8, <1>9 DEF OnlyLeasesDiffer
<1>11. QED
  BY <1>10 DEF db

\* The machines freed, leased and switched after i statements of a reserve.
FreedBy(order, i) == FirstOf(order, (i + 2) \div 3)
LeasedBefore(order, i) == FirstOf(order, (i + 1) \div 3)
SwitchedBy(order, i) == FirstOf(order, i \div 3)

\* reserve: three statements for each machine, so some machines are freed,
\* some of these are leased, and some of these are switched; all of them are
\* after the last statement.
LEMMA StagesOfLeasing ==
    ASSUME NEW S, IsFiniteSet(S), S # {}, NEW order \in Orders(S)
    PROVE  /\ 3 * Len(order) \in Nat \ {0}
           /\ \A i \in 1..3 * Len(order) :
                  /\ FreedBy(order, i) \subseteq S
                  /\ LeasedBefore(order, i) \subseteq FreedBy(order, i)
                  /\ SwitchedBy(order, i) \subseteq LeasedBefore(order, i)
           /\ FreedBy(order, 3 * Len(order)) = S
           /\ LeasedBefore(order, 3 * Len(order)) = S
           /\ SwitchedBy(order, 3 * Len(order)) = S
<1> DEFINE n == Len(order)
<1>1. /\ n \in Nat \ {0}
      /\ \A k \in 0..n : FirstOf(order, k) \subseteq S
      /\ \A j, k \in Nat : j <= k => FirstOf(order, j) \subseteq FirstOf(order, k)
      /\ FirstOf(order, n) = S
  BY OrderIsSequence
<1> HIDE DEF n
<1>2. /\ (3 * n + 2) \div 3 = n /\ (3 * n + 1) \div 3 = n
      /\ (3 * n) \div 3 = n /\ 3 * n \in Nat \ {0}
  BY <1>1
<1>3. ASSUME NEW i \in 1..3 * n
      PROVE  /\ FreedBy(order, i) \subseteq S
             /\ LeasedBefore(order, i) \subseteq FreedBy(order, i)
             /\ SwitchedBy(order, i) \subseteq LeasedBefore(order, i)
  <2>1. /\ (i + 2) \div 3 \in 0..n /\ (i + 1) \div 3 \in Nat /\ i \div 3 \in Nat
        /\ i \div 3 <= (i + 1) \div 3 /\ (i + 1) \div 3 <= (i + 2) \div 3
    BY <1>1
  <2>2. QED
    BY <1>1, <2>1 DEF FreedBy, LeasedBefore, SwitchedBy
<1>4. /\ FreedBy(order, 3 * n) = S /\ LeasedBefore(order, 3 * n) = S
      /\ SwitchedBy(order, 3 * n) = S
  BY <1>1, <1>2 DEF FreedBy, LeasedBefore, SwitchedBy
<1>5. QED
  BY <1>2, <1>3, <1>4 DEF n

\* reserve: every database its statements pass through
LEMMA LeasingDatabases ==
    ASSUME StatementsIInv, up, todo = <<>>,
           NEW h \in Holders, NEW p \in Profiles, NEW t \in Nat,
           NEW S \in SUBSET Macs, S # {},
           \A m \in S : Registered(m) /\ ~Held(m),
           NEW order \in Orders(S),
           NEW dbs, dbs = LeaseStatements(order, h, p, t)
    PROVE  /\ dbs \in Seq(Databases) /\ dbs # <<>>
           /\ dbs[Len(dbs)] = PartlyLeased(S, S, S, h, p, t)
           /\ \A i \in DOMAIN dbs : OnlyLeasesDiffer(dbs[i])
<1> DEFINE k == 3 * Len(order)
           F(i) == FreedBy(order, i)
           H(i) == LeasedBefore(order, i)
           K(i) == SwitchedBy(order, i)
           stage(i) == PartlyLeased(F(i), H(i), K(i), h, p, t)
<1>1. IsFiniteSet(S)
  BY FS_Subset
<1>2. /\ k \in Nat \ {0}
      /\ \A i \in 1..k : F(i) \subseteq S /\ H(i) \subseteq F(i) /\ K(i) \subseteq H(i)
      /\ F(k) = S /\ H(k) = S /\ K(k) = S
  BY <1>1, StagesOfLeasing
<1>3. dbs = [i \in 1..k |-> stage(i)]
  BY DEF LeaseStatements, FreedBy, LeasedBefore, SwitchedBy
<1>4. stage(k) = PartlyLeased(S, S, S, h, p, t)
  BY <1>2
<1> HIDE DEF k, F, H, K
<1>5. ASSUME NEW i \in 1..k PROVE OnlyLeasesDiffer(stage(i))
  <2>1. /\ F(i) \in SUBSET Macs /\ \A m \in F(i) : Registered(m) /\ ~Held(m)
        /\ H(i) \in SUBSET F(i) /\ K(i) \in SUBSET H(i)
    BY <1>2
  <2>2. QED
    BY <2>1, PartlyLeasedTables
<1> HIDE DEF stage
<1>6. \A i \in 1..k : stage(i) \in Databases
  BY <1>5 DEF OnlyLeasesDiffer
<1>7. dbs \in Seq(Databases) /\ dbs # <<>> /\ Len(dbs) = k /\ DOMAIN dbs = 1..k
  BY <1>2, <1>3, <1>6
<1>8. \A i \in 1..k : dbs[i] = stage(i)
  BY <1>3
<1>9. k \in 1..k
  BY <1>2
<1>10. QED
  BY <1>4, <1>5, <1>7, <1>8, <1>9

\* reserve
LEMMA ReserveMachinesKeepsIInv ==
    ASSUME StatementsIInv, NEW h \in Holders, NEW p \in Profiles, NEW n, NEW a,
           NEW ttl \in Ttls, ReserveMachines(h, p, n, a, ttl)
    PROVE  StatementsIInv'
<1> DEFINE S == Leasable(a, n)
           t == clock + ttl
<1>1. PICK order \in Orders(S) : Run(LeaseStatements(order, h, p, t))
  BY DEF ReserveMachines
<1> DEFINE dbs == LeaseStatements(order, h, p, t)
           last == dbs[Len(dbs)]
<1>2. /\ up /\ todo = <<>> /\ S # {} /\ Commit(dbs)
      /\ up' /\ up' \in BOOLEAN /\ clock' = clock /\ torn' = torn
      /\ given' = given /\ resolving' = resolving
      /\ given' \in [Macs -> Wirings \cup {NULL}] /\ t \in Nat
  BY <1>1 DEF ReserveMachines, Run, StatementsIInv, StatementsTypeOK
<1>3. S \in SUBSET Macs /\ \A m \in S : Registered(m) /\ ~Held(m)
  BY DEF Leasable, Free, FirstByMac
<1>4. dbs = LeaseStatements(order, h, p, t)
  OBVIOUS
<1> HIDE DEF S, t, dbs
<1>5. /\ dbs \in Seq(Databases) /\ dbs # <<>>
      /\ \A i \in DOMAIN dbs : OnlyLeasesDiffer(dbs[i])
  BY <1>2, <1>3, <1>4, LeasingDatabases
<1>6. Len(dbs) \in DOMAIN dbs
  BY <1>5
<1>7. OnlyLeasesDiffer(last)
  BY <1>5, <1>6
<1> HIDE DEF last
<1>8. \A i \in DOMAIN dbs : Sound(dbs[i]) /\ LeadsTo(dbs[i], last)
  BY <1>5, <1>7 DEF LeadsTo, OnlyLeasesDiffer
<1>9. \A m \in Macs \ torn : Intact(last, m, given'[m])
  <2>1. /\ Database.pinnedFlag = TRUE /\ Database.profile = profile
        /\ Database.reservations = reservations
        /\ Database.optedIn = optedIn /\ Database.wiring = wiring
        /\ \A m \in Macs \ torn : Intact(Database, m, given[m])
    BY <1>2, AtRest
  <2>2. /\ last.pinnedFlag = TRUE /\ last.optedIn = optedIn /\ last.wiring = wiring
        /\ \A m \in Macs : last.profile[m] # NULL <=> profile[m] # NULL
        /\ \A r : r.kind = "permanent" =>
               (r \in last.reservations <=> r \in reservations)
    BY <1>7 DEF OnlyLeasesDiffer
  <2>3. ASSUME NEW m \in Macs \ torn PROVE Intact(last, m, given'[m])
    <3>1. (\E r \in last.reservations : r.mac = m /\ r.kind = "permanent")
              <=> \E r \in reservations : r.mac = m /\ r.kind = "permanent"
      BY <2>2
    <3>2. QED
      BY <1>2, <2>1, <2>2, <3>1 DEF Intact
  <2>4. QED
    BY <2>3
<1>10. resolving' \in [Calls -> Lookups \cup {NULL}]
  BY <1>2, CallsUnchanged
<1>11. last.pinnedFlag
  BY <1>7 DEF OnlyLeasesDiffer
<1>12. QED
  BY <1>2, <1>5, <1>8, <1>9, <1>10, <1>11, CommitKeepsIInv DEF last

\* release and reap_expired end leases.
LEMMA EndLeasesKeepsIInv ==
    ASSUME StatementsIInv, NEW S, ReleaseLeases(S) \/ ReapLeases
    PROVE  StatementsIInv'
<1>1. /\ LeasesOn(S) \in SUBSET reservations
      /\ \A r \in LeasesOn(S) : r.kind = "lease"
      /\ ExpiredRows \in SUBSET reservations
      /\ \A r \in ExpiredRows : r.kind = "lease"
  BY DEF LeasesOn, ActiveLease, ExpiredRows, Expired
<1>2. QED
  BY <1>1, FreeEachKeepsIInv DEF ReleaseLeases, ReapLeases

(***************************************************************************)
(* Readers without the lock, and the process.                              *)
(***************************************************************************)

\* A step of a call of /resolve without the lock.
LEMMA ReaderKeepsIInv ==
    ASSUME StatementsIInv, UNCHANGED <<vars, todo, wiring, rules, torn, given>>,
           resolving' \in [Calls -> Lookups \cup {NULL}]
    PROVE  StatementsIInv'
<1>1. Database' = Database
  BY DEF vars, Database
<1>2. Settled' = Settled
  BY <1>1 DEF Settled
<1>3. StatementsTypeOK'
  BY <1>1 DEF StatementsIInv, StatementsTypeOK, vars
<1>4. Sound(Database') /\ LeadsTo(Database', Settled')
  BY <1>1, <1>2 DEF StatementsIInv
<1>5. \A i \in DOMAIN todo' : Sound(todo'[i]) /\ LeadsTo(todo'[i], Settled')
  BY <1>2 DEF StatementsIInv
<1>6. \A m \in Macs \ torn' : Intact(Settled', m, given'[m])
  BY <1>2 DEF StatementsIInv
<1>7. IF up' THEN Settled'.pinnedFlag ELSE todo' = <<>>
  BY <1>2 DEF StatementsIInv, vars
<1>8. QED
  BY <1>3, <1>4, <1>5, <1>6, <1>7
     DEF StatementsIInv, Sound, LeadsTo, Differ, Intact

\* resolve_machine finds no row.
LEMMA LookUpKeepsIInv ==
    ASSUME StatementsIInv, NEW c \in Calls, NEW m \in Macs, LookUp(c, m)
    PROVE  StatementsIInv'
<1> DEFINE call == [mac |-> m, rule |-> NULL]
<1>1. /\ resolving' = [resolving EXCEPT ![c] = call]
      /\ UNCHANGED <<vars, todo, wiring, rules, torn, given>>
  BY DEF LookUp
<1>2. call \in Lookups
  BY DEF Lookups
<1>3. resolving \in [Calls -> Lookups \cup {NULL}]
  BY DEF StatementsIInv, StatementsTypeOK
<1> HIDE DEF call
<1>4. resolving' \in [Calls -> Lookups \cup {NULL}]
  BY <1>1, <1>2, <1>3
<1>5. QED
  BY <1>1, <1>4, ReaderKeepsIInv

\* find_matching_rule
LEMMA FindRuleKeepsIInv ==
    ASSUME StatementsIInv, NEW c \in Calls, FindRule(c)
    PROVE  StatementsIInv'
<1>1. /\ resolving[c] # NULL
      /\ UNCHANGED <<vars, todo, wiring, rules, torn, given>>
      /\ \/ resolving' = [resolving EXCEPT ![c] = NULL]
         \/ \E i \in RuleIds : /\ rules[i] # NULL
                               /\ resolving' = [resolving EXCEPT ![c].rule = rules[i]]
  BY DEF FindRule, Matches
<1>2. /\ resolving \in [Calls -> Lookups \cup {NULL}]
      /\ Database \in Databases
  BY DEF StatementsIInv, StatementsTypeOK
<1>3. rules \in [RuleIds -> Rules \cup {NULL}]
  BY <1>2 DEF Databases, Database
<1>4. \A l \in Lookups, r \in Rules \cup {NULL} :
          [l EXCEPT !.rule = r] \in Lookups
  BY DEF Lookups
<1>5. resolving[c] \in Lookups
  BY <1>1, <1>2
<1>6. CASE resolving' = [resolving EXCEPT ![c] = NULL]
  <2>1. resolving' \in [Calls -> Lookups \cup {NULL}]
    BY <1>2, <1>6
  <2>2. QED
    BY <1>1, <2>1, ReaderKeepsIInv
<1>7. ASSUME NEW i \in RuleIds, rules[i] # NULL,
             resolving' = [resolving EXCEPT ![c].rule = rules[i]]
      PROVE  StatementsIInv'
  <2> DEFINE call == [resolving[c] EXCEPT !.rule = rules[i]]
  <2>1. call \in Lookups
    BY <1>3, <1>4, <1>5
  <2>2. resolving' = [resolving EXCEPT ![c] = call]
    BY <1>7
  <2> HIDE DEF call
  <2>3. resolving' \in [Calls -> Lookups \cup {NULL}]
    BY <1>2, <2>1, <2>2
  <2>4. QED
    BY <1>1, <2>3, ReaderKeepsIInv
<1>8. QED
  BY <1>1, <1>6, <1>7

\* The operation under way executes its next statement.
LEMMA ExecuteKeepsIInv == ASSUME StatementsIInv, Execute PROVE StatementsIInv'
<1>1. /\ up /\ up' = up /\ clock' = clock /\ torn' = torn
      /\ resolving' = resolving /\ given' = given
      /\ todo # <<>> /\ Commit(todo)
  BY DEF Execute
<1>2. /\ up \in BOOLEAN /\ todo \in Seq(Databases)
      /\ resolving \in [Calls -> Lookups \cup {NULL}]
      /\ given \in [Macs -> Wirings \cup {NULL}]
  BY DEF StatementsIInv, StatementsTypeOK
<1>3. Settled = todo[Len(todo)]
  BY <1>1 DEF Settled
<1>4. /\ \A i \in DOMAIN todo : Sound(todo[i]) /\ LeadsTo(todo[i], Settled)
      /\ \A m \in Macs \ torn : Intact(Settled, m, given[m])
      /\ Settled.pinnedFlag
  BY <1>1 DEF StatementsIInv
<1>5. QED
  BY <1>1, <1>2, <1>3, <1>4, CommitKeepsIInv

\* The migration pins each machine without a hold, then sets its flag.
LEMMA MigrationTables ==
    ASSUME StatementsIInv, ~up, ~pinnedFlag,
           NEW pinned, NEW last, MigrationStatements = <<pinned, last>>
    PROVE  /\ pinned \in Databases /\ last \in Databases
           /\ Sound(pinned) /\ Sound(last) /\ LeadsTo(pinned, last)
           /\ last.pinnedFlag
           /\ \A m \in Macs \ torn : Intact(last, m, given[m])
<1> DEFINE rows == {PermanentHold(m, Admin, profile[m]) : m \in Unheld}
           all == reservations \cup rows
<1>1. /\ Database \in Databases /\ Sound(Database) /\ Settled = Database
      /\ \A m \in Macs \ torn : Intact(Settled, m, given[m])
  BY DEF StatementsIInv, StatementsTypeOK, Settled
<1>2. /\ Database.pinnedFlag = pinnedFlag /\ Database.profile = profile
      /\ Database.reservations = reservations
      /\ Database.optedIn = optedIn /\ Database.wiring = wiring
  BY DEF Database
<1>3. /\ profile \in [Macs -> Profiles \cup {NULL}]
      /\ reservations \in SUBSET Reservation
      /\ pinnedFlag = FALSE /\ optedIn = {}
      /\ \A r \in reservations : r.kind = "permanent" /\ r.mac \in Macs
  BY <1>1, <1>2 DEF Databases, Sound, Reservation
<1> DEFINE hold(m) == PermanentHold(m, Admin, profile[m])
<1>4. \A m \in Unheld : /\ m \in Macs /\ hold(m) \in Reservation
                        /\ hold(m).mac = m
                        /\ hold(m).kind = "permanent" /\ hold(m).expires = NULL
  <2>1. \A m \in Unheld : m \in Macs /\ profile[m] \in Profiles \cup {NULL}
    BY <1>3 DEF Unheld
  <2>2. QED
    BY <2>1, HoldRow
<1>5. rows = {hold(m) : m \in Unheld}
  OBVIOUS
<1> HIDE DEF hold, rows
<1>6. /\ \A r \in rows : /\ r \in Reservation /\ r.mac \in Unheld
                         /\ r.kind = "permanent" /\ r.expires = NULL
      /\ \A r, s \in rows : r.mac = s.mac => r = s
      /\ \A m \in Unheld : \E r \in rows : r.mac = m
  BY <1>4, <1>5
<1>7. /\ pinned = [Database EXCEPT !.reservations = all]
      /\ last = [pinned EXCEPT !.pinnedFlag = TRUE]
  BY <1>2 DEF MigrationStatements, rows
<1>8. all \in SUBSET Reservation
  BY <1>3, <1>6
<1>9. /\ \A r, s \in all : r.mac = s.mac => r = s
      /\ \A r \in all : profile[r.mac] # NULL
      /\ \A r \in all : r.kind = "permanent" /\ r.expires = NULL
      /\ \A m \in Macs : profile[m] # NULL => \E r \in all : r.mac = m
  BY <1>1, <1>2, <1>3, <1>6 DEF Sound, Unheld, Registered
<1> HIDE DEF all
<1>10. /\ pinned \in Databases
       /\ pinned.profile = profile /\ pinned.reservations = all
       /\ pinned.optedIn = {} /\ pinned.wiring = wiring
       /\ pinned.pinnedFlag = FALSE
  BY <1>1, <1>2, <1>3, <1>7, <1>8 DEF Databases
<1>11. /\ last \in Databases
       /\ last.profile = profile /\ last.reservations = all
       /\ last.optedIn = {} /\ last.wiring = wiring
       /\ last.pinnedFlag = TRUE
  BY <1>7, <1>10 DEF Databases
<1>12. Sound(pinned) /\ Sound(last)
  BY <1>9, <1>10, <1>11 DEF Sound
<1>13. LeadsTo(pinned, last)
  BY <1>10, <1>11 DEF LeadsTo
<1>14. \A m \in Macs \ torn : Intact(last, m, given[m])
  BY <1>1, <1>2, <1>9, <1>11 DEF Intact
<1>15. QED
  BY <1>10, <1>11, <1>12, <1>13, <1>14

\* The process starts, with the migration if it has not been done.
LEMMA StartUpKeepsIInv == ASSUME StatementsIInv, StartUp PROVE StatementsIInv'
<1>1. /\ ~up /\ up' = TRUE /\ clock' = clock /\ torn' = torn
      /\ resolving' = resolving /\ given' = given
      /\ Commit(IF pinnedFlag THEN <<Database>> ELSE MigrationStatements)
  BY DEF StartUp
<1>2. /\ Database \in Databases /\ Sound(Database) /\ Settled = Database
      /\ \A m \in Macs \ torn : Intact(Settled, m, given[m])
      /\ resolving' \in [Calls -> Lookups \cup {NULL}]
      /\ given' \in [Macs -> Wirings \cup {NULL}]
  BY <1>1 DEF StatementsIInv, StatementsTypeOK, Settled
<1>3. CASE pinnedFlag
  <2> DEFINE dbs == <<Database>>
  <2>1. /\ dbs \in Seq(Databases) /\ dbs # <<>> /\ DOMAIN dbs = {1}
        /\ Len(dbs) = 1 /\ dbs[1] = Database
    BY <1>2
  <2>2. Commit(dbs)
    BY <1>1, <1>3
  <2>3. Database.pinnedFlag
    BY <1>3 DEF Database
  <2> HIDE DEF dbs
  <2>4. QED
    BY <1>1, <1>2, <2>1, <2>2, <2>3, LeadsToItself, CommitKeepsIInv
<1>4. CASE ~pinnedFlag
  <2> DEFINE pinned == [Database EXCEPT !.reservations =
                 @ \cup {PermanentHold(m, Admin, profile[m]) : m \in Unheld}]
             last == [pinned EXCEPT !.pinnedFlag = TRUE]
             dbs == <<pinned, last>>
  <2>1. MigrationStatements = dbs
    BY DEF MigrationStatements
  <2> HIDE DEF pinned, last
  <2>2. /\ pinned \in Databases /\ last \in Databases
        /\ Sound(pinned) /\ Sound(last) /\ LeadsTo(pinned, last)
        /\ last.pinnedFlag
        /\ \A m \in Macs \ torn : Intact(last, m, given[m])
    BY <1>1, <1>4, <2>1, MigrationTables
  <2>3. /\ dbs \in Seq(Databases) /\ dbs # <<>> /\ DOMAIN dbs = {1, 2}
        /\ Len(dbs) = 2 /\ dbs[1] = pinned /\ dbs[2] = last
    BY <2>2
  <2>4. Commit(dbs)
    BY <1>1, <1>4, <2>1
  <2> HIDE DEF dbs
  <2>5. QED
    BY <1>1, <1>2, <2>2, <2>3, <2>4, LeadsToItself, CommitKeepsIInv
<1>5. QED
  BY <1>3, <1>4

\* The process dies: an operation is cut short, and what it has not finished
\* is torn.
LEMMA DieKeepsIInv == ASSUME StatementsIInv, Die PROVE StatementsIInv'
<1>1. /\ up' = FALSE /\ todo' = <<>> /\ clock' = clock /\ given' = given
      /\ torn' = torn \cup {m \in Macs : Differ(Database, Settled, m)}
      /\ resolving' = [c \in Calls |-> NULL]
      /\ UNCHANGED tables
  BY DEF Die
<1>2. Database' = Database
  BY <1>1 DEF Database, tables
<1>3. Settled' = Database
  BY <1>1, <1>2 DEF Settled
<1>4. StatementsTypeOK'
  <2>1. StatementsTypeOK
    BY DEF StatementsIInv
  <2>2. torn' \in SUBSET Macs /\ resolving' \in [Calls -> Lookups \cup {NULL}]
    BY <1>1, <2>1 DEF StatementsTypeOK
  <2>3. todo' \in Seq(Databases)
    BY <1>1
  <2>4. QED
    BY <1>1, <1>2, <2>1, <2>2, <2>3 DEF StatementsTypeOK
<1>5. Sound(Database) /\ LeadsTo(Database, Settled)
  BY DEF StatementsIInv
<1>6. ASSUME NEW m \in Macs \ torn' PROVE Intact(Database, m, given[m])
  <2>1. Intact(Settled, m, given[m]) /\ ~Differ(Database, Settled, m)
    BY <1>1, <1>6 DEF StatementsIInv
  <2>2. /\ Database.profile[m] = Settled.profile[m]
        /\ Database.wiring[m] = Settled.wiring[m]
        /\ \A r : r.mac = m =>
               (r \in Database.reservations <=> r \in Settled.reservations)
    BY <2>1 DEF Differ
  <2>3. /\ Database.pinnedFlag => Settled.pinnedFlag
        /\ m \in Database.optedIn <=> m \in Settled.optedIn
    BY <1>5, <2>1 DEF LeadsTo
  <2>4. QED
    BY <2>1, <2>2, <2>3 DEF Intact
<1>7. QED
  BY <1>1, <1>2, <1>3, <1>4, <1>5, <1>6, LeadsToItself
     DEF StatementsIInv, Sound, LeadsTo, Differ, Intact

\* Time passes.
LEMMA TimeKeepsIInv == ASSUME StatementsIInv, Time PROVE StatementsIInv'
<1>1. /\ clock' = clock + 1
      /\ UNCHANGED <<up, tables, todo, resolving, torn, given>>
  BY DEF Time, Tick, tables
<1>2. Database' = Database
  BY <1>1 DEF tables, Database
<1>3. Settled' = Settled
  BY <1>1, <1>2 DEF Settled
<1>4. StatementsTypeOK'
  BY <1>1, <1>2 DEF StatementsIInv, StatementsTypeOK
<1>5. QED
  BY <1>1, <1>2, <1>3, <1>4
     DEF StatementsIInv, Sound, LeadsTo, Differ, Intact

(***************************************************************************)
(* The inductive invariant.                                                *)
(***************************************************************************)

\* The invariant holds of every database from before reservations.
LEMMA InitStatementsIInv == StatementsInit => StatementsIInv
<1> SUFFICES ASSUME StatementsInit PROVE StatementsIInv
  OBVIOUS
<1>1. /\ up = FALSE /\ pinnedFlag = FALSE /\ reservations = {} /\ clock = 0
      /\ profile \in [Macs -> Profiles \cup {NULL}] /\ optedIn = {}
      /\ todo = <<>> /\ torn = {}
      /\ wiring = [m \in Macs |-> NULL] /\ given = [m \in Macs |-> NULL]
      /\ rules = [i \in RuleIds |-> NULL] /\ resolving = [c \in Calls |-> NULL]
  BY DEF StatementsInit, Init
<1>2. Settled = Database
  BY <1>1 DEF Settled
<1>3. StatementsTypeOK
  <2>1. Database \in Databases
    BY <1>1 DEF Database, Databases
  <2>2. todo \in Seq(Databases)
    BY <1>1
  <2>3. /\ resolving \in [Calls -> Lookups \cup {NULL}]
        /\ given \in [Macs -> Wirings \cup {NULL}]
    BY <1>1
  <2>4. QED
    BY <1>1, <2>1, <2>2, <2>3 DEF StatementsTypeOK
<1>4. Sound(Database)
  BY <1>1 DEF Database, Sound
<1>5. LeadsTo(Database, Settled)
  BY <1>2, LeadsToItself
<1>6. \A m \in Macs : Intact(Settled, m, given[m])
  BY <1>1, <1>2 DEF Database, Intact
<1>7. QED
  BY <1>1, <1>3, <1>4, <1>5, <1>6 DEF StatementsIInv

\* Every step keeps the invariant.
LEMMA NextStatementsIInv ==
    StatementsIInv /\ [StatementsNext]_allVars => StatementsIInv'
<1> SUFFICES ASSUME StatementsIInv, [StatementsNext]_allVars PROVE StatementsIInv'
  OBVIOUS
<1>1. CASE AdminStatements
  BY <1>1, EnrollManuallyKeepsIInv, SwitchProfileKeepsIInv,
     RemoveMachineKeepsIInv, OptInKeepsIInv, PinMachineKeepsIInv,
     WireKeepsIInv, ChangeRulesKeepsIInv
     DEF AdminStatements, RuleStatements
<1>2. CASE AgentStatements
  BY <1>2, ReserveMachinesKeepsIInv, RenewLeaseKeepsIInv, EndLeasesKeepsIInv
     DEF AgentStatements
<1>3. CASE ReapLeases
  BY <1>3, EndLeasesKeepsIInv
<1>4. CASE Resolution
  BY <1>4, LookUpKeepsIInv, FindRuleKeepsIInv, EnrolByRuleKeepsIInv DEF Resolution
<1>5. CASE Execute \/ StartUp \/ Die \/ Time
  BY <1>5, ExecuteKeepsIInv, StartUpKeepsIInv, DieKeepsIInv, TimeKeepsIInv
<1>6. CASE UNCHANGED allVars
  <2>1. /\ UNCHANGED <<vars, todo, wiring, rules, torn, given>>
        /\ resolving' = resolving
    BY <1>6 DEF allVars
  <2>2. resolving' \in [Calls -> Lookups \cup {NULL}]
    BY <2>1, CallsUnchanged
  <2>3. QED
    BY <2>1, <2>2, ReaderKeepsIInv
<1>7. QED
  BY <1>1, <1>2, <1>3, <1>4, <1>5, <1>6 DEF StatementsNext

\* After every statement, crash and restart the invariant holds.
THEOREM StatementsInvariance == StatementsSpec => []StatementsIInv
BY InitStatementsIInv, NextStatementsIInv, PTL DEF StatementsSpec

\* Readers without the lock see rows and holds of the declared types, and
\* what remains to be executed is databases too.
THEOREM StatementsTypeCorrectness == StatementsSpec => []StatementsTypeOK
<1>1. StatementsIInv => StatementsTypeOK
  BY DEF StatementsIInv
<1>2. QED
  BY <1>1, StatementsInvariance, PTL

\* Wherever a crash cuts an operation short, there is one un-released row
\* per machine and none without a machine.
THEOREM CrashSafety == StatementsSpec => []HoldsSurviveCrashes
<1>1. StatementsIInv => HoldsSurviveCrashes
  BY DEF StatementsIInv, Sound, Database, HoldsSurviveCrashes,
         UniqueIndexNeverConflicts, NoOrphanHold, Registered
<1>2. QED
  BY <1>1, StatementsInvariance, PTL

\* A machine is permanent until it is opted in, unless a crash cut an
\* operation on it short.
THEOREM PermanentUnlessOptedIn == StatementsSpec => []PinnedUnlessTorn
<1>1. StatementsIInv => PinnedUnlessTorn
  BY DEF StatementsIInv, Settled, Database, Intact, PinnedUnlessTorn,
         PermanentlyHeld, Registered
<1>2. QED
  BY <1>1, StatementsInvariance, PTL

\* No sequence of enrolments loses the power wiring an admin has set.
THEOREM WiringKept == StatementsSpec => []WiringSurvives
<1>1. StatementsIInv => WiringSurvives
  BY DEF StatementsIInv, Settled, Database, Intact, WiringSurvives
<1>2. QED
  BY <1>1, StatementsInvariance, PTL

(***************************************************************************)
(* Operations are atomic to each other: the module implements Reservations *)
(* when an operation counts as done with its first statement.              *)
(***************************************************************************)

\* What an operation starts from and where it leads, in the variables of
\* Reservations.
LEMMA RunLeads ==
    ASSUME StatementsIInv, NEW dbs \in Seq(Databases), dbs # <<>>, Run(dbs)
    PROVE  /\ Database \in Databases /\ Sound(Database)
           /\ Database.pinnedFlag = TRUE /\ Database.profile = profile
           /\ Database.reservations = reservations
           /\ Database.optedIn = optedIn /\ Database.wiring = wiring
           /\ Settled = Database /\ Settled' = dbs[Len(dbs)]
           /\ up = TRUE /\ up' = up /\ clock' = clock
<1>1. up /\ todo = <<>> /\ up' = up /\ clock' = clock /\ Commit(dbs)
  BY DEF Run
<1>2. up = TRUE
  BY <1>1 DEF StatementsIInv, StatementsTypeOK
<1>3. QED
  BY <1>1, <1>2, AtRest, CommitSettles

\* The instance counts as the module does.
LEMMA SameCardinality == \A S : R!Cardinality(S) = Cardinality(S)
BY DEF R!Cardinality, Cardinality

\* At rest, the predicates of the SQL text are those of Reservations.
LEMMA SamePredicates ==
    ASSUME Settled.profile = profile, Settled.reservations = reservations
    PROVE  /\ \A m : R!Registered(m) <=> Registered(m)
           /\ \A m : R!ReleaseUnreleased(m) = ReleaseUnreleased(m)
           /\ \A S : R!LeasesOn(S) = LeasesOn(S)
           /\ \A a, n : R!Leasable(a, n) = Leasable(a, n)
           /\ R!ExpiredRows = ExpiredRows
           /\ R!Unheld = Unheld
<1>1. \A r : R!Active(r) <=> Active(r)
  BY DEF R!Active, Active
<1>2. \A m : R!Registered(m) <=> Registered(m)
  BY DEF R!Registered, Registered
<1>3. \A m : R!Held(m) <=> Held(m)
  BY <1>1 DEF R!Held, Held
<1>4. \A S : R!ReleaseUnreleased(S) = ReleaseUnreleased(S)
  BY DEF R!ReleaseUnreleased, ReleaseUnreleased
<1>5. \A S : R!LeasesOn(S) = LeasesOn(S)
  BY <1>1 DEF R!LeasesOn, LeasesOn, R!ActiveLease, ActiveLease
<1>6. \A a, n : R!Leasable(a, n) = Leasable(a, n)
  <2>1. \A S, n : R!FirstByMac(S, n) = FirstByMac(S, n)
    BY SameCardinality DEF R!FirstByMac, FirstByMac
  <2>2. \A a : R!Free(a) = Free(a)
    BY <1>2, <1>3, Zenon DEF R!Free, Free
  <2>3. QED
    BY <2>1, <2>2 DEF R!Leasable, Leasable
<1>7. R!ExpiredRows = ExpiredRows
  BY DEF R!ExpiredRows, ExpiredRows, R!Expired, Expired
<1>8. R!Unheld = Unheld
  BY <1>2 DEF R!Unheld, Unheld
<1>9. QED
  BY <1>2, <1>4, <1>5, <1>6, <1>7, <1>8

\* enroll
LEMMA EnrollImplements ==
    ASSUME StatementsIInv, NEW m \in Macs, NEW p \in Profiles,
           Run(EnrollStatements(m, p))
    PROVE  R!Enroll(m, p)
<1> DEFINE new == Replaced(Database, m, p)
<1>1. up /\ todo = <<>>
  BY DEF Run
<1>2. /\ Database \in Databases /\ Database.wiring = wiring
      /\ Database.pinnedFlag = TRUE /\ Database.profile = profile
      /\ Database.reservations = reservations /\ Database.optedIn = optedIn
  BY <1>1, AtRest
<1>3. /\ new \in Databases /\ new.pinnedFlag = TRUE
      /\ new.profile = [profile EXCEPT ![m] = p]
      /\ new.reservations = reservations /\ new.optedIn = optedIn
      /\ new.wiring = [wiring EXCEPT ![m] = NULL]
  BY <1>2, ReplacedTables
<1> HIDE DEF new
<1>4. CASE Registered(m)
  <2> DEFINE last == Wired(new, m, wiring[m])
  <2>1. wiring[m] \in Wirings \cup {NULL} /\ new \in Databases
    BY <1>2, <1>3 DEF Databases
  <2>2. /\ last \in Databases /\ last.pinnedFlag = TRUE
        /\ last.profile = new.profile
        /\ last.reservations = new.reservations
        /\ last.optedIn = new.optedIn
    <3>1. /\ last \in Databases /\ last.pinnedFlag = new.pinnedFlag
          /\ last.profile = new.profile
          /\ last.reservations = new.reservations
          /\ last.optedIn = new.optedIn
      BY <2>1, WiredKeepsHolds
    <3>2. QED
      BY <1>3, <3>1
  <2> DEFINE dbs == <<new, last>>
  <2>3. EnrollStatements(m, p) = dbs
    BY <1>4 DEF EnrollStatements, new
  <2> HIDE DEF last
  <2>4. dbs \in Seq(Databases) /\ dbs # <<>> /\ dbs[Len(dbs)] = last
    BY <2>1, <2>2
  <2> HIDE DEF dbs
  <2>5. /\ Settled = Database /\ Settled' = last
        /\ up = TRUE /\ up' = up /\ clock' = clock
    BY <2>3, <2>4, RunLeads
  <2>6. R!Registered(m)
    BY <1>2, <1>4, <2>5, SamePredicates
  <2>7. QED
    BY <1>2, <1>3, <2>2, <2>5, <2>6 DEF R!Enroll
<1>5. CASE ~Registered(m)
  <2> DEFINE hold == PermanentHold(m, Admin, p)
             last == Inserted(new, hold)
             dbs == <<new, last>>
  <2>1. hold \in Reservation /\ hold.mac = m /\ hold.kind = "permanent"
    BY HoldRow
  <2>2. /\ last \in Databases /\ last.pinnedFlag = TRUE
        /\ last.profile = new.profile
        /\ last.reservations = reservations \cup {hold}
        /\ last.optedIn = optedIn \ {m}
    BY <1>3, <2>1, InsertedTables
  <2>3. EnrollStatements(m, p) = dbs
    BY <1>5 DEF EnrollStatements, new
  <2> HIDE DEF last
  <2>4. dbs \in Seq(Databases) /\ dbs # <<>> /\ dbs[Len(dbs)] = last
    BY <1>3, <2>2
  <2> HIDE DEF dbs
  <2>5. /\ Settled = Database /\ Settled' = last
        /\ up = TRUE /\ up' = up /\ clock' = clock
    BY <2>3, <2>4, RunLeads
  <2>6. ~R!Registered(m)
    BY <1>2, <1>5, <2>5, SamePredicates
  <2>7. R!PermanentHold(m, Admin, p) = hold
    BY DEF R!PermanentHold, PermanentHold
  <2>8. QED
    BY <1>2, <1>3, <2>2, <2>5, <2>6, <2>7 DEF R!Enroll
<1>6. QED
  BY <1>4, <1>5

\* remove
LEMMA RemoveImplements ==
    ASSUME StatementsIInv, NEW m \in Macs, RemoveMachine(m)
    PROVE  R!Remove(m)
<1> DEFINE free == Freed(Database, RowsOn(m))
           gone == Dropped(free, m)
           dbs == <<free, gone>>
<1>1. up /\ todo = <<>> /\ Registered(m) /\ Run(dbs)
  BY DEF RemoveMachine, RemoveStatements, Run
<1>2. /\ Database \in Databases
      /\ Database.pinnedFlag = TRUE /\ Database.profile = profile
      /\ Database.reservations = reservations /\ Database.optedIn = optedIn
  BY <1>1, AtRest
<1>3. /\ free \in Databases /\ free.pinnedFlag = TRUE
      /\ free.profile = profile /\ free.optedIn = optedIn
      /\ free.reservations = reservations \ RowsOn(m)
  BY <1>2, FreedTables
<1>4. /\ gone \in Databases /\ gone.pinnedFlag = TRUE
      /\ gone.profile = [profile EXCEPT ![m] = NULL]
      /\ gone.optedIn = optedIn \ {m}
      /\ gone.reservations = reservations \ RowsOn(m)
  BY <1>3, DroppedTables
<1> HIDE DEF free, gone
<1>5. dbs \in Seq(Databases) /\ dbs # <<>> /\ dbs[Len(dbs)] = gone
  BY <1>3, <1>4
<1> HIDE DEF dbs
<1>6. /\ Settled = Database /\ Settled' = gone
      /\ up = TRUE /\ up' = up /\ clock' = clock
  BY <1>1, <1>5, RunLeads
<1>7. R!Registered(m) /\ R!ReleaseUnreleased({m}) = reservations \ RowsOn(m)
  BY <1>1, <1>2, <1>6, SamePredicates DEF ReleaseUnreleased, RowsOn
<1>8. QED
  BY <1>2, <1>4, <1>6, <1>7 DEF R!Remove

\* set_profile
LEMMA SwitchImplements ==
    ASSUME StatementsIInv, NEW m \in Macs, NEW p \in Profiles,
           SwitchProfile(m, p)
    PROVE  R!SetProfile(m, p)
<1> DEFINE db == Switched(Database, m, p)
           dbs == <<db>>
<1>1. up /\ todo = <<>> /\ Registered(m) /\ Run(dbs)
  BY DEF SwitchProfile, Run
<1>2. /\ Database \in Databases
      /\ Database.pinnedFlag = TRUE /\ Database.profile = profile
      /\ Database.reservations = reservations /\ Database.optedIn = optedIn
  BY <1>1, AtRest
<1>3. /\ db \in Databases /\ db.pinnedFlag = TRUE
      /\ db.profile = [profile EXCEPT ![m] = p] /\ db.optedIn = optedIn
      /\ db.reservations = reservations
  BY <1>2, SwitchedTables
<1> HIDE DEF db
<1>4. dbs \in Seq(Databases) /\ dbs # <<>> /\ dbs[Len(dbs)] = db
  BY <1>3
<1> HIDE DEF dbs
<1>5. /\ Settled = Database /\ Settled' = db
      /\ up = TRUE /\ up' = up /\ clock' = clock
  BY <1>1, <1>4, RunLeads
<1>6. R!Registered(m)
  BY <1>1, <1>2, <1>5, SamePredicates
<1>7. QED
  BY <1>2, <1>3, <1>5, <1>6 DEF R!SetProfile

\* pin
LEMMA PinImplements ==
    ASSUME StatementsIInv, NEW m \in Macs, NEW p \in Profiles \cup {NULL},
           PinMachine(m, p)
    PROVE  R!Pin(m, Admin, p)
<1> DEFINE free == Freed(Database, RowsOn(m))
           hold == PermanentHold(m, Admin, p)
           held == Inserted(free, hold)
           last == Switched(held, m, p)
           dbs == IF p = NULL THEN <<free, held>> ELSE <<free, held, last>>
           end == IF p = NULL THEN held ELSE last
<1>1. up /\ todo = <<>> /\ Registered(m) /\ Run(dbs)
  BY DEF PinMachine, PinStatements, Run
<1>2. /\ Database \in Databases
      /\ Database.pinnedFlag = TRUE /\ Database.profile = profile
      /\ Database.reservations = reservations /\ Database.optedIn = optedIn
  BY <1>1, AtRest
<1>3. /\ free \in Databases /\ free.pinnedFlag = TRUE
      /\ free.profile = profile /\ free.optedIn = optedIn
      /\ free.reservations = reservations \ RowsOn(m)
  BY <1>2, FreedTables
<1>4. hold \in Reservation /\ hold.mac = m /\ hold.kind = "permanent"
  BY HoldRow
<1> HIDE DEF free, hold, held, last
<1>5. /\ held \in Databases /\ held.pinnedFlag = TRUE
      /\ held.profile = profile /\ held.optedIn = optedIn \ {m}
      /\ held.reservations = (reservations \ RowsOn(m)) \cup {hold}
  BY <1>3, <1>4, InsertedTables DEF held
<1>6. p # NULL =>
          /\ last \in Databases /\ last.pinnedFlag = TRUE
          /\ last.profile = [profile EXCEPT ![m] = p]
          /\ last.optedIn = held.optedIn
          /\ last.reservations = held.reservations
  <2> SUFFICES ASSUME p # NULL
               PROVE  /\ last \in Databases /\ last.pinnedFlag = TRUE
                      /\ last.profile = [profile EXCEPT ![m] = p]
                      /\ last.optedIn = held.optedIn
                      /\ last.reservations = held.reservations
    OBVIOUS
  <2>1. held \in Databases /\ p \in Profiles
    BY <1>5
  <2>2. /\ last \in Databases /\ last.pinnedFlag = held.pinnedFlag
        /\ last.profile = [held.profile EXCEPT ![m] = p]
        /\ last.optedIn = held.optedIn
        /\ last.reservations = held.reservations
    BY <2>1, SwitchedTables DEF last
  <2>3. QED
    BY <1>5, <2>2
<1>7. dbs \in Seq(Databases) /\ dbs # <<>> /\ dbs[Len(dbs)] = end
  <2>1. CASE p = NULL
    BY <2>1, <1>3, <1>5
  <2>2. CASE p # NULL
    BY <2>2, <1>3, <1>5, <1>6
  <2>3. QED
    BY <2>1, <2>2
<1>8. /\ end.pinnedFlag = TRUE /\ end.optedIn = optedIn \ {m}
      /\ end.profile = IF p = NULL THEN profile ELSE [profile EXCEPT ![m] = p]
      /\ end.reservations = (reservations \ RowsOn(m)) \cup {hold}
  BY <1>5, <1>6
<1> HIDE DEF dbs, end
<1>9. /\ Settled = Database /\ Settled' = end
      /\ up = TRUE /\ up' = up /\ clock' = clock
  BY <1>1, <1>7, RunLeads
<1>10. /\ R!Registered(m)
       /\ R!ReleaseUnreleased({m}) = reservations \ RowsOn(m)
       /\ R!PermanentHold(m, Admin, p) = hold
  BY <1>1, <1>2, <1>9, SamePredicates
     DEF ReleaseUnreleased, RowsOn, R!PermanentHold, PermanentHold, hold
<1>11. QED
  BY <1>2, <1>8, <1>9, <1>10 DEF R!Pin

\* release_to_pool: a permanent hold is always active.
LEMMA OptInImplements ==
    ASSUME StatementsIInv, NEW m \in Macs, OptIn(m)
    PROVE  R!ReleaseToPool(m)
<1> DEFINE rows == {r \in RowsOn(m) : r.kind = "permanent"}
           free == Freed(Database, rows)
           db == [free EXCEPT !.optedIn = @ \cup {m}]
           dbs == <<db>>
<1>1. up /\ todo = <<>> /\ Registered(m) /\ Run(dbs)
  BY DEF OptIn, Run
<1>2. /\ Database \in Databases /\ Sound(Database)
      /\ Database.pinnedFlag = TRUE /\ Database.profile = profile
      /\ Database.reservations = reservations /\ Database.optedIn = optedIn
  BY <1>1, AtRest
<1>3. optedIn \in SUBSET Macs
  BY <1>2 DEF Databases
<1>4. /\ free \in Databases /\ free.pinnedFlag = TRUE
      /\ free.profile = profile /\ free.optedIn = optedIn
      /\ free.reservations = reservations \ rows
  BY <1>2, FreedTables
<1> HIDE DEF free, rows
<1>5. /\ db \in Databases /\ db.pinnedFlag = TRUE
      /\ db.profile = profile /\ db.optedIn = optedIn \cup {m}
      /\ db.reservations = reservations \ rows
  BY <1>3, <1>4 DEF Databases
<1> HIDE DEF db
<1>6. dbs \in Seq(Databases) /\ dbs # <<>> /\ dbs[Len(dbs)] = db
  BY <1>5
<1> HIDE DEF dbs
<1>7. /\ Settled = Database /\ Settled' = db
      /\ up = TRUE /\ up' = up /\ clock' = clock
  BY <1>1, <1>6, RunLeads
<1>8. R!Registered(m)
  BY <1>1, <1>2, <1>7, SamePredicates
<1>9. \A r \in reservations : r.kind = "permanent" => R!Active(r)
  BY <1>2 DEF Sound, R!Active
<1>10. {r \in reservations : ~(r.mac = m /\ r.kind = "permanent" /\ R!Active(r))}
           = reservations \ rows
  BY <1>9 DEF rows, RowsOn
<1>11. QED
  BY <1>2, <1>5, <1>7, <1>8, <1>10 DEF R!ReleaseToPool

\* reserve
LEMMA ReserveImplements ==
    ASSUME StatementsIInv, NEW h \in Holders, NEW p \in Profiles, NEW n, NEW a,
           NEW ttl \in Ttls, ReserveMachines(h, p, n, a, ttl)
    PROVE  R!Reserve(h, p, n, a, ttl)
<1> DEFINE S == Leasable(a, n)
           t == clock + ttl
           last == PartlyLeased(S, S, S, h, p, t)
<1>1. PICK order \in Orders(S) : Run(LeaseStatements(order, h, p, t))
  BY DEF ReserveMachines
<1>2. /\ up /\ todo = <<>> /\ S # {} /\ t \in Nat
  BY <1>1 DEF ReserveMachines, Run, StatementsIInv, StatementsTypeOK
<1>3. /\ Database \in Databases
      /\ Database.pinnedFlag = TRUE /\ Database.profile = profile
      /\ Database.reservations = reservations /\ Database.optedIn = optedIn
  BY <1>2, AtRest
<1>4. S \in SUBSET Macs /\ \A m \in S : Registered(m) /\ ~Held(m)
  BY DEF Leasable, Free, FirstByMac
<1> HIDE DEF S, t
<1> DEFINE dbs == LeaseStatements(order, h, p, t)
<1>6. Run(dbs) /\ dbs = LeaseStatements(order, h, p, t)
  BY <1>1
<1> HIDE DEF dbs, last
<1>7. dbs \in Seq(Databases) /\ dbs # <<>>
  BY <1>2, <1>4, <1>6, LeasingDatabases
<1>8. dbs[Len(dbs)] = last
  BY <1>2, <1>4, <1>6, LeasingDatabases DEF last
<1>9. /\ Settled = Database /\ Settled' = last
       /\ up = TRUE /\ up' = up /\ clock' = clock
  BY <1>6, <1>7, <1>8, RunLeads
<1> DEFINE rows == ReleaseUnreleased(S) \cup {Lease(m, h, p, t) : m \in S}
           switched == [m \in Macs |-> IF m \in S THEN p ELSE profile[m]]
<1>10. last = [Database EXCEPT !.reservations = rows, !.profile = switched]
  BY DEF last, PartlyLeased
<1> HIDE DEF rows, switched
<1>11. /\ last.pinnedFlag = TRUE /\ last.optedIn = optedIn
       /\ last.reservations = rows /\ last.profile = switched
  BY <1>3, <1>10 DEF Databases
<1>12. /\ R!Leasable(a, n) = S
       /\ R!ReleaseUnreleased(S) = ReleaseUnreleased(S)
  BY <1>3, <1>9, SamePredicates DEF S
<1>13. \A m : R!Lease(m, h, p, t) = Lease(m, h, p, t)
  BY DEF R!Lease, Lease
<1>14. rows = R!ReleaseUnreleased(S) \cup {R!Lease(m, h, p, clock + ttl) : m \in S}
  BY <1>12, <1>13 DEF rows, t
<1>15. switched = [m \in Macs |-> IF m \in S THEN p ELSE Settled.profile[m]]
  BY <1>3, <1>9 DEF switched
<1>16. QED
  BY <1>3, <1>9, <1>11, <1>12, <1>14, <1>15 DEF R!Reserve

\* renew
LEMMA RenewImplements ==
    ASSUME StatementsIInv, NEW m \in Macs, NEW ttl \in Ttls, RenewLease(m, ttl)
    PROVE  R!Renew(m, ttl)
<1> DEFINE t == clock + ttl
           old == LeasesOn({m})
           renewed == {[r EXCEPT !.expires = t] : r \in old}
           db == [Database EXCEPT !.reservations = (@ \ old) \cup renewed]
           dbs == <<db>>
<1>1. up /\ todo = <<>> /\ old # {} /\ Run(dbs)
  BY DEF RenewLease, Run
<1>2. /\ Database \in Databases
      /\ Database.pinnedFlag = TRUE /\ Database.profile = profile
      /\ Database.reservations = reservations /\ Database.optedIn = optedIn
  BY <1>1, AtRest
<1>3. reservations \in SUBSET Reservation /\ t \in Nat
  BY <1>2 DEF Databases, StatementsIInv, StatementsTypeOK
<1>4. old \in SUBSET Reservation
  BY <1>3 DEF LeasesOn
<1> HIDE DEF t, old
<1>5. renewed \in SUBSET Reservation
  BY <1>3, <1>4, RenewedRow
<1> HIDE DEF renewed
<1>6. /\ db \in Databases /\ db.pinnedFlag = TRUE
      /\ db.profile = profile /\ db.optedIn = optedIn
      /\ db.reservations = (reservations \ old) \cup renewed
  BY <1>2, <1>3, <1>5 DEF Databases
<1> HIDE DEF db
<1>7. dbs \in Seq(Databases) /\ dbs # <<>> /\ dbs[Len(dbs)] = db
  BY <1>6
<1> HIDE DEF dbs
<1>8. /\ Settled = Database /\ Settled' = db
      /\ up = TRUE /\ up' = up /\ clock' = clock
  BY <1>1, <1>7, RunLeads
<1>9. R!LeasesOn({m}) = old
  BY <1>2, <1>8, SamePredicates DEF old
<1>10. renewed = {[r EXCEPT !.expires = clock + ttl] : r \in R!LeasesOn({m})}
  BY <1>9 DEF renewed, t
<1>11. QED
  BY <1>1, <1>2, <1>6, <1>8, <1>9, <1>10 DEF R!Renew

\* release and reap_expired free their rows one by one.
LEMMA FreeEachFrees ==
    ASSUME StatementsIInv, NEW rows \in SUBSET reservations, FreeEach(rows)
    PROVE  /\ Sound(Database) /\ Settled = Database /\ reservations \in SUBSET Reservation
           /\ Settled.pinnedFlag = TRUE /\ Settled.profile = profile
           /\ Settled.reservations = reservations /\ Settled.optedIn = optedIn
           /\ Settled'.pinnedFlag = TRUE /\ Settled'.profile = profile
           /\ Settled'.reservations = reservations \ rows
           /\ Settled'.optedIn = optedIn
           /\ up = TRUE /\ up' = up /\ clock' = clock
<1>1. PICK order \in Orders(rows) :
          Run([i \in 1..Len(order) |-> Freed(Database, FirstOf(order, i))])
  BY DEF FreeEach
<1> DEFINE free(i) == Freed(Database, FirstOf(order, i))
           n == Len(order)
           dbs == [i \in 1..n |-> free(i)]
<1>2. up /\ todo = <<>> /\ rows # {} /\ Run(dbs)
  BY <1>1 DEF FreeEach, Run
<1>3. /\ Database \in Databases /\ Sound(Database)
      /\ Database.pinnedFlag = TRUE /\ Database.profile = profile
      /\ Database.reservations = reservations /\ Database.optedIn = optedIn
  BY <1>2, AtRest
<1>4. IsFiniteSet(rows)
  BY <1>3, RowsAreFinite
<1>5. n \in Nat \ {0} /\ FirstOf(order, n) = rows
  BY <1>2, <1>4, OrderIsSequence
<1> HIDE DEF n
<1>6. \A i \in 1..n :
          /\ free(i) \in Databases /\ free(i).pinnedFlag = TRUE
          /\ free(i).profile = profile /\ free(i).optedIn = optedIn
          /\ free(i).reservations = reservations \ FirstOf(order, i)
  BY <1>3, FreedTables
<1> HIDE DEF free
<1>7. dbs \in Seq(Databases) /\ dbs # <<>> /\ dbs[Len(dbs)] = free(n)
  BY <1>5, <1>6
<1> HIDE DEF dbs
<1>8. /\ Settled = Database /\ Settled' = free(n)
      /\ up = TRUE /\ up' = up /\ clock' = clock
  BY <1>2, <1>7, RunLeads
<1>9. reservations \in SUBSET Reservation
  BY <1>3 DEF Databases
<1>10. /\ free(n).pinnedFlag = TRUE /\ free(n).profile = profile
       /\ free(n).optedIn = optedIn
       /\ free(n).reservations = reservations \ rows
  BY <1>5, <1>6
<1>11. QED
  BY <1>3, <1>8, <1>9, <1>10

\* release
LEMMA ReleaseImplements ==
    ASSUME StatementsIInv, NEW S, ReleaseLeases(S)
    PROVE  R!Release(S)
<1>1. LeasesOn(S) \in SUBSET reservations /\ FreeEach(LeasesOn(S))
  BY DEF LeasesOn, ReleaseLeases
<1>2. /\ Settled.pinnedFlag = TRUE /\ Settled.profile = profile
      /\ Settled.reservations = reservations /\ Settled.optedIn = optedIn
      /\ Settled'.pinnedFlag = TRUE /\ Settled'.profile = profile
      /\ Settled'.reservations = reservations \ LeasesOn(S)
      /\ Settled'.optedIn = optedIn
      /\ up = TRUE /\ up' = up /\ clock' = clock
  BY <1>1, FreeEachFrees
<1>3. R!LeasesOn(S) = LeasesOn(S)
  BY <1>2, SamePredicates
<1>4. QED
  BY <1>2, <1>3 DEF R!Release

\* reap_expired: the expired rows are all there is on their machines.
LEMMA ReapImplements == ASSUME StatementsIInv, ReapLeases PROVE R!ReapExpired
<1>1. ExpiredRows \in SUBSET reservations /\ FreeEach(ExpiredRows)
  BY DEF ExpiredRows, ReapLeases
<1>2. /\ Sound(Database) /\ Settled = Database
      /\ Settled.pinnedFlag = TRUE /\ Settled.profile = profile
      /\ Settled.reservations = reservations /\ Settled.optedIn = optedIn
      /\ Settled'.pinnedFlag = TRUE /\ Settled'.profile = profile
      /\ Settled'.reservations = reservations \ ExpiredRows
      /\ Settled'.optedIn = optedIn
      /\ up = TRUE /\ up' = up /\ clock' = clock
  BY <1>1, FreeEachFrees
<1>3. /\ R!ExpiredRows = ExpiredRows
      /\ \A S : R!ReleaseUnreleased(S) = ReleaseUnreleased(S)
  BY <1>2, SamePredicates
<1>4. \A r \in reservations, e \in ExpiredRows : r.mac = e.mac => r = e
  BY <1>1, <1>2 DEF Sound
<1>5. ReleaseUnreleased(MacsOf(ExpiredRows)) = reservations \ ExpiredRows
  BY <1>1, <1>4 DEF ReleaseUnreleased, MacsOf
<1>6. R!MacsOf(ExpiredRows) = MacsOf(ExpiredRows)
  BY DEF R!MacsOf, MacsOf
<1>7. QED
  BY <1>2, <1>3, <1>5, <1>6 DEF R!ReapExpired

\* The process starts, with the migration as one step.
LEMMA StartUpImplements == ASSUME StatementsIInv, StartUp PROVE R!Startup
<1>1. /\ ~up /\ up' = TRUE /\ clock' = clock /\ todo = <<>> /\ up = FALSE
      /\ Commit(IF pinnedFlag THEN <<Database>> ELSE MigrationStatements)
  BY DEF StartUp, StatementsIInv, StatementsTypeOK
<1>2. Database \in Databases /\ Settled = Database
  BY <1>1 DEF StatementsIInv, StatementsTypeOK, Settled
<1>3. /\ Database.pinnedFlag = pinnedFlag /\ Database.profile = profile
      /\ Database.reservations = reservations /\ Database.optedIn = optedIn
  BY DEF Database
<1>4. R!Unheld = Unheld
  BY <1>2, <1>3, SamePredicates
<1>5. \A m, p : R!PermanentHold(m, Admin, p) = PermanentHold(m, Admin, p)
  BY DEF R!PermanentHold, PermanentHold
<1>6. CASE pinnedFlag
  <2> DEFINE dbs == <<Database>>
  <2>1. dbs \in Seq(Databases) /\ dbs # <<>> /\ dbs[Len(dbs)] = Database
    BY <1>2
  <2>2. Commit(dbs)
    BY <1>1, <1>6
  <2> HIDE DEF dbs
  <2>3. Settled' = Database
    BY <2>1, <2>2, CommitSettles
  <2>4. Settled.pinnedFlag = TRUE
    BY <1>2, <1>3, <1>6 DEF Databases
  <2>5. QED
    BY <1>1, <1>2, <2>3, <2>4 DEF R!Startup
<1>7. CASE ~pinnedFlag
  <2> DEFINE rows == {PermanentHold(m, Admin, profile[m]) : m \in Unheld}
             pinned == [Database EXCEPT !.reservations = @ \cup rows]
             last == [pinned EXCEPT !.pinnedFlag = TRUE]
             dbs == <<pinned, last>>
  <2>1. MigrationStatements = dbs
    BY DEF MigrationStatements
  <2> HIDE DEF rows, pinned, last
  <2>2. pinned \in Databases /\ last \in Databases
    BY <1>1, <1>7, <2>1, MigrationTables
  <2>3. dbs \in Seq(Databases) /\ dbs # <<>> /\ dbs[Len(dbs)] = last
    BY <2>2
  <2>4. Commit(dbs)
    BY <1>1, <1>7, <2>1
  <2> HIDE DEF dbs
  <2>5. Settled' = last
    BY <2>3, <2>4, CommitSettles
  <2>6. /\ last.pinnedFlag = TRUE /\ last.profile = profile
        /\ last.reservations = reservations \cup rows
        /\ last.optedIn = optedIn
    BY <1>2, <1>3 DEF Databases, pinned, last
  <2>7. ~Settled.pinnedFlag
    BY <1>2, <1>3, <1>7
  <2>8. rows = {R!PermanentHold(m, Admin, Settled.profile[m]) : m \in R!Unheld}
    BY <1>2, <1>3, <1>4, <1>5 DEF rows
  <2>9. QED
    BY <1>1, <1>2, <1>3, <2>5, <2>6, <2>7, <2>8 DEF R!Startup
<1>8. QED
  BY <1>6, <1>7

\* A crash between two operations is the crash of Reservations.
LEMMA DieImplements == ASSUME StatementsIInv, Die PROVE CutShort \/ R!Crash
<1>1. /\ CanCrash /\ up /\ up' = FALSE /\ todo' = <<>> /\ clock' = clock
      /\ UNCHANGED tables
  BY DEF Die
<1>2. CASE todo # <<>>
  BY <1>1, <1>2 DEF CutShort
<1>3. CASE todo = <<>>
  <2>1. Database' = Database
    BY <1>1 DEF Database, tables
  <2>2. Settled' = Settled
    BY <1>1, <1>3, <2>1 DEF Settled
  <2>3. QED
    BY <1>1, <2>2 DEF R!Crash
<1>4. QED
  BY <1>2, <1>3

\* Time passes there as it does here.
LEMMA TimeImplements == ASSUME Time PROVE R!Tick
<1>1. /\ clock < MaxTime /\ clock' = clock + 1
      /\ UNCHANGED <<up, tables, todo>>
  BY DEF Time, Tick, tables
<1>2. Database' = Database
  BY <1>1 DEF Database, tables
<1>3. Settled' = Settled
  BY <1>1, <1>2 DEF Settled
<1>4. QED
  BY <1>1, <1>3 DEF R!Tick

\* What changes neither the holds nor a profile name is no step there.
LEMMA Stutters ==
    ASSUME UNCHANGED <<up, clock>>, Settled'.pinnedFlag = Settled.pinnedFlag,
           Settled'.profile = Settled.profile,
           Settled'.reservations = Settled.reservations,
           Settled'.optedIn = Settled.optedIn
    PROVE  UNCHANGED R!vars
BY DEF R!vars

\* Power columns and rules are not in Reservations.
LEMMA OtherTablesStutter ==
    ASSUME StatementsIInv, NEW db \in Databases, Run(<<db>>),
           db.pinnedFlag = TRUE, db.profile = profile,
           db.reservations = reservations, db.optedIn = optedIn
    PROVE  UNCHANGED R!vars
<1> DEFINE dbs == <<db>>
<1>1. up /\ todo = <<>> /\ Run(dbs)
  BY DEF Run
<1>2. dbs \in Seq(Databases) /\ dbs # <<>> /\ dbs[Len(dbs)] = db
  OBVIOUS
<1> HIDE DEF dbs
<1>3. /\ Settled = Database /\ Settled' = db /\ up' = up /\ clock' = clock
  BY <1>1, <1>2, RunLeads
<1>4. /\ Database.pinnedFlag = TRUE /\ Database.profile = profile
      /\ Database.reservations = reservations /\ Database.optedIn = optedIn
  BY <1>1, AtRest
<1>5. QED
  BY <1>3, <1>4, Stutters

LEMMA WireStutters ==
    ASSUME StatementsIInv, NEW m \in Macs, NEW w \in Wirings, Wire(m, w)
    PROVE  UNCHANGED R!vars
<1> DEFINE db == Wired(Database, m, w)
<1>1. up /\ todo = <<>> /\ Run(<<db>>)
  BY DEF Wire, Run
<1>2. /\ Database \in Databases
      /\ Database.pinnedFlag = TRUE /\ Database.profile = profile
      /\ Database.reservations = reservations /\ Database.optedIn = optedIn
  BY <1>1, AtRest
<1>3. /\ db \in Databases /\ db.pinnedFlag = Database.pinnedFlag
      /\ db.profile = Database.profile
      /\ db.reservations = Database.reservations
      /\ db.optedIn = Database.optedIn
  BY <1>2, WiredKeepsHolds
<1> HIDE DEF db
<1>4. QED
  BY <1>1, <1>2, <1>3, OtherTablesStutter

LEMMA ChangeRulesStutters ==
    ASSUME StatementsIInv, NEW i \in RuleIds,
           \/ \E r \in Rules : AddRule(i, r) \/ UpdateRule(i, r)
           \/ RemoveRule(i)
    PROVE  UNCHANGED R!vars
<1>1. PICK v \in Rules \cup {NULL} : Run(<<[Database EXCEPT !.rules[i] = v]>>)
  BY DEF AddRule, UpdateRule, RemoveRule
<1> DEFINE db == [Database EXCEPT !.rules[i] = v]
<1>2. up /\ todo = <<>> /\ Run(<<db>>)
  BY <1>1 DEF Run
<1>3. /\ Database \in Databases
      /\ Database.pinnedFlag = TRUE /\ Database.profile = profile
      /\ Database.reservations = reservations /\ Database.optedIn = optedIn
  BY <1>2, AtRest
<1>4. /\ db \in Databases /\ db.pinnedFlag = TRUE /\ db.profile = profile
      /\ db.reservations = reservations /\ db.optedIn = optedIn
  BY <1>3 DEF Databases
<1> HIDE DEF db
<1>5. QED
  BY <1>2, <1>4, OtherTablesStutter

\* A statement but the first leads where the operation was leading.
LEMMA ExecuteStutters == ASSUME StatementsIInv, Execute PROVE UNCHANGED R!vars
<1>1. /\ up' = up /\ clock' = clock /\ todo # <<>> /\ Commit(todo)
      /\ todo \in Seq(Databases)
  BY DEF Execute, StatementsIInv, StatementsTypeOK
<1>2. Settled' = Settled
  BY <1>1, CommitSettles DEF Settled
<1>3. QED
  BY <1>1, <1>2, Stutters

\* Readers without the lock change nothing.
LEMMA ReadersStutter ==
    ASSUME UNCHANGED <<vars, todo, wiring, rules>>
    PROVE  UNCHANGED R!vars
<1>1. Database' = Database
  BY DEF vars, Database
<1>2. Settled' = Settled
  BY <1>1 DEF Settled
<1>3. QED
  BY <1>2, Stutters DEF vars

\* A database from before reservations is one there too.
LEMMA InitImplements == StatementsInit => R!Init
<1> SUFFICES ASSUME StatementsInit PROVE R!Init
  OBVIOUS
<1>1. Init /\ todo = <<>>
  BY DEF StatementsInit
<1>2. Settled = Database
  BY <1>1 DEF Settled
<1>3. QED
  BY <1>1, <1>2 DEF Init, Database, R!Init

\* The enrolment of an unknown machine is an enrolment.
LEMMA EnrolByRuleImplements ==
    ASSUME StatementsIInv, NEW c \in Calls, EnrolByRule(c)
    PROVE  \E m \in Macs, p \in Profiles : R!Enroll(m, p)
<1> DEFINE r == resolving[c].rule
           m == resolving[c].mac
<1>1. /\ resolving[c] # NULL /\ r # NULL
      /\ Run(EnrollStatements(m, r.profile))
  BY DEF EnrolByRule
<1>2. resolving[c] \in Lookups
  BY <1>1 DEF StatementsIInv, StatementsTypeOK
<1>3. m \in Macs /\ r \in Rules
  BY <1>1, <1>2 DEF Lookups
<1>4. r.profile \in Profiles
  BY <1>3, RuleAssumption
<1> HIDE DEF m, r
<1>5. QED
  BY <1>1, <1>3, <1>4, EnrollImplements

\* What an admin does here is what an admin does there, or nothing.
LEMMA AdminImplements ==
    ASSUME StatementsIInv, AdminStatements
    PROVE  R!AdminStep \/ UNCHANGED R!vars
<1>1. ASSUME NEW m \in Macs, NEW p \in Profiles, EnrollManually(m, p)
      PROVE  R!AdminStep
  BY <1>1, EnrollImplements DEF EnrollManually, R!AdminStep
<1>2. ASSUME NEW m \in Macs, NEW p \in Profiles, SwitchProfile(m, p)
      PROVE  R!AdminStep
  BY <1>2, SwitchImplements DEF R!AdminStep
<1>3. ASSUME NEW m \in Macs, RemoveMachine(m) PROVE R!AdminStep
  BY <1>3, RemoveImplements DEF R!AdminStep
<1>4. ASSUME NEW m \in Macs, OptIn(m) PROVE R!AdminStep
  BY <1>4, OptInImplements DEF R!AdminStep
<1>5. ASSUME NEW m \in Macs, NEW p \in Profiles \cup {NULL}, PinMachine(m, p)
      PROVE  R!AdminStep
  BY <1>5, PinImplements DEF R!AdminStep
<1>6. ASSUME NEW m \in Macs, NEW w \in Wirings, Wire(m, w)
      PROVE  UNCHANGED R!vars
  BY <1>6, WireStutters
<1>7. ASSUME NEW i \in RuleIds,
             \/ \E r \in Rules : AddRule(i, r) \/ UpdateRule(i, r)
             \/ RemoveRule(i)
      PROVE  UNCHANGED R!vars
  BY <1>7, ChangeRulesStutters
<1>8. QED
  BY <1>1, <1>2, <1>3, <1>4, <1>5, <1>6, <1>7 DEF AdminStatements, RuleStatements

\* What an agent does here is what an agent does there.
LEMMA AgentImplements ==
    ASSUME StatementsIInv, AgentStatements PROVE R!AgentStep
<1>1. ASSUME NEW h \in Holders, NEW p \in Profiles, NEW n \in 1..Cardinality(Macs),
             NEW a \in Architectures \cup {NULL}, NEW ttl \in Ttls,
             ReserveMachines(h, p, n, a, ttl)
      PROVE  R!AgentStep
  <2>1. R!Reserve(h, p, n, a, ttl)
    BY <1>1, ReserveImplements
  <2>2. n \in 1..R!Cardinality(Macs)
    BY SameCardinality
  <2>3. QED
    BY <2>1, <2>2 DEF R!AgentStep
<1>2. ASSUME NEW m \in Macs, NEW ttl \in Ttls, RenewLease(m, ttl)
      PROVE  R!AgentStep
  BY <1>2, RenewImplements DEF R!AgentStep
<1>3. ASSUME NEW S \in SUBSET Macs, ReleaseLeases(S) PROVE R!AgentStep
  BY <1>3, ReleaseImplements DEF R!AgentStep
<1>4. QED
  BY <1>1, <1>2, <1>3 DEF AgentStatements

\* Every step is a step there, a stutter, or a crash that cuts short.
LEMMA NextImplements ==
    ASSUME StatementsIInv, [StatementsNext]_allVars
    PROVE  [CutShort \/ R!Next]_(R!vars)
<1>1. CASE AdminStatements
  BY <1>1, AdminImplements DEF R!Next
<1>2. CASE AgentStatements
  BY <1>2, AgentImplements DEF R!Next
<1>3. CASE ReapLeases
  BY <1>3, ReapImplements DEF R!Next
<1>4. CASE Resolution
  <2>1. ASSUME NEW c \in Calls, EnrolByRule(c) PROVE R!Next
    BY <2>1, EnrolByRuleImplements DEF R!Next, R!AdminStep
  <2>2. ASSUME NEW c \in Calls, FindRule(c) \/ \E m \in Macs : LookUp(c, m)
        PROVE  UNCHANGED R!vars
    BY <2>2, ReadersStutter DEF FindRule, LookUp
  <2>3. QED
    BY <1>4, <2>1, <2>2 DEF Resolution
<1>5. CASE Execute
  BY <1>5, ExecuteStutters
<1>6. CASE StartUp
  BY <1>6, StartUpImplements DEF R!Next
<1>7. CASE Die
  BY <1>7, DieImplements DEF R!Next
<1>8. CASE Time
  BY <1>8, TimeImplements DEF R!Next
<1>9. CASE UNCHANGED allVars
  BY <1>9, ReadersStutter DEF allVars
<1>10. QED
  BY <1>1, <1>2, <1>3, <1>4, <1>5, <1>6, <1>7, <1>8, <1>9 DEF StatementsNext

\* Whatever is not cut short by a crash is a step of Reservations, however
\* the operations of admins, agents, the reaper and /resolve interleave.
THEOREM OperationsAreAtomic == StatementsSpec => ImplementsReservations
<1>1. StatementsIInv /\ [StatementsNext]_allVars
          => [CutShort \/ R!Next]_(R!vars)
  BY NextImplements
<1>2. QED
  BY <1>1, InitImplements, StatementsInvariance, PTL
     DEF StatementsSpec, ImplementsReservations

\* While the process is not restarted nothing is cut short, and the registry
\* executed statement by statement is the registry of module Reservations.
THEOREM AtomicWithoutCrashes ==
    ASSUME ~CanCrash PROVE StatementsSpec => R!Spec
<1>1. ASSUME StatementsIInv, [StatementsNext]_allVars PROVE ~CutShort
  <2> SUFFICES ASSUME todo # <<>>, ~up' PROVE FALSE
    BY DEF CutShort
  <2>1. up
    <3>1. IF up THEN Settled.pinnedFlag ELSE todo = <<>>
      BY <1>1 DEF StatementsIInv
    <3>2. QED
      BY <3>1
  <2>2. up' = up
    <3>1. ASSUME NEW dbs, Run(dbs) PROVE FALSE
      BY <3>1 DEF Run
    <3>2. ~AdminStatements
      BY <3>1 DEF AdminStatements, EnrollManually, SwitchProfile, RemoveMachine,
                  OptIn, PinMachine, Wire, RuleStatements, RemoveRule, AddRule,
                  UpdateRule
    <3>3. ~AgentStatements
      BY <3>1 DEF AgentStatements, ReserveMachines, RenewLease, ReleaseLeases,
                  FreeEach
    <3>4. ~ReapLeases
      BY <3>1 DEF ReapLeases, FreeEach
    <3>5. CASE Resolution
      BY <3>1, <3>5 DEF Resolution, LookUp, FindRule, EnrolByRule, vars
    <3>6. CASE Execute \/ StartUp \/ Die \/ Time \/ UNCHANGED allVars
      BY <2>1, <3>6 DEF Execute, StartUp, Die, Time, Tick, allVars, vars
    <3>7. QED
      BY <1>1, <3>2, <3>3, <3>4, <3>5, <3>6 DEF StatementsNext
  <2>3. QED
    BY <2>1, <2>2
<1>2. StatementsIInv /\ [StatementsNext]_allVars => [R!Next]_(R!vars)
  BY <1>1, NextImplements
<1>3. QED
  BY <1>2, InitImplements, StatementsInvariance, PTL DEF StatementsSpec, R!Spec

=============================================================================
