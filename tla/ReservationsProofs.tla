------------------------- MODULE ReservationsProofs -------------------------
(* Proofs about module Reservations. *)
EXTENDS Reservations, FiniteSetTheorems, TLAPS

USE MacsAssumption, NullAssumption, TtlAssumption

(***************************************************************************)
(* The rows the operations build are reservations.                         *)
(***************************************************************************)

\* enroll, pin and the migration insert a row that never expires.
LEMMA PermanentHoldType ==
    ASSUME NEW m \in Macs, NEW p \in Profiles \cup {NULL}
    PROVE  PermanentHold(m, Admin, p) \in Reservation
BY DEF PermanentHold, Reservation, Kinds

\* reserve inserts a row that expires.
LEMMA LeaseType ==
    ASSUME NEW m \in Macs, NEW h \in Holders, NEW p \in Profiles,
           NEW t \in Nat
    PROVE  Lease(m, h, p, t) \in Reservation
BY DEF Lease, Reservation, Kinds

\* renew changes nothing but the expiry.
LEMMA RenewedRow ==
    ASSUME NEW r \in Reservation, NEW t \in Nat
    PROVE  /\ [r EXCEPT !.expires = t] \in Reservation
           /\ [r EXCEPT !.expires = t].mac = r.mac
           /\ [r EXCEPT !.expires = t].kind = r.kind
           /\ [r EXCEPT !.expires = t].expires = t
BY DEF Reservation

\* A reserve call leases registered machines without an active hold.
LEMMA LeasableIsFree ==
    ASSUME NEW a, NEW n, NEW m \in Leasable(a, n)
    PROVE  m \in Macs /\ Registered(m) /\ ~Held(m)
BY DEF Leasable, Free, FirstByMac

(***************************************************************************)
(* ORDER BY m.mac LIMIT n.                                                 *)
(***************************************************************************)

\* The rows of S before m, in the order of the query.
Before(S, m) == {k \in S : k < m}

\* A row's place in the order: no two rows have the same, and none is left
\* empty.
LEMMA Places ==
    ASSUME NEW S \in SUBSET Macs
    PROVE  [m \in S |-> Cardinality(Before(S, m))]
               \in Bijection(S, 0..(Cardinality(S) - 1))
<1> DEFINE N == Cardinality(S)
           place(m) == Cardinality(Before(S, m))
           places == [m \in S |-> place(m)]
<1>1. IsFiniteSet(S) /\ N \in Nat
  BY FS_Subset, FS_CardinalityType
<1>2. \A m \in S : IsFiniteSet(Before(S, m)) /\ place(m) \in Nat
  BY <1>1, FS_Subset, FS_CardinalityType DEF Before
<1>3. ASSUME NEW k \in S, NEW m \in S, k < m PROVE place(k) < place(m)
  <2>1. Before(S, k) \in SUBSET Before(S, m)
    <3>1. \A j \in S : j \in Nat
      OBVIOUS
    <3>2. \A j \in S : j < k => j < m
      BY <1>3, <3>1
    <3>3. QED
      BY <3>2 DEF Before
  <2>2. k \in Before(S, m) /\ k \notin Before(S, k)
    BY <1>3 DEF Before
  <2>3. place(k) <= place(m) /\ place(m) # place(k)
    BY <1>2, <2>1, <2>2, FS_Subset
  <2>4. QED
    BY <1>2, <2>3
<1>4. ASSUME NEW m \in S PROVE place(m) \in 0..(N - 1)
  <2>1. Before(S, m) \in SUBSET S /\ m \in S /\ m \notin Before(S, m)
    BY DEF Before
  <2>2. place(m) <= N /\ N # place(m)
    BY <1>1, <2>1, FS_Subset
  <2>3. QED
    BY <1>1, <1>2, <2>2
<1> HIDE DEF N, place
<1>5. places \in Injection(S, 0..(N - 1))
  <2>1. places \in [S -> 0..(N - 1)]
    BY <1>4
  <2>2. ASSUME NEW k \in S, NEW m \in S, place(k) = place(m) PROVE k = m
    <3>1. k \in Nat /\ m \in Nat
      OBVIOUS
    <3>2. ~(k < m) /\ ~(m < k)
      BY <1>2, <1>3, <2>2
    <3>3. QED
      BY <3>1, <3>2
  <2>3. QED
    BY <2>1, <2>2 DEF Injection, IsInjective
<1>6. IsFiniteSet(0..(N - 1)) /\ Cardinality(0..(N - 1)) = N
  <2>1. 0 \in Int /\ N - 1 \in Int
    BY <1>1
  <2>2. /\ IsFiniteSet(0..(N - 1))
        /\ Cardinality(0..(N - 1)) = IF 0 > N - 1 THEN 0 ELSE (N - 1) - 0 + 1
    BY <2>1, FS_Interval
  <2>3. QED
    BY <1>1, <2>2
<1>7. places \in Surjection(S, 0..(N - 1))
  <2>1. Cardinality(S) = Cardinality(0..(N - 1))
    BY <1>6 DEF N
  <2>2. QED
    BY <1>5, <1>6, <2>1, FS_Injection
<1>8. QED
  BY <1>5, <1>7 DEF Bijection, N, place

\* LIMIT n takes n rows, or all where there are fewer.
LEMMA LimitTakes ==
    ASSUME NEW S \in SUBSET Macs, NEW n \in Nat
    PROVE  Cardinality(FirstByMac(S, n)) =
               IF Cardinality(S) < n THEN Cardinality(S) ELSE n
<1> DEFINE N == Cardinality(S)
           L == IF N < n THEN N ELSE n
           F == FirstByMac(S, n)
           places == [m \in S |-> Cardinality(Before(S, m))]
           first == [m \in F |-> places[m]]
<1>1. N \in Nat /\ L \in Nat
  BY FS_Subset, FS_CardinalityType
<1>2. F = {m \in S : places[m] < n}
  BY DEF FirstByMac, Before
<1>3. /\ places \in [S -> 0..(N - 1)]
      /\ \A k, m \in S : places[k] = places[m] => k = m
      /\ \A i \in 0..(N - 1) : \E m \in S : places[m] = i
  BY Places DEF Bijection, Injection, IsInjective, Surjection
<1> HIDE DEF N, places, F
<1>4. \A m \in F : m \in S /\ places[m] \in 0..(L - 1)
  BY <1>1, <1>2, <1>3
<1>5. first \in Injection(F, 0..(L - 1))
  BY <1>3, <1>4 DEF Injection, IsInjective
<1>6. first \in Surjection(F, 0..(L - 1))
  <2>1. first \in [F -> 0..(L - 1)]
    BY <1>4
  <2>2. ASSUME NEW i \in 0..(L - 1) PROVE \E m \in F : first[m] = i
    <3>1. i \in 0..(N - 1) /\ i < n
      BY <1>1
    <3>2. PICK m \in S : places[m] = i
      BY <1>3, <3>1
    <3>3. m \in F
      BY <1>2, <3>1, <3>2
    <3>4. QED
      BY <3>2, <3>3
  <2>3. QED
    BY <2>1, <2>2 DEF Surjection
<1>7. IsFiniteSet(0..(L - 1)) /\ Cardinality(0..(L - 1)) = L
  <2>1. 0 \in Int /\ L - 1 \in Int
    BY <1>1
  <2>2. /\ IsFiniteSet(0..(L - 1))
        /\ Cardinality(0..(L - 1)) = IF 0 > L - 1 THEN 0 ELSE (L - 1) - 0 + 1
    BY <2>1, FS_Interval
  <2>3. QED
    BY <1>1, <2>2
<1>8. Cardinality(F) = Cardinality(0..(L - 1))
  BY <1>5, <1>6, <1>7, FS_Injection
<1>9. QED
  BY <1>7, <1>8 DEF N, F

(***************************************************************************)
(* The inductive invariant, one theorem per group of operations.           *)
(***************************************************************************)

\* The invariant holds of every database from before reservations.
LEMMA InitIInv == Init => IInv
<1> SUFFICES ASSUME Init PROVE IInv
  OBVIOUS
<1>1. TypeOK
  BY DEF Init, TypeOK
<1>2. NoRowsBeforeMigration /\ PoolIsOptIn
  BY DEF Init, NoRowsBeforeMigration, PoolIsOptIn
<1>3. /\ RowsWellFormed /\ LeasedMachinesAreOptedIn
      /\ UniqueIndexNeverConflicts /\ NoOrphanHold
  BY DEF Init, RowsWellFormed, LeasedMachinesAreOptedIn,
         UniqueIndexNeverConflicts, NoOrphanHold
<1>4. QED
  BY <1>1, <1>2, <1>3 DEF IInv

\* A step that changes neither the holds nor which machines are registered
\* keeps the invariant.
LEMMA SameRowsIInv ==
    ASSUME IInv,
           UNCHANGED <<up, pinnedFlag, reservations, optedIn>>,
           clock' \in Nat,
           profile' \in [Macs -> Profiles \cup {NULL}],
           \A k \in Macs : Registered(k)' <=> Registered(k)
    PROVE  IInv'
<1>1. TypeOK'
  BY DEF IInv, TypeOK
<1>2. NoRowsBeforeMigration'
  BY DEF IInv, NoRowsBeforeMigration
<1>3. RowsWellFormed' /\ LeasedMachinesAreOptedIn' /\ UniqueIndexNeverConflicts'
  BY DEF IInv, RowsWellFormed, LeasedMachinesAreOptedIn,
         UniqueIndexNeverConflicts
<1>4. NoOrphanHold'
  BY DEF IInv, NoOrphanHold, TypeOK, Reservation
<1>5. \A m \in Macs : PermanentlyHeld(m)' <=> PermanentlyHeld(m)
  BY DEF PermanentlyHeld
<1>6. PoolIsOptIn'
  BY <1>5 DEF IInv, PoolIsOptIn
<1>7. QED
  BY <1>1, <1>2, <1>3, <1>4, <1>6 DEF IInv

\* enroll keeps the invariant: a machine not registered has no row to
\* conflict with the permanent hold it gets.
LEMMA EnrollIInv ==
    ASSUME IInv, NEW m \in Macs, NEW p \in Profiles, Enroll(m, p)
    PROVE  IInv'
<1>1. CASE Registered(m)
  <2>1. /\ UNCHANGED <<up, pinnedFlag, reservations, clock, optedIn>>
        /\ clock' \in Nat
        /\ profile' \in [Macs -> Profiles \cup {NULL}]
        /\ \A k \in Macs : Registered(k)' <=> Registered(k)
    BY <1>1 DEF Enroll, IInv, TypeOK, Registered
  <2>2. QED
    BY <2>1, SameRowsIInv
<1>2. CASE ~Registered(m)
  <2> DEFINE new == PermanentHold(m, Admin, p)
  <2>1. /\ new \in Reservation /\ new.mac = m
        /\ new.kind = "permanent" /\ new.expires = NULL
    BY PermanentHoldType DEF PermanentHold
  <2>2. reservations' = reservations \cup {new} /\ optedIn' = optedIn \ {m}
    BY <1>2 DEF Enroll
  <2>3. \A r \in reservations : r.mac # m
    BY <1>2 DEF IInv, NoOrphanHold
  <2> HIDE DEF new
  <2>4. QED
    BY <1>2, <2>1, <2>2, <2>3
    DEF IInv, TypeOK, RowsWellFormed, NoRowsBeforeMigration,
        LeasedMachinesAreOptedIn, UniqueIndexNeverConflicts, NoOrphanHold,
        PoolIsOptIn, Enroll, Registered, PermanentlyHeld
<1>3. QED
  BY <1>1, <1>2

\* pin keeps the invariant: the machine's rows are released before the new
\* one is inserted.
LEMMA PinIInv ==
    ASSUME IInv, NEW m \in Macs, NEW p \in Profiles \cup {NULL},
           Pin(m, Admin, p)
    PROVE  IInv'
<1> DEFINE new == PermanentHold(m, Admin, p)
<1>1. /\ new \in Reservation /\ new.mac = m
      /\ new.kind = "permanent" /\ new.expires = NULL
  BY PermanentHoldType DEF PermanentHold
<1>2. /\ reservations' = {r \in reservations : r.mac # m} \cup {new}
      /\ optedIn' = optedIn \ {m}
      /\ Registered(m) /\ up
      /\ UNCHANGED <<up, pinnedFlag, clock>>
      /\ profile' = IF p = NULL THEN profile ELSE [profile EXCEPT ![m] = p]
  BY DEF Pin, ReleaseUnreleased
<1> HIDE DEF new
<1>3. QED
  BY <1>1, <1>2
  DEF IInv, TypeOK, RowsWellFormed, NoRowsBeforeMigration,
      LeasedMachinesAreOptedIn, UniqueIndexNeverConflicts, NoOrphanHold,
      PoolIsOptIn, Registered, PermanentlyHeld

\* remove keeps the invariant: the machine's rows go with it.
LEMMA RemoveIInv ==
    ASSUME IInv, NEW m \in Macs, Remove(m) PROVE IInv'
BY DEF IInv, TypeOK, RowsWellFormed, NoRowsBeforeMigration,
       LeasedMachinesAreOptedIn, UniqueIndexNeverConflicts, NoOrphanHold,
       PoolIsOptIn, Remove, Registered, PermanentlyHeld, ReleaseUnreleased

\* set_profile keeps the invariant.
LEMMA SetProfileIInv ==
    ASSUME IInv, NEW m \in Macs, NEW p \in Profiles, SetProfile(m, p)
    PROVE  IInv'
<1>1. /\ UNCHANGED <<up, pinnedFlag, reservations, clock, optedIn>>
      /\ clock' \in Nat
      /\ profile' \in [Macs -> Profiles \cup {NULL}]
      /\ \A k \in Macs : Registered(k)' <=> Registered(k)
  BY DEF SetProfile, IInv, TypeOK, Registered
<1>2. QED
  BY <1>1, SameRowsIInv

\* release_to_pool keeps the invariant: a permanent row is always active, so
\* every one the machine has is released.
LEMMA ReleaseToPoolIInv ==
    ASSUME IInv, NEW m \in Macs, ReleaseToPool(m) PROVE IInv'
<1>1. reservations' =
          {r \in reservations : ~(r.mac = m /\ r.kind = "permanent")}
  BY DEF ReleaseToPool, Active, IInv, RowsWellFormed
<1>2. QED
  BY <1>1
  DEF IInv, TypeOK, RowsWellFormed, NoRowsBeforeMigration,
      LeasedMachinesAreOptedIn, UniqueIndexNeverConflicts, NoOrphanHold,
      PoolIsOptIn, ReleaseToPool, Registered, PermanentlyHeld

\* reserve keeps the invariant: the machines it leases are in the pool, and
\* whatever row they still had is released first.
LEMMA ReserveIInv ==
    ASSUME IInv, NEW h \in Holders, NEW p \in Profiles, NEW n, NEW a,
           NEW ttl \in Ttls, Reserve(h, p, n, a, ttl)
    PROVE  IInv'
<1> DEFINE leased == Leasable(a, n)
           new == {Lease(m, h, p, clock + ttl) : m \in leased}
           kept == {r \in reservations : r.mac \notin leased}
<1>1. \A m \in leased : m \in Macs /\ Registered(m) /\ ~Held(m)
  BY LeasableIsFree
<1>2. clock + ttl \in Nat
  BY DEF IInv, TypeOK
<1>3. \A r \in new : /\ r \in Reservation /\ r.mac \in leased
                     /\ r.kind = "lease" /\ r.expires = clock + ttl
                     /\ r = Lease(r.mac, h, p, clock + ttl)
  BY <1>1, <1>2, LeaseType DEF Lease
<1>4. /\ reservations' = kept \cup new
      /\ up
      /\ UNCHANGED <<up, pinnedFlag, clock, optedIn>>
      /\ profile' = [m \in Macs |-> IF m \in leased THEN p ELSE profile[m]]
  BY DEF Reserve, ReleaseUnreleased
<1>5. \A m \in leased : m \in optedIn
  <2> SUFFICES ASSUME NEW m \in leased PROVE m \in optedIn
    OBVIOUS
  <2>1. ~PermanentlyHeld(m)
    BY <1>1 DEF Held, PermanentlyHeld, Active, IInv, RowsWellFormed
  <2>2. QED
    BY <1>1, <1>4, <2>1 DEF IInv, PoolIsOptIn, NoRowsBeforeMigration
<1>6. pinnedFlag
  BY <1>4 DEF IInv, NoRowsBeforeMigration
<1> HIDE DEF leased, new
<1>7. TypeOK'
  BY <1>3, <1>4 DEF IInv, TypeOK
<1>8. RowsWellFormed' /\ LeasedMachinesAreOptedIn' /\ NoRowsBeforeMigration'
  BY <1>2, <1>3, <1>4, <1>5, <1>6
  DEF IInv, RowsWellFormed, LeasedMachinesAreOptedIn, NoRowsBeforeMigration
<1>9. UniqueIndexNeverConflicts'
  <2> SUFFICES ASSUME NEW r \in reservations', NEW s \in reservations',
                      r.mac = s.mac
               PROVE  r = s
    BY DEF UniqueIndexNeverConflicts
  <2>1. CASE r \in kept /\ s \in kept
    BY <2>1 DEF IInv, UniqueIndexNeverConflicts
  <2>2. CASE r \in new /\ s \in new
    BY <2>2, <1>3
  <2>3. QED
    BY <1>3, <1>4, <2>1, <2>2
<1>10. NoOrphanHold'
  BY <1>1, <1>3, <1>4 DEF IInv, NoOrphanHold, Registered, TypeOK, Reservation
<1>11. PoolIsOptIn'
  <2> SUFFICES ASSUME NEW m \in Macs, Registered(m)'
               PROVE  PermanentlyHeld(m)' <=> m \notin optedIn
    BY <1>4 DEF PoolIsOptIn
  <2>1. CASE m \in leased
    BY <2>1, <1>3, <1>4, <1>5 DEF PermanentlyHeld
  <2>2. CASE m \notin leased
    <3>1. Registered(m)
      BY <2>2, <1>4 DEF Registered
    <3>2. PermanentlyHeld(m)' <=> PermanentlyHeld(m)
      BY <2>2, <1>3, <1>4 DEF PermanentlyHeld
    <3>3. QED
      BY <1>6, <3>1, <3>2 DEF IInv, PoolIsOptIn
  <2>3. QED
    BY <2>1, <2>2
<1>12. QED
  BY <1>7, <1>8, <1>9, <1>10, <1>11 DEF IInv

\* renew keeps the invariant: it moves the expiry of the machine's one row.
LEMMA RenewIInv ==
    ASSUME IInv, NEW m \in Macs, NEW ttl \in Ttls, Renew(m, ttl)
    PROVE  IInv'
<1> DEFINE t == clock + ttl
           old == LeasesOn({m})
           new == {[r EXCEPT !.expires = t] : r \in old}
<1>1. t \in Nat
  BY DEF IInv, TypeOK
<1>2. \A r \in old : /\ r \in reservations /\ r \in Reservation
                     /\ r.mac = m /\ r.kind = "lease"
  BY DEF LeasesOn, ActiveLease, IInv, TypeOK
<1>3. \A s \in new : /\ s \in Reservation /\ s.mac = m
                     /\ s.kind = "lease" /\ s.expires = t
  <2> TAKE s \in new
  <2>1. PICK r \in old : s = [r EXCEPT !.expires = t]
    OBVIOUS
  <2>2. r \in Reservation /\ r.mac = m /\ r.kind = "lease"
    BY <1>2
  <2> HIDE DEF old, new, t
  <2>3. QED
    BY <1>1, <2>1, <2>2, RenewedRow
<1> HIDE DEF old
<1>4. \A r \in old, s \in old : r = s
  <2> SUFFICES ASSUME NEW r \in old, NEW s \in old PROVE r = s
    OBVIOUS
  <2>1. r \in reservations /\ s \in reservations /\ r.mac = s.mac
    BY <1>2
  <2>2. QED
    BY <2>1 DEF IInv, UniqueIndexNeverConflicts
<1>5. \A r \in new, s \in new : r = s
  BY <1>4
<1>6. \A r \in reservations : r.mac = m => r \in old
  <2>1. PICK q \in old : TRUE
    BY DEF Renew, old
  <2>2. QED
    BY <1>2, <2>1 DEF IInv, UniqueIndexNeverConflicts
<1>7. /\ reservations' = (reservations \ old) \cup new
      /\ up /\ old # {}
      /\ UNCHANGED <<up, pinnedFlag, profile, clock, optedIn>>
  BY DEF Renew, old
<1> HIDE DEF new, t
<1>8. TypeOK'
  BY <1>3, <1>7 DEF IInv, TypeOK
<1>9. RowsWellFormed' /\ NoRowsBeforeMigration' /\ LeasedMachinesAreOptedIn'
  BY <1>1, <1>2, <1>3, <1>7
  DEF IInv, RowsWellFormed, NoRowsBeforeMigration, LeasedMachinesAreOptedIn
<1>10. UniqueIndexNeverConflicts'
  BY <1>3, <1>5, <1>6, <1>7 DEF IInv, UniqueIndexNeverConflicts
<1>11. NoOrphanHold'
  BY <1>2, <1>3, <1>7 DEF IInv, NoOrphanHold, Registered
<1>12. PoolIsOptIn'
  BY <1>2, <1>3, <1>7 DEF IInv, PoolIsOptIn, Registered, PermanentlyHeld
<1>13. QED
  BY <1>8, <1>9, <1>10, <1>11, <1>12 DEF IInv

\* Releasing a set of rows that are all leases keeps the invariant; release
\* and reap_expired are of that shape.
LEMMA EndLeasesIInv ==
    ASSUME IInv, NEW R, \A r \in R : r.kind = "lease",
           reservations' = reservations \ R,
           UNCHANGED <<up, pinnedFlag, profile, clock, optedIn>>
    PROVE  IInv'
BY DEF IInv, TypeOK, RowsWellFormed, NoRowsBeforeMigration,
       LeasedMachinesAreOptedIn, UniqueIndexNeverConflicts, NoOrphanHold,
       PoolIsOptIn, Registered, PermanentlyHeld

\* What reap_expired releases is the expired leases and nothing else, though
\* its UPDATE names only the machine: a machine has no other row.
LEMMA ReapedRows ==
    ASSUME IInv
    PROVE  ReleaseUnreleased(MacsOf(ExpiredRows)) = reservations \ ExpiredRows
BY DEF IInv, UniqueIndexNeverConflicts, ReleaseUnreleased, MacsOf, ExpiredRows

\* The migration keeps the invariant: it runs on a database without rows.
LEMMA StartupIInv == ASSUME IInv, Startup PROVE IInv'
<1>1. CASE pinnedFlag
  BY <1>1 DEF IInv, TypeOK, RowsWellFormed, NoRowsBeforeMigration,
       LeasedMachinesAreOptedIn, UniqueIndexNeverConflicts, NoOrphanHold,
       PoolIsOptIn, Startup, Registered, PermanentlyHeld
<1>2. CASE ~pinnedFlag
  <2> DEFINE new == {PermanentHold(m, Admin, profile[m]) : m \in Unheld}
  <2>1. reservations = {} /\ optedIn = {}
    BY <1>2 DEF IInv, NoRowsBeforeMigration
  <2>2. \A m \in Macs : Registered(m) <=> m \in Unheld
    BY <2>1 DEF Unheld
  <2>3. \A r \in new : /\ r \in Reservation /\ r.mac \in Unheld
                       /\ r.kind = "permanent" /\ r.expires = NULL
                       /\ r = PermanentHold(r.mac, Admin, profile[r.mac])
    BY PermanentHoldType DEF Unheld, PermanentHold, IInv, TypeOK
  <2>4. \A m \in Unheld : \E r \in new : r.mac = m
    <3> TAKE m \in Unheld
    <3>1. PermanentHold(m, Admin, profile[m]) \in new
      OBVIOUS
    <3>2. PermanentHold(m, Admin, profile[m]).mac = m
      BY DEF PermanentHold
    <3>3. QED
      BY <3>1, <3>2
  <2>5. /\ reservations' = new /\ pinnedFlag' /\ up'
        /\ UNCHANGED <<profile, clock, optedIn>>
    BY <1>2, <2>1 DEF Startup
  <2> HIDE DEF new
  <2>6. \A m \in Macs : Registered(m)' <=> m \in Unheld
    BY <2>2, <2>5 DEF Registered
  <2>7. Unheld \subseteq Macs
    BY DEF Unheld
  <2>8. TypeOK' /\ RowsWellFormed' /\ NoRowsBeforeMigration'
        /\ LeasedMachinesAreOptedIn'
    BY <2>3, <2>5
    DEF IInv, TypeOK, RowsWellFormed, NoRowsBeforeMigration,
        LeasedMachinesAreOptedIn
  <2>9. UniqueIndexNeverConflicts' /\ NoOrphanHold'
    BY <2>3, <2>5, <2>6, <2>7 DEF UniqueIndexNeverConflicts, NoOrphanHold
  <2>10. PoolIsOptIn'
    BY <2>1, <2>3, <2>4, <2>5, <2>6 DEF PoolIsOptIn, PermanentlyHeld
  <2>11. QED
    BY <2>8, <2>9, <2>10 DEF IInv
<1>3. QED
  BY <1>1, <1>2

\* Every step keeps the invariant.
LEMMA NextIInv == IInv /\ [Next]_vars => IInv'
<1> SUFFICES ASSUME IInv, [Next]_vars PROVE IInv'
  OBVIOUS
<1>1. CASE AgentStep
  <2>1. ASSUME NEW h \in Holders, NEW p \in Profiles,
               NEW n \in 1..Cardinality(Macs),
               NEW a \in Architectures \cup {NULL}, NEW ttl \in Ttls,
               Reserve(h, p, n, a, ttl)
        PROVE  IInv'
    BY <2>1, ReserveIInv
  <2>2. ASSUME NEW m \in Macs, NEW ttl \in Ttls, Renew(m, ttl) PROVE IInv'
    BY <2>2, RenewIInv
  <2>3. ASSUME NEW S, Release(S) PROVE IInv'
    <3>1. \A r \in LeasesOn(S) : r.kind = "lease"
      BY DEF LeasesOn, ActiveLease
    <3>2. QED
      BY <2>3, <3>1, EndLeasesIInv DEF Release
  <2>4. QED
    BY <1>1, <2>1, <2>2, <2>3 DEF AgentStep, ReleaseHolder
<1>2. CASE AdminStep
  <2>1. ASSUME NEW m \in Macs, NEW p \in Profiles,
               Enroll(m, p) \/ SetProfile(m, p)
        PROVE  IInv'
    BY <2>1, EnrollIInv, SetProfileIInv
  <2>2. ASSUME NEW m \in Macs, Remove(m) \/ ReleaseToPool(m) PROVE IInv'
    BY <2>2, RemoveIInv, ReleaseToPoolIInv
  <2>3. ASSUME NEW m \in Macs, NEW p \in Profiles \cup {NULL},
               Pin(m, Admin, p)
        PROVE  IInv'
    BY <2>3, PinIInv
  <2>4. QED
    BY <1>2, <2>1, <2>2, <2>3 DEF AdminStep
<1>3. CASE ReapExpired
  <2>1. \A r \in ExpiredRows : r.kind = "lease"
    BY DEF ExpiredRows, Expired
  <2>2. QED
    BY <1>3, <2>1, ReapedRows, EndLeasesIInv DEF ReapExpired
<1>4. CASE Startup
  BY <1>4, StartupIInv
<1>5. CASE Tick \/ UNCHANGED vars
  <2>1. /\ UNCHANGED <<up, pinnedFlag, profile, reservations, optedIn>>
        /\ clock' \in Nat
    BY <1>5 DEF Tick, vars, IInv, TypeOK
  <2>2. /\ profile' \in [Macs -> Profiles \cup {NULL}]
        /\ \A k \in Macs : Registered(k)' <=> Registered(k)
    BY <2>1 DEF Registered, IInv, TypeOK
  <2>3. QED
    BY <2>1, <2>2, SameRowsIInv
<1>6. CASE Crash
  BY <1>6 DEF IInv, TypeOK, RowsWellFormed, NoRowsBeforeMigration,
       LeasedMachinesAreOptedIn, UniqueIndexNeverConflicts, NoOrphanHold,
       PoolIsOptIn, Crash, Registered, PermanentlyHeld
<1>7. QED
  BY <1>1, <1>2, <1>3, <1>4, <1>5, <1>6 DEF Next

(***************************************************************************)
(* The theorems.                                                           *)
(***************************************************************************)

\* The inductive invariant holds in every reachable state.
THEOREM Invariance == Spec => []IInv
BY InitIInv, NextIInv, PTL DEF Spec

\* Type correctness.
THEOREM TypeCorrectness == Spec => []TypeOK
<1>1. IInv => TypeOK
  BY DEF IInv
<1>2. QED
  BY <1>1, Invariance, PTL

\* The unique index on un-released rows never refuses an INSERT.
THEOREM UniqueIndex == Spec => []UniqueIndexNeverConflicts
<1>1. IInv => UniqueIndexNeverConflicts
  BY DEF IInv
<1>2. QED
  BY <1>1, Invariance, PTL

\* Holds never outlive the machine row they belong to.
THEOREM NoOrphans == Spec => []NoOrphanHold
<1>1. IInv => NoOrphanHold
  BY DEF IInv
<1>2. QED
  BY <1>1, Invariance, PTL

\* Permanent unless opted in, for any fleet, any agents and any restarts.
THEOREM OptIn == Spec => []PoolIsOptIn
<1>1. IInv => PoolIsOptIn
  BY DEF IInv
<1>2. QED
  BY <1>1, Invariance, PTL

(***************************************************************************)
(* Action properties.                                                      *)
(***************************************************************************)

\* A machine nobody opted in is not leased, has no lease, and so is outside
\* the reach of reserve, renew and release.
LEMMA OutsideThePool ==
    ASSUME IInv, up, NEW m \in Macs \ optedIn
    PROVE  /\ \A S : \A r \in LeasesOn(S) : r.mac # m
           /\ \A a, n : m \notin Leasable(a, n)
<1>1. \A S : \A r \in LeasesOn(S) : r.mac # m
  BY DEF LeasesOn, ActiveLease, IInv, LeasedMachinesAreOptedIn
<1>2. ASSUME NEW a, NEW n, m \in Leasable(a, n) PROVE FALSE
  <2>1. Registered(m) /\ ~Held(m)
    BY <1>2, LeasableIsFree
  <2>2. PermanentlyHeld(m)
    BY <2>1 DEF IInv, NoRowsBeforeMigration, PoolIsOptIn
  <2>3. QED
    BY <2>1, <2>2 DEF PermanentlyHeld, Held, Active, IInv, RowsWellFormed
<1>3. QED
  BY <1>1, <1>2

\* What an agent's call leaves of such a machine: everything.
LEMMA AgentKeepsMachine ==
    ASSUME IInv, AgentStep, NEW m \in Macs \ optedIn
    PROVE  ~Touched(m)
<1>1. ASSUME NEW h, NEW p, NEW n, NEW a, NEW ttl, Reserve(h, p, n, a, ttl)
      PROVE  ~Touched(m)
  <2>1. m \notin Leasable(a, n)
    BY <1>1, OutsideThePool DEF Reserve
  <2>2. \A k, t : Lease(k, h, p, t).mac = k
    BY DEF Lease
  <2>3. QED
    BY <1>1, <2>1, <2>2 DEF Reserve, Touched, RowsOf, ReleaseUnreleased
<1>2. ASSUME NEW k \in Macs, NEW ttl \in Ttls, Renew(k, ttl)
      PROVE  ~Touched(m)
  <2>1. \A r \in LeasesOn({k}) : r.mac = k /\ k # m /\ r \in Reservation
    <3>1. \A r \in LeasesOn({k}) : r.mac # m
      BY <1>2, OutsideThePool DEF Renew
    <3>2. \A r \in LeasesOn({k}) : r.mac = k /\ r \in Reservation
      BY DEF LeasesOn, IInv, TypeOK
    <3>3. QED
      BY <3>1, <3>2
  <2>2. clock + ttl \in Nat
    BY DEF IInv, TypeOK
  <2>3. \A r \in LeasesOn({k}) : [r EXCEPT !.expires = clock + ttl].mac = k
    BY <2>1, <2>2, RenewedRow
  <2>4. QED
    BY <1>2, <2>1, <2>3 DEF Renew, Touched, RowsOf
<1>3. ASSUME NEW S, Release(S) PROVE ~Touched(m)
  <2>1. \A r \in LeasesOn(S) : r.mac # m
    BY <1>3, OutsideThePool DEF Release
  <2>2. QED
    BY <1>3, <2>1 DEF Release, Touched, RowsOf
<1>4. QED
  BY <1>1, <1>2, <1>3 DEF AgentStep, ReleaseHolder

\* No call open to a pool client touches a machine outside the pool.
THEOREM AgentsConfined == Spec => AgentsLeavePermanentAlone
<1>1. IInv /\ [Next]_vars =>
          [\A m \in Macs \ optedIn : Touched(m) => ~AgentStep]_vars
  BY AgentKeepsMachine
<1>2. QED
  BY <1>1, Invariance, PTL DEF Spec, AgentsLeavePermanentAlone

\* How a step can end an active lease.
EndsLease(r) ==
    \/ \E ttl \in Ttls : Renew(r.mac, ttl)
    \/ \E S \in SUBSET Macs : r.mac \in S /\ Release(S)
    \/ \E p \in Profiles \cup {NULL} : Pin(r.mac, Admin, p)
    \/ Remove(r.mac)

\* A lease that ends before its term was renewed, released, pinned over or
\* deleted with its machine.
LEMMA LeaseEnds ==
    ASSUME IInv, Next, NEW r \in reservations, ActiveLease(r),
           r \notin reservations'
    PROVE  EndsLease(r)
<1>1. r.mac \in Macs /\ r.kind = "lease" /\ Active(r) /\ ~Expired(r)
  BY DEF IInv, TypeOK, Reservation, ActiveLease, Active, Expired
<1>2. CASE AgentStep
  <2>1. ASSUME NEW h, NEW p, NEW n, NEW a, NEW ttl, Reserve(h, p, n, a, ttl)
        PROVE  FALSE
    <3>1. r.mac \notin Leasable(a, n)
      BY <1>1, LeasableIsFree DEF Held
    <3>2. QED
      BY <2>1, <3>1 DEF Reserve, ReleaseUnreleased
  <2>2. ASSUME NEW m \in Macs, NEW ttl \in Ttls, Renew(m, ttl)
        PROVE  EndsLease(r)
    <3>1. r.mac = m
      BY <2>2 DEF Renew, LeasesOn
    <3>2. QED
      BY <2>2, <3>1 DEF EndsLease
  <2>3. ASSUME NEW S \in SUBSET Macs, Release(S) PROVE EndsLease(r)
    <3>1. r.mac \in S
      BY <2>3 DEF Release, LeasesOn
    <3>2. QED
      BY <2>3, <3>1 DEF EndsLease
  <2>4. \A h : LeasedBy(h) \in SUBSET Macs
    BY DEF LeasedBy, IInv, TypeOK, Reservation
  <2>5. QED
    BY <1>2, <2>1, <2>2, <2>3, <2>4 DEF AgentStep, ReleaseHolder
<1>3. CASE AdminStep
  <2>1. ASSUME NEW m \in Macs, NEW p, Enroll(m, p) \/ SetProfile(m, p)
        PROVE  FALSE
    BY <2>1 DEF Enroll, SetProfile
  <2>2. ASSUME NEW m \in Macs, Remove(m) PROVE EndsLease(r)
    <3>1. r.mac = m
      BY <2>2 DEF Remove, ReleaseUnreleased
    <3>2. QED
      BY <2>2, <3>1 DEF EndsLease
  <2>3. ASSUME NEW m \in Macs, ReleaseToPool(m) PROVE FALSE
    BY <2>3, <1>1 DEF ReleaseToPool
  <2>4. ASSUME NEW m \in Macs, NEW p \in Profiles \cup {NULL},
               Pin(m, Admin, p)
        PROVE  EndsLease(r)
    <3>1. r.mac = m
      BY <2>4 DEF Pin, ReleaseUnreleased
    <3>2. QED
      BY <2>4, <3>1 DEF EndsLease
  <2>5. QED
    BY <1>3, <2>1, <2>2, <2>3, <2>4 DEF AdminStep
<1>4. CASE ReapExpired
  BY <1>1, <1>4, ReapedRows DEF ReapExpired, ExpiredRows
<1>5. CASE Startup \/ Crash \/ Tick
  BY <1>5 DEF Startup, Crash, Tick
<1>6. QED
  BY <1>2, <1>3, <1>4, <1>5 DEF Next

\* No reserve, enrolment, reaper sweep, restart or tick ends an active lease.
THEOREM LeaseTerm == Spec => LeaseRunsToTerm
<1>1. IInv /\ [Next]_vars =>
          [\A r \in reservations :
              ActiveLease(r) /\ r \notin reservations' => EndsLease(r)]_vars
  BY LeaseEnds
<1>2. QED
  BY <1>1, Invariance, PTL DEF Spec, LeaseRunsToTerm, EndsLease

(***************************************************************************)
(* What a reserve call gives its agent.                                    *)
(***************************************************************************)

\* reserve(count): the call leases count machines, or all that are free where
\* there are fewer; the machines it leaves free come after those it takes;
\* and it changes who holds no other machine.
THEOREM ReserveTakesCount ==
    ASSUME TypeOK, NEW h \in Holders, NEW p \in Profiles, NEW n \in Nat,
           NEW a, NEW ttl \in Ttls, Reserve(h, p, n, a, ttl)
    PROVE  /\ {m \in Macs : ~Held(m) /\ Held(m)'} = Leasable(a, n)
           /\ \A m \in Macs : Held(m) => Held(m)'
           /\ Cardinality(Leasable(a, n)) =
                  IF Cardinality(Free(a)) < n THEN Cardinality(Free(a)) ELSE n
           /\ \A m \in Leasable(a, n), k \in Free(a) \ Leasable(a, n) : m < k
<1> DEFINE taken == Leasable(a, n)
<1>1. Free(a) \in SUBSET Macs /\ taken = FirstByMac(Free(a), n)
  BY DEF Free, Leasable
<1>2. taken \in SUBSET Free(a)
  BY <1>1 DEF FirstByMac
<1>3. clock \in Nat /\ ttl \in Nat /\ ttl > 0
  BY DEF TypeOK
<1>4. /\ reservations' = ReleaseUnreleased(taken)
                           \cup {Lease(m, h, p, clock + ttl) : m \in taken}
      /\ clock' = clock
  BY DEF Reserve
<1>5. \A m \in taken : m \in Macs /\ ~Held(m)
  BY <1>2 DEF Free
<1> HIDE DEF taken
<1>6. ASSUME NEW m \in taken PROVE Held(m)'
  <2>1. Lease(m, h, p, clock + ttl) \in reservations'
    BY <1>4
  <2>2. Lease(m, h, p, clock + ttl).mac = m
        /\ Lease(m, h, p, clock + ttl).expires = clock + ttl
    BY DEF Lease
  <2>3. clock + ttl > clock'
    BY <1>3, <1>4
  <2>4. QED
    BY <2>1, <2>2, <2>3 DEF Held, Active
<1>7. ASSUME NEW m \in Macs, m \notin taken PROVE Held(m)' <=> Held(m)
  <2>1. \A r : r.mac = m => (r \in reservations' <=> r \in reservations)
    BY <1>4, <1>7 DEF ReleaseUnreleased, Lease
  <2>2. QED
    BY <1>4, <2>1 DEF Held, Active
<1>8. {m \in Macs : ~Held(m) /\ Held(m)'} = taken
  BY <1>5, <1>6, <1>7
<1>9. \A m \in Macs : Held(m) => Held(m)'
  BY <1>6, <1>7
<1>10. ASSUME NEW m \in taken, NEW k \in Free(a) \ taken PROVE m < k
  <2> DEFINE S == Free(a)
  <2>1. m \in S /\ k \in S /\ m \in Nat /\ k \in Nat
    BY <1>1, <1>2
  <2>2. /\ Cardinality(Before(S, m)) < n
        /\ ~(Cardinality(Before(S, k)) < n)
    BY <1>1, <2>1 DEF FirstByMac, Before
  <2>3. /\ IsFiniteSet(S)
        /\ IsFiniteSet(Before(S, m)) /\ Before(S, k) \in SUBSET Before(S, m)
              => Cardinality(Before(S, k)) <= Cardinality(Before(S, m))
    BY <1>1, FS_Subset
  <2>4. /\ IsFiniteSet(Before(S, m)) /\ IsFiniteSet(Before(S, k))
        /\ Cardinality(Before(S, m)) \in Nat
        /\ Cardinality(Before(S, k)) \in Nat
    BY <2>3, FS_Subset, FS_CardinalityType DEF Before
  <2>5. SUFFICES ASSUME k <= m PROVE FALSE
    BY <2>1
  <2>6. Before(S, k) \in SUBSET Before(S, m)
    <3>1. \A j \in S : j \in Nat
      BY <1>1
    <3>2. \A j \in S : j < k => j < m
      BY <2>1, <2>5, <3>1
    <3>3. QED
      BY <3>2 DEF Before
  <2>7. QED
    BY <2>2, <2>3, <2>4, <2>6
<1>11. QED
  BY <1>1, <1>8, <1>9, <1>10, LimitTakes DEF taken

=============================================================================
