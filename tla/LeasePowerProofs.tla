-------------------------- MODULE LeasePowerProofs --------------------------
(* The power layer implements the registry it is composed with, so what    *)
(* ReservationsProofs proves of the holds stays true whatever power        *)
(* commands, timeouts and crashes are interleaved with them.               *)
EXTENDS LeasePower, ReservationsProofs

\* Every step of the composition is a registry step or leaves the registry
\* alone.
LEMMA PowerStepImplements == [PowerNext]_allVars => [Next]_vars
<1> SUFFICES ASSUME [PowerNext]_allVars PROVE [Next]_vars
  OBVIOUS
<1>1. CASE PoolStep
  BY <1>1 DEF PoolStep, ReserveMachines, ReleaseMachines, Next, AgentStep,
              ReleaseHolder
<1>2. CASE ReaperStep
  BY <1>2 DEF ReaperStep, ReapOnce, ReaperPowerOff, Next
<1>3. CASE PowerCrash
  BY <1>3 DEF PowerCrash, Next
<1>4. CASE \E m \in Macs, a \in PowerActions : AdminPower(m, a)
  BY <1>4 DEF AdminPower
<1>5. CASE \E c \in Command : CommandStep(c)
  BY <1>5 DEF CommandStep, PowerLookup, PowerApply, PowerFail, PowerTimeout
<1>6. CASE \/ AdminStep \/ Startup \/ Tick
           \/ \E m \in Macs, ttl \in Ttls : Renew(m, ttl)
  BY <1>6 DEF Next, AgentStep
<1>7. CASE UNCHANGED allVars
  BY <1>7 DEF allVars
<1>8. QED
  BY <1>1, <1>2, <1>3, <1>4, <1>5, <1>6, <1>7 DEF PowerNext

\* The composition with the power layer implements Reservations.
THEOREM PowerImplementsRegistry == PowerSpec => Spec
<1>1. PowerInit => Init
  BY DEF PowerInit
<1>2. QED
  BY <1>1, PowerStepImplements, PTL DEF PowerSpec, Spec

\* Permanent unless opted in, whatever the power layer does.
THEOREM PowerOptIn == PowerSpec => []PoolIsOptIn
BY PowerImplementsRegistry, OptIn, PTL

-----------------------------------------------------------------------------
(* Agents and the reaper switch pool machines only.                        *)

\* The power layer's variables keep their types.
LEMMA PowerTyped == PowerSpec => []PowerTypeOK
<1>1. PowerInit => PowerTypeOK
  BY DEF PowerInit, PowerTypeOK, NoCommands, PowerActions
<1>2. PowerTypeOK /\ TypeOK /\ [PowerNext]_allVars => PowerTypeOK'
  <2> SUFFICES ASSUME PowerTypeOK, TypeOK, [PowerNext]_allVars
               PROVE  PowerTypeOK'
    OBVIOUS
  <2>1. \A C : Enqueue(C) => /\ queued' \in [Command -> Nat]
                             /\ UNCHANGED <<power, running>>
    BY DEF Enqueue, PowerTypeOK
  <2>0. missed' \in SUBSET Macs
    <3>1. ASSUME NEW c \in Command, CommandStep(c) PROVE missed' \in SUBSET Macs
      <4>1. c.mac \in Macs
        BY DEF Command
      <4>2. QED
        BY <3>1, <4>1 DEF CommandStep, PowerLookup, PowerApply, PowerFail,
                          PowerTimeout, NotReached, NothingMissed
    <3>2. ASSUME PowerCrash PROVE missed' \in SUBSET Macs
      <4>1. \A c \in Command : c.mac \in Macs
        BY DEF Command
      <4>2. QED
        BY <3>2, <4>1 DEF PowerCrash, Busy, PowerTypeOK
    <3>3. CASE PoolStep
      BY <3>3 DEF PoolStep, ReserveMachines, ReleaseMachines, NothingMissed
    <3>4. QED
      BY <3>1, <3>2, <3>3 DEF PowerNext, ReaperStep, ReapOnce, ReaperPowerOff,
             AdminPower, NothingMissed, allVars, PowerTypeOK
  <2>2. CASE PoolStep
    BY <2>0, <2>1, <2>2 DEF PoolStep, ReserveMachines, ReleaseMachines,
                      PowerMachines, PowerTypeOK
  <2>3. CASE ReaperStep
    <3>1. MacsOf(ExpiredRows) \subseteq Macs
      BY DEF MacsOf, ExpiredRows, TypeOK, Reservation
    <3>2. QED
      BY <2>0, <2>1, <2>3, <3>1 DEF ReaperStep, ReapOnce, ReaperPowerOff,
                              PowerTypeOK
  <2>4. CASE PowerCrash
    <3>1. \A c \in Command : c.issuer = "late" =>
              [c EXCEPT !.issuer = "reaper"] \in Command
      BY DEF Command
    <3>2. QED
      BY <2>0, <2>4, <3>1 DEF PowerCrash, NoCommands, PowerTypeOK
  <2>5. CASE \E m \in Macs, a \in PowerActions : AdminPower(m, a)
    BY <2>0, <2>1, <2>5 DEF AdminPower, PowerMachines, PowerTypeOK
  <2>6. ASSUME NEW c \in Command, CommandStep(c) PROVE PowerTypeOK'
    <3>1. CASE PowerLookup(c)
      BY <2>0, <3>1 DEF PowerLookup, PowerTypeOK
    <3>2. CASE PowerApply(c)
      <4>1. c.action \in PowerActions
        BY DEF Command, PowerActions
      <4>2. power' \in [Macs -> PowerActions]
        BY <3>2, <4>1 DEF PowerApply, PowerTypeOK
      <4>3. running' \in [Command -> Nat]
        BY <3>2 DEF PowerApply, PowerTypeOK
      <4>4. QED
        BY <2>0, <3>2, <4>2, <4>3 DEF PowerApply, PowerTypeOK
    <3>3. CASE PowerFail(c)
      BY <2>0, <3>3 DEF PowerFail, PowerTypeOK
    <3>4. CASE PowerTimeout(c)
      <4>1. Late(c) \in Command
        BY <3>4 DEF PowerTimeout, Late, Command
      <4>2. QED
        BY <2>0, <3>4, <4>1 DEF PowerTimeout, PowerTypeOK
    <3>5. QED
      BY <2>6, <3>1, <3>2, <3>3, <3>4 DEF CommandStep
  <2>7. CASE UNCHANGED powerVars
    BY <2>0, <2>7 DEF powerVars, PowerTypeOK
  <2>8. QED
    BY <2>2, <2>3, <2>4, <2>5, <2>6, <2>7 DEF PowerNext, allVars, powerVars
<1>3. QED
  BY <1>1, <1>2, PowerImplementsRegistry, TypeCorrectness, PTL DEF PowerSpec

\* Only a call of power_machines by a pool tool puts machines on the worker
\* threads in the pool's name, and only those it was given.
LEMMA AskedByPoolGrows ==
  ASSUME PowerTypeOK, NEW m \in Macs, NEW b \in PowerActions,
         NEW S, NEW a, NEW i, PowerMachines(S, a, i),
         AskedByPool(m, b)' > AskedByPool(m, b)
  PROVE  m \in S /\ i = "pool"
<1> DEFINE k == PowerCommand(m, b, "pool")
           C == {PowerCommand(n, a, i) : n \in S}
<1>1. k \in Command /\ k.mac = m /\ k.issuer = "pool"
  BY DEF PowerCommand, Command
<1>2. queued'[k] = queued[k] + (IF k \in C THEN 1 ELSE 0)
  BY <1>1 DEF PowerMachines, Enqueue
<1>3. queued[k] \in Nat /\ queued'[k] > queued[k]
  BY <1>1 DEF PowerTypeOK, AskedByPool
<1>4. k \in C
  BY <1>2, <1>3
<1>5. PICK n \in S : k = PowerCommand(n, a, i)
  BY <1>4
<1>6. QED
  BY <1>5 DEF PowerCommand

\* No step of a worker thread, no power command and no crash asks for more.
LEMMA NothingAsked ==
  ASSUME PowerTypeOK, NEW m \in Macs, NEW b \in PowerActions,
         NEW k, k = PowerCommand(m, b, "pool"),
         \/ queued' = queued
         \/ queued' = NoCommands
         \/ \E c \in Command : queued' = [queued EXCEPT ![c] = queued[c] - 1]
  PROVE  ~(AskedByPool(m, b)' > AskedByPool(m, b))
<1>1. k \in Command /\ queued[k] \in Nat
  BY DEF PowerCommand, Command, PowerTypeOK
<1>2. queued'[k] \in {queued[k], 0, queued[k] - 1}
  BY <1>1 DEF NoCommands, PowerTypeOK
<1>3. ~(queued'[k] > queued[k])
  BY <1>1, <1>2
<1>4. QED
  BY <1>3 DEF AskedByPool

\* A machine nobody holds, and one with a lease, is in the pool.
LEMMA FreeIsOptedIn ==
  ASSUME IInv, up, NEW m \in Macs, Registered(m), ~Held(m)
  PROVE  m \in optedIn
<1>1. pinnedFlag
  BY DEF IInv, NoRowsBeforeMigration
<1>2. ~PermanentlyHeld(m)
  BY DEF IInv, RowsWellFormed, PermanentlyHeld, Held, Active
<1>3. QED
  BY <1>1, <1>2 DEF IInv, PoolIsOptIn

LEMMA LeasedIsOptedIn ==
  ASSUME IInv, NEW R \in SUBSET reservations, \A r \in R : r.kind = "lease"
  PROVE  MacsOf(R) \subseteq optedIn
BY DEF MacsOf, IInv, LeasedMachinesAreOptedIn

\* Whatever the agents' tools and the reaper switch, an admin has opted in.
LEMMA PoolStepsStayInPool ==
  ASSUME IInv, PowerTypeOK, [PowerNext]_allVars, NEW m \in Macs,
         \/ m \in sweep' \ sweep
         \/ \E b \in PowerActions : AskedByPool(m, b)' > AskedByPool(m, b)
  PROVE  m \in optedIn
<1>1. ASSUME NEW h, NEW p, NEW n, NEW a, NEW ttl, ReserveMachines(h, p, n, a, ttl)
      PROVE  m \in optedIn
  <2>1. PowerMachines(Leasable(a, n), "on", "pool") /\ sweep' = sweep /\ up
    BY <1>1 DEF ReserveMachines, PowerMachines, Reserve
  <2>2. m \in Leasable(a, n)
    BY <2>1, AskedByPoolGrows
  <2>3. Registered(m) /\ ~Held(m)
    BY <2>2 DEF Leasable, FirstByMac, Free
  <2>4. QED
    BY <2>1, <2>3, FreeIsOptedIn
<1>2. ASSUME NEW T, ReleaseMachines(T) PROVE m \in optedIn
  <2>1. PowerMachines(MacsOf(LeasesOn(T)), "off", "pool") /\ sweep' = sweep
    BY <1>2 DEF ReleaseMachines, PowerMachines
  <2>2. m \in MacsOf(LeasesOn(T))
    BY <2>1, AskedByPoolGrows
  <2>3. QED
    BY <2>2, LeasedIsOptedIn DEF LeasesOn, ActiveLease
<1>3. CASE ReapOnce
  <2>1. m \in MacsOf(ExpiredRows)
    BY <1>3, NothingAsked DEF ReapOnce
  <2>2. QED
    BY <2>1, LeasedIsOptedIn DEF ExpiredRows, Expired
<1>4. ASSUME NEW k \in Macs, ReaperPowerOff(k) PROVE FALSE
  <2>1. sweep' \subseteq sweep
    BY <1>4 DEF ReaperPowerOff
  <2>2. PICK b \in PowerActions : AskedByPool(m, b)' > AskedByPool(m, b)
    BY <2>1
  <2> DEFINE d == PowerCommand(m, b, "pool")
             c == PowerCommand(k, "off", "reaper")
  <2>3. d \in Command /\ d # c
    BY DEF PowerCommand, Command
  <2>4. queued'[d] = queued[d] + 0 /\ queued[d] \in Nat
    BY <1>4, <2>3 DEF ReaperPowerOff, Enqueue, PowerTypeOK
  <2>5. QED
    BY <2>2, <2>4 DEF AskedByPool
<1>5. CASE PowerCrash
  BY <1>5, NothingAsked DEF PowerCrash
<1>6. ASSUME NEW k \in Macs, NEW a \in PowerActions, AdminPower(k, a)
      PROVE  FALSE
  <2>1. PowerMachines({k}, a, "admin") /\ sweep' = sweep
    BY <1>6 DEF AdminPower, PowerMachines
  <2>2. QED
    BY <2>1, AskedByPoolGrows
<1>7. ASSUME NEW c \in Command, CommandStep(c) PROVE FALSE
  <2>1. sweep' = sweep
    BY <1>7 DEF CommandStep, PowerLookup, PowerApply, PowerFail, PowerTimeout
  <2>2. \/ queued' = queued
        \/ queued' = [queued EXCEPT ![c] = queued[c] - 1]
    BY <1>7 DEF CommandStep, PowerLookup, PowerApply, PowerFail, PowerTimeout
  <2>3. QED
    BY <2>1, <2>2, NothingAsked
<1>8. CASE UNCHANGED powerVars
  BY <1>8, NothingAsked DEF powerVars
<1>9. QED
  BY <1>1, <1>2, <1>3, <1>4, <1>5, <1>6, <1>7, <1>8
     DEF PowerNext, PoolStep, ReaperStep, allVars, powerVars

\* reserve_machines, release_machines and reap_once switch only machines an
\* admin has opted in, whatever they are interleaved with.
THEOREM PowerStaysInPool == PowerSpec => OnlyPoolMachinesAreSwitched
<1>1. IInv /\ PowerTypeOK /\ [PowerNext]_allVars
          => [\A m \in Macs :
                 (\/ m \in sweep' \ sweep
                  \/ \E a \in PowerActions :
                         AskedByPool(m, a)' > AskedByPool(m, a))
                 => m \in optedIn]_allVars
  BY PoolStepsStayInPool
<1>2. QED
  BY <1>1, PowerTyped, PowerImplementsRegistry, Invariance, PTL
     DEF PowerSpec, OnlyPoolMachinesAreSwitched

=============================================================================
