----------------------------- MODULE LeasePower -----------------------------
(***************************************************************************)
(* Reservations composed with the power layer.  The callers of reserve,    *)
(* release and reap_expired switch machines after the registry's lock is   *)
(* dropped: mcp.py reserve_machines and release_machines, dashboard.py     *)
(* release_lease_route, reservation_reaper.py reap_once.  Each machine is  *)
(* one power_machine call on a worker thread: it looks the machine up,     *)
(* starts a command, and the command lands, fails or times out whenever    *)
(* the PDU answers.  Nothing re-reads the reservation on the way.          *)
(***************************************************************************)
EXTENDS Reservations

CONSTANTS
    MaxInFlight,   \* bound on the different power commands in flight
    MaxSame,       \* bound on equal power commands in flight
    CanFail        \* may a power command fail or time out?

ASSUME BoundAssumption == MaxInFlight \in Nat /\ MaxSame \in Nat
ASSUME FailAssumption == CanFail \in BOOLEAN

VARIABLES
    power,         \* what the machine's PDU port does
    queued,        \* power_machine calls that have not looked the machine up
    running,       \* power commands started and not yet answered
    sweep,         \* MACs reap_once has freed and not yet powered off
    missed         \* history: machines the last step of the reaper gave up

powerVars == <<power, queued, running, sweep>>
allVars == <<vars, powerVars, missed>>

-----------------------------------------------------------------------------
(* Commands in flight: a bag, as two counting functions.                   *)

PowerActions == {"on", "off"}

\* Who runs a power command: a pool tool or an admin's button on a worker
\* thread, the reaper thread (which waits for it), or nobody any more (timed
\* out).
Command ==
    [mac : Macs, action : PowerActions, issuer : {"pool", "admin"}]
    \cup [mac : Macs, action : {"off"}, issuer : {"reaper", "late"}]

PowerCommand(m, a, i) == [mac |-> m, action |-> a, issuer |-> i]

NoCommands == [c \in Command |-> 0]

Busy == {c \in Command : queued[c] + running[c] > 0}

ReaperBusy == \E c \in Busy : c.issuer = "reaper"

\* Bound: the commands C of one more request fit in the model.
Room(C) ==
    /\ \A c \in C : queued[c] + running[c] < MaxSame
    /\ Cardinality(Busy \cup C) <= MaxInFlight

Enqueue(C) ==
    /\ queued' = [c \in Command |-> queued[c] + IF c \in C THEN 1 ELSE 0]
    /\ UNCHANGED <<power, running>>

\* power_machines(registry, macs, action), called by i.
PowerMachines(S, a, i) ==
    LET C == {PowerCommand(m, a, i) : m \in S}
    IN  Room(C) /\ Enqueue(C) /\ UNCHANGED sweep

NothingMissed == missed' = {}

-----------------------------------------------------------------------------
(* The tools and routes that lease and free machines.                      *)

\* mcp.reserve_machines
ReserveMachines(h, p, n, a, ttl) ==
    /\ Reserve(h, p, n, a, ttl)
    /\ PowerMachines(Leasable(a, n), "on", "pool")
    /\ NothingMissed

\* Variant: the machines asked for are switched, not those that were freed.
SwitchMachinesAskedFor(targets) ==
    /\ Release(targets)
    /\ PowerMachines(targets, "off", "pool")
    /\ NothingMissed

\* mcp.release_machines and dashboard.release_lease_route
ReleaseMachines(targets) ==
    /\ Release(targets)
    /\ PowerMachines(MacsOf(LeasesOn(targets)), "off", "pool")
    /\ NothingMissed

\* The first half of reap_once; the thread runs one sweep at a time.
ReapOnce ==
    /\ sweep = {} /\ ~ReaperBusy
    /\ ExpiredRows # {}
    /\ ReapExpired
    /\ sweep' = MacsOf(ExpiredRows)
    /\ UNCHANGED <<power, queued, running>>
    /\ NothingMissed

\* The loop body of reap_once, self._power_off(mac): one machine at a time.
ReaperPowerOff(m) ==
    /\ up
    /\ m \in sweep /\ ~ReaperBusy
    /\ sweep' = sweep \ {m}
    /\ Enqueue({PowerCommand(m, "off", "reaper")})
    /\ UNCHANGED vars
    /\ NothingMissed

\* mcp.power_machine, mcp.power_fleet and the dashboard's power buttons.
AdminPower(m, a) ==
    /\ up
    /\ PowerMachines({m}, a, "admin")
    /\ UNCHANGED vars
    /\ NothingMissed

-----------------------------------------------------------------------------
(* power_machine.                                                          *)

\* registry.lookup(mac): an unknown machine ends the call, else the command
\* is started.
PowerLookup(c) ==
    /\ up
    /\ queued[c] > 0
    /\ queued' = [queued EXCEPT ![c] = @ - 1]
    /\ running' = IF Registered(c.mac) THEN [running EXCEPT ![c] = @ + 1]
                                       ELSE running
    /\ UNCHANGED <<vars, power, sweep>>
    /\ NothingMissed

\* The command reaches the PDU.
PowerApply(c) ==
    /\ running[c] > 0
    /\ running' = [running EXCEPT ![c] = @ - 1]
    /\ power' = [power EXCEPT ![c.mac] = c.action]
    /\ UNCHANGED <<vars, queued, sweep>>
    /\ NothingMissed

\* As reap_once sees it, the power-off c has failed.
NotReached(c) ==
    missed' = IF c.issuer = "reaper" THEN {c.mac} ELSE {}

\* Variant: an exception leaves the loop of reap_once.
PowerFailEndsSweep(c) ==
    /\ CanFail
    /\ running[c] > 0
    /\ running' = [running EXCEPT ![c] = @ - 1]
    /\ NotReached(c)
    /\ sweep' = IF c.issuer = "reaper" THEN {} ELSE sweep
    /\ UNCHANGED <<vars, power, queued>>

\* No route, a non-zero exit, an unplugged port: nothing happens, and nobody
\* tries again; reap_once goes on to the next machine.
PowerFail(c) ==
    /\ CanFail
    /\ running[c] > 0
    /\ running' = [running EXCEPT ![c] = @ - 1]
    /\ NotReached(c)
    /\ UNCHANGED <<vars, power, queued, sweep>>

Late(c) == [c EXCEPT !.issuer = "late"]

\* subprocess.TimeoutExpired in the reaper's call: the sweep goes on, and the
\* command may still reach the PDU.
PowerTimeout(c) ==
    /\ CanFail
    /\ c.issuer = "reaper"
    /\ running[c] > 0
    /\ running[Late(c)] < MaxSame
    /\ running' = [running EXCEPT ![c] = @ - 1, ![Late(c)] = @ + 1]
    /\ NotReached(c)
    /\ UNCHANGED <<vars, power, queued, sweep>>

\* The process dies: calls that have not started a command and the reaper's
\* list are gone, commands already started are not.
PowerCrash ==
    /\ Crash
    /\ sweep' = {}
    /\ missed' = sweep \cup {c.mac : c \in {d \in Busy : d.issuer = "reaper"}}
    /\ queued' = NoCommands
    /\ running' = [c \in Command |->
           CASE c.issuer = "reaper" -> 0
             [] c.issuer = "late" ->
                    running[c] + running[[c EXCEPT !.issuer = "reaper"]]
             [] OTHER -> running[c]]
    /\ UNCHANGED power

-----------------------------------------------------------------------------
PowerInit ==
    /\ Init
    /\ power = [m \in Macs |-> "off"]
    /\ queued = NoCommands
    /\ running = NoCommands
    /\ sweep = {}
    /\ missed = {}

PoolStep ==
    \/ \E h \in Holders, p \in Profiles, n \in 1..Cardinality(Macs),
          a \in Architectures \cup {NULL}, ttl \in Ttls :
              ReserveMachines(h, p, n, a, ttl)
    \/ \E S \in SUBSET Macs : ReleaseMachines(S)
    \/ \E h \in Holders : ReleaseMachines(LeasedBy(h))

ReaperStep == ReapOnce \/ \E m \in Macs : ReaperPowerOff(m)

CommandStep(c) ==
    PowerLookup(c) \/ PowerApply(c) \/ PowerFail(c) \/ PowerTimeout(c)

PowerNext ==
    \/ PoolStep
    \/ ReaperStep
    \/ PowerCrash
    \/ \E m \in Macs, a \in PowerActions : AdminPower(m, a)
    \/ \E c \in Command : CommandStep(c)
    \/ /\ AdminStep \/ Startup \/ Tick
          \/ \E m \in Macs, ttl \in Ttls : Renew(m, ttl)
       /\ UNCHANGED powerVars
       /\ NothingMissed

PowerSpec == PowerInit /\ [][PowerNext]_allVars

-----------------------------------------------------------------------------
(* Properties.                                                             *)

\* The values the power layer's variables range over.
PowerTypeOK ==
    /\ power \in [Macs -> PowerActions]
    /\ queued \in [Command -> Nat]
    /\ running \in [Command -> Nat]
    /\ sweep \in SUBSET Macs
    /\ missed \in SUBSET Macs

AskedByPool(m, a) == queued[PowerCommand(m, a, "pool")]

\* Agents and the reaper switch no machine that no admin has opted in:
\* whatever reserve_machines, release_machines and reap_once hand to the power
\* layer is in the pool at that moment, after any sequence of enrolments,
\* leases, pins, deletions and restarts.
OnlyPoolMachinesAreSwitched ==
    [][\A m \in Macs :
          (\/ m \in sweep' \ sweep
           \/ \E a \in PowerActions : AskedByPool(m, a)' > AskedByPool(m, a))
          => m \in optedIn]_allVars

(* Fairness, one condition for each thread: the reaper's wakes up every     *)
(* interval and works through its list, worker threads run what they were  *)
(* given and every command is answered or times out, and the service       *)
(* manager restarts the process.  Nothing is assumed of agents, admins, or *)
(* crashes.                                                                *)

Fairness ==
    /\ WF_allVars(Startup /\ UNCHANGED powerVars /\ NothingMissed)
    /\ WF_allVars(ReaperStep)
    /\ \A c \in Command : WF_allVars(CommandStep(c))

FairSpec == PowerSpec /\ Fairness

\* An expired lease does not keep its row: unless the process stops again
\* and again, the reaper (or the next reserve, pin or delete) ends it,
\* whatever happened to the power commands of earlier sweeps and across
\* restarts in the middle of a sweep.
ExpiredLeaseIsReleased ==
    <>[]up => \A m \in Macs : ExpiredLease(m) ~> ~ExpiredLease(m)

\* The machine of an expired lease is switched off, unless somebody holds it
\* again or it is deleted first: nothing that goes wrong with the others, and
\* no restart but one in the middle of the sweep, keeps the reaper from it.
\* What is left is a machine whose own power-off failed or was forgotten.
ExpiredLeaseEndsOff ==
    <>[]up => \A m \in Macs :
        ExpiredLease(m) ~>
            (power[m] = "off" \/ Held(m) \/ ~Registered(m) \/ m \in missed)

\* The same without exception, if the process only stops finitely often.
ExpiredLeaseEndsOffDespiteRestarts ==
    <>[]up => \A m \in Macs :
        ExpiredLease(m) ~> (power[m] = "off" \/ Held(m) \/ ~Registered(m))

=============================================================================
