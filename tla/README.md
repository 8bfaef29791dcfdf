# Fleetboot: specifications, model checking and proofs

Fleetboot boots a fleet of diskless machines over the network.  A server keeps
a registry of machines, decides which image each boots, leases some of them to
agents, switches their power, rebuilds images and follows the machines' boot
reports.  This directory holds TLA+ specifications of that program, the TLC
configurations that check them on small instances, and TLAPS proofs about them.
Paths below are relative to the repository.

## 1. Inventory

### The parts, their state and their operations

| part | state | operations | module |
|---|---|---|---|
| machine registry, `fleetboot/server/registry.py` | SQLite tables `machines`, `reservations`, `settings`, `auto_enrol_rules` | enroll, remove, set_profile, pin, release_to_pool, reserve, renew, release, reap_expired, migration at start; power wiring; rules | `Reservations` (each operation one step), `RegistryStatements` (statement by statement) |
| auto-enrolment, `app.py` resolve_machine | the rules table | lookup, find_matching_rule, enroll | `RegistryStatements` |
| lease reaper, `reservation_reaper.py` | a thread, the list of machines just freed | reap_once every 60 s: release, then power off one by one | `LeasePower` |
| power layer, `dashboard.py` power_machine(s) | none (the PDU is outside); commands run for seconds | on, off, reboot; own command, else pdudaemon, else (reboot) a soft signal | `LeasePower` (on, off), `BootLifecycle` (reboot) |
| build cascade, `build_jobs.py` compute_build_cascade | parent files under `image/profiles` | descendants of a profile in build order | `BuildCascade` |
| profile resolver, `scripts/resolve-profile.py` | a process, the same parent files | inheritance chain, circle and missing-parent errors | `ProfileResolver` |
| build manager, `build_jobs.py` BuildJobManager | jobs and a lock in memory | start_with_downstream, the build thread, polling | `BuildJobs` |
| boot sessions, `boot_sessions.py`, `app.py` /sessions, /status, /grub-event | table `boot_sessions`; `machines.pending_reboot` | mint, record_state, post_status, arm and clear the reboot signal, the fleet view | `BootLifecycle` |
| reporter and heartbeat, `fleetboot/reporter`, `image/runtime` | `/run/fleetboot/current-state` on the machine | post a state, remember it, re-send it every 2 min, obey the reboot signal | `BootLifecycle` |
| tftpjail glue, `fleetboot/tftp_glue` | none; a read request may be retransmitted | resolve, mint, render grub.cfg; GRUB events | `BootLifecycle` |
| bug reports, `bug_reports.py` | one file per report, in `open/` or `resolved/` | file (capped), resolve, get, list | `BugReports` |
| scratch set-up, `image/runtime/fleetboot-scratch-setup.sh` | the local disk | format, mount or leave alone | not modelled |
| pages, MCP texts, hardware parsing, recipes, deployment | none that other parts decide from | | not modelled |

### How the parts interact

* HTTP handlers and MCP tools run on worker threads and call the registry.
  Writers of the registry hold one `_write_lock` for the whole operation;
  readers hold none.  Connections are in autocommit mode, so every SQL
  statement commits by itself.
* The registry never touches power.  Its callers (MCP tools, dashboard routes,
  the reaper) take the list of machines an operation returned and switch those
  machines afterwards, outside the lock, on threads of their own.
* `start_build` computes a cascade, takes the build lock and hands it to a
  thread; the thread's success callback arms the reboot signal of every machine
  of that profile.  Profiles may be saved meanwhile.  Each job runs
  `make image`, which runs the resolver on the parent files once more.
* tftpjail asks the server which profile a MAC has (which may enrol it) and
  mints a session; a mint clears the reboot signal.  The booted machine posts
  its states with the token, and learns from the reply that it is to reboot.
* Bug reports have a lock and files of their own and touch nothing else.

### What is hard, and what must hold

The list is `hazards` in `PROJECT.json`, each with its line.  In short:

* **Registry**: expired leases that still have a row; the moment of expiry; the
  order of enrol, opt in, lease, pin, delete; a migration that must run once.
  *A machine is in the pool exactly when an admin opted it in and has at most
  one hold, and a running lease ends only by a renewal, a release, a pin or a
  deletion (any pool client may release it), never by a sweep or by another
  reservation.*
* **Statements**: a crash, or a reader, between two autocommitted statements of
  one operation; a look-up and a rule match that are stale when the enrolment
  gets the lock.
  *Operations look atomic to each other; a crash never leaves a state in which
  later operations fail, or harms a machine it was not about.*
* **Power and reaper**: commands land late, out of order, fail or time out; a
  restart forgets what was to be switched off; a list of machines taken under
  the lock is worked off outside it.  *A lease that expires is released; its
  machine is switched off, unless its own power-off fails or is forgotten; and
  agents and the reaper switch no machine an admin has not opted in.*
* **Cascade and resolver**: circles, unknown parents, diamonds; two programs
  with each its own traversal.  *They end, are complete, have each profile once
  and parents first, and agree.*
* **Build manager**: fields published without a lock, failures at every step,
  the lock handed from one thread to another.  *Cascades do not mix, every job
  ends, the lock comes back unless the scan raised, and whoever reads that a
  job succeeded or failed sees the rest of it in final form (SKIPPED is
  published before the time of finishing, and is not promised that).*
* **Boot lifecycle**: retransmitted and late mints, reports of an earlier boot,
  lost acknowledgements, a signal that must survive until the machine boots
  again and not longer.  *No reboot nobody asked for; a signal that stays armed
  is heard (the late duplicate of a mint may disarm one); a fleet view that
  never goes back and catches up.*
* **Bug reports**: files half written when read, moved while searched for, left
  in both directories by a crash.  *Nothing acknowledged is lost; `get` finds
  it, and a listing that is answered has it.*  A file that a crash left empty
  makes every listing of its directory fail until somebody removes it.

## 2. Plan

Done, in this order:

1. `Reservations` and its proofs: what every other part relies on.
2. `LeasePower` over it, with the proof that it implements `Reservations`.
3. `BuildCascade`, `BuildJobs` and their proofs.
4. `BootLifecycle` and its proofs: machine, tftpjail, server and operator for
   the reboot signal, sessions and staleness.
5. `RegistryStatements`: the registry's operations as their statements, with
   `/resolve`, rules and crashes, checked and proved to implement
   `Reservations`.
6. `ProfileResolver`, composed with `BuildCascade`, and its proofs.
7. `BugReports` and its proofs.

Left, in the models: a tool's late commands that overtake one another per
machine, and `then_delete` of the power layer; the two readings of the parent
files in `compute_build_cascade`.

Modules meant for proofs declare no RECURSIVE operator; iteration is a state
machine, a fold or a set expression.

## 3. Modules

Every module has one action per operation or per step of a thread; the `map` in
`PROJECT.json` gives the lines of each definition.  Definitions whose comment
starts with "Variant:" are not part of a specification: each is a plausible slip
in the operation that follows it, kept to show that a property notices it
(section 6).  `MC*` modules hold the constants' values for TLC.

### Reservations

State: `profile` is the machines table (NULL where there is no row),
`reservations` the rows with `released_at NULL`, `pinnedFlag` the settings row
that records the migration, `clock` is `datetime('now')`, `up` the process.
`optedIn` is a history variable: the machines an admin has put into the pool
since they were enrolled or last pinned.

Each writing method of `MachineRegistry` is one action because it runs under
`_write_lock` (`Enroll`, `Remove`, `SetProfile`, `Pin`, `ReleaseToPool`,
`Reserve`, `Renew`, `Release`, `ReleaseHolder`, `ReapExpired`); `Startup` is the
constructor with its one-time migration; `Crash` stops the process between two
operations.  Released rows are never read again by these operations and are not
kept.  Architectures are families (the code's aliases of one architecture count
as one).  The initial states are all databases from before reservations
existed, so the migration is part of every behaviour; a database created empty
is the case of no machine.

`AgentStep` has what a pool-client token may call, `AdminStep` the rest.

### RegistryStatements

Extends `Reservations`: the same variables are now the tables as they stand on
disk.  `Run` is an operation getting `_write_lock`: it commits its first
statement and leaves in `todo` the database after each statement that is still
to come; `Execute` commits the next one.  A loop over machines (`reserve`,
`release`, `reap_expired`) takes them in any order, of which the order of the
query is one; all the statements of one operation see one time.  No other operation starts while `todo` is
not empty (that is the lock), but `LookUp` and `FindRule` of `/resolve` read in
between, and `Die` stops the process anywhere.  Added to the tables are
`wiring`, which stands for the columns `enroll` carries over a REPLACE, and
`rules`.  `resolving` is what each concurrent call of `/resolve` has read so
far.  Histories: `torn` are the machines on which an operation was cut short,
`given` the wiring an admin last gave.  Look-ups start once the migration is
done, since the app is only made then.

The refinement is `R == INSTANCE Reservations WITH ...` under `Settled`: an
operation counts as done when its first statement is, which is when it gets
the lock, and nobody who decides anything reads in between.
`ImplementsReservations` says that every step that does not cut an operation
short is a step of `Reservations` or stutters.

The last part of the module is the invariant its proofs need: what holds of the
database on disk and of each that is still to come (`Sound`, `LeadsTo`), of the
one an operation ends with (`Intact`).

### LeasePower

Extends `Reservations` with the power layer: `queued` are power_machine calls
that have not looked the machine up yet, `running` the commands started and not
answered (both bags, as functions to numbers), `sweep` the machines reap_once
has freed and not yet switched off, `power` the PDU ports.  A pool tool's
registry step and the hand-over of its machines are one action (the list
is a local variable of one thread, nothing can come between); everything after
is interleaved: lookup, the PDU's answer, failure, timeout.  A command carries
the name of who runs it: `"pool"` for reserve and release, whether an agent's
tool or the dashboard's button calls them, `"admin"` for the power buttons,
`"reaper"`, which waits for the answer, and `"late"` for one the reaper no
longer waits for: the reaper goes on, the request may still be carried out.  A
crash forgets `queued` and `sweep`, not what was already sent.  Tools other than
the reaper's are not followed past a timeout: their late commands are in
`running` all along.  `missed` is a history of one step: the machines whose
power-off the reaper's last step failed to make, or a crash has forgotten.

### BuildCascade

`compute_build_cascade` as its two loops.  A step is one iteration: a node
popped off the work list, a round of the sort.  The order in which the stack is
popped does not matter to the result and is left open.  Profile names are
numbers, ordered as `sorted` orders the names.  `Base` is the implicit parent of
every profile.  The definition of what a cascade should be
(`Downstream`, `Acyclic`) is independent of the loops.  `IInv` collects what is
true between two iterations; its part `NumberingInv` says that the positions
given so far are distinct and without gaps, circles or not.

### ProfileResolver

Extends `BuildCascade`: when the cascade is computed, `resolve_chain` runs for
some profile on the same parent files.  `calls` is the stack of calls of
`visit`, each with the parents it has yet to visit; `Visit` goes on to one of
them, `Return` appends the finished profile to `chain`.  Parents are visited in
any order (the code takes the order of the file, which is one of them).  The
reference is again independent of the recursion: `Ancestry` is the least set
closed under parents.  `ResolverIInv` says what is true of the stack and of the
chain between two steps.

### BuildJobs

Requests run `Submit`, the scan of the parent files, `NewJob` for each job and
`StartThread`; the thread runs `Begin`, `MakeExits`, `OnSuccess`,
`SetFinishedAt`, `Publish` (or `Skip`, `SkipFinishedAt`) for each job and
`ReleaseLock`.  Each assignment to a job that a poller can see is a step.  The
scan is abstracted to the file it is at: it is there or not when `is_file` looks
and when `read_text` does, and `SaveProfile` creates or removes it meanwhile.
`cascade_root`, the logs and `started_at` are left out.

### BootLifecycle

One machine, and everything between its grub.cfg and its next reboot.

* The machine: `phase` (GRUB or the image), the `token` on its command line,
  `stage` (GRUB events sent), `todo` (one-shot reports of the image's units
  still to send), `file` (`current-state`), `beatDue`, `acking`.  A machine
  that is off is one that has yet to ask for its grub.cfg.
* tftpjail: `requests` are read requests, "live" if the machine still waits for
  the answer, "stale" if it has started again since.  `Mint` is the row of
  `boot_sessions`, `ClearSignal` the rest of `mint_session`: between the two,
  reports are answered.  `MintFails` is a handler whose answer tftpjail gave up
  waiting for; it may still clear the signal.  Retransmissions mint again.
* The network: `messages` are reports and replies, lost, late, reordered.
  `Record` (or `LookUp`, for a state that is not in `BOOT_STATE_ORDER`) and
  `Answer` are the two halves of `/status`.  `Receive` is the reporter with the
  reply: it writes the file and, asked to reboot, sends the acknowledgement and
  then runs `systemctl reboot` (`SoftReboot`, or `CannotReboot`).
* The server: `latest` and `known` are `boot_sessions`, `age` the periods since
  `MAX(latest_state_at)`, `row`, `pending` and `reporter` the machine's row.
* People: `Arm` (a reboot command that failed, a successful build, the admin
  tool), `Disarm`, `Delete`, `Enrol`, `PowerCycle`.

Tokens are numbers in the order of minting (`active_sessions` has no ORDER BY;
the last row of a MAC it meets is the latest minted because SQLite scans a table
without one by rowid, which `ShownBoot` assumes), ranked states their positions in
`BOOT_STATE_ORDER`, and `Custom`, one above, is any other accepted state.  Time
is counted in heartbeat periods; `Window` is `_STALE_AFTER_SECONDS` in them.
`asked` is a history: the tokens that existed when a reboot was last asked for.

### BugReports

`file` is what stands in the two directories: for each report whether its file
is absent, empty (just opened), cut or whole, and the status and resolution
`_parse` would read.  `lock` is the store's lock and `call` what each client's
handler is doing.  The operations are their steps on files: `BeginFile`,
`CountOpen`, `Create`, `WriteSome`, `Write`; `BeginResolve`, `Find`, `Parse`,
`Overwrite`, `RewriteSome`, `Rewrite`, `Unlink`; and the two readers that hold
no lock, `BeginGet`, `LookInOpen`, `LookInResolved` and `BeginList`,
`ParseNext`, `EndList`.  A `write_text` empties the file, may write part and
then all of it.  `Crash` stops every handler.  `MoveByHand`, which
only `MovedSpec` has, is what the README the store writes into its directory
offers.  `filed` and `noted` are
histories of what was acknowledged.

## 4. Runs

| run | question | bounds |
|---|---|---|
| `registry` | do agents, admins, reaper, restarts and time keep the registry's promises? | 2 machines of 2 architectures, 2 agents, 2 profiles, leases of 1 and 2, clock to 3 |
| `statements` | are the operations, taken statement by statement, the single steps of `Reservations`, and what does a crash leave? | 2 machines, 1 profile, 1 agent, 1 wiring, 1 rule id, 1 call of `/resolve`, lease of 1, clock to 1, crashes |
| `resolve_late` (violated) | does a rule only ever enrol a machine that is not registered? | same without crashes |
| `lease_reaped` | with failing power and restarts, are expired leases released, and their machines off unless their own power-off was missed? do agents and reaper switch pool machines only? | 2 machines, 1 agent, lease of 1, clock to 1, one distinct command in flight besides the reaper's |
| `lease_restart` (violated) | does the machine end up off whatever restarts? | 1 machine |
| `cascade` | is every cascade complete, unique and ordered, every chain the ancestry, do they agree and end? | base and three profiles, every combination of parents among the three, circles, an unknown parent, a parent for base |
| `jobs` | do cascades stay apart, end as they should, return the lock, and does a poller see final results? | 2 requests, cascades of up to 2 jobs, a poller of one request's jobs, profiles edited meanwhile |
| `jobs_leak` (violated) | is a request rejected only while a build runs? | same without poller |
| `boot` | are reboots asked for and heard, does the view go forward and catch up? | 2 tokens, 1 GRUB state, 2 units, 1 report under way, 1 fault, stale after 1 period |
| `boot_online` (violated) | is a machine online whose heartbeat was just accepted? | 1 token, 1 unit and a hook with a custom state, stale after 2 periods |
| `reports` | does the store keep what it acknowledged, and do readers find it? | 2 clients, 2 reports, 1 may be open, 2 resolutions, crashes |
| `reports_moved` (violated) | also when files are moved by hand? | same |

Why the bounds are enough to see the interesting cases: two machines tell
"this one" from "the other one" in every operation that selects machines, and
`LIMIT n` with n of 1 and 2 takes some and all.  A clock to 3 with leases of 1
and 2 has leases that are running, at their last instant, expired and unswept,
renewed after the other expired, and re-leased; in `statements`, where the
question is what is between two statements, a lease that runs and one that has
expired suffice, and so it is in `lease_reaped`, where it is about what is under
way when the lease expires.  One call of `/resolve` races with the manual operations on
the same machine; two of them would be ordered by the lock like a call and a
manual enrolment.  In `lease_*` the bound on commands in flight applies to the
pool's and the admin's calls (`Room`), never to the reaper.  Two tokens have a
boot and its predecessor, or a mint and its retransmission; one report under
way can be later than the machine's reboot, than a mint, or than a deletion,
and one fault loses any one of the things sent.  Two clients of one report are
a writer and a reader, or two writers; a cap of one is reached by the first.
Two jobs are a root and a descendant; that a descendant fails and its successor
is still built is a case of three, which the proof of `Outcome` covers for any
length.  Safety beyond the bounds is what the proofs are for.

Deadlock is checked in `registry`, `statements`, `resolve_late`, `reports` and
`reports_moved`.  It is not in the others: a build is served once, a cascade and a chain are
computed once, the instances of `LeasePower` end when the clock is at its bound
and nothing is left to release, and a machine of `BootLifecycle` that waits for
a grub.cfg has nothing to do once the tokens are used up.

### Fairness

* `LeasePower`: weak fairness of `Startup` (the service manager restarts the
  container), of the reaper's steps (one daemon thread that catches every
  exception and never stops) and of the steps of each command (a worker thread
  starts it, and subprocess.run has a timeout).  None for agents, admins or
  crashes; the liveness properties therefore speak of runs in which the process
  finally stays up.
* `ProfileResolver`: the loops and the recursion keep running.
* `BuildJobs`: weak fairness of the handler and of the build thread (make
  exits, the callback returns), strong fairness of the end of the scan, which
  visits finitely many files.  None for clients and editors.
* `BootLifecycle`: weak fairness of time (`Tick`), of the systemd timer that
  runs the heartbeat, of the server's handlers and the reporter's reading of
  replies taken together, and of `systemctl reboot`.  None for GRUB, people,
  builds or for anything being lost: the liveness properties speak of a machine
  whose reporter is at work (`Heard`), and losses are bounded by `MaxFaults`,
  which stands for a network that finally delivers.

### What the violated runs show

* `resolve_late`: `resolve_machine` looks the MAC up, looks for a rule and
  enrols, and only the last is under the lock.  A machine an admin enrols in
  between is enrolled again under the rule's profile.  The docstring has rules
  for a MAC that is not registered.  (Its lease and its power wiring survive,
  which `statements` shows.)
* `lease_restart`: `reap_once` commits the releases first and switches off from
  a list in memory.  A restart in between leaves a machine on that nobody
  holds, and no later sweep finds it.  The module's docstring says the reaper
  closes exactly that gap.
* `jobs_leak`: `start_with_downstream` takes the lock and then reads files
  outside any `try`; one exception and every later build is rejected.
* `boot_online`: a custom state is accepted but not recorded, so
  `latest_state_at` stays as it was; and the heartbeat repeats whatever was
  accepted last.  A machine whose profile reports a custom state goes offline
  while it heartbeats.
* `reports_moved`: `resolve` writes `resolved/<name>` and unlinks the path it
  found the report at.  For a report moved to `resolved/` by hand, as the
  directory's README offers, and not edited, these are one file.

## 5. Proofs

Checked by TLAPS for every value of the constants that satisfies the named
assumptions (finite sets of machines and profiles, positive lease lengths,
`NULL` outside the data, and the like).  Eight modules hold them.  Every safety
invariant and every action property that the passing runs check is stated by one
of the theorems.

**ReservationsProofs.**  `Invariance`: `Spec => []IInv`.  The invariants alone
are not inductive.  That a permanently held machine is not opted in survives
`Reserve` only because a machine that is not held at all is opted in, and that
needs three more facts: a row is permanent exactly when it never expires
(`RowsWellFormed`), nothing is held before the migration and the process is not
up (`NoRowsBeforeMigration`), and whoever has a lease was opted in
(`LeasedMachinesAreOptedIn`).  From `IInv` follow `TypeCorrectness`,
`UniqueIndex`, `NoOrphans`, `OptIn`, and the action properties `AgentsConfined`
and `LeaseTerm`.  `ReserveTakesCount` is about one call: it leases exactly
`count` machines, or all that are free where there are fewer, the lowest MACs
first.  `LIMIT n` is modelled by counting the rows before a row; that this takes
n of them is the lemma `LimitTakes`, by a bijection between the rows and their
places in the order.

**RegistryStatementsProofs.**  For any machines, rules and concurrent calls of
`/resolve`, and a crash after any statement.  The invariant of `Reservations`
is not one here: between two statements of `enroll` a registered machine has no
hold.  The invariant of `StatementsInvariance` therefore separates what every
database on the way satisfies, since a crash may leave any of them (`Sound`: one
row per machine, none without a machine), from what only the last one owes,
which is the one that counts once the operation has the lock (`Intact`).  That an operation
under way never looks undone when it is not (`LeadsTo`) is what `torn` rests
on.  `CrashSafety`, `PermanentUnlessOptedIn` and `WiringKept` follow.

`OperationsAreAtomic` is the refinement.  One lemma per operation shows that
getting the lock, under `Settled`, is the action of `Reservations`, for the
loops with the value of `todo`'s last element; the statements that follow, the
readers and the wiring stutter; a start is `Startup`, and a crash is `Crash` or
cuts an operation short.  `AtomicWithoutCrashes` draws the conclusion for a
process that is not restarted (`~CanCrash`): the registry statement by
statement is the registry of `Reservations`, so every theorem about that module
is one about it.

**LeasePowerProofs.**  `PowerImplementsRegistry`: `PowerSpec => Spec`; each
action of the composition is a registry action or leaves the registry's
variables alone.  So the registry's theorems hold of the composition
(`PowerOptIn` is one), and `PowerStaysInPool` is drawn from them: whatever
`reserve_machines`, `release_machines` and `reap_once` hand to the power layer
has been opted in.  The machines of a reserve are free, and a machine that
nobody holds was opted in because every other one has a permanent hold; the
machines of a release or a sweep have a lease, and whoever has one was opted in.
Both are parts of the registry's invariant `IInv`, not of any guard of the power
layer.  The types of the power layer are the lemma `PowerTyped`.

**BuildCascadeProofs.**  `Complete`, `TopologicalOrder` and `RootLeads` from an
invariant in three parts: of the work list (all that is found is downstream,
every child of a member has been found), of the rounds (a node waits for exactly
its parents that are left) and, without circles, of the order (positions are
used up from 1, parents first, the root before all).  `OneBuildEach` needs
neither: with circles the remaining nodes are appended as they are, and what is
invariant is the numbering.  Positions that are distinct and at most the size of
the cascade leave none out, which is the pigeonhole theorem.  The sets of profiles are
arbitrary finite sets of numbers.

**ProfileResolverProofs.**  `ChainComplete`, `FailsOnlyIfBroken` and
`CascadeAgreesWithChains`, for any parent files.  The invariant says of the
stack that each call is of another profile, above the target and not in the
chain, that it was made for a child that waits for it, and that its parents are
in the chain, yet to be visited, or what it waits for; so a profile enters the
chain after all its parents and once.  A resolved chain is closed under parents,
hence contains the least such set, `Ancestry`.  The errors are real: a parent
that is on the stack closes a circle through the calls between, and one without
a file is above the target.  The other way round, a chain in which parents come
first has no circle: of the members of one, that with the least index has its
parent in the circle before it.  That cascade and chain agree is the duality of
"downstream of" and "above" (`UpIsDown`), two least fixed points of one relation.

**BuildJobsProofs.**  `Invariance`, then `NoInterleaving`, `Outcome` and
`PollersFinal`, for any set of requests and any cascade length.  The invariant
says who has the lock, how far each request's jobs are by the index it is at,
and what a poller that has read a terminal state has read since.

**BootLifecycleProofs.**  For any number of tokens, states, units, reports under
way and faults.  `RebootsAsked` needs an invariant about the signal
(`SignalInv`): a pending signal that a running boot can see is newer than its
token, because its grub.cfg was only handed out after its mint had cleared the
signal; and a reply that says reboot was made of such a signal.  This rests on
tokens being fresh (`TokenInv`): nothing is known of, or under way for, a token
whose grub.cfg has not been read.  `StatesReal` follows from `ReportInv`: what
is under way for the running boot is what the machine has reached.
`ViewGoesForward` needs that there is a last session with a state; that a
nonempty set of numbers has a greatest element is taken from the library's
well-foundedness theorems.

**BugReportsProofs.**  For any number of clients and reports, of `Spec`, in
which nobody moves files (`reports_moved` shows why).  The invariant says who has the lock
(`LockInv`), where an acknowledged report is whole (`FileInv`: in `open/` until
its resolution is acknowledged, in `resolved/` from then on), and for each call
what it may rely on: that the id being filed is in no file yet and there is
room for it, that `resolve` has read the text that is still in `open/`, that
`get`, having missed a known report in `open/`, will find it in `resolved/`, and
that `list` has seen, or has yet to look at, every report it owes.  `CapHolds`
counts files with the library's theorems about finite sets.

Only model-checked is liveness: `ExpiredLeaseIsReleased`,
`ExpiredLeaseEndsOff`, `BothTerminate`, `JobsEnd`, `LockComesFree`,
`SignalIsHeard`, `BootIsShown` and `RowFollowsBoot`.  It needs fairness and
ENABLED, which the prover does not handle.  The disagreements of section 4 are
counterexamples, and need no proof.

## 6. Variants

For each property of a passing run there is a variant of one definition
(`mutants` in `PROJECT.json`) under which TLC finds the property violated: a
dropped release before an INSERT, a migration that runs at every start, a power
command for the machines asked for instead of those released, a lock that is not tested, a state published too early, a
signal no mint clears, an unlink before the write, a hold deleted after its row,
and so on.

## 7. Not modelled

* The scratch set-up: one shell script, run once per boot and alone; a table of
  cases without a state of its own.
* HTML pages and templates, the profile editor's forms, MCP documentation and
  tool schemas, hardware and diagnostics parsing, the text of grub.cfg, image
  recipes, container and deployment files: no protocol state in them.  They are
  a large share of the code's lines.
* In the modelled parts: columns of `machines` that nothing is decided from,
  purposes and released rows; the event log; `then_delete` of the power layer;
  the two separate reads of the parent files in `compute_build_cascade`; a
  failing `thread.start()`; a make left running by a server restart, or by an
  exception while its output is read (`MakeExits` has that as a plain failure:
  the job ends and the make goes on unobserved); what the
  resolver does along its chain; several machines in `BootLifecycle`, which
  share no state but the tables.
