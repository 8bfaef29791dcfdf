--------------------------- MODULE BootLifecycle ---------------------------
(***************************************************************************)
(* One machine from its grub.cfg to its next reboot: tftpjail's mint       *)
(* (fleetboot/tftp_glue), the boot sessions, /sessions, /status and        *)
(* /grub-event of fleetboot/server (boot_sessions.py, app.py), the         *)
(* reporter and its heartbeat in the image (fleetboot/reporter), the       *)
(* soft-reboot signal, and the fleet view dashboard.py and mcp.py show.    *)
(*                                                                         *)
(* Tokens are numbered in the order they are minted.  The states of        *)
(* BOOT_STATE_ORDER are their positions, from 1: GRUB sends the first      *)
(* GrubStates of them, the image the others, in no fixed order.  Custom    *)
(* stands for a state that is not in the order (runner_started,            *)
(* rebooting).  Time is counted in heartbeat periods.                      *)
(***************************************************************************)
EXTENDS Integers, FiniteSets

CONSTANTS
    MaxTokens,            \* bound: how many tokens are minted
    GrubStates, LastState,
    Units,                \* the states the image's units and hooks report
    Window,               \* _STALE_AFTER_SECONDS, in heartbeat periods
    MaxMessages,          \* bound: how many reports are under way
    MaxFaults             \* bound: how often something is lost or fails

ASSUME BoundAssumption ==
    MaxTokens \in Nat /\ MaxMessages \in Nat /\ MaxFaults \in Nat
ASSUME StateAssumption ==
    GrubStates \in Nat /\ LastState \in Nat /\ GrubStates < LastState
ASSUME UnitAssumption == Units \subseteq (GrubStates + 1)..(LastState + 1)
ASSUME WindowAssumption == Window \in Nat \ {0}

VARIABLES
    phase,                \* what it is running
    token,                \* the token on its kernel command line, 0: none yet
    stage,                \* how many GRUB events it has sent
    todo,                 \* the image's one-shot reports still to send
    file,                 \* /run/fleetboot/current-state, 0: no file
    beatDue,              \* has this period's heartbeat yet to fire?
    acking,               \* is a reporter about to reboot it?
    requests,             \* read requests for grub.cfg at tftpjail
    minting,              \* tokens whose /sessions handler has yet to clear
    offered,              \* tokens in a grub.cfg on its way to the machine
    messages,             \* reports, and the replies to them
    faults,               \* how many things have been lost or have failed
    minted,               \* how many tokens have been minted
    known,                \* the tokens in boot_sessions
    latest,               \* latest_state of each, 0: None
    age,                  \* periods since MAX(latest_state_at); Window: long ago
    row,                  \* is the machine enrolled?
    pending,              \* pending_reboot
    reporter,             \* the boot whose hostname, ip, version the row has
    asked                 \* history: tokens minted before a reboot was asked for

machine == <<phase, token, stage, todo, file, beatDue, acking>>
config == <<requests, minting, offered>>
network == <<messages, faults>>
store == <<minted, known, latest, age>>
registry == <<row, pending, reporter, asked>>
vars == <<machine, config, network, store, registry>>

-----------------------------------------------------------------------------
(* Values.                                                                 *)

Tokens == 1..MaxTokens
Ranked == 1..LastState
Custom == LastState + 1

\* A report, and the reply to it.  kind "ack" is the report of "rebooting"
\* that is sent with handle_pending_reboot=False.
Report(t, s, k) == [token |-> t, state |-> s, kind |-> k, at |-> "request",
                    reboot |-> FALSE]
Recorded(m) == [token |-> m.token, state |-> m.state, kind |-> m.kind,
                at |-> "recorded", reboot |-> FALSE]
Reply(m, b) == [token |-> m.token, state |-> m.state, kind |-> m.kind,
                at |-> "reply", reboot |-> b]

Message == [token : Tokens, state : 1..Custom, kind : {"grub", "report", "ack"},
            at : {"request", "recorded", "reply"}, reboot : BOOLEAN]

Send(m) ==
    /\ Cardinality(messages) < MaxMessages
    /\ messages' = messages \cup {m}

Fault ==
    /\ faults < MaxFaults
    /\ faults' = faults + 1

Higher(s, r) == IF s >= r THEN s ELSE r

-----------------------------------------------------------------------------
(* What the fleet view shows.                                              *)

\* Variant: the first one counts.
ShownBootFirst ==
    CHOOSE t \in 0..MaxTokens :
        /\ t = 0 <=> \A u \in known : latest[u] = 0
        /\ t # 0 => t \in known /\ latest[t] # 0
        /\ \A u \in known : latest[u] # 0 => t <= u

\* _states_by_mac: of the sessions that have a state the last one counts.  The
\* SELECT of active_sessions has no ORDER BY: that the rows come in the order
\* of their minting is SQLite's scan by rowid, and assumed here.
ShownBoot ==
    CHOOSE t \in 0..MaxTokens :
        /\ t # 0 => t \in known /\ latest[t] # 0
        /\ \A u \in known : latest[u] # 0 => u <= t

ShownState == IF ShownBoot = 0 THEN 0 ELSE latest[ShownBoot]

\* online: MAX(latest_state_at) is recent.
Online == age < Window

-----------------------------------------------------------------------------
(* The machine boots: grub.cfg, GRUB's events, the image.                  *)

\* It starts again, at GRUB, from whatever it was doing: what was addressed
\* to it is lost, what it had sent is not.
StartAgain ==
    /\ phase' = "grub" /\ token' = 0 /\ stage' = 0 /\ todo' = {}
    /\ file' = 0 /\ beatDue' = FALSE /\ acking' = FALSE
    /\ requests' = IF requests = {} THEN {} ELSE {"stale"}
    /\ offered' = {}
    /\ messages' = {m \in messages : m.at # "reply"}
    /\ UNCHANGED <<faults, minting, store, registry>>

\* Somebody presses the button, or the PDU does.  A machine that is off is
\* one that has yet to ask for its grub.cfg.
PowerCycle == StartAgain

\* A read request (or its retransmission) for grub.cfg of an enrolled
\* machine reaches tftpjail.
AskConfig ==
    /\ phase = "grub" /\ token = 0 /\ row
    /\ minted + (IF "stale" \in requests THEN 1 ELSE 0) < MaxTokens
    /\ requests' = requests \cup {"live"}
    /\ UNCHANGED <<machine, minting, offered, network, store, registry>>

\* render puts the token into the grub.cfg it was asked for.
Render(r, t) == offered' = IF r = "live" THEN offered \cup {t} ELSE offered

\* BootSessionStore.mint, for the rendering of grub.cfg.
Mint(r) ==
    /\ r \in requests /\ minted < MaxTokens
    /\ requests' = requests \ {r}
    /\ minted' = minted + 1
    /\ known' = known \cup {minted + 1}
    /\ latest' = [latest EXCEPT ![minted + 1] = 0]
    /\ minting' = minting \cup {minted + 1}
    /\ Render(r, minted + 1)
    /\ UNCHANGED <<machine, network, age, registry>>

\* Variant: the signal stays.
ClearSignalNever(t) ==
    /\ t \in minting
    /\ minting' = minting \ {t}
    /\ UNCHANGED <<machine, requests, offered, network, store, registry>>

\* mint_session clears the signal and replies.
ClearSignal(t) ==
    /\ t \in minting
    /\ minting' = minting \ {t}
    /\ pending' = FALSE
    /\ UNCHANGED <<machine, requests, offered, network, store, row, reporter,
                   asked>>

\* The handler fails or its reply comes too late: render raises, there is
\* no grub.cfg.
MintFails(t) ==
    /\ t \in minting
    /\ offered' = offered \ {t}
    /\ minting' \in {minting, minting \ {t}}
    /\ Fault
    /\ UNCHANGED <<machine, requests, messages, store, registry>>

LoseConfig(t) ==
    /\ t \in offered \ minting
    /\ offered' = offered \ {t}
    /\ Fault
    /\ UNCHANGED <<machine, requests, minting, messages, store, registry>>

ReadConfig(t) ==
    /\ phase = "grub" /\ token = 0
    /\ t \in offered \ minting
    /\ token' = t
    /\ offered' = offered \ {t}
    /\ UNCHANGED <<phase, stage, todo, file, beatDue, acking, requests,
                   minting, network, store, registry>>

\* The next "source .../grub-event/<token>/<state>" of grub.cfg.
GrubEvent ==
    /\ phase = "grub" /\ token # 0 /\ stage < GrubStates
    /\ stage' = stage + 1
    /\ Send(Report(token, stage + 1, "grub"))
    /\ UNCHANGED <<faults, phase, token, todo, file, beatDue, acking, config, store,
                   registry>>

\* boot: live-boot fetches the image, for a token that is known.
BootImage ==
    /\ phase = "grub" /\ token # 0 /\ stage = GrubStates
    /\ token \in known
    /\ phase' = "up"
    /\ todo' = Units
    /\ UNCHANGED <<token, stage, file, beatDue, acking, config, network,
                   store, registry>>

-----------------------------------------------------------------------------
(* The reporter.                                                           *)

\* A unit, or a profile's hook, runs the reporter once.
ReportOnce(s) ==
    /\ phase = "up" /\ s \in todo
    /\ todo' = todo \ {s}
    /\ Send(Report(token, s, "report"))
    /\ UNCHANGED <<faults, phase, token, stage, file, beatDue, acking, config, store,
                   registry>>

\* The timer fires: the state in the file is sent again.
Heartbeat ==
    /\ phase = "up" /\ beatDue
    /\ beatDue' = FALSE
    /\ IF file = 0 THEN messages' = messages
       ELSE Send(Report(token, file, "report"))
    /\ UNCHANGED <<faults, phase, token, stage, todo, file, acking, config, store,
                   registry>>

\* Variant: the heartbeat's own reply is not looked at.
ReceiveDeaf(m) ==
    /\ m \in messages /\ m.at = "reply"
    /\ phase = "up" /\ m.token = token
    /\ messages' = messages \ {m}
    /\ file' = m.state
    /\ acking' = (acking \/ (m.kind = "report" /\ m.reboot /\ todo # {}))
    /\ UNCHANGED <<faults, phase, token, stage, todo, beatDue, config, store, registry>>

\* report_state gets its reply.
Receive(m) ==
    /\ m \in messages /\ m.at = "reply"
    /\ phase = "up" /\ m.token = token
    /\ file' = m.state
    /\ IF m.kind = "report" /\ m.reboot
       THEN /\ acking' = TRUE
            /\ messages' = (messages \ {m}) \cup {Report(token, Custom, "ack")}
       ELSE messages' = messages \ {m} /\ acking' = acking
    /\ UNCHANGED <<faults, phase, token, stage, todo, beatDue, config, store, registry>>

\* systemctl reboot, once the acknowledgement is answered or given up.
SoftReboot == acking /\ StartAgain

\* Neither systemctl nor reboot can be run.
CannotReboot ==
    /\ acking
    /\ acking' = FALSE
    /\ Fault
    /\ UNCHANGED <<phase, token, stage, todo, file, beatDue, config, messages,
                   store, registry>>

\* A report or a reply is lost, or its process has given up.
Lose(m) ==
    /\ m \in messages
    /\ messages' = messages \ {m}
    /\ Fault
    /\ UNCHANGED <<machine, config, store, registry>>

-----------------------------------------------------------------------------
(* /status and /grub-event.                                                *)

\* Variant: the last report counts.
RecordLast(m) ==
    /\ m \in messages /\ m.at = "request" /\ m.state \in Ranked
    /\ m.token \in known
    /\ latest' = [latest EXCEPT ![m.token] = m.state]
    /\ age' = 0
    /\ messages' = (messages \ {m}) \cup {Recorded(m)}
    /\ UNCHANGED <<faults, machine, config, minted, known, registry>>

\* Variant: for the newest session of the MAC.
RecordForMachine(m) ==
    /\ m \in messages /\ m.at = "request" /\ m.state \in Ranked
    /\ m.token \in known
    /\ latest' = [latest EXCEPT ![minted] = Higher(m.state, @)]
    /\ age' = 0
    /\ messages' = (messages \ {m}) \cup {Recorded(m)}
    /\ UNCHANGED <<faults, machine, config, minted, known, registry>>

\* record_state: "latest_state still tracks the highest-index furthest along
\* so the dashboard shows the most-progressed state, and the timestamp always
\* advances".
Record(m) ==
    /\ m \in messages /\ m.at = "request" /\ m.state \in Ranked
    /\ m.token \in known
    /\ latest' = [latest EXCEPT ![m.token] = Higher(m.state, @)]
    /\ age' = 0
    /\ messages' = (messages \ {m}) \cup {Recorded(m)}
    /\ UNCHANGED <<faults, machine, config, minted, known, registry>>

\* Variant: a custom state is recorded as well.
LookUpRecording(m) ==
    /\ m \in messages /\ m.at = "request" /\ m.state = Custom
    /\ m.token \in known
    /\ latest' = [latest EXCEPT ![m.token] = Higher(m.state, @)]
    /\ age' = 0
    /\ messages' = (messages \ {m}) \cup {Recorded(m)}
    /\ UNCHANGED <<faults, machine, config, minted, known, registry>>

\* A custom state only needs a session.
LookUp(m) ==
    /\ m \in messages /\ m.at = "request" /\ m.state = Custom
    /\ m.token \in known
    /\ messages' = (messages \ {m}) \cup {Recorded(m)}
    /\ UNCHANGED <<faults, machine, config, store, registry>>

\* 401: the reporter raises, the GRUB event is dropped.
Refuse(m) ==
    /\ m \in messages /\ m.at = "request" /\ m.token \notin known
    /\ messages' = messages \ {m}
    /\ UNCHANGED <<faults, machine, config, store, registry>>

\* grub_event replies with nothing that GRUB reads.
AnswerGrub(m) ==
    /\ m \in messages /\ m.at = "recorded" /\ m.kind = "grub"
    /\ messages' = messages \ {m}
    /\ UNCHANGED <<faults, machine, config, store, registry>>

\* What a report says of hostname, ip, version, diagnostics and hardware goes
\* to the row of the session's MAC, if there is one.
Stamp(t) == reporter' = IF row THEN t ELSE reporter

\* Is somebody waiting for the reply?
Waiting(m) == phase = "up" /\ m.token = token

\* Variant: the row is not updated by a custom state.
AnswerRanked(m) ==
    /\ m \in messages /\ m.at = "recorded" /\ m.kind # "grub"
    /\ IF m.state = Custom THEN reporter' = reporter ELSE Stamp(m.token)
    /\ messages' = (messages \ {m}) \cup
           IF Waiting(m) THEN {Reply(m, row /\ pending)} ELSE {}
    /\ UNCHANGED <<faults, machine, config, store, row, pending, asked>>

\* The rest of post_status: the row is updated, and the reply says whether a
\* reboot is wanted.
Answer(m) ==
    /\ m \in messages /\ m.at = "recorded" /\ m.kind # "grub"
    /\ Stamp(m.token)
    /\ messages' = (messages \ {m}) \cup
           IF Waiting(m) THEN {Reply(m, row /\ pending)} ELSE {}
    /\ UNCHANGED <<faults, machine, config, store, row, pending, asked>>

-----------------------------------------------------------------------------
(* What administrators, agents and builds do.                              *)

\* power_machine whose reboot command failed or timed out; a build that
\* succeeded; set_pending_reboot(mac, True).
Arm ==
    /\ row
    /\ pending' = TRUE
    /\ asked' = 1..minted
    /\ UNCHANGED <<machine, config, network, store, row, reporter>>

\* power_fleet reboots the machines that are online.
RebootFleet == Online /\ (PowerCycle \/ Arm)

\* set_pending_reboot(mac, False)
Disarm ==
    /\ pending' = FALSE
    /\ UNCHANGED <<machine, config, network, store, row, reporter, asked>>

\* remove takes the machine's sessions with it.
Delete ==
    /\ row
    /\ row' = FALSE /\ pending' = FALSE /\ reporter' = 0
    /\ known' = {}
    /\ latest' = [t \in Tokens |-> 0]
    /\ age' = Window
    /\ UNCHANGED <<machine, config, network, minted, asked>>

\* enroll, of a machine with or without a row: it "resets every field".
Enrol ==
    /\ row' = TRUE /\ pending' = FALSE /\ reporter' = 0
    /\ UNCHANGED <<machine, config, network, store, asked>>

\* A heartbeat period goes by; the machine's timer has kept up.
Tick ==
    /\ ~beatDue
    /\ age' = IF age < Window THEN age + 1 ELSE Window
    /\ beatDue' = (phase = "up")
    /\ UNCHANGED <<phase, token, stage, todo, file, acking, config, network,
                   minted, known, latest, registry>>

-----------------------------------------------------------------------------

Init ==
    /\ phase = "grub" /\ token = 0 /\ stage = 0 /\ todo = {}
    /\ file = 0 /\ beatDue = FALSE /\ acking = FALSE
    /\ requests = {} /\ minting = {} /\ offered = {}
    /\ messages = {} /\ faults = 0
    /\ minted = 0 /\ known = {} /\ latest = [t \in Tokens |-> 0]
    /\ age = Window
    /\ row = FALSE /\ pending = FALSE /\ reporter = 0 /\ asked = {}

Boot ==
    \/ PowerCycle \/ AskConfig \/ GrubEvent \/ BootImage
    \/ \E r \in {"live", "stale"} : Mint(r)
    \/ \E t \in Tokens :
           ClearSignal(t) \/ MintFails(t) \/ LoseConfig(t) \/ ReadConfig(t)

Reporting ==
    \/ \E s \in Units : ReportOnce(s)
    \/ Heartbeat \/ SoftReboot \/ CannotReboot
    \/ \E m \in messages :
           \/ Receive(m) \/ Lose(m)
           \/ Record(m) \/ LookUp(m) \/ Refuse(m) \/ Answer(m) \/ AnswerGrub(m)

Administration == Arm \/ RebootFleet \/ Disarm \/ Delete \/ Enrol

Next == Boot \/ Reporting \/ Administration \/ Tick

Spec == Init /\ [][Next]_vars

-----------------------------------------------------------------------------
(* Properties.                                                             *)

\* The values the variables range over; latest_state is None or one of the
\* ranked states, whatever /status is sent.
TypeOK ==
    /\ phase \in {"grub", "up"}
    /\ token \in 0..MaxTokens
    /\ stage \in 0..GrubStates
    /\ todo \in SUBSET Units
    /\ file \in 0..Custom
    /\ beatDue \in BOOLEAN /\ acking \in BOOLEAN
    /\ requests \in SUBSET {"live", "stale"}
    /\ minting \in SUBSET Tokens /\ offered \in SUBSET Tokens
    /\ messages \in SUBSET Message
    /\ faults \in 0..MaxFaults
    /\ minted \in 0..MaxTokens
    /\ known \in SUBSET Tokens
    /\ latest \in [Tokens -> 0..LastState]
    /\ age \in 0..Window
    /\ row \in BOOLEAN /\ pending \in BOOLEAN
    /\ reporter \in 0..MaxTokens
    /\ asked \in SUBSET Tokens

\* A machine only reboots itself when somebody asked for it since the token
\* of its boot was minted: mint_session has spent the request that brought it
\* here, whatever replies, retransmissions and heartbeats are under way.
RebootsAreAsked == acking => token \in asked

\* The session of the running boot is never further than the machine:
\* record_state takes the furthest of late, repeated and reordered reports,
\* and none of another boot.
StateIsReal ==
    /\ phase = "grub" /\ token # 0 => latest[token] <= stage
    /\ phase = "up" => latest[token] <= GrubStates \/ latest[token] \notin todo

\* The fleet view (_states_by_mac) never goes back, to an earlier boot or to
\* an earlier state of the same one, unless the machine is deleted.
ViewNeverGoesBack ==
    [][\/ ShownBoot' > ShownBoot
       \/ ShownBoot' = ShownBoot /\ ShownState' >= ShownState
       \/ row /\ ~row']_vars

\* The machine's reporter is at work.
Heard == phase = "up" /\ token \in known /\ file # 0

\* A machine whose heartbeat works comes to reboot when the signal is armed:
\* no lost reply or failed acknowledgement makes report_state forget it.
SignalIsHeard == row /\ pending /\ Heard ~> ~(row /\ pending /\ Heard)

\* The heartbeat makes the fleet view show the running boot, and the row what
\* it said of itself, after whatever was lost.
Shown == ShownBoot = token /\ Online
Ranking == Heard /\ row /\ file # Custom
BootIsShown == Ranking ~> Shown \/ ~Ranking
RowFollowsBoot == Heard /\ row ~> reporter = token \/ ~(Heard /\ row)

\* "online" means that it has heartbeated in the last six minutes: a machine
\* whose heartbeat has just been accepted is online.
HeartbeatKeepsOnline ==
    [][(\E m \in messages :
           m.token = token /\ m.state = file /\ (Record(m) \/ LookUp(m)))
           => Online']_vars

\* Time passes, timers fire, handlers answer and systemctl reboots.
Fairness ==
    /\ WF_vars(Tick)
    /\ WF_vars(Heartbeat)
    /\ WF_vars(\E m \in messages :
                  \/ Record(m) \/ LookUp(m) \/ Refuse(m) \/ Receive(m)
                  \/ Answer(m) \/ AnswerGrub(m))
    /\ WF_vars(SoftReboot)

FairSpec == Spec /\ Fairness

-----------------------------------------------------------------------------
(* The inductive strengthening.                                            *)

\* Tokens are fresh: nothing has been reported under one that is offered.
TokenInv ==
    /\ token <= minted
    /\ minting \cup offered \cup known \cup asked \subseteq 1..minted
    /\ token \notin minting \cup offered
    /\ \A t \in offered : latest[t] = 0
    /\ \A m \in messages : m.token \in 1..minted /\ m.token \notin offered

\* A boot whose token the handler is done with sees no signal that is older
\* than the token.
SignalInv ==
    /\ pending => \A t \in offered \ minting : t \in asked
    /\ pending /\ token # 0 => token \in asked
    /\ \A m \in messages : m.reboot => m.token \in asked

\* What the running boot has said of itself is so.
Real(s) ==
    IF phase = "grub" THEN s <= stage
    ELSE s <= GrubStates \/ s = Custom \/ s \notin todo

ReportInv ==
    /\ token = 0 => phase = "grub"
    /\ phase = "up" \/ ~acking
    /\ \A m \in messages : m.token = token => Real(m.state)
    /\ file # 0 => Real(file)

IInv == TypeOK /\ TokenInv /\ SignalInv /\ ReportInv /\ StateIsReal /\ RebootsAreAsked

=============================================================================
