------------------------ MODULE BootLifecycleProofs ------------------------
(* The soft-reboot signal reboots a machine only for a request made since  *)
(* its boot, a session says nothing the machine has not reached, and the   *)
(* fleet view only goes forward: for any number of tokens, states, units,  *)
(* reports under way and faults.                                           *)
EXTENDS BootLifecycle, WellFoundedInduction, TLAPS

-----------------------------------------------------------------------------
(* Messages.                                                               *)

LEMMA ReportMade ==
  ASSUME NEW t \in Tokens, NEW s \in 1..Custom, NEW k \in {"grub", "report", "ack"}
  PROVE  /\ Report(t, s, k) \in Message
         /\ Report(t, s, k).token = t
         /\ Report(t, s, k).state = s
         /\ Report(t, s, k).reboot = FALSE
BY DEF Report, Message

LEMMA RecordedMade ==
  ASSUME NEW m \in Message
  PROVE  /\ Recorded(m) \in Message
         /\ Recorded(m).token = m.token
         /\ Recorded(m).state = m.state
         /\ Recorded(m).reboot = FALSE
BY DEF Recorded, Message

LEMMA ReplyMade ==
  ASSUME NEW m \in Message, NEW b \in BOOLEAN
  PROVE  /\ Reply(m, b) \in Message
         /\ Reply(m, b).token = m.token
         /\ Reply(m, b).state = m.state
         /\ Reply(m, b).reboot = b
BY DEF Reply, Message

LEMMA MessageFields ==
  ASSUME NEW m \in Message
  PROVE  m.token \in Tokens /\ m.state \in 1..Custom /\ m.reboot \in BOOLEAN
BY DEF Message

\* The states of the constants' ranges.
LEMMA StateRanges ==
  /\ GrubStates \in Nat /\ LastState \in Nat /\ GrubStates < LastState
  /\ Custom \in Nat /\ Custom = LastState + 1
  /\ MaxTokens \in Nat /\ MaxFaults \in Nat
  /\ Window \in Nat /\ Window # 0
  /\ Units \subseteq 1..Custom
BY BoundAssumption, StateAssumption, UnitAssumption, WindowAssumption DEF Custom

-----------------------------------------------------------------------------
(* Types.                                                                  *)

LEMMA TypeInit == Init => TypeOK
<1> SUFFICES ASSUME Init PROVE TypeOK
  OBVIOUS
<1>1. beatDue \in BOOLEAN /\ acking \in BOOLEAN /\ row \in BOOLEAN /\ pending \in BOOLEAN
  BY DEF Init
<1>2. latest \in [Tokens -> 0..LastState]
  BY StateRanges DEF Init
<1>3. /\ phase \in {"grub", "up"} /\ token \in 0..MaxTokens /\ stage \in 0..GrubStates
      /\ todo \in SUBSET Units /\ file \in 0..Custom
      /\ requests \in SUBSET {"live", "stale"}
  BY StateRanges DEF Init
<1>4. /\ minting \in SUBSET Tokens /\ offered \in SUBSET Tokens
      /\ messages \in SUBSET Message /\ faults \in 0..MaxFaults
      /\ minted \in 0..MaxTokens /\ known \in SUBSET Tokens
      /\ age \in 0..Window /\ reporter \in 0..MaxTokens /\ asked \in SUBSET Tokens
  BY StateRanges DEF Init
<1>5. QED
  BY <1>1, <1>2, <1>3, <1>4 DEF TypeOK

\* The machine starting again.
LEMMA TypeStartAgain == ASSUME TypeOK, StartAgain PROVE TypeOK'
<1>1. beatDue' \in BOOLEAN /\ acking' \in BOOLEAN
  BY DEF StartAgain
<1>2. /\ phase' \in {"grub", "up"} /\ token' \in 0..MaxTokens
      /\ stage' \in 0..GrubStates /\ todo' \in SUBSET Units /\ file' \in 0..Custom
  BY StateRanges DEF StartAgain
<1>3. requests' \in SUBSET {"live", "stale"} /\ offered' \in SUBSET Tokens
  BY DEF StartAgain
<1>4. messages' \subseteq messages
  BY DEF StartAgain
<1>5. UNCHANGED <<faults, minting, minted, known, latest, age, row, pending, reporter, asked>>
  BY DEF StartAgain, store, registry
<1>6. QED
  BY <1>1, <1>2, <1>3, <1>4, <1>5 DEF TypeOK

\* An action that only sends, answers or drops a message.
LEMMA TypeMessages ==
  ASSUME TypeOK, UNCHANGED <<phase, token, stage, todo, file, beatDue, acking>>,
         UNCHANGED config, UNCHANGED store,
         UNCHANGED <<row, pending, asked>>,
         messages' \in SUBSET Message, faults' \in 0..MaxFaults,
         reporter' \in 0..MaxTokens
  PROVE  TypeOK'
<1>1. UNCHANGED <<requests, minting, offered, minted, known, latest, age>>
  BY DEF config, store
<1>2. QED
  BY <1>1 DEF TypeOK

LEMMA TypeArm == ASSUME TypeOK, Arm PROVE TypeOK'
<1>1. pending' \in BOOLEAN
  BY DEF Arm
<1>2. asked' \in SUBSET Tokens
  BY StateRanges DEF Arm, TypeOK, Tokens
<1>3. UNCHANGED <<phase, token, stage, todo, file, beatDue, acking, requests,
                  minting, offered, messages, faults, minted, known, latest, age,
                  row, reporter>>
  BY DEF Arm, machine, config, network, store
<1>4. QED
  BY <1>1, <1>2, <1>3 DEF TypeOK

LEMMA TypeBoot == ASSUME TypeOK, ReportInv, Boot PROVE TypeOK'
<1> USE StateRanges
<1>1. CASE PowerCycle
  BY <1>1, TypeStartAgain DEF PowerCycle
<1>2. CASE AskConfig
  BY <1>2 DEF AskConfig, machine, network, store, registry, TypeOK
<1>3. CASE GrubEvent
  <2>1. token \in Tokens /\ stage + 1 \in 1..Custom
    BY <1>3 DEF GrubEvent, TypeOK, Tokens
  <2>2. Report(token, stage + 1, "grub") \in Message
    BY <2>1, ReportMade
  <2>3. QED
    BY <1>3, <2>2 DEF GrubEvent, Send, config, store, registry, TypeOK
<1>4. CASE BootImage
  BY <1>4 DEF BootImage, config, network, store, registry, TypeOK
<1>5. ASSUME NEW r \in {"live", "stale"}, Mint(r) PROVE TypeOK'
  <2>1. minted + 1 \in Tokens
    BY <1>5 DEF Mint, TypeOK, Tokens
  <2>2. /\ minted' \in 0..MaxTokens /\ known' \subseteq Tokens
        /\ minting' \subseteq Tokens /\ offered' \subseteq Tokens
    BY <1>5, <2>1 DEF Mint, Render, TypeOK, Tokens
  <2>3. latest' \in [Tokens -> 0..LastState]
    BY <1>5, <2>1 DEF Mint, TypeOK
  <2>4. QED
    BY <1>5, <2>2, <2>3 DEF Mint, machine, network, registry, TypeOK
<1>6. ASSUME NEW t \in Tokens, ClearSignal(t) PROVE TypeOK'
  BY <1>6 DEF ClearSignal, machine, network, store, TypeOK
<1>7. ASSUME NEW t \in Tokens, MintFails(t) PROVE TypeOK'
  BY <1>7 DEF MintFails, Fault, machine, store, registry, TypeOK
<1>8. ASSUME NEW t \in Tokens, LoseConfig(t) PROVE TypeOK'
  BY <1>8 DEF LoseConfig, Fault, machine, store, registry, TypeOK
<1>9. ASSUME NEW t \in Tokens, ReadConfig(t) PROVE TypeOK'
  BY <1>9 DEF ReadConfig, network, store, registry, TypeOK, Tokens
<1>10. QED
  BY <1>1, <1>2, <1>3, <1>4, <1>5, <1>6, <1>7, <1>8, <1>9 DEF Boot

LEMMA TypeReporting == ASSUME TypeOK, ReportInv, Reporting PROVE TypeOK'
<1> USE StateRanges
<1>0. phase = "up" => token \in Tokens
  BY DEF ReportInv, TypeOK, Tokens
<1>1. ASSUME NEW s \in Units, ReportOnce(s) PROVE TypeOK'
  <2>1. Report(token, s, "report") \in Message
    BY <1>0, <1>1, ReportMade DEF ReportOnce
  <2>2. messages' \in SUBSET Message
    BY <1>1, <2>1 DEF ReportOnce, Send, TypeOK
  <2>3. QED
    BY <1>1, <2>2 DEF ReportOnce, config, store, registry, TypeOK
<1>2. CASE Heartbeat
  <2>1. messages' \in SUBSET Message
    <3>1. CASE file = 0
      BY <1>2, <3>1 DEF Heartbeat, TypeOK
    <3>2. CASE file # 0
      <4>1. file \in 1..Custom
        BY <3>2 DEF TypeOK
      <4>2. Report(token, file, "report") \in Message
        BY <1>0, <1>2, <4>1, ReportMade DEF Heartbeat
      <4>3. QED
        BY <1>2, <3>2, <4>2 DEF Heartbeat, Send, TypeOK
    <3>3. QED
      BY <3>1, <3>2
  <2>2. beatDue' \in BOOLEAN
    BY <1>2 DEF Heartbeat
  <2>3. QED
    BY <1>2, <2>1, <2>2 DEF Heartbeat, config, store, registry, TypeOK
<1>3. CASE SoftReboot
  BY <1>3, TypeStartAgain DEF SoftReboot
<1>4. CASE CannotReboot
  <2>1. acking' \in BOOLEAN
    BY <1>4 DEF CannotReboot
  <2>2. QED
    BY <1>4, <2>1 DEF CannotReboot, Fault, config, store, registry, TypeOK
<1>5. ASSUME NEW m \in messages, Receive(m) PROVE TypeOK'
  <2>1. m \in Message
    BY DEF TypeOK
  <2>2. file' \in 0..Custom
    BY <1>5, <2>1, MessageFields DEF Receive
  <2>3. Report(token, Custom, "ack") \in Message
    <3>1. token \in Tokens /\ Custom \in 1..Custom
      BY <1>0, <1>5 DEF Receive
    <3>2. QED
      BY <3>1, ReportMade
  <2>4. messages' \in SUBSET Message /\ acking' \in BOOLEAN
    <3>1. CASE m.kind = "report" /\ m.reboot
      BY <1>5, <2>3, <3>1 DEF Receive, TypeOK
    <3>2. CASE ~(m.kind = "report" /\ m.reboot)
      BY <1>5, <3>2 DEF Receive, TypeOK
    <3>3. QED
      BY <3>1, <3>2
  <2>5. QED
    BY <1>5, <2>2, <2>4 DEF Receive, config, store, registry, TypeOK
<1>6. ASSUME NEW m \in messages, Lose(m) PROVE TypeOK'
  BY <1>6, TypeMessages DEF Lose, Fault, machine, registry, TypeOK
<1>7. ASSUME NEW m \in messages, Record(m) PROVE TypeOK'
  <2>1. m \in Message
    BY DEF TypeOK
  <2>2. messages' \in SUBSET Message
    BY <1>7, <2>1, RecordedMade DEF Record, TypeOK
  <2>3. m.token \in Tokens /\ m.state \in 1..LastState
    BY <1>7, <2>1, MessageFields DEF Record, Ranked
  <2>4. Higher(m.state, latest[m.token]) \in 0..LastState
    BY <2>3 DEF Higher, TypeOK
  <2>5. latest' = [latest EXCEPT ![m.token] = Higher(m.state, latest[m.token])]
    BY <1>7, <2>3 DEF Record, TypeOK
  <2>6. latest' \in [Tokens -> 0..LastState]
    BY <2>3, <2>4, <2>5 DEF TypeOK
  <2>7. QED
    BY <1>7, <2>2, <2>6 DEF Record, machine, config, registry, TypeOK
<1>8. ASSUME NEW m \in messages, LookUp(m) PROVE TypeOK'
  <2>1. messages' \in SUBSET Message
    BY <1>8, RecordedMade DEF LookUp, TypeOK
  <2>2. QED
    BY <1>8, <2>1, TypeMessages DEF LookUp, machine, registry, TypeOK
<1>9. ASSUME NEW m \in messages, Refuse(m) PROVE TypeOK'
  BY <1>9, TypeMessages DEF Refuse, machine, registry, TypeOK
<1>10. ASSUME NEW m \in messages, Answer(m) PROVE TypeOK'
  <2>1. m \in Message
    BY DEF TypeOK
  <2>2. (row /\ pending) \in BOOLEAN
    OBVIOUS
  <2>3. messages' \in SUBSET Message
    <3>1. Reply(m, row /\ pending) \in Message
      BY <2>1, <2>2, ReplyMade
    <3>2. QED
      BY <1>10, <3>1 DEF Answer, TypeOK
  <2>4. reporter' \in 0..MaxTokens
    BY <1>10, <2>1, MessageFields DEF Answer, Stamp, Tokens, TypeOK
  <2>5. QED
    BY <1>10, <2>3, <2>4, TypeMessages DEF Answer, machine, TypeOK
<1>11. ASSUME NEW m \in messages, AnswerGrub(m) PROVE TypeOK'
  BY <1>11, TypeMessages DEF AnswerGrub, machine, registry, TypeOK
<1>12. QED
  BY <1>1, <1>2, <1>3, <1>4, <1>5, <1>6, <1>7, <1>8, <1>9, <1>10, <1>11 DEF Reporting

LEMMA TypeAdministration == ASSUME TypeOK, Administration PROVE TypeOK'
<1>1. CASE Arm
  BY <1>1, TypeArm
<1>2. CASE RebootFleet
  BY <1>2, TypeArm, TypeStartAgain DEF RebootFleet, PowerCycle
<1>3. CASE Disarm
  BY <1>3 DEF Disarm, machine, config, network, store, TypeOK
<1>4. CASE Delete
  <2>1. /\ row' \in BOOLEAN /\ pending' \in BOOLEAN
    BY <1>4 DEF Delete
  <2>2. latest' \in [Tokens -> 0..LastState]
    BY <1>4, StateRanges DEF Delete
  <2>3. /\ reporter' \in 0..MaxTokens /\ known' \in SUBSET Tokens /\ age' \in 0..Window
    BY <1>4, StateRanges DEF Delete
  <2>4. UNCHANGED <<phase, token, stage, todo, file, beatDue, acking, requests,
                    minting, offered, messages, faults, minted, asked>>
    BY <1>4 DEF Delete, machine, config, network
  <2>5. QED
    BY <2>1, <2>2, <2>3, <2>4 DEF TypeOK
<1>5. CASE Enrol
  <2>1. row' \in BOOLEAN /\ pending' \in BOOLEAN
    BY <1>5 DEF Enrol
  <2>2. reporter' \in 0..MaxTokens
    BY <1>5, StateRanges DEF Enrol
  <2>3. UNCHANGED <<phase, token, stage, todo, file, beatDue, acking, requests,
                    minting, offered, messages, faults, minted, known, latest,
                    age, asked>>
    BY <1>5 DEF Enrol, machine, config, network, store
  <2>4. QED
    BY <2>1, <2>2, <2>3 DEF TypeOK
<1>6. QED
  BY <1>1, <1>2, <1>3, <1>4, <1>5 DEF Administration

LEMMA TypeTick == ASSUME TypeOK, Tick PROVE TypeOK'
<1>1. beatDue' \in BOOLEAN
  BY DEF Tick
<1>2. age' \in 0..Window
  BY StateRanges DEF Tick, TypeOK
<1>3. QED
  BY <1>1, <1>2 DEF Tick, config, network, registry, TypeOK

LEMMA TypeStutter == ASSUME TypeOK, UNCHANGED vars PROVE TypeOK'
<1>1. UNCHANGED <<phase, token, stage, todo, file, beatDue, acking>>
  BY DEF vars, machine
<1>2. UNCHANGED <<requests, minting, offered, messages, faults, minted, known,
                  latest, age>>
  BY DEF vars, config, network, store
<1>3. UNCHANGED <<row, pending, reporter, asked>>
  BY DEF vars, registry
<1>4. QED
  BY <1>1, <1>2, <1>3 DEF TypeOK

LEMMA TypeStep == TypeOK /\ ReportInv /\ [Next]_vars => TypeOK'
BY TypeBoot, TypeReporting, TypeAdministration, TypeTick, TypeStutter DEF Next

-----------------------------------------------------------------------------
(* Tokens are fresh.                                                       *)

\* What most actions do to the tokens: none is added, and a new message is of
\* the boot that is running or of one that has a message already.
LEMMA TokenFrame ==
  ASSUME TypeOK, TokenInv, minted' = minted, token' \in {0, token},
         minting' \subseteq minting, offered' \subseteq offered,
         known' \subseteq known, asked' \subseteq 1..minted,
         \A t \in offered : latest'[t] \in {0, latest[t]},
         \A m \in messages' :
             \/ \E n \in messages : n.token = m.token
             \/ m.token = token /\ token # 0
  PROVE  TokenInv'
<1>1. token' <= minted' /\ token' \notin minting' \cup offered'
  BY StateRanges DEF TokenInv, TypeOK
<1>2. minting' \cup offered' \cup known' \cup asked' \subseteq 1..minted'
  BY DEF TokenInv
<1>3. \A t \in offered' : latest'[t] = 0
  BY DEF TokenInv
<1>4. token # 0 => token \in 1..minted
  BY StateRanges DEF TokenInv, TypeOK
<1>5. \A m \in messages' : m.token \in 1..minted' /\ m.token \notin offered'
  BY <1>4 DEF TokenInv
<1>6. QED
  BY <1>1, <1>2, <1>3, <1>5 DEF TokenInv

LEMMA TokenBoot == ASSUME TypeOK, TokenInv, ReportInv, Boot PROVE TokenInv'
<1> asked \subseteq 1..minted
  BY DEF TokenInv
<1>1. CASE PowerCycle
  BY <1>1, TokenFrame DEF PowerCycle, StartAgain, store, registry
<1>2. CASE AskConfig
  BY <1>2, TokenFrame DEF AskConfig, machine, network, store, registry
<1>3. CASE GrubEvent
  <2>1. token \in Tokens /\ stage + 1 \in 1..Custom
    BY <1>3, StateRanges DEF GrubEvent, TypeOK, Tokens
  <2>2. Report(token, stage + 1, "grub").token = token
    BY <2>1, ReportMade
  <2>3. QED
    BY <1>3, <2>2, TokenFrame DEF GrubEvent, Send, config, store, registry
<1>4. CASE BootImage
  BY <1>4, TokenFrame DEF BootImage, config, network, store, registry
<1>5. ASSUME NEW r \in {"live", "stale"}, Mint(r) PROVE TokenInv'
  <2>1. /\ minted \in Nat /\ minted' = minted + 1 /\ minted' \notin 1..minted
        /\ minted' \in Tokens /\ 1..minted \subseteq 1..minted'
    BY <1>5, StateRanges DEF Mint, TypeOK, Tokens
  <2>2. token' <= minted' /\ token' \notin minting' \cup offered'
    BY <1>5, <2>1, StateRanges DEF Mint, Render, machine, TokenInv, TypeOK
  <2>3. minting' \cup offered' \cup known' \cup asked' \subseteq 1..minted'
    BY <1>5, <2>1 DEF Mint, Render, registry, TokenInv
  <2>4. latest' = [latest EXCEPT ![minted'] = 0]
    BY <1>5, <2>1 DEF Mint
  <2>5. \A t \in offered' : latest'[t] = 0
    BY <1>5, <2>1, <2>4 DEF Mint, Render, TokenInv, TypeOK
  <2>6. \A m \in messages' : m.token \in 1..minted' /\ m.token \notin offered'
    BY <1>5, <2>1 DEF Mint, Render, network, TokenInv
  <2>7. QED
    BY <2>2, <2>3, <2>5, <2>6 DEF TokenInv
<1>6. ASSUME NEW t \in Tokens, ClearSignal(t) PROVE TokenInv'
  BY <1>6, TokenFrame DEF ClearSignal, machine, network, store
<1>7. ASSUME NEW t \in Tokens, MintFails(t) PROVE TokenInv'
  BY <1>7, TokenFrame DEF MintFails, machine, store, registry
<1>8. ASSUME NEW t \in Tokens, LoseConfig(t) PROVE TokenInv'
  BY <1>8, TokenFrame DEF LoseConfig, machine, store, registry
<1>9. ASSUME NEW t \in Tokens, ReadConfig(t) PROVE TokenInv'
  <2>1. t \in 1..minted /\ minted \in Nat
    BY <1>9, StateRanges DEF ReadConfig, TokenInv, TypeOK
  <2>2. token' <= minted' /\ token' \notin minting' \cup offered'
    BY <1>9, <2>1 DEF ReadConfig, store
  <2>3. QED
    BY <1>9, <2>2 DEF ReadConfig, network, store, registry, TokenInv
<1>10. QED
  BY <1>1, <1>2, <1>3, <1>4, <1>5, <1>6, <1>7, <1>8, <1>9 DEF Boot

LEMMA TokenReporting == ASSUME TypeOK, TokenInv, ReportInv, Reporting PROVE TokenInv'
<1> asked \subseteq 1..minted
  BY DEF TokenInv
<1>0. phase = "up" => token \in Tokens /\ token # 0
  BY StateRanges DEF ReportInv, TypeOK, Tokens
<1>1. ASSUME NEW s \in Units, ReportOnce(s) PROVE TokenInv'
  <2>1. Report(token, s, "report").token = token
    BY <1>0, <1>1, ReportMade, StateRanges DEF ReportOnce
  <2>2. QED
    BY <1>0, <1>1, <2>1, TokenFrame DEF ReportOnce, Send, config, store, registry
<1>2. CASE Heartbeat
  <2>1. CASE file = 0
    BY <1>2, <2>1, TokenFrame DEF Heartbeat, config, store, registry
  <2>2. CASE file # 0
    <3>1. file \in 1..Custom
      BY <2>2, StateRanges DEF TypeOK
    <3>2. Report(token, file, "report").token = token
      BY <1>0, <1>2, <3>1, ReportMade DEF Heartbeat
    <3>3. QED
      BY <1>0, <1>2, <2>2, <3>2, TokenFrame DEF Heartbeat, Send, config, store, registry
  <2>3. QED
    BY <2>1, <2>2
<1>3. CASE SoftReboot
  BY <1>3, TokenFrame DEF SoftReboot, StartAgain, store, registry
<1>4. CASE CannotReboot
  BY <1>4, TokenFrame DEF CannotReboot, config, store, registry
<1>5. ASSUME NEW m \in messages, Receive(m) PROVE TokenInv'
  <2>1. Report(token, Custom, "ack").token = token
    <3>1. token \in Tokens /\ Custom \in 1..Custom
      BY <1>0, <1>5, StateRanges DEF Receive
    <3>2. QED
      BY <3>1, ReportMade
  <2>2. \A n \in messages' : n \in messages \/ n.token = token
    BY <1>5, <2>1 DEF Receive
  <2>3. QED
    BY <1>0, <1>5, <2>2, TokenFrame DEF Receive, config, store, registry
<1>6. ASSUME NEW m \in messages, Lose(m) PROVE TokenInv'
  BY <1>6, TokenFrame DEF Lose, machine, config, store, registry
<1>7. ASSUME NEW m \in messages, Record(m) PROVE TokenInv'
  <2>1. Recorded(m).token = m.token
    BY RecordedMade DEF TypeOK
  <2>2. \A t \in offered : latest'[t] = latest[t]
    BY <1>7 DEF Record, TokenInv, TypeOK
  <2>3. QED
    BY <1>7, <2>1, <2>2, TokenFrame DEF Record, machine, config, registry
<1>8. ASSUME NEW m \in messages, LookUp(m) PROVE TokenInv'
  <2>1. Recorded(m).token = m.token
    BY RecordedMade DEF TypeOK
  <2>2. QED
    BY <1>8, <2>1, TokenFrame DEF LookUp, machine, config, store, registry
<1>9. ASSUME NEW m \in messages, Refuse(m) PROVE TokenInv'
  BY <1>9, TokenFrame DEF Refuse, machine, config, store, registry
<1>10. ASSUME NEW m \in messages, Answer(m) PROVE TokenInv'
  <2>1. Reply(m, row /\ pending).token = m.token
    <3>1. (row /\ pending) \in BOOLEAN
      OBVIOUS
    <3>2. QED
      BY <3>1, ReplyMade DEF TypeOK
  <2>2. \A n \in messages' : n \in messages \/ n.token = m.token
    BY <1>10, <2>1 DEF Answer
  <2>3. QED
    BY <1>10, <2>2, TokenFrame DEF Answer, machine, config, store
<1>11. ASSUME NEW m \in messages, AnswerGrub(m) PROVE TokenInv'
  BY <1>11, TokenFrame DEF AnswerGrub, machine, config, store, registry
<1>12. QED
  BY <1>1, <1>2, <1>3, <1>4, <1>5, <1>6, <1>7, <1>8, <1>9, <1>10, <1>11 DEF Reporting

LEMMA TokenAdministration ==
  ASSUME TypeOK, TokenInv, Administration PROVE TokenInv'
<1> asked \subseteq 1..minted
  BY DEF TokenInv
<1>1. ASSUME Arm PROVE TokenInv'
  BY <1>1, TokenFrame DEF Arm, machine, config, network, store
<1>2. ASSUME PowerCycle PROVE TokenInv'
  BY <1>2, TokenFrame DEF PowerCycle, StartAgain, store, registry
<1>3. CASE Disarm
  BY <1>3, TokenFrame DEF Disarm, machine, config, network, store
<1>4. CASE Delete
  <2>1. \A t \in offered : latest'[t] = 0
    BY <1>4 DEF Delete, TypeOK
  <2>2. QED
    BY <1>4, <2>1, TokenFrame DEF Delete, machine, config, network
<1>5. CASE Enrol
  BY <1>5, TokenFrame DEF Enrol, machine, config, network, store
<1>6. QED
  BY <1>1, <1>2, <1>3, <1>4, <1>5 DEF Administration, RebootFleet

LEMMA TokenStep ==
  ASSUME TypeOK, TokenInv, ReportInv, [Next]_vars PROVE TokenInv'
<1> asked \subseteq 1..minted
  BY DEF TokenInv
<1>1. CASE Tick
  BY <1>1, TokenFrame DEF Tick, config, network, registry
<1>2. CASE UNCHANGED vars
  <2>1. UNCHANGED <<token, minting, offered, messages, minted, known, latest, asked>>
    BY <1>2 DEF vars, machine, config, network, store, registry
  <2>2. QED
    BY <2>1 DEF TokenInv
<1>3. QED
  BY <1>1, <1>2, TokenBoot, TokenReporting, TokenAdministration DEF Next

-----------------------------------------------------------------------------
(* The signal, and the reboots it causes.                                  *)

\* What most actions do to it: no signal, no grub.cfg a machine may read and
\* no message that says reboot is new, or it is of a token in asked.
LEMMA SignalFrame ==
  ASSUME SignalInv, RebootsAreAsked, asked' = asked,
         token' \in {0, token}, acking' => acking /\ token' = token,
         pending' => pending /\ offered' \ minting' \subseteq offered \ minting,
         \A m \in messages' :
             m.reboot => \/ \E n \in messages : n.token = m.token /\ n.reboot
                        \/ m.token \in asked
  PROVE  SignalInv' /\ RebootsAreAsked'
<1>1. pending' => \A t \in offered' \ minting' : t \in asked'
  BY DEF SignalInv
<1>2. pending' /\ token' # 0 => token' \in asked'
  BY DEF SignalInv
<1>3. \A m \in messages' : m.reboot => m.token \in asked'
  BY DEF SignalInv
<1>4. RebootsAreAsked'
  BY DEF RebootsAreAsked
<1>5. QED
  BY <1>1, <1>2, <1>3, <1>4 DEF SignalInv

LEMMA SignalArm ==
  ASSUME TypeOK, TokenInv, SignalInv, RebootsAreAsked, Arm
  PROVE  SignalInv' /\ RebootsAreAsked'
<1>1. asked \subseteq asked' /\ asked' = 1..minted
  BY DEF Arm, TokenInv
<1>2. \A t \in offered' \ minting' : t \in asked'
  BY <1>1 DEF Arm, config, TokenInv
<1>3. token' # 0 => token' \in asked'
  BY <1>1, StateRanges DEF Arm, machine, TokenInv, TypeOK
<1>4. \A m \in messages' : m.reboot => m.token \in asked'
  BY <1>1 DEF Arm, network, SignalInv
<1>5. RebootsAreAsked'
  BY <1>1 DEF Arm, machine, RebootsAreAsked
<1>6. QED
  BY <1>2, <1>3, <1>4, <1>5 DEF SignalInv

LEMMA SignalStartAgain ==
  ASSUME SignalInv, RebootsAreAsked, StartAgain
  PROVE  SignalInv' /\ RebootsAreAsked'
BY SignalFrame DEF StartAgain, registry

LEMMA SignalBoot ==
  ASSUME TypeOK, TokenInv, SignalInv, ReportInv, RebootsAreAsked, Boot
  PROVE  SignalInv' /\ RebootsAreAsked'
<1>1. CASE PowerCycle
  BY <1>1, SignalStartAgain DEF PowerCycle
<1>2. CASE AskConfig
  BY <1>2, SignalFrame DEF AskConfig, machine, network, store, registry
<1>3. CASE GrubEvent
  <2>1. token \in Tokens /\ stage + 1 \in 1..Custom
    BY <1>3, StateRanges DEF GrubEvent, TypeOK, Tokens
  <2>2. Report(token, stage + 1, "grub").reboot = FALSE
    BY <2>1, ReportMade
  <2>3. QED
    BY <1>3, <2>2, SignalFrame DEF GrubEvent, Send, config, store, registry
<1>4. CASE BootImage
  BY <1>4, SignalFrame DEF BootImage, config, network, store, registry
<1>5. ASSUME NEW r \in {"live", "stale"}, Mint(r)
      PROVE  SignalInv' /\ RebootsAreAsked'
  <2>1. offered' \ minting' \subseteq offered \ minting
    BY <1>5 DEF Mint, Render
  <2>2. QED
    BY <1>5, <2>1, SignalFrame DEF Mint, machine, network, registry
<1>6. ASSUME NEW t \in Tokens, ClearSignal(t)
      PROVE  SignalInv' /\ RebootsAreAsked'
  BY <1>6, SignalFrame DEF ClearSignal, machine, network, store
<1>7. ASSUME NEW t \in Tokens, MintFails(t)
      PROVE  SignalInv' /\ RebootsAreAsked'
  <2>1. offered' \ minting' \subseteq offered \ minting
    BY <1>7 DEF MintFails
  <2>2. QED
    BY <1>7, <2>1, SignalFrame DEF MintFails, machine, store, registry
<1>8. ASSUME NEW t \in Tokens, LoseConfig(t)
      PROVE  SignalInv' /\ RebootsAreAsked'
  BY <1>8, SignalFrame DEF LoseConfig, machine, store, registry
<1>9. ASSUME NEW t \in Tokens, ReadConfig(t)
      PROVE  SignalInv' /\ RebootsAreAsked'
  <2>1. SignalInv'
    BY <1>9 DEF ReadConfig, network, store, registry, SignalInv
  <2>2. RebootsAreAsked'
    BY <1>9 DEF ReadConfig, ReportInv, RebootsAreAsked
  <2>3. QED
    BY <2>1, <2>2
<1>10. QED
  BY <1>1, <1>2, <1>3, <1>4, <1>5, <1>6, <1>7, <1>8, <1>9 DEF Boot

LEMMA SignalReporting ==
  ASSUME TypeOK, TokenInv, SignalInv, ReportInv, RebootsAreAsked, Reporting
  PROVE  SignalInv' /\ RebootsAreAsked'
<1>0. phase = "up" => token \in Tokens /\ token # 0
  BY StateRanges DEF ReportInv, TypeOK, Tokens
<1>1. ASSUME NEW s \in Units, ReportOnce(s)
      PROVE  SignalInv' /\ RebootsAreAsked'
  <2>1. Report(token, s, "report").reboot = FALSE
    BY <1>0, <1>1, ReportMade, StateRanges DEF ReportOnce
  <2>2. QED
    BY <1>1, <2>1, SignalFrame DEF ReportOnce, Send, config, store, registry
<1>2. CASE Heartbeat
  <2>1. CASE file = 0
    BY <1>2, <2>1, SignalFrame DEF Heartbeat, config, store, registry
  <2>2. CASE file # 0
    <3>1. file \in 1..Custom
      BY <2>2, StateRanges DEF TypeOK
    <3>2. Report(token, file, "report").reboot = FALSE
      BY <1>0, <1>2, <3>1, ReportMade DEF Heartbeat
    <3>3. QED
      BY <1>2, <2>2, <3>2, SignalFrame DEF Heartbeat, Send, config, store, registry
  <2>3. QED
    BY <2>1, <2>2
<1>3. CASE SoftReboot
  BY <1>3, SignalStartAgain DEF SoftReboot
<1>4. CASE CannotReboot
  BY <1>4, SignalFrame DEF CannotReboot, config, store, registry
<1>5. ASSUME NEW m \in messages, Receive(m)
      PROVE  SignalInv' /\ RebootsAreAsked'
  <2>1. Report(token, Custom, "ack").reboot = FALSE
    <3>1. token \in Tokens /\ Custom \in 1..Custom
      BY <1>0, <1>5, StateRanges DEF Receive
    <3>2. QED
      BY <3>1, ReportMade
  <2>2. \A n \in messages' : n \in messages \/ n.reboot = FALSE
    BY <1>5, <2>1 DEF Receive
  <2>3. SignalInv'
    BY <1>5, <2>2 DEF Receive, config, store, registry, SignalInv
  <2>4. RebootsAreAsked'
    <3>1. CASE m.kind = "report" /\ m.reboot
      BY <1>5, <3>1 DEF Receive, registry, SignalInv, RebootsAreAsked
    <3>2. CASE ~(m.kind = "report" /\ m.reboot)
      BY <1>5, <3>2 DEF Receive, registry, RebootsAreAsked
    <3>3. QED
      BY <3>1, <3>2
  <2>5. QED
    BY <2>3, <2>4
<1>6. ASSUME NEW m \in messages, Lose(m)
      PROVE  SignalInv' /\ RebootsAreAsked'
  BY <1>6, SignalFrame DEF Lose, machine, config, store, registry
<1>7. ASSUME NEW m \in messages, Record(m)
      PROVE  SignalInv' /\ RebootsAreAsked'
  <2>1. Recorded(m).reboot = FALSE
    BY RecordedMade DEF TypeOK
  <2>2. QED
    BY <1>7, <2>1, SignalFrame DEF Record, machine, config, registry
<1>8. ASSUME NEW m \in messages, LookUp(m)
      PROVE  SignalInv' /\ RebootsAreAsked'
  <2>1. Recorded(m).reboot = FALSE
    BY RecordedMade DEF TypeOK
  <2>2. QED
    BY <1>8, <2>1, SignalFrame DEF LookUp, machine, config, store, registry
<1>9. ASSUME NEW m \in messages, Refuse(m)
      PROVE  SignalInv' /\ RebootsAreAsked'
  BY <1>9, SignalFrame DEF Refuse, machine, config, store, registry
<1>10. ASSUME NEW m \in messages, Answer(m)
       PROVE  SignalInv' /\ RebootsAreAsked'
  <2>1. /\ Reply(m, row /\ pending).token = m.token
        /\ Reply(m, row /\ pending).reboot = (row /\ pending)
    <3>1. (row /\ pending) \in BOOLEAN
      OBVIOUS
    <3>2. QED
      BY <3>1, ReplyMade DEF TypeOK
  <2>2. \A n \in messages' :
            n \in messages \/ (n = Reply(m, row /\ pending) /\ Waiting(m))
    BY <1>10 DEF Answer
  <2>3. Waiting(m) /\ pending => m.token \in asked
    BY <1>0 DEF Waiting, SignalInv
  <2>4. \A n \in messages' : n.reboot => n \in messages \/ n.token \in asked
    BY <2>1, <2>2, <2>3
  <2>5. QED
    BY <1>10, <2>4, SignalFrame DEF Answer, machine, config, store
<1>11. ASSUME NEW m \in messages, AnswerGrub(m)
       PROVE  SignalInv' /\ RebootsAreAsked'
  BY <1>11, SignalFrame DEF AnswerGrub, machine, config, store, registry
<1>12. QED
  BY <1>1, <1>2, <1>3, <1>4, <1>5, <1>6, <1>7, <1>8, <1>9, <1>10, <1>11 DEF Reporting

LEMMA SignalStep ==
  ASSUME TypeOK, TokenInv, SignalInv, ReportInv, RebootsAreAsked, [Next]_vars
  PROVE  SignalInv' /\ RebootsAreAsked'
<1>1. CASE Administration
  <2>1. CASE Disarm
    BY <2>1, SignalFrame DEF Disarm, machine, config, network, store
  <2>2. CASE Delete
    BY <2>2, SignalFrame DEF Delete, machine, config, network
  <2>3. CASE Enrol
    BY <2>3, SignalFrame DEF Enrol, machine, config, network, store
  <2>4. QED
    BY <1>1, <2>1, <2>2, <2>3, SignalArm, SignalStartAgain
       DEF Administration, RebootFleet, PowerCycle
<1>2. CASE Tick
  BY <1>2, SignalFrame DEF Tick, config, network, registry
<1>3. CASE UNCHANGED vars
  <2>1. UNCHANGED <<token, acking, minting, offered, messages, pending, asked>>
    BY <1>3 DEF vars, machine, config, network, registry
  <2>2. QED
    BY <2>1 DEF SignalInv, RebootsAreAsked
<1>4. QED
  BY <1>1, <1>2, <1>3, SignalBoot, SignalReporting DEF Next

-----------------------------------------------------------------------------
(* A session says of the running boot only what is so.                     *)

\* What an action does that leaves the machine in its stage of the boot: what
\* is new of the running boot in the file, the messages and the session is so.
LEMMA RealFrame ==
  ASSUME TypeOK, ReportInv, StateIsReal, UNCHANGED <<phase, token, stage>>,
         todo' \subseteq todo, acking' => phase = "up",
         file' \in {0, file} \/ Real(file'),
         \A m \in messages' :
             m.token = token => \/ \E n \in messages : n.token = token /\ n.state = m.state
                               \/ Real(m.state),
         token # 0 => \/ latest'[token] \in {0, latest[token]}
                      \/ latest'[token] \in Ranked /\ Real(latest'[token])
  PROVE  ReportInv' /\ StateIsReal'
<1>1. \A s : Real(s) => Real(s)'
  BY DEF Real
<1>2. \A m \in messages' : m.token = token' => Real(m.state)
  BY DEF ReportInv
<1>3. file' # 0 => Real(file')
  BY DEF ReportInv
<1>4. ReportInv'
  BY <1>2, <1>3 DEF ReportInv, Real
<1>5. \A s \in Ranked : s # Custom
  BY StateRanges DEF Ranked
<1>6. phase = "up" => token # 0
  BY DEF ReportInv
<1>7. token # 0 => token \in Tokens
  BY StateRanges DEF TypeOK, Tokens
<1>8. CASE phase = "grub"
  <2>1. stage \in Nat
    BY StateRanges DEF TypeOK
  <2>2. token # 0 => latest[token] <= stage
    BY <1>8 DEF StateIsReal
  <2>3. token # 0 => latest'[token] <= stage
    BY <1>8, <2>1, <2>2 DEF Real
  <2>4. StateIsReal'
    BY <1>8, <2>3 DEF StateIsReal
  <2>5. QED
    BY <1>4, <2>4
<1>9. CASE phase = "up"
  <2>1. latest[token] <= GrubStates \/ latest[token] \notin todo
    BY <1>9 DEF StateIsReal
  <2>2. latest'[token] <= GrubStates \/ latest'[token] \notin todo
    <3>1. CASE latest'[token] \in {0, latest[token]}
      BY <2>1, <3>1, StateRanges
    <3>2. CASE latest'[token] \in Ranked /\ Real(latest'[token])
      BY <1>5, <1>9, <3>2 DEF Real
    <3>3. QED
      BY <1>6, <1>9, <3>1, <3>2
  <2>3. StateIsReal'
    BY <1>9, <2>2 DEF StateIsReal
  <2>4. QED
    BY <1>4, <2>3
<1>10. QED
  BY <1>4, <1>8, <1>9 DEF TypeOK

LEMMA RealStartAgain ==
  ASSUME TypeOK, TokenInv, ReportInv, StateIsReal, StartAgain
  PROVE  ReportInv' /\ StateIsReal'
<1>1. \A m \in messages' : m.token # 0
  BY StateRanges DEF StartAgain, TokenInv, TypeOK
<1>2. /\ phase' = "grub" /\ token' = 0 /\ file' = 0 /\ acking' = FALSE
  BY DEF StartAgain
<1>3. QED
  BY <1>1, <1>2 DEF ReportInv, StateIsReal

LEMMA RealBoot ==
  ASSUME TypeOK, TokenInv, ReportInv, StateIsReal, Boot
  PROVE  ReportInv' /\ StateIsReal'
<1>0. acking => phase = "up"
  BY DEF ReportInv
<1>1. CASE PowerCycle
  BY <1>1, RealStartAgain DEF PowerCycle
<1>2. CASE AskConfig
  BY <1>0, <1>2, RealFrame DEF AskConfig, machine, network, store, registry
<1>3. CASE GrubEvent
  <2>1. token \in Tokens /\ stage + 1 \in 1..Custom /\ stage \in Nat
    BY <1>3, StateRanges DEF GrubEvent, TypeOK, Tokens
  <2>2. Report(token, stage + 1, "grub").state = stage + 1
    BY <2>1, ReportMade
  <2>3. phase' = "grub" /\ stage' = stage + 1 /\ token' = token
    BY <1>3 DEF GrubEvent
  <2>4. \A m \in messages' : m.token = token => m.state <= stage + 1
    <3>1. \A m \in messages : m.token = token => m.state <= stage
      BY <1>3 DEF GrubEvent, ReportInv, Real
    <3>2. \A m \in messages : m.state \in 1..Custom
      BY MessageFields DEF TypeOK
    <3>3. messages' = messages \cup {Report(token, stage + 1, "grub")}
      BY <1>3 DEF GrubEvent, Send
    <3>4. QED
      BY <2>1, <2>2, <3>1, <3>2, <3>3, StateRanges
  <2>5. file' # 0 => file' <= stage + 1
    BY <1>3, <2>1, StateRanges DEF GrubEvent, ReportInv, Real, TypeOK
  <2>6. ReportInv'
    BY <1>3, <2>3, <2>4, <2>5 DEF GrubEvent, ReportInv, Real
  <2>7. latest'[token] <= stage + 1
    BY <1>3, <2>1, StateRanges DEF GrubEvent, store, StateIsReal, TypeOK
  <2>8. QED
    BY <2>3, <2>6, <2>7 DEF StateIsReal
<1>4. CASE BootImage
  <2>1. phase = "grub" /\ phase' = "up" /\ token # 0 /\ token' = token /\ stage = GrubStates
    BY <1>4 DEF BootImage
  <2>2. UNCHANGED <<file, acking, messages, latest>>
    BY <1>4 DEF BootImage, network, store
  <2>3. ReportInv'
    BY <2>1, <2>2 DEF ReportInv, Real
  <2>4. StateIsReal'
    BY <2>1, <2>2 DEF StateIsReal
  <2>5. QED
    BY <2>3, <2>4
<1>5. ASSUME NEW r \in {"live", "stale"}, Mint(r)
      PROVE  ReportInv' /\ StateIsReal'
  <2>1. token # minted + 1
    BY StateRanges DEF TokenInv, TypeOK
  <2>2. token # 0 => latest'[token] = latest[token]
    BY <1>5, <2>1, StateRanges DEF Mint, TypeOK, Tokens
  <2>3. QED
    BY <1>0, <1>5, <2>2, RealFrame DEF Mint, machine, network
<1>6. ASSUME NEW t \in Tokens, ClearSignal(t)
      PROVE  ReportInv' /\ StateIsReal'
  BY <1>0, <1>6, RealFrame DEF ClearSignal, machine, network, store
<1>7. ASSUME NEW t \in Tokens, MintFails(t)
      PROVE  ReportInv' /\ StateIsReal'
  BY <1>0, <1>7, RealFrame DEF MintFails, machine, store, registry
<1>8. ASSUME NEW t \in Tokens, LoseConfig(t)
      PROVE  ReportInv' /\ StateIsReal'
  BY <1>0, <1>8, RealFrame DEF LoseConfig, machine, store, registry
<1>9. ASSUME NEW t \in Tokens, ReadConfig(t)
      PROVE  ReportInv' /\ StateIsReal'
  <2>1. \A m \in messages' : m.token # token'
    BY <1>9 DEF ReadConfig, network, TokenInv
  <2>2. ReportInv'
    BY <1>9, <2>1, StateRanges DEF ReadConfig, ReportInv, Real
  <2>3. latest'[token'] = 0 /\ stage' \in Nat
    BY <1>9, StateRanges DEF ReadConfig, store, TokenInv, TypeOK
  <2>4. StateIsReal'
    BY <1>9, <2>3 DEF ReadConfig, StateIsReal
  <2>5. QED
    BY <2>2, <2>4
<1>10. QED
  BY <1>1, <1>2, <1>3, <1>4, <1>5, <1>6, <1>7, <1>8, <1>9 DEF Boot

LEMMA RealReporting ==
  ASSUME TypeOK, TokenInv, ReportInv, StateIsReal, Reporting
  PROVE  ReportInv' /\ StateIsReal'
<1>a. acking => phase = "up"
  BY DEF ReportInv
<1>b. phase = "up" => token \in Tokens /\ token # 0
  BY StateRanges DEF ReportInv, TypeOK, Tokens
<1>1. ASSUME NEW s \in Units, ReportOnce(s)
      PROVE  ReportInv' /\ StateIsReal'
  <2>1. Report(token, s, "report").state = s
    BY <1>b, <1>1, ReportMade, StateRanges DEF ReportOnce
  <2>2. phase = "up" /\ UNCHANGED <<phase, token, file, latest>> /\ todo' = todo \ {s}
    BY <1>1 DEF ReportOnce, store
  <2>3. \A m \in messages' : m \in messages \/ m.state = s
    BY <1>1, <2>1 DEF ReportOnce, Send
  <2>4. ReportInv'
    BY <2>2, <2>3 DEF ReportInv, Real
  <2>5. QED
    BY <2>2, <2>4 DEF StateIsReal
<1>2. CASE Heartbeat
  <2>1. CASE file = 0
    BY <1>a, <1>2, <2>1, RealFrame DEF Heartbeat, config, store, registry
  <2>2. CASE file # 0
    <3>1. file \in 1..Custom
      BY <2>2, StateRanges DEF TypeOK
    <3>2. Report(token, file, "report").state = file
      BY <1>b, <1>2, <3>1, ReportMade DEF Heartbeat
    <3>3. \A m \in messages' : m \in messages \/ m.state = file
      BY <1>2, <2>2, <3>2 DEF Heartbeat, Send
    <3>4. Real(file)
      BY <2>2 DEF ReportInv
    <3>5. QED
      BY <1>a, <1>2, <3>3, <3>4, RealFrame DEF Heartbeat, store
  <2>3. QED
    BY <2>1, <2>2
<1>3. CASE SoftReboot
  BY <1>3, RealStartAgain DEF SoftReboot
<1>4. CASE CannotReboot
  BY <1>4, RealFrame DEF CannotReboot, config, store, registry
<1>5. ASSUME NEW m \in messages, Receive(m)
      PROVE  ReportInv' /\ StateIsReal'
  <2>1. Report(token, Custom, "ack").state = Custom
    <3>1. token \in Tokens /\ Custom \in 1..Custom
      BY <1>b, <1>5, StateRanges DEF Receive
    <3>2. QED
      BY <3>1, ReportMade
  <2>2. \A n \in messages' : n \in messages \/ n.state = Custom
    BY <1>5, <2>1 DEF Receive
  <2>3. Real(file')
    BY <1>5 DEF Receive, ReportInv
  <2>4. phase = "up" => Real(Custom)
    BY DEF Real
  <2>5. QED
    BY <1>5, <2>2, <2>3, <2>4, RealFrame DEF Receive, store
<1>6. ASSUME NEW m \in messages, Lose(m)
      PROVE  ReportInv' /\ StateIsReal'
  BY <1>a, <1>6, RealFrame DEF Lose, machine, config, store, registry
<1>7. ASSUME NEW m \in messages, Record(m)
      PROVE  ReportInv' /\ StateIsReal'
  <2>1. Recorded(m).token = m.token /\ Recorded(m).state = m.state
    BY RecordedMade DEF TypeOK
  <2>2. \/ latest'[token] = latest[token]
        \/ latest'[token] = m.state /\ m.token = token
    BY <1>7 DEF Record, Higher, TypeOK
  <2>3. m.token = token => m.state \in Ranked /\ Real(m.state)
    BY <1>7 DEF Record, ReportInv
  <2>4. QED
    BY <1>a, <1>7, <2>1, <2>2, <2>3, RealFrame DEF Record, machine
<1>8. ASSUME NEW m \in messages, LookUp(m)
      PROVE  ReportInv' /\ StateIsReal'
  <2>1. Recorded(m).token = m.token /\ Recorded(m).state = m.state
    BY RecordedMade DEF TypeOK
  <2>2. QED
    BY <1>a, <1>8, <2>1, RealFrame DEF LookUp, machine, store
<1>9. ASSUME NEW m \in messages, Refuse(m)
      PROVE  ReportInv' /\ StateIsReal'
  BY <1>a, <1>9, RealFrame DEF Refuse, machine, store
<1>10. ASSUME NEW m \in messages, Answer(m)
       PROVE  ReportInv' /\ StateIsReal'
  <2>1. /\ Reply(m, row /\ pending).token = m.token
        /\ Reply(m, row /\ pending).state = m.state
    <3>1. (row /\ pending) \in BOOLEAN
      OBVIOUS
    <3>2. QED
      BY <3>1, ReplyMade DEF TypeOK
  <2>2. \A n \in messages' :
            n \in messages \/ (n.token = m.token /\ n.state = m.state)
    BY <1>10, <2>1 DEF Answer
  <2>3. QED
    BY <1>a, <1>10, <2>2, RealFrame DEF Answer, machine, store
<1>11. ASSUME NEW m \in messages, AnswerGrub(m)
       PROVE  ReportInv' /\ StateIsReal'
  BY <1>a, <1>11, RealFrame DEF AnswerGrub, machine, store
<1>12. QED
  BY <1>1, <1>2, <1>3, <1>4, <1>5, <1>6, <1>7, <1>8, <1>9, <1>10, <1>11 DEF Reporting

LEMMA RealStep ==
  ASSUME TypeOK, TokenInv, ReportInv, StateIsReal, [Next]_vars
  PROVE  ReportInv' /\ StateIsReal'
<1>0. acking => phase = "up"
  BY DEF ReportInv
<1>1. CASE Administration
  <2>1. ASSUME Arm PROVE ReportInv' /\ StateIsReal'
    BY <1>0, <2>1, RealFrame DEF Arm, machine, network, store
  <2>2. CASE Disarm
    BY <1>0, <2>2, RealFrame DEF Disarm, machine, network, store
  <2>3. CASE Delete
    <3>1. token # 0 => latest'[token] = 0
      BY <2>3, StateRanges DEF Delete, TypeOK, Tokens
    <3>2. QED
      BY <1>0, <2>3, <3>1, RealFrame DEF Delete, machine, network
  <2>4. CASE Enrol
    BY <1>0, <2>4, RealFrame DEF Enrol, machine, network, store
  <2>5. QED
    BY <1>1, <2>1, <2>2, <2>3, <2>4, RealStartAgain
       DEF Administration, RebootFleet, PowerCycle
<1>2. CASE Tick
  BY <1>0, <1>2, RealFrame DEF Tick, network
<1>3. CASE UNCHANGED vars
  <2>1. UNCHANGED <<phase, token, stage, todo, file, acking, messages, latest>>
    BY <1>3 DEF vars, machine, network, store
  <2>2. QED
    BY <2>1 DEF ReportInv, Real, StateIsReal
<1>4. QED
  BY <1>1, <1>2, <1>3, RealBoot, RealReporting DEF Next

-----------------------------------------------------------------------------
(* The fleet view.                                                         *)

\* Of the sessions in K that have a state, by L, there is a last one, or none.
LEMMA LastSession ==
  ASSUME NEW K \in SUBSET Tokens, NEW L \in [Tokens -> 0..LastState]
  PROVE  \E t \in 0..MaxTokens :
             /\ t # 0 => t \in K /\ L[t] # 0
             /\ \A u \in K : L[u] # 0 => u <= t
<1> DEFINE S == {u \in K : L[u] # 0} \cup {0}
           T == {MaxTokens - u : u \in S}
<1> USE StateRanges
<1>1. S \subseteq 0..MaxTokens
  <2>1. Tokens \subseteq 0..MaxTokens /\ 0 \in 0..MaxTokens
    BY DEF Tokens
  <2>2. QED
    BY <2>1
<1>2. T \subseteq Nat
  BY <1>1
<1>3. T # {}
  OBVIOUS
<1>4. PICK d \in T : \A e \in T : ~(<<e, d>> \in OpToRel(<, Nat))
  BY <1>2, <1>3, NatLessThanWellFounded, WFMin
<1>5. PICK t \in S : d = MaxTokens - t
  OBVIOUS
<1>6. \A u \in S : ~(MaxTokens - u < d)
  BY <1>2, <1>4 DEF OpToRel
<1>7. \A u \in S : u <= t
  BY <1>1, <1>5, <1>6
<1>8. QED
  BY <1>1, <1>7

\* What ShownBoot chooses.
LEMMA ShownBootIs ==
  ASSUME TypeOK
  PROVE  /\ ShownBoot \in 0..MaxTokens
         /\ ShownBoot # 0 => ShownBoot \in known /\ latest[ShownBoot] # 0
         /\ \A u \in known : latest[u] # 0 => u <= ShownBoot
<1>1. \E t \in 0..MaxTokens :
          /\ t # 0 => t \in known /\ latest[t] # 0
          /\ \A u \in known : latest[u] # 0 => u <= t
  BY LastSession DEF TypeOK
<1>2. QED
  BY <1>1 DEF ShownBoot

\* The same of the next state.
LEMMA ShownBootIsNext ==
  ASSUME TypeOK'
  PROVE  /\ ShownBoot' \in 0..MaxTokens
         /\ ShownBoot' # 0 => ShownBoot' \in known' /\ latest'[ShownBoot'] # 0
         /\ \A u \in known' : latest'[u] # 0 => u <= ShownBoot'
<1>1. \E t \in 0..MaxTokens :
          /\ t # 0 => t \in known' /\ latest'[t] # 0
          /\ \A u \in known' : latest'[u] # 0 => u <= t
  BY LastSession DEF TypeOK
<1>2. QED
  BY <1>1 DEF ShownBoot

\* No session is lost, and none goes back.
Onwards == known \subseteq known' /\ \A u \in known : latest[u] <= latest'[u]

LEMMA ViewGoesOn ==
  ASSUME TypeOK, TypeOK', Onwards
  PROVE  ShownBoot' > ShownBoot \/ (ShownBoot' = ShownBoot /\ ShownState' >= ShownState)
<1>1. /\ ShownBoot \in 0..MaxTokens
      /\ ShownBoot # 0 => ShownBoot \in known /\ latest[ShownBoot] # 0
  BY ShownBootIs
<1>2. /\ ShownBoot' \in 0..MaxTokens
      /\ ShownBoot' # 0 => ShownBoot' \in known' /\ latest'[ShownBoot'] # 0
      /\ \A u \in known' : latest'[u] # 0 => u <= ShownBoot'
  BY ShownBootIsNext
<1>3. \A u \in known : latest[u] \in Nat /\ latest'[u] \in Nat
  BY StateRanges DEF TypeOK
<1>4. ShownBoot # 0 => latest'[ShownBoot] # 0 /\ ShownBoot \in known'
  BY <1>1, <1>3 DEF Onwards
<1>5. ShownBoot' >= ShownBoot
  BY <1>1, <1>2, <1>4, StateRanges
<1>6. ShownBoot' = ShownBoot => ShownState' >= ShownState
  <2>1. CASE ShownBoot' = ShownBoot /\ ShownBoot = 0
    BY <2>1 DEF ShownState
  <2>2. CASE ShownBoot' = ShownBoot /\ ShownBoot # 0
    <3>1. ShownState = latest[ShownBoot] /\ ShownState' = latest'[ShownBoot]
      BY <2>2 DEF ShownState
    <3>2. QED
      BY <1>1, <1>3, <2>2, <3>1 DEF Onwards
  <2>3. QED
    BY <2>1, <2>2
<1>7. QED
  BY <1>1, <1>2, <1>5, <1>6, StateRanges

\* Every step but the deletion of the machine.
LEMMA StepsGoOn ==
  ASSUME TypeOK, TokenInv, [Next]_vars
  PROVE  Onwards \/ (row /\ ~row')
<1>0. \A u \in known : latest[u] \in Nat
  BY StateRanges DEF TypeOK
<1>1. CASE UNCHANGED <<known, latest>>
  BY <1>0, <1>1 DEF Onwards
<1>2. ASSUME NEW r \in {"live", "stale"}, Mint(r) PROVE Onwards
  <2>1. minted + 1 \notin known
    BY StateRanges DEF TokenInv, TypeOK
  <2>2. known \subseteq known' /\ \A u \in known : latest'[u] = latest[u]
    BY <1>2, <2>1 DEF Mint, TypeOK
  <2>3. QED
    BY <1>0, <2>2 DEF Onwards
<1>3. ASSUME NEW m \in messages, Record(m) PROVE Onwards
  <2>1. m.state \in Nat
    BY <1>3, StateRanges DEF Record, Ranked
  <2>2. known' = known
    BY <1>3 DEF Record
  <2>3. \A u \in known : \/ latest'[u] = latest[u]
                         \/ latest'[u] = Higher(m.state, latest[u])
    BY <1>3 DEF Record, TypeOK
  <2>4. QED
    BY <1>0, <2>1, <2>2, <2>3 DEF Onwards, Higher
<1>4. CASE Delete
  BY <1>4 DEF Delete
<1>5. CASE Boot
  BY <1>1, <1>2, <1>5 DEF Boot, PowerCycle, StartAgain, AskConfig, GrubEvent,
     BootImage, ClearSignal, MintFails, LoseConfig, ReadConfig, store
<1>6. CASE Reporting
  BY <1>1, <1>3, <1>6 DEF Reporting, ReportOnce, Heartbeat, SoftReboot, StartAgain,
     CannotReboot, Receive, Lose, LookUp, Refuse, Answer, AnswerGrub, store
<1>7. CASE Administration
  BY <1>1, <1>4, <1>7 DEF Administration, Arm, RebootFleet, PowerCycle, StartAgain,
     Disarm, Enrol, store
<1>8. CASE Tick
  BY <1>1, <1>8 DEF Tick
<1>9. CASE UNCHANGED vars
  BY <1>1, <1>9 DEF vars, store
<1>10. QED
  BY <1>5, <1>6, <1>7, <1>8, <1>9 DEF Next

-----------------------------------------------------------------------------
(* Theorems.                                                               *)

\* The inductive invariant: tokens are fresh, a signal is of a request made
\* since the boot was minted, and reports say what the machine has reached.
THEOREM Invariance == Spec => []IInv
<1>1. Init => IInv
  <2> SUFFICES ASSUME Init PROVE IInv
    OBVIOUS
  <2>1. TypeOK
    BY TypeInit
  <2>2. TokenInv
    BY StateRanges DEF Init, TokenInv
  <2>3. SignalInv /\ ReportInv /\ RebootsAreAsked
    BY DEF Init, SignalInv, ReportInv, RebootsAreAsked
  <2>4. StateIsReal
    BY DEF Init, StateIsReal
  <2>5. QED
    BY <2>1, <2>2, <2>3, <2>4 DEF IInv
<1>2. IInv /\ [Next]_vars => IInv'
  BY TypeStep, TokenStep, SignalStep, RealStep DEF IInv
<1>3. QED
  BY <1>1, <1>2, PTL DEF Spec

\* The values of the variables; no state but a ranked one is ever recorded
\* (record_state raises for the others, post_status only looks them up).
THEOREM TypeCorrect == Spec => []TypeOK
<1>1. IInv => TypeOK
  BY DEF IInv
<1>2. QED
  BY <1>1, Invariance, PTL

\* report_state reboots the machine only for a request made since its token
\* was minted, whatever is lost, late, repeated or retried.
THEOREM RebootsAsked == Spec => []RebootsAreAsked
<1>1. IInv => RebootsAreAsked
  BY DEF IInv
<1>2. QED
  BY <1>1, Invariance, PTL

\* record_state never takes the running boot's session past what the machine
\* has reached.
THEOREM StatesReal == Spec => []StateIsReal
<1>1. IInv => StateIsReal
  BY DEF IInv
<1>2. QED
  BY <1>1, Invariance, PTL

\* Of the sessions with a state, _states_by_mac shows the last: recording and
\* minting never take the fleet view back, only remove does.
THEOREM ViewGoesForward == Spec => ViewNeverGoesBack
<1>1. IInv /\ IInv' /\ [Next]_vars =>
          [\/ ShownBoot' > ShownBoot
           \/ ShownBoot' = ShownBoot /\ ShownState' >= ShownState
           \/ row /\ ~row']_vars
  BY StepsGoOn, ViewGoesOn DEF IInv
<1>2. QED
  BY <1>1, Invariance, PTL DEF Spec, ViewNeverGoesBack

=============================================================================
