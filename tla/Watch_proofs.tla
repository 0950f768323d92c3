---------------------------- MODULE Watch_proofs ----------------------------
(***************************************************************************)
(* On a bus that loses nothing mega_progress sees a drive's format to      *)
(* its end: the UNIT ATTENTIONs on the way cost polls and READ CAPACITY    *)
(* attempts, of which there are enough.                                    *)
(***************************************************************************)
EXTENDS OneAtATime_proofs

(* The bus loses nothing, and there are fewer UNIT ATTENTIONs out of the   *)
(* blue than attempts.                                                     *)
QuietBus == ~Flaky /\ MaxUpsets < READ_CAP_TRIES

Unsettled(p) == proc[p].attempt - 1 + (IF drive[Addr(p)].ua THEN 1 ELSE 0)

(* Once the drive was found idle it stays so, and every attempt that       *)
(* failed, or is going to, has an upset of its own.                        *)
Settled(p) ==
  Ready(p) /\ Addr(p) \in Drives => drive[Addr(p)].job = "none" /\ Unsettled(p) <= upsets

WatchInv == HalfInv /\ upsets <= MaxUpsets /\ \A p \in Procs : Settled(p)

-----------------------------------------------------------------------------
(* What the drive answers.                                                 *)
LEMMA SenseAnswered ==
  ASSUME ~Flaky, NEW a \in Drives, NEW o \in RequestSense(a)
  PROVE  /\ o.reply = Good /\ o.sense \in SenseOf(a) /\ o.sense.decoded
         /\ o.drive = [drive[a] EXCEPT !.ua = FALSE]
  <1> DEFINE answered(s) == [reply |-> Good, drive |-> [drive[a] EXCEPT !.ua = FALSE], sense |-> s]
             failed(x)   == [reply |-> x.reply, drive |-> x.drive, sense |-> Undecodable]
  <1>1. o \in {failed(x) : x \in Faults(drive[a])} \cup {answered(s) : s \in SenseOf(a)}
    BY DEF RequestSense
  <1>2. Faults(drive[a]) = {}
    BY DEF Faults
  <1>3. PICK s \in SenseOf(a) : o = answered(s)
    BY <1>1, <1>2
  <1>4. o.reply = Good /\ o.sense = s /\ o.drive = [drive[a] EXCEPT !.ua = FALSE]
    BY <1>3
  <1>5. s.decoded
    <2>1. s \in {Sense(6, 41, 0, -1), Sense(2, 4, 1, -1)} \cup FormatSense(a) \cup IdleSense(drive[a])
      BY DEF SenseOf
    <2>2. \A k, x, y, z : Sense(k, x, y, z).decoded
      BY DEF Sense
    <2> QED
      BY <2>1, <2>2 DEF FormatSense, IdleSense
  <1> QED
    BY <1>4, <1>5

LEMMA IdleIsIdle ==
  ASSUME Types, NEW a \in Drives, NEW s \in SenseOf(a), classify(s) = "IDLE"
  PROVE  drive[a].job = "none"
  <1>1. drive[a].job \notin Formats
    BY FormattingIsNotIdle
  <1>2. drive[a].job # "spinup"
    <2> SUFFICES ASSUME drive[a].job = "spinup" PROVE FALSE
      OBVIOUS
    <2>1. s = Sense(6, 41, 0, -1) \/ s = Sense(2, 4, 1, -1)
      BY DEF SenseOf, Formats
    <2> QED
      BY <2>1 DEF Sense, classify, InFormat, HasProgress
  <1> QED
    BY <1>1, <1>2 DEF Types, DriveStates, Jobs

LEMMA CapacityFails ==
  ASSUME ~Flaky, NEW a \in Drives, drive[a].job = "none", drive[a].medium \in Nat,
         1 <= drive[a].medium, drive[a].medium <= LargestBlock,
         NEW o \in ReadCapacity(a), read_capacity10(o) # 0
  PROVE  drive[a].ua /\ o.drive = [drive[a] EXCEPT !.ua = FALSE]
  <1> DEFINE d == drive[a]
             failed(x) == [reply |-> x.reply, drive |-> x.drive, length |-> CapacityBytes(0)]
             says(n)   == [reply |-> Good, drive |-> d, length |-> CapacityBytes(n)]
  <1>1. Faults(d) = {} /\ d.medium # 0
    BY DEF Faults
  <1>2. o \in IF d.ua THEN {failed(x) : x \in Attention(d)} ELSE {says(d.medium)}
    BY <1>1 DEF ReadCapacity
  <1>3. o # says(d.medium)
    <2>1. block_size(CapacityBytes(d.medium)) = d.medium
      BY CapacityRead
    <2>2. read_capacity10(says(d.medium)) = 0
      BY <1>1, <2>1 DEF read_capacity10, Succeeded, send_cmd, Good, Unwritten
    <2> QED
      BY <2>2
  <1>4. d.ua /\ o \in {failed(x) : x \in Attention(d)}
    BY <1>2, <1>3
  <1>5. PICK x \in Attention(d) : o = failed(x)
    BY <1>4
  <1>6. o.drive = x.drive
    BY <1>5
  <1> QED
    BY <1>4, <1>6 DEF Attention

-----------------------------------------------------------------------------
(* READ CAPACITY is only reached from a poll, or tried again.              *)
LEMMA ReadyFrom ==
  ASSUME Types, NEW p \in Procs, Tool(p), Ready(p)'
  PROVE  ProgressPoll(p) \/ ProgressReadCapacity(p)
  <1>1. inv[p].tool = "progress" /\ proc'[p].pc = "readcap"
    BY ToolIsToolStep DEF ToolStep, Alone, Ready
  <1>2. ASSUME Exit(p, 1) PROVE FALSE
    BY <1>1, <1>2, ExitStep DEF Types
  <1>3. ASSUME NEW r \in ProcStates, Become(p, r), r.pc # "readcap" PROVE FALSE
    BY <1>1, <1>3, BecomeStep DEF Types
  <1>4. proc[p] \in ProcStates /\ inv[p].target \in Texts /\ inv[p].size \in Texts
    BY DEF Types, Invocations
  <1>5. ~ProgressArgs(p)
    <2> DEFINE t == parse_target(inv[p].target)
               n == IF inv[p].argc > 4 THEN parse_expected_block_size(inv[p].size) ELSE 512
               r == [proc[p] EXCEPT !.pc = "open", !.target = t, !.size = n]
    <2>1. t \in Int /\ n \in Int
      BY <1>4, NumbersRead
    <2>2. ProgressArgs(p) => Exit(p, 1) \/ Become(p, r)
      BY DEF ProgressArgs, TakeArguments
    <2> HIDE DEF t, n
    <2>3. r \in ProcStates /\ r.pc = "open"
      BY <1>4, <2>1 DEF ProcStates, PCs
    <2> HIDE DEF r
    <2> QED
      BY <1>2, <1>3, <2>2, <2>3
  <1>6. ~ProgressOpen(p)
    <2> DEFINE r(b) == [proc[p] EXCEPT !.pc = "poll", !.bus = b]
    <2>1. \A b \in KnownBus(p) : b \in Nat
      BY DEF KnownBus, GetBusNumber, Types, Invocations
    <2>2. \A b \in Nat : r(b) \in ProcStates /\ r(b).pc = "poll"
      BY <1>4 DEF ProcStates, PCs
    <2>3. ProgressOpen(p) => Exit(p, 1) \/ \E b \in KnownBus(p) : Become(p, r(b))
      BY DEF ProgressOpen, OpenNode
    <2> HIDE DEF r
    <2> QED
      BY <1>2, <1>3, <2>1, <2>2, <2>3
  <1> QED
    BY <1>1, <1>5, <1>6
    DEF Tool, At, MegaProgress, MegaInquiry, InquiryArgs, InquiryOpen, InquirySend,
         MegaFormat512, Format512Args, Format512Open, Format512Inquiry, Format512CountDown,
         Format512Format, Format512Returns,
         MegaModesel, ModeselArgs, ModeselOpen, ModeselInquiry, ModeselModeSelect,
         ModeselCountDown, ModeselFormat, ModeselReturns,
         MegaFormatImmed, ImmedArgs, ImmedOpen, ImmedInquiry, ImmedModeSelect,
         ImmedCountDown, ImmedFormat

(* A drive that is there answers a poll: whoever polls goes on.            *)
LEMMA PollGoesOn ==
  ASSUME Types, QuietBus, upsets \in Nat, NEW p \in Procs, ProgressPoll(p), Addr(p) \in Drives
  PROVE  /\ Interval(p) > 0 => proc'[p].pc \in {"poll", "readcap"}
         /\ Ready(p)' => drive'[Addr(p)'].job = "none" /\ Unsettled(p)' <= upsets
  <1> DEFINE d == [drive[Addr(p)] EXCEPT !.ua = FALSE]
             r == [proc[p] EXCEPT !.soft_errors = 0]
             s == [proc[p] EXCEPT !.pc = "readcap", !.soft_errors = 0, !.attempt = 1]
  <1>1. PICK o \in RequestSense(Addr(p)) :
          /\ drive' = Update(Addr(p), o.drive)
          /\ IF ~Succeeded(o.reply) \/ ~o.sense.decoded THEN SoftError(p)
             ELSE IF classify(o.sense) # "IDLE" THEN NotConfirmed(p)
             ELSE NothingInProgress(p)
    BY DEF ProgressPoll
  <1>2. o.reply = Good /\ o.sense \in SenseOf(Addr(p)) /\ o.sense.decoded /\ o.drive = d
    BY SenseAnswered DEF QuietBus
  <1>3. Succeeded(o.reply)
    BY <1>2 DEF Succeeded, send_cmd, Good, Unwritten
  <1>4. proc[p] \in ProcStates /\ proc[p].pc = "poll"
    BY DEF Types, ProgressPoll, At
  <1>5. /\ r \in ProcStates /\ r.pc = "poll"
        /\ s \in ProcStates /\ s.pc = "readcap" /\ s.attempt = 1
        /\ s.bus = proc[p].bus /\ s.target = proc[p].target
    BY <1>4 DEF ProcStates, PCs
  <1>6. d \in DriveStates /\ d.job = drive[Addr(p)].job /\ d.ua = FALSE
    BY DEF Types, DriveStates
  <1> HIDE DEF d
  <1>7. drive'[Addr(p)] = d
    BY <1>1, <1>2, <1>6, UpdateStep DEF Types
  <1>8. CASE NotConfirmed(p)
    <2>1. Exit(p, 3) \/ Become(p, r)
      BY <1>8 DEF NotConfirmed, Decoded
    <2>2. Interval(p) > 0 => Become(p, r)
      BY <1>8 DEF NotConfirmed, Decoded
    <2> HIDE DEF r
    <2>3. Become(p, r) => proc'[p].pc = "poll"
      BY <1>5, BecomeStep DEF Types
    <2>4. Exit(p, 3) => proc'[p].pc = "exited"
      BY ExitStep DEF Types
    <2> QED
      BY <2>1, <2>2, <2>3, <2>4 DEF Ready
  <1>9. CASE NothingInProgress(p) /\ classify(o.sense) = "IDLE"
    <2>1. Become(p, s) /\ inv' = inv
      BY <1>4, <1>9 DEF NothingInProgress, Decoded, ProgressPoll, ProcStates
    <2> HIDE DEF s
    <2>2. proc'[p] = s
      BY <1>5, <2>1, BecomeStep DEF Types
    <2>3. Addr(p)' = Addr(p)
      BY <1>5, <2>1, <2>2 DEF Addr
    <2>4. drive[Addr(p)].job = "none"
      BY <1>2, <1>9, IdleIsIdle
    <2>5. Unsettled(p)' = 0
      BY <1>5, <1>6, <1>7, <2>2, <2>3 DEF Unsettled
    <2> QED
      BY <1>5, <1>6, <1>7, <2>2, <2>3, <2>4, <2>5
  <1> QED
    BY <1>1, <1>2, <1>3, <1>8, <1>9

(* READ CAPACITY fails by a UNIT ATTENTION only, which is gone then.       *)
LEMMA CapacityGoesOn ==
  ASSUME WatchInv, QuietBus, upsets \in Nat, NEW p \in Procs, ProgressReadCapacity(p), Addr(p) \in Drives
  PROVE  /\ ~Exits(p, {1, 3})
         /\ Ready(p)' => drive'[Addr(p)'].job = "none" /\ Unsettled(p)' <= upsets
  <1> DEFINE d == [drive[Addr(p)] EXCEPT !.ua = FALSE]
             r == [proc[p] EXCEPT !.attempt = @ + 1]
             verdict(o) == check_expected_block_size(block_size(o.length), proc[p].size)
  <1>1. PICK o \in ReadCapacity(Addr(p)) :
          /\ drive' = Update(Addr(p), o.drive)
          /\ IF read_capacity10(o) = 0 THEN Exit(p, verdict(o))
             ELSE IF proc[p].attempt < READ_CAP_TRIES THEN Become(p, r) ELSE Exit(p, 1)
    BY DEF ProgressReadCapacity
  <1>2. Types /\ proc[p] \in ProcStates /\ Ready(p) /\ inv' = inv /\ MaxUpsets \in Nat
    BY ReformatAssumption DEF WatchInv, HalfInv, SoloInv, LocalInv, TypeOK, Types, ProgressReadCapacity, At, Ready
  <1>3. drive[Addr(p)].job = "none" /\ Unsettled(p) <= upsets
    BY <1>2 DEF WatchInv, Settled
  <1>4. CASE read_capacity10(o) = 0
    <2>1. verdict(o) \in Int /\ verdict(o) \notin {1, 3}
      BY DEF check_expected_block_size
    <2>2. proc'[p].pc = "exited" /\ proc'[p].status \notin {1, 3}
      BY <1>1, <1>2, <1>4, <2>1, ExitStep DEF Types
    <2> QED
      BY <2>2 DEF Exits, Ready
  <1>5. CASE read_capacity10(o) # 0
    <2>1. /\ drive[Addr(p)].medium \in Nat /\ 1 <= drive[Addr(p)].medium
          /\ drive[Addr(p)].medium <= LargestBlock
      BY <1>2, <1>3 DEF WatchInv, HalfInv, Sound, Types, DriveStates, Formats
    <2>2. drive[Addr(p)].ua /\ o.drive = d
      BY <1>3, <1>5, <2>1, CapacityFails DEF QuietBus
    <2>3. proc[p].attempt \in Nat /\ proc[p].attempt <= upsets
      BY <1>2, <1>3, <2>2 DEF Unsettled, ProcStates
    <2>4. proc[p].attempt < READ_CAP_TRIES
      BY <1>2, <2>3 DEF WatchInv, QuietBus, READ_CAP_TRIES
    <2>5. Become(p, r)
      BY <1>1, <1>5, <2>4
    <2>6. /\ r \in ProcStates /\ r.pc = "readcap" /\ r.attempt = proc[p].attempt + 1
          /\ r.bus = proc[p].bus /\ r.target = proc[p].target
      BY <1>2, <2>3 DEF ProcStates, Ready
    <2>7. d \in DriveStates /\ d.job = drive[Addr(p)].job /\ d.ua = FALSE
      BY <1>2 DEF Types, DriveStates
    <2> HIDE DEF d, r
    <2>8. proc'[p] = r /\ drive'[Addr(p)] = d
      BY <1>1, <1>2, <2>2, <2>5, <2>6, <2>7, BecomeStep, UpdateStep DEF Types
    <2>9. Addr(p)' = Addr(p)
      BY <1>2, <2>6, <2>8 DEF Addr
    <2>10. Unsettled(p)' = proc[p].attempt
      BY <2>3, <2>6, <2>7, <2>8, <2>9 DEF Unsettled
    <2> QED
      BY <1>3, <2>3, <2>6, <2>7, <2>8, <2>9, <2>10 DEF Exits
  <1> QED
    BY <1>4, <1>5

-----------------------------------------------------------------------------
LEMMA StillSettled ==
  ASSUME NEW p \in Procs, Settled(p), proc'[p] = proc[p], inv'[p] = inv[p],
         Addr(p) \in Drives => drive'[Addr(p)] = drive[Addr(p)], upsets' = upsets
  PROVE  Settled(p)'
  BY DEF Settled, Unsettled, Ready, Addr

LEMMA NextWatch ==
  ASSUME Solo, SlowInBackground, QuietBus
  PROVE  WatchInv /\ [Next]_vars => WatchInv'
  <1> SUFFICES ASSUME WatchInv, [Next]_vars
               PROVE  upsets' <= MaxUpsets /\ \A p \in Procs : Settled(p)'
    BY NextHalf DEF WatchInv
  <1>1. /\ Types /\ upsets \in Nat /\ MaxUpsets \in Nat /\ MaxCuts = 0 /\ cuts \in Nat
        /\ SoloInv /\ SlotOrder /\ LocalInv
    BY ReformatAssumption DEF WatchInv, HalfInv, SoloInv, LocalInv, TypeOK, Types, SlowInBackground
  <1>2. upsets' <= MaxUpsets
    BY <1>1 DEF WatchInv, Next, Meanwhile, Finished, Start, FollowUp, Launch, Interrupt, PowerCycle,
       CutPower, Tool, OwnTime, Upset, Accident, vars
  <1>3. ASSUME NEW p \in Procs, Ready(p)', Addr(p)' \in Drives
        PROVE  drive'[Addr(p)'].job = "none" /\ Unsettled(p)' <= upsets'
    <2> DEFINE Goal == drive'[Addr(p)'].job = "none" /\ Unsettled(p)' <= upsets'
    <2>1. Settled(p)' => Goal
      BY <1>3 DEF Settled
    <2>2. ASSUME Ready(p) PROVE Active(p) /\ Addr(p) = Aim(inv[p])
      BY <1>1, <2>2, AddrIsAim DEF Ready, Active, Placed
    <2>3. Settled(p)
      BY DEF WatchInv
    <2> HIDE DEF Goal
    <2>4. ASSUME NEW q \in Procs, NEW i \in Invocations, Launch(q, i) PROVE Goal
      <3>1. proc'[q].pc = "args" /\ \A r \in Procs : r # q => proc'[r] = proc[r] /\ inv'[r] = inv[r]
        BY <1>1, <2>4, LaunchStep DEF Launch, Types
      <3>2. q # p /\ proc'[p] = proc[p] /\ inv'[p] = inv[p]
        BY <1>3, <3>1 DEF Ready
      <3>3. drive' = drive /\ upsets' = upsets
        BY <2>4 DEF Launch
      <3> QED
        BY <2>1, <2>3, <3>2, <3>3, StillSettled
    <2>5. ASSUME NEW q \in Procs, Tool(q) PROVE Goal
      <3>1. Alone(q) /\ Active(q) /\ upsets' = upsets
        BY <1>1, <2>5, ToolIsToolStep DEF ToolStep, Alone, Tool
      <3>2. CASE q = p
        <4>1. ProgressPoll(p) \/ ProgressReadCapacity(p)
          BY <1>1, <1>3, <2>5, <3>2, ReadyFrom
        <4>2. proc[p].pc \notin Early
          BY <4>1 DEF ProgressPoll, ProgressReadCapacity, At, Early
        <4>3. LocalStep(p)
          BY <1>1, <2>5, <3>2, ToolLocal DEF LocalInv
        <4>4. Addr(p) \in Drives
          BY <1>3, <4>2, <4>3 DEF LocalStep, KeepsAim
        <4> QED
          BY <1>1, <1>3, <3>1, <4>1, <4>4, PollGoesOn, CapacityGoesOn DEF Goal
      <3>3. CASE q # p
        <4>1. proc'[p] = proc[p] /\ inv' = inv
          BY <3>1, <3>3 DEF Alone
        <4>2. Active(p) /\ Addr(p) = Aim(inv[p])
          BY <1>3, <2>2, <4>1 DEF Ready
        <4>3. Aim(inv[p]) # Aim(inv[q])
          BY <1>1, <3>1, <3>3, <4>2, OnOtherDrive
        <4>4. Addr(p) \in Drives => drive'[Addr(p)] = drive[Addr(p)]
          BY <1>1, <2>5, <4>2, <4>3, ToolSpares
        <4> QED
          BY <2>1, <2>3, <3>1, <4>1, <4>4, StillSettled
      <3> QED
        BY <3>2, <3>3
    <2>6. ASSUME NEW q \in Procs, Interrupt(q) PROVE Goal
      <3>1. /\ inv' = inv /\ drive' = drive /\ upsets' = upsets /\ proc'[q].pc = "exited"
            /\ \A r \in Procs : r # q => proc'[r] = proc[r]
        BY <1>1, <2>6, ExitStep DEF Interrupt, Killed, Types
      <3>2. p # q
        BY <1>3, <3>1 DEF Ready
      <3> QED
        BY <2>1, <2>3, <3>1, <3>2, StillSettled
    <2>7. ASSUME NEW q \in Procs, PowerCycle(q) PROVE Goal
      <3>1. WithoutPower(Addr(q)) /\ Cleared(q) /\ upsets' = upsets
        BY <1>1, <2>7, CutPowerKind DEF PowerCycle, CutPower
      <3>2. proc'[p] = proc[p] /\ inv' = inv
        BY <1>3, <3>1 DEF Ready, WithoutPower
      <3>3. Active(p) /\ Addr(p) = Aim(inv[p])
        BY <1>3, <2>2, <3>2 DEF Ready
      <3>4. Addr(p) # Addr(q)
        BY <1>1, <3>1, <3>3, NotCleared DEF ClearedDrives
      <3>5. Addr(p) \in Drives => drive'[Addr(p)] = drive[Addr(p)]
        BY <3>1, <3>4 DEF WithoutPower, OthersDrive
      <3> QED
        BY <2>1, <2>3, <3>1, <3>2, <3>5, StillSettled
    <2>8. ASSUME NEW a \in Drives, Accident(a) PROVE Goal
      BY <1>1, <2>8 DEF Accident
    <2>9. ASSUME NEW a \in Drives, OwnTime(a) PROVE Goal
      <3>1. /\ proc' = proc /\ inv' = inv /\ upsets' = upsets
            /\ drive[a].job # "none" /\ (FinishFormat(a) \/ SpinUp(a))
        BY <2>9 DEF OwnTime, toolvars, FinishFormat, SpinUp
      <3>2. Ready(p) /\ Addr(p) \in Drives
        BY <1>3, <3>1 DEF Ready, Addr
      <3>3. Addr(p) # a
        BY <2>3, <3>1, <3>2 DEF Settled
      <3>4. drive'[Addr(p)] = drive[Addr(p)]
        <4>1. PICK x : drive' = [drive EXCEPT ![a] = x]
          BY <3>1 DEF FinishFormat, SpinUp
        <4> QED
          BY <3>2, <3>3, <4>1
      <3> QED
        BY <2>1, <2>3, <3>1, <3>4, StillSettled
    <2>10. ASSUME NEW a \in Drives, Upset(a) PROVE Goal
      <3>1. /\ proc' = proc /\ inv' = inv /\ told' = told /\ upsets' = upsets + 1
            /\ ~drive[a].ua /\ drive' = [drive EXCEPT ![a].ua = TRUE]
        BY <2>10 DEF Upset, toolvars, RaiseAttention
      <3>2. Ready(p) /\ Addr(p) \in Drives /\ Addr(p)' = Addr(p)
        BY <1>3, <3>1 DEF Ready, Addr
      <3>3. /\ drive'[Addr(p)].job = drive[Addr(p)].job
            /\ Addr(p) # a => drive'[Addr(p)].ua = drive[Addr(p)].ua
        BY <1>1, <3>1, <3>2 DEF Types, DriveStates
      <3>4. drive[Addr(p)].job = "none" /\ Unsettled(p) <= upsets /\ proc[p].attempt \in Nat
        BY <1>1, <2>3, <3>2 DEF Settled, Types, ProcStates
      <3>5. Unsettled(p)' <= upsets + 1
        BY <1>1, <3>1, <3>2, <3>3, <3>4 DEF Unsettled
      <3> QED
        BY <3>1, <3>2, <3>3, <3>4, <3>5 DEF Goal
    <2>11. ASSUME UNCHANGED vars PROVE Goal
      <3>1. /\ proc' = proc /\ inv' = inv /\ drive' = drive /\ upsets' = upsets
        BY <2>11 DEF vars
      <3> QED
        BY <2>1, <2>3, <3>1, StillSettled
    <2>12. ASSUME NEW q \in Procs, Start(q) \/ FollowUp(q) PROVE Goal
      BY <1>1, <2>4, <2>12, PrintedTyped, ReformatAssumption DEF Start, FollowUp
    <2>13. Goal
      BY <2>5, <2>6, <2>7, <2>8, <2>9, <2>10, <2>11, <2>12 DEF Next, Meanwhile, Finished
    <2> QED
      BY <2>13 DEF Goal
  <1> QED
    BY <1>2, <1>3 DEF Settled

LEMMA WatchInvariant ==
  ASSUME Solo, SlowInBackground, QuietBus
  PROVE  Spec => []WatchInv
  <1>1. Init => upsets <= MaxUpsets /\ \A p \in Procs : Settled(p)
    BY ReformatAssumption DEF Init, Fresh, Settled, Ready
  <1>2. Spec => []HalfInv
    BY HalfInvariant
  <1>3. HalfInv /\ Init => WatchInv
    BY <1>1 DEF WatchInv
  <1>4. WatchInv /\ [Next]_vars => WatchInv'
    BY NextWatch
  <1> QED
    BY <1>2, <1>3, <1>4, PTL DEF Spec

LEMMA SurvivesStep ==
  ASSUME QuietBus, WatchInv, [Next]_vars, NEW p \in Procs, Watching(p)
  PROVE  ~Exits(p, {1, 3})
  <1> SUFFICES ASSUME Exits(p, {1, 3}) PROVE FALSE
    OBVIOUS
  <1>1. Types /\ upsets \in Nat
    BY DEF WatchInv, HalfInv, SoloInv, LocalInv, TypeOK, Types
  <1>2. Tool(p)
    BY <1>1, EndsItself DEF Killed
  <1>3. /\ Addr(p) \in Drives /\ Interval(p) > 0 /\ inv[p].tool = "progress"
        /\ proc[p].pc \in {"poll", "readcap"}
    BY DEF Watching, At
  <1>4. ProgressPoll(p) \/ ProgressReadCapacity(p)
    BY <1>2, <1>3
    DEF Tool, At, MegaProgress, ProgressArgs, ProgressOpen, MegaInquiry, InquiryArgs, InquiryOpen, InquirySend,
         MegaFormat512, Format512Args, Format512Open, Format512Inquiry, Format512CountDown,
         Format512Format, Format512Returns,
         MegaModesel, ModeselArgs, ModeselOpen, ModeselInquiry, ModeselModeSelect,
         ModeselCountDown, ModeselFormat, ModeselReturns,
         MegaFormatImmed, ImmedArgs, ImmedOpen, ImmedInquiry, ImmedModeSelect,
         ImmedCountDown, ImmedFormat
  <1>5. CASE ProgressPoll(p)
    BY <1>1, <1>3, <1>5, PollGoesOn DEF Exits
  <1>6. CASE ProgressReadCapacity(p)
    BY <1>1, <1>3, <1>6, CapacityGoesOn
  <1> QED
    BY <1>4, <1>5, <1>6

(* A polling mega_progress never abandons a drive that is there: on a bus  *)
(* that loses nothing, with slow drives formatted in the background and    *)
(* fewer UNIT ATTENTIONs out of the blue than READ CAPACITY is tried, it   *)
(* ends with a verdict or by Ctrl+C.                                       *)
THEOREM WatchGoesOn ==
  ASSUME Solo, SlowInBackground, QuietBus
  PROVE  Spec => WatchSurvives
  <1>1. WatchInv /\ [Next]_vars => [\A p \in Procs : Watching(p) => ~Exits(p, {1, 3})]_vars
    BY SurvivesStep
  <1> QED
    BY <1>1, WatchInvariant, PTL DEF Spec, WatchSurvives
=============================================================================
