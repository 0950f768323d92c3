-------------------------- MODULE Formatters_proofs -------------------------
(***************************************************************************)
(* What the tools do to the drives, and so which drive is formatted, to    *)
(* which size and with whose consent, for any number of tools running at   *)
(* the same time.                                                          *)
(***************************************************************************)
EXTENDS ToolProcess_proofs

(***************************************************************************)
(* The four things a step of a tool can do to the drives.                  *)
(***************************************************************************)
Unmoved(a) ==
  /\ drive'[a].job = drive[a].job /\ drive'[a].medium = drive[a].medium
  /\ drive'[a].page = drive[a].page /\ drive'[a].ua \in {drive[a].ua, FALSE}

OthersStay(p) == \A a \in Drives : a # Addr(p) => drive'[a] = drive[a]

Glances(p) == OthersStay(p) /\ \A a \in Drives : Unmoved(a)

(* p does not wait in FORMAT UNIT, and has not formatted if it ends.       *)
NotYet(p) ==
  /\ proc'[p].pc # "blocked"
  /\ Formatter(p) /\ proc'[p].pc = "exited" => proc'[p].status = 1

(* Nothing, but for a UNIT ATTENTION it may clear.                         *)
Looks(p) == Glances(p) /\ NotYet(p)

(* MODE SELECT.                                                            *)
Asked(p) == ModeSelectLength(set_mode_sel_block_length(proc[p].size))
Asks(p) ==
  /\ proc[p].pc = "modesel" /\ inv[p].tool \in Sizing /\ OthersStay(p) /\ NotYet(p)
  /\ proc'[p].pc \in {"countdown", "exited"}
  /\ Addr(p) \in Drives =>
       /\ drive'[Addr(p)].job = drive[Addr(p)].job /\ drive'[Addr(p)].medium = drive[Addr(p)].medium
       /\ drive'[Addr(p)].page \in {drive[Addr(p)].page, Asked(p)}
       /\ drive'[Addr(p)].ua \in {drive[Addr(p)].ua, FALSE}
       /\ proc'[p].pc = "countdown" /\ ~told'[p].failed => drive'[Addr(p)].page = Asked(p)

(* FORMAT UNIT that the drive starts.                                      *)
Starts(p) ==
  /\ proc[p].pc = "format" /\ CanFormat(Addr(p)) /\ OthersStay(p)
  /\ \/ /\ inv[p].tool = "format_immed" /\ proc'[p].pc = "exited"
        /\ drive'[Addr(p)].job = "immed"
     \/ /\ inv[p].tool \in {"format512", "modesel"} /\ proc'[p].pc = "blocked"
        /\ drive'[Addr(p)].job = "blocking"
  /\ drive'[Addr(p)].medium = 0 /\ drive'[Addr(p)].page = drive[Addr(p)].page

(* A blocking FORMAT UNIT that comes back.                                 *)
Ends(p) ==
  /\ proc[p].pc = "blocked" /\ inv[p].tool \in {"format512", "modesel"} /\ OthersStay(p)
  /\ proc'[p].pc = "exited"
  /\ Addr(p) \in Drives =>
       /\ drive'[Addr(p)].job = "none" /\ drive'[Addr(p)].page = drive[Addr(p)].page
       /\ \/ drive'[Addr(p)].medium = drive[Addr(p)].page
          \/ /\ Addr(p) \in Slow /\ proc'[p].status = 1
             /\ drive'[Addr(p)].medium = drive[Addr(p)].medium

LEMMA SameLooks ==
  ASSUME NEW p, drive' = drive
  PROVE  Glances(p)
  BY DEF Glances, OthersStay, Unmoved

LEMMA GentleLooks ==
  ASSUME Types, NEW p, NEW d, Gentle(Addr(p), d), drive' = Update(Addr(p), d)
  PROVE  Glances(p)
  <1> DEFINE b == Addr(p)
  <1>1. b \in Drives => d \in DriveStates
    BY DEF Gentle, Tame
  <1>2. /\ \A a \in Drives : a # b => drive'[a] = drive[a]
        /\ b \in Drives => drive'[b] = d
    BY <1>1, UpdateStep DEF Types
  <1> HIDE DEF b
  <1>3. b \in Drives => Unmoved(b)
    BY <1>2 DEF Gentle, Tame, Unmoved, b
  <1> QED
    BY <1>2, <1>3 DEF Glances, OthersStay, Unmoved, b

LEMMA UpdateElsewhere ==
  ASSUME Types, NEW p \in Procs, NEW d, Addr(p) \in Drives => d \in DriveStates,
         drive' = Update(Addr(p), d)
  PROVE  OthersStay(p) /\ (Addr(p) \in Drives => drive'[Addr(p)] = d)
  BY UpdateStep DEF Types, OthersStay

(* A command that failed is not taken for one that succeeded.              *)
LEMMA FailureIsSeen ==
  ASSUME NEW r \in FailedReplies
  PROVE  ~Succeeded(r)
  BY DEF FailedReplies, IoctlError, NoStatus, ScsiFailed, Unwritten, Succeeded, send_cmd

LEMMA RefusedReply ==
  ASSUME NEW a, NEW o \in FormatRefused(a)
  PROVE  ~Succeeded(o.reply)
  <1>1. CASE a \notin Drives
    BY <1>1, FailureIsSeen DEF FormatRefused, Silence, FailedReplies
  <1>2. CASE a \in Drives
    <2>1. o \in Refused(drive[a]) \/ o \in Attention(drive[a])
      BY <1>2 DEF FormatRefused, Faults
    <2>2. o.reply \in FailedReplies
      BY <2>1 DEF Refused, Attention, FailedReplies
    <2> QED
      BY <2>2, FailureIsSeen
  <1> QED
    BY <1>1, <1>2

(* MODE SELECT that succeeded was taken by a drive.                        *)
LEMMA ModeSelectTaken ==
  ASSUME NEW a, NEW n, NEW o \in ModeSelect(a, n), Succeeded(o.reply)
  PROVE  a \in Drives /\ o.drive = [drive[a] EXCEPT !.page = n]
  <1>1. a \in Drives
    BY FailureIsSeen DEF ModeSelect, Silence, FailedReplies
  <1>2. ASSUME o \in Refused(drive[a]) \/ o \in Attention(drive[a]) PROVE FALSE
    <2>1. o.reply \in FailedReplies
      BY <1>2 DEF Refused, Attention, FailedReplies
    <2> QED
      BY <2>1, FailureIsSeen
  <1>3. o.drive = [drive[a] EXCEPT !.page = n]
    BY <1>1, <1>2 DEF ModeSelect, Faults
  <1> QED
    BY <1>1, <1>3

LEMMA ModeSelectAsks ==
  ASSUME Types, NEW p \in Procs, NEW o \in ModeSelect(Addr(p), Asked(p)),
         drive' = Update(Addr(p), o.drive), proc[p].pc = "modesel", inv[p].tool \in Sizing,
         NotYet(p), proc'[p].pc \in {"countdown", "exited"},
         proc'[p].pc = "countdown" /\ ~told'[p].failed => Succeeded(o.reply)
  PROVE  Asks(p)
  <1> DEFINE a == Addr(p)  n == Asked(p)
  <1>1. n \in Nat
    BY LengthIsNatural DEF Asked, Types, ProcStates
  <1>2. Tame(a, o.drive)
    BY <1>1, ModeSelectTame
  <1>3. OthersStay(p) /\ (a \in Drives => drive'[a] = o.drive)
    BY <1>2, UpdateElsewhere DEF Tame
  <1>4. a \in Drives => o.drive.page \in {drive[a].page, n} /\ (Succeeded(o.reply) => o.drive.page = n)
    <2> SUFFICES ASSUME a \in Drives
                 PROVE  o.drive.page \in {drive[a].page, n} /\ (Succeeded(o.reply) => o.drive.page = n)
      OBVIOUS
    <2>1. [drive[a] EXCEPT !.page = n].page = n
      BY DEF Types, DriveStates
    <2>2. CASE Succeeded(o.reply)
      <3>1. o.drive = [drive[a] EXCEPT !.page = n]
        BY <2>2, ModeSelectTaken
      <3> QED
        BY <2>1, <3>1
    <2>3. CASE ~Succeeded(o.reply)
      <3>1. \/ o \in Refused(drive[a]) \cup Faults(drive[a]) \cup Attention(drive[a])
            \/ o.drive = [drive[a] EXCEPT !.page = n]
        BY DEF ModeSelect
      <3> QED
        BY <2>1, <2>3, <3>1, RefusedGentle DEF Gentle
    <2> QED
      BY <2>2, <2>3
  <1> QED
    BY <1>2, <1>3, <1>4 DEF Asks, Tame

-----------------------------------------------------------------------------
(***************************************************************************)
(* Each step of each tool does one of them.                                *)
(***************************************************************************)
LEMMA ExitNotYet ==
  ASSUME Types, NEW p \in Procs, Exit(p, 1)
  PROVE  NotYet(p)
  BY ExitStep DEF Types, NotYet

LEMMA BecomeGoesOn ==
  ASSUME Types, NEW p \in Procs, NEW r \in ProcStates, Become(p, r), r.pc \notin {"exited", "blocked"}
  PROVE  NotYet(p)
  BY BecomeStep DEF Types, NotYet

LEMMA OpenedNotYet ==
  ASSUME Types, NEW p \in Procs, NEW pc \in PCs, pc \notin {"exited", "blocked"}, NEW left \in Nat, NEW b \in Nat,
         NEW t \in Int, NEW n \in Int,
         \/ Exit(p, 1)
         \/ Become(p, [proc[p] EXCEPT !.pc = pc])
         \/ Become(p, [proc[p] EXCEPT !.left = left]) /\ proc[p].pc = "countdown"
         \/ Become(p, [proc[p] EXCEPT !.pc = pc, !.left = left])
         \/ Become(p, [proc[p] EXCEPT !.pc = pc, !.bus = b])
         \/ Become(p, [proc[p] EXCEPT !.pc = pc, !.target = t, !.size = n])
  PROVE  NotYet(p)
  <1>1. proc[p] \in ProcStates
    BY DEF Types
  <1>2. CASE Exit(p, 1)
    BY <1>2, ExitNotYet
  <1>3. ASSUME NEW r \in ProcStates, r.pc \notin {"exited", "blocked"}, Become(p, r) PROVE NotYet(p)
    BY <1>3, BecomeGoesOn
  <1>4. CASE Become(p, [proc[p] EXCEPT !.pc = pc])
    <2> DEFINE r == [proc[p] EXCEPT !.pc = pc]
    <2>1. r \in ProcStates /\ r.pc = pc
      BY <1>1 DEF ProcStates
    <2> QED
      BY <1>3, <1>4, <2>1
  <1>5. CASE Become(p, [proc[p] EXCEPT !.left = left]) /\ proc[p].pc = "countdown"
    <2> DEFINE r == [proc[p] EXCEPT !.left = left]
    <2>1. r \in ProcStates /\ r.pc = proc[p].pc
      BY <1>1 DEF ProcStates
    <2> QED
      BY <1>3, <1>5, <2>1
  <1>6. CASE Become(p, [proc[p] EXCEPT !.pc = pc, !.left = left])
    <2> DEFINE r == [proc[p] EXCEPT !.pc = pc, !.left = left]
    <2>1. r \in ProcStates /\ r.pc = pc
      BY <1>1 DEF ProcStates
    <2> QED
      BY <1>3, <1>6, <2>1
  <1>7. CASE Become(p, [proc[p] EXCEPT !.pc = pc, !.bus = b])
    <2> DEFINE r == [proc[p] EXCEPT !.pc = pc, !.bus = b]
    <2>1. r \in ProcStates /\ r.pc = pc
      BY <1>1 DEF ProcStates
    <2> QED
      BY <1>3, <1>7, <2>1
  <1>8. CASE Become(p, [proc[p] EXCEPT !.pc = pc, !.target = t, !.size = n])
    <2> DEFINE r == [proc[p] EXCEPT !.pc = pc, !.target = t, !.size = n]
    <2>1. r \in ProcStates /\ r.pc = pc
      BY <1>1 DEF ProcStates
    <2> QED
      BY <1>3, <1>8, <2>1
  <1> QED
    BY <1>2, <1>4, <1>5, <1>6, <1>7, <1>8

LEMMA TakeArgumentsLooks ==
  ASSUME Types, NEW p \in Procs, NEW t \in Int, NEW n \in Int, TakeArguments(p, t, n)
  PROVE  Looks(p)
  <1>1. drive' = drive
    BY DEF TakeArguments
  <1>2. Exit(p, 1) \/ Become(p, [proc[p] EXCEPT !.pc = "open", !.target = t, !.size = n])
    BY DEF TakeArguments
  <1>3. "open" \in PCs /\ 0 \in Nat
    BY DEF PCs
  <1>4. NotYet(p)
    BY <1>2, <1>3, OpenedNotYet
  <1> QED
    BY <1>1, <1>4, SameLooks DEF Looks

LEMMA OpenNodeLooks ==
  ASSUME Types, NEW p \in Procs, NEW pc \in PCs, pc \notin {"exited", "blocked"}, OpenNode(p, pc)
  PROVE  Looks(p)
  <1>1. drive' = drive
    BY DEF OpenNode
  <1>2. Exit(p, 1) \/ Become(p, [proc[p] EXCEPT !.pc = pc, !.bus = inv[p].host])
    <2>1. \A b \in KnownBus(p) : b = inv[p].host
      BY DEF KnownBus, GetBusNumber
    <2> QED
      BY <2>1 DEF OpenNode
  <1>3. inv[p].host \in Nat /\ 0 \in Nat /\ 0 \in Int
    BY DEF Types, Invocations
  <1>4. NotYet(p)
    BY <1>2, <1>3, OpenedNotYet
  <1> QED
    BY <1>1, <1>4, SameLooks DEF Looks

LEMMA IdentifyLooks ==
  ASSUME Types, NEW p \in Procs, NEW pc \in PCs, pc \notin {"exited", "blocked"}, NEW left \in Nat,
         Identify(p, pc, left)
  PROVE  Looks(p)
  <1>1. PICK o \in Inquiry(Addr(p)) : drive' = Update(Addr(p), o.drive)
    BY DEF Identify
  <1>2. Exit(p, 1) \/ Become(p, [proc[p] EXCEPT !.pc = pc, !.left = left])
    BY DEF Identify
  <1>3. NotYet(p)
    <2>1. 0 \in Nat /\ 0 \in Int
      OBVIOUS
    <2> QED
      BY <1>2, <2>1, OpenedNotYet
  <1>4. Glances(p)
    BY <1>1, InquiryGentle, GentleLooks
  <1> QED
    BY <1>3, <1>4 DEF Looks

LEMMA CountDownLooks ==
  ASSUME Types, NEW p \in Procs, proc[p].pc = "countdown", CountDown(p)
  PROVE  Looks(p)
  <1>1. drive' = drive
    BY DEF CountDown
  <1>2. NotYet(p)
    <2>1. CASE Counting(proc[p].left)
      <3> DEFINE n == proc[p].left - 1
      <3>1. n \in Nat /\ 0 \in Nat /\ 0 \in Int
        BY <2>1 DEF Types, ProcStates, Counting
      <3>2. Become(p, [proc[p] EXCEPT !.left = n])
        BY <2>1 DEF CountDown
      <3>3. "format" \in PCs
        BY DEF PCs
      <3> HIDE DEF n
      <3> QED
        BY <3>1, <3>2, <3>3, OpenedNotYet
    <2>2. CASE ~Counting(proc[p].left)
      <3>1. Become(p, [proc[p] EXCEPT !.pc = "format"]) /\ "format" \in PCs
        BY <2>2 DEF CountDown, Goto, PCs
      <3>2. 0 \in Nat /\ 0 \in Int
        OBVIOUS
      <3> QED
        BY <3>1, <3>2, OpenedNotYet
    <2> QED
      BY <2>1, <2>2
  <1> QED
    BY <1>1, <1>2, SameLooks DEF Looks

LEMMA FormatBlockingStarts ==
  ASSUME Types, NEW p \in Procs, proc[p].pc = "format", inv[p].tool \in {"format512", "modesel"},
         FormatBlocking(p)
  PROVE  Looks(p) \/ Starts(p)
  <1>1. ASSUME NEW o \in FormatRefused(Addr(p)), drive' = Update(Addr(p), o.drive),
               ExitWith(p, o.reply)
        PROVE  Looks(p)
    <2>1. Exit(p, 1)
      BY <1>1, RefusedReply DEF ExitWith
    <2>2. Glances(p)
      BY <1>1, FormatRefusedGentle, GentleLooks
    <2> QED
      BY <2>1, <2>2, ExitNotYet DEF Looks
  <1>2. ASSUME CanFormat(Addr(p)), drive' = Update(Addr(p), FormatStarted(Addr(p), "blocking")),
               Goto(p, "blocked")
        PROVE  Starts(p)
    <2> DEFINE d == FormatStarted(Addr(p), "blocking")
    <2>1. /\ Addr(p) \in Drives /\ d \in DriveStates
          /\ d.job = "blocking" /\ d.medium = 0 /\ d.page = drive[Addr(p)].page
      BY <1>2, FormatTyped DEF CanFormat, Jobs, Formats
    <2> HIDE DEF d
    <2>2. OthersStay(p) /\ drive'[Addr(p)] = d
      BY <1>2, <2>1, UpdateElsewhere DEF d
    <2>3. proc'[p].pc = "blocked"
      <3>1. "blocked" \in PCs
        BY DEF PCs
      <3>2. proc'[p] = [proc[p] EXCEPT !.pc = "blocked"]
        BY <1>2, <3>1, GotoStep DEF Types
      <3> QED
        BY <3>2 DEF Types, ProcStates
    <2> QED
      BY <1>2, <2>1, <2>2, <2>3 DEF Starts
  <1> QED
    BY <1>1, <1>2 DEF FormatBlocking

LEMMA FormatReturnsEnds ==
  ASSUME Types, NEW p \in Procs, proc[p].pc \in {"blocked", "cut"},
         inv[p].tool \in {"format512", "modesel"}, FormatReturns(p)
  PROVE  Looks(p) \/ Ends(p)
  <1>1. PICK o \in IF proc[p].pc = "cut"
                   THEN {[reply |-> ScsiFailed, drive |-> drive[Addr(p)]]}
                   ELSE FormatOutcomes(Addr(p)) :
          drive' = Update(Addr(p), o.drive) /\ ExitWith(p, o.reply)
    BY DEF FormatReturns
  <1>2. ScsiFailed \in FailedReplies
    BY DEF FailedReplies
  <1>3. proc'[p].pc = "exited" /\ (~Succeeded(o.reply) => proc'[p].status = 1)
    BY <1>1, ExitStep DEF ExitWith, Types
  <1>4. CASE proc[p].pc = "cut"
    <2>1. o.reply = ScsiFailed /\ o.drive = drive[Addr(p)]
      BY <1>1, <1>4
    <2>2. NotYet(p)
      BY <1>2, <1>3, <2>1, FailureIsSeen DEF NotYet
    <2>3. Gentle(Addr(p), o.drive)
      BY <2>1, SettledGentle DEF Gentle, Tame
    <2>4. Glances(p)
      BY <1>1, <2>3, GentleLooks
    <2> QED
      BY <2>2, <2>4 DEF Looks
  <1>5. CASE proc[p].pc = "blocked"
    <2> DEFINE a == Addr(p)
               d == [drive[a] EXCEPT !.job = "none"]
    <2>1. \/ o.drive = FormatDone(a)
          \/ a \in Slow /\ o.drive = d /\ o.reply = ScsiFailed
      BY <1>1, <1>5 DEF FormatOutcomes
    <2>2. a \in Drives => /\ FormatDone(a) \in DriveStates /\ d \in DriveStates
                          /\ FormatDone(a).job = "none" /\ FormatDone(a).medium = drive[a].page
                          /\ FormatDone(a).page = drive[a].page
                          /\ d.job = "none" /\ d.medium = drive[a].medium /\ d.page = drive[a].page
      BY FormatTyped DEF Formats, Jobs, Types
    <2>3. o.drive = d /\ o.reply = ScsiFailed => proc'[p].status = 1
      BY <1>2, <1>3, FailureIsSeen
    <2> HIDE DEF d
    <2>4. OthersStay(p) /\ (a \in Drives => drive'[a] = o.drive)
      BY <1>1, <2>1, <2>2, UpdateElsewhere
    <2> QED
      BY <1>3, <1>5, <2>1, <2>2, <2>3, <2>4 DEF Ends
  <1> QED
    BY <1>4, <1>5

LEMMA ModeselModeSelectAsks ==
  ASSUME Types, NEW p \in Procs, ModeselModeSelect(p)
  PROVE  Asks(p)
  <1> DEFINE r == [proc[p] EXCEPT !.pc = "countdown", !.left = ShortWait]
  <1>1. PICK o \in ModeSelect(Addr(p), Asked(p)) :
          /\ drive' = Update(Addr(p), o.drive)
          /\ IF ~Succeeded(o.reply) THEN Exit(p, 1) ELSE Become(p, r)
    BY DEF ModeselModeSelect, Asked
  <1>2. proc[p].pc = "modesel" /\ inv[p].tool \in Sizing
    BY DEF ModeselModeSelect, At, Sizing
  <1>3. r \in ProcStates /\ r.pc = "countdown"
    BY ToolAssumption DEF Types, ProcStates, PCs
  <1> HIDE DEF r
  <1>4. CASE ~Succeeded(o.reply)
    <2>1. proc'[p].pc = "exited" /\ proc'[p].status = 1
      BY <1>1, <1>4, ExitStep DEF Types
    <2> QED
      BY <1>1, <1>2, <2>1, ModeSelectAsks DEF NotYet
  <1>5. CASE Succeeded(o.reply)
    <2>1. proc'[p].pc = "countdown"
      BY <1>1, <1>3, <1>5, BecomeStep DEF Types
    <2> QED
      BY <1>1, <1>2, <1>5, <2>1, ModeSelectAsks DEF NotYet
  <1> QED
    BY <1>4, <1>5

LEMMA ImmedModeSelectAsks ==
  ASSUME Types, NEW p \in Procs, ImmedModeSelect(p)
  PROVE  Asks(p)
  <1>1. PICK o \in ModeSelect(Addr(p), Asked(p)) :
          /\ drive' = Update(Addr(p), o.drive)
          /\ Become(p, [proc[p] EXCEPT !.pc = "countdown", !.left = countdown(~Succeeded(o.reply))])
          /\ told' = [told EXCEPT ![p].failed = ~Succeeded(o.reply)]
    BY DEF ImmedModeSelect, Asked
  <1>2. proc[p].pc = "modesel" /\ inv[p].tool \in Sizing
    BY DEF ImmedModeSelect, At, Sizing
  <1> DEFINE n == countdown(~Succeeded(o.reply))
             r == [proc[p] EXCEPT !.pc = "countdown", !.left = n]
  <1>3. n \in Nat
    BY ToolAssumption DEF countdown
  <1> HIDE DEF n
  <1>4. r \in ProcStates /\ r.pc = "countdown"
    BY <1>3 DEF Types, ProcStates, PCs
  <1>5. Become(p, r)
    BY <1>1 DEF n
  <1> HIDE DEF r
  <1>6. proc'[p].pc = "countdown"
    BY <1>4, <1>5, BecomeStep DEF Types
  <1>7. ~told'[p].failed => Succeeded(o.reply)
    <2> DEFINE f == ~Succeeded(o.reply)
    <2>1. told'[p].failed = f
      BY <1>1 DEF Types, Told
    <2> QED
      BY <2>1
  <1> QED
    BY <1>1, <1>2, <1>6, <1>7, ModeSelectAsks DEF NotYet

LEMMA ImmedFormatStarts ==
  ASSUME Types, NEW p \in Procs, ImmedFormat(p)
  PROVE  Looks(p) \/ Starts(p)
  <1>1. PICK o \in FormatImmed(Addr(p)) :
          drive' = Update(Addr(p), o.drive) /\ ExitWith(p, o.reply)
    BY DEF ImmedFormat
  <1>2. inv[p].tool = "format_immed" /\ proc[p].pc = "format"
    BY DEF ImmedFormat, At
  <1>3. CASE o \in FormatRefused(Addr(p))
    <2>1. Exit(p, 1)
      BY <1>1, <1>3, RefusedReply DEF ExitWith
    <2>2. Glances(p)
      BY <1>1, <1>3, FormatRefusedGentle, GentleLooks
    <2> QED
      BY <2>1, <2>2, ExitNotYet DEF Looks
  <1>4. CASE CanFormat(Addr(p)) /\ o.drive = FormatStarted(Addr(p), "immed")
    <2> DEFINE d == FormatStarted(Addr(p), "immed")
    <2>1. /\ Addr(p) \in Drives /\ d \in DriveStates
          /\ d.job = "immed" /\ d.medium = 0 /\ d.page = drive[Addr(p)].page
      BY <1>4, FormatTyped DEF CanFormat, Jobs, Formats
    <2> HIDE DEF d
    <2>2. OthersStay(p) /\ drive'[Addr(p)] = d
      BY <1>1, <1>4, <2>1, UpdateElsewhere DEF d
    <2>3. proc'[p].pc = "exited"
      BY <1>1, ExitStep DEF ExitWith, Types
    <2> QED
      BY <1>2, <1>4, <2>1, <2>2, <2>3 DEF Starts
  <1> QED
    BY <1>3, <1>4 DEF FormatImmed

(* The tools that only look: mega_inquiry and mega_progress.               *)
LEMMA CommandLooks ==
  ASSUME Types, NEW p \in Procs, ~Formatter(p), proc'[p].pc # "blocked",
         NEW d, Gentle(Addr(p), d), drive' = Update(Addr(p), d)
  PROVE  Looks(p)
  BY GentleLooks DEF Looks, NotYet

LEMMA InquirySendLooks ==
  ASSUME Types, NEW p \in Procs, proc'[p].pc # "blocked", InquirySend(p)
  PROVE  Looks(p)
  <1>1. ~Formatter(p)
    BY DEF InquirySend, At, Formatter
  <1>2. PICK o \in Inquiry(Addr(p)) : drive' = Update(Addr(p), o.drive)
    BY DEF InquirySend
  <1> QED
    BY <1>1, <1>2, InquiryGentle, CommandLooks

LEMMA ProgressPollLooks ==
  ASSUME Types, NEW p \in Procs, proc'[p].pc # "blocked", ProgressPoll(p)
  PROVE  Looks(p)
  <1>1. ~Formatter(p)
    BY DEF ProgressPoll, At, Formatter
  <1>2. PICK o \in RequestSense(Addr(p)) : drive' = Update(Addr(p), o.drive)
    BY DEF ProgressPoll
  <1> QED
    BY <1>1, <1>2, RequestSenseGentle, CommandLooks

LEMMA ProgressReadCapacityLooks ==
  ASSUME Types, NEW p \in Procs, proc'[p].pc # "blocked", ProgressReadCapacity(p)
  PROVE  Looks(p)
  <1>1. ~Formatter(p)
    BY DEF ProgressReadCapacity, At, Formatter
  <1>2. PICK o \in ReadCapacity(Addr(p)) : drive' = Update(Addr(p), o.drive)
    BY DEF ProgressReadCapacity
  <1> QED
    BY <1>1, <1>2, ReadCapacityGentle, CommandLooks

Deed(p) == Looks(p) \/ Asks(p) \/ Starts(p) \/ Ends(p)

LEMMA ToolDeed ==
  ASSUME Types, NEW p \in Procs, Local(p), Tool(p)
  PROVE  Deed(p)
  <1>0. Formatter(p) \/ proc'[p].pc # "blocked"
    BY ToolLocal DEF LocalStep, Elsewhere, Local, Formatter
  <1>1. inv[p].target \in Texts /\ inv[p].size \in Texts
    BY DEF Types, Invocations
  <1> DEFINE t == parse_target(inv[p].target)
  <1>2. t \in Int /\ parse_block_size(inv[p].size) \in Int
        /\ parse_expected_block_size(inv[p].size) \in Int
    BY <1>1, NumbersRead
  <1>3. ASSUME NEW n \in Int, TakeArguments(p, t, n) PROVE Deed(p)
    BY <1>2, <1>3, TakeArgumentsLooks DEF Deed
  <1>4. ASSUME NEW pc \in {"inquiry", "poll"}, OpenNode(p, pc) PROVE Deed(p)
    BY <1>4, OpenNodeLooks DEF PCs, Deed
  <1>5. ASSUME NEW pc \in {"modesel", "countdown"}, NEW left \in {0, ShortWait},
               Identify(p, pc, left)
        PROVE  Deed(p)
    BY <1>5, ToolAssumption, IdentifyLooks DEF PCs, Deed
  <1>6. CASE MegaInquiry(p)
    BY <1>0, <1>3, <1>4, <1>6, InquirySendLooks
    DEF MegaInquiry, InquiryArgs, InquiryOpen, InquirySend, At, Formatter, Deed
  <1>7. CASE MegaFormat512(p)
    <2>1. CASE Format512Args(p)
      BY <1>3, <2>1 DEF Format512Args
    <2>2. CASE Format512Open(p)
      BY <1>4, <2>2 DEF Format512Open
    <2>3. CASE Format512Inquiry(p)
      BY <1>5, <2>3 DEF Format512Inquiry
    <2>4. CASE Format512CountDown(p)
      BY <2>4, CountDownLooks DEF Format512CountDown, At, Deed
    <2>5. CASE Format512Format(p)
      BY <2>5, FormatBlockingStarts DEF Format512Format, At, Deed
    <2>6. CASE Format512Returns(p)
      BY <2>6, FormatReturnsEnds DEF Format512Returns, At, Deed
    <2> QED
      BY <1>7, <2>1, <2>2, <2>3, <2>4, <2>5, <2>6 DEF MegaFormat512
  <1>8. CASE MegaModesel(p)
    <2>1. CASE ModeselArgs(p)
      <3> DEFINE n == IF inv[p].argc > 3 THEN parse_block_size(inv[p].size) ELSE 512
      <3>1. n \in Int
        BY <1>2
      <3>2. TakeArguments(p, t, n)
        BY <2>1 DEF ModeselArgs
      <3> HIDE DEF n
      <3> QED
        BY <1>3, <3>1, <3>2
    <2>2. CASE ModeselOpen(p)
      BY <1>4, <2>2 DEF ModeselOpen
    <2>3. CASE ModeselInquiry(p)
      BY <1>5, <2>3 DEF ModeselInquiry
    <2>4. CASE ModeselCountDown(p)
      BY <2>4, CountDownLooks DEF ModeselCountDown, At, Deed
    <2>5. CASE ModeselFormat(p)
      BY <2>5, FormatBlockingStarts DEF ModeselFormat, At, Deed
    <2>6. CASE ModeselReturns(p)
      BY <2>6, FormatReturnsEnds DEF ModeselReturns, At, Deed
    <2> QED
      BY <1>8, <2>1, <2>2, <2>3, <2>4, <2>5, <2>6, ModeselModeSelectAsks DEF MegaModesel, Deed
  <1>9. CASE MegaFormatImmed(p)
    <2>1. CASE ImmedArgs(p)
      <3> DEFINE n == IF inv[p].argc > 3 THEN parse_block_size(inv[p].size) ELSE 512
      <3>1. n \in Int
        BY <1>2
      <3>2. TakeArguments(p, t, n)
        BY <2>1 DEF ImmedArgs
      <3> HIDE DEF n
      <3> QED
        BY <1>3, <3>1, <3>2
    <2>2. CASE ImmedOpen(p)
      BY <1>4, <2>2 DEF ImmedOpen
    <2>3. CASE ImmedInquiry(p)
      BY <1>5, <2>3 DEF ImmedInquiry
    <2>4. CASE ImmedCountDown(p)
      BY <2>4, CountDownLooks DEF ImmedCountDown, At, Deed
    <2> QED
      BY <1>9, <2>1, <2>2, <2>3, <2>4, ImmedModeSelectAsks, ImmedFormatStarts
      DEF MegaFormatImmed, Deed
  <1>10. CASE MegaProgress(p)
    <2>1. CASE ProgressArgs(p)
      <3> DEFINE n == IF inv[p].argc > 4 THEN parse_expected_block_size(inv[p].size) ELSE 512
      <3>1. n \in Int
        BY <1>2
      <3>2. TakeArguments(p, t, n)
        BY <2>1 DEF ProgressArgs
      <3> HIDE DEF n
      <3> QED
        BY <1>3, <3>1, <3>2
    <2>2. CASE ProgressOpen(p)
      BY <1>4, <2>2 DEF ProgressOpen
    <2> QED
      BY <1>0, <1>10, <2>1, <2>2, ProgressPollLooks, ProgressReadCapacityLooks
      DEF MegaProgress, ProgressPoll, ProgressReadCapacity, At, Formatter, Deed
  <1> QED
    BY <1>6, <1>7, <1>8, <1>9, <1>10 DEF Tool

-----------------------------------------------------------------------------
(***************************************************************************)
(* Every step is a deed of a tool, or the operator starts or kills one, or *)
(* a drive loses its power, or goes on in its own time.                    *)
(***************************************************************************)
OthersDrive(a) == \A b \in Drives : b # a => drive'[b] = drive[b]

Launched(p) ==
  /\ drive' = drive /\ told' = told /\ FreeSlot(p) /\ proc'[p].pc = "args"
  /\ \A q \in Procs : q # p => proc'[q] = proc[q] /\ inv'[q] = inv[q]
  /\ Solo => \A q \in Procs : Active(q) => Aim(inv[q]) # Aim(inv'[p])

KilledByUser(p) ==
  /\ drive' = drive /\ LocalStep(p) /\ Active(p) /\ proc[p].pc \notin {"blocked", "cut"}
  /\ told' = told /\ proc'[p].pc = "exited" /\ proc'[p].status = Killed

WithoutPower(a) ==
  /\ inv' = inv /\ told' = told /\ OthersDrive(a)
  /\ drive'[a].job = "spinup" /\ drive'[a].ua /\ drive'[a].medium = drive[a].medium
  /\ drive'[a].page = IF drive[a].medium = 0 THEN drive[a].page ELSE drive[a].medium
  /\ \A q \in Procs :
       \/ proc'[q] = proc[q] /\ ~(proc[q].pc = "blocked" /\ Addr(q) = a)
       \/ /\ proc[q].pc = "blocked" /\ Addr(q) = a
          /\ proc'[q].pc = "cut" /\ Addr(q)' = Addr(q) /\ proc'[q].size = proc[q].size

Finishes(a) ==
  /\ drive[a].job = "immed" /\ drive'[a].job = "none" /\ drive'[a].medium = drive[a].page
  /\ drive'[a].page = drive[a].page /\ (drive[a].ua => drive'[a].ua)
SpinsUp(a) ==
  /\ drive[a].job = "spinup" /\ drive'[a].job = "none" /\ drive'[a].medium = drive[a].medium
  /\ drive'[a].page = drive[a].page /\ drive'[a].ua = drive[a].ua
GetsUpset(a) ==
  /\ drive'[a].job = drive[a].job /\ drive'[a].medium = drive[a].medium
  /\ drive'[a].page = drive[a].page /\ drive'[a].ua
GoesOn(a) ==
  /\ proc' = proc /\ inv' = inv /\ told' = told /\ OthersDrive(a)
  /\ Finishes(a) \/ SpinsUp(a) \/ GetsUpset(a)

StepKinds ==
  \/ \E p \in Procs : (Tool(p) /\ LocalStep(p) /\ Deed(p)) \/ Launched(p) \/ KilledByUser(p)
  \/ \E a \in Drives : WithoutPower(a) \/ GoesOn(a)
  \/ drive' = drive /\ proc' = proc /\ inv' = inv /\ told' = told

LEMMA CutPowerKind ==
  ASSUME Types, NEW a \in Drives, CutPower(a)
  PROVE  WithoutPower(a)
  <1> DEFINE n == IF drive[a].medium = 0 THEN drive[a].page ELSE drive[a].medium
             d == [drive[a] EXCEPT !.job = "spinup", !.ua = TRUE, !.page = n]
             r(q) == [proc[q] EXCEPT !.pc = "cut"]
  <1>1. drive' = [drive EXCEPT ![a] = d] /\ inv' = inv /\ told' = told
    BY DEF CutPower, LosePower
  <1>2. d.job = "spinup" /\ d.ua /\ d.medium = drive[a].medium /\ d.page = n
    <2>1. d.job = "spinup" /\ d.medium = drive[a].medium /\ d.page = n
      BY DEF Types, DriveStates
    <2>2. d.ua = TRUE
      BY DEF Types, DriveStates
    <2> QED
      BY <2>1, <2>2
  <1> HIDE DEF d
  <1>3. drive'[a] = d /\ OthersDrive(a)
    BY <1>1 DEF Types, OthersDrive
  <1>4. \A q \in Procs : /\ r(q).pc = "cut" /\ r(q).size = proc[q].size
                         /\ r(q).bus = proc[q].bus /\ r(q).target = proc[q].target
    BY DEF Types, ProcStates
  <1>5. proc' = [q \in Procs |-> IF proc[q].pc = "blocked" /\ Addr(q) = a THEN r(q) ELSE proc[q]]
    BY DEF CutPower
  <1> HIDE DEF r
  <1>6. ASSUME NEW q \in Procs
        PROVE  \/ proc'[q] = proc[q] /\ ~(proc[q].pc = "blocked" /\ Addr(q) = a)
               \/ /\ proc[q].pc = "blocked" /\ Addr(q) = a
                  /\ proc'[q].pc = "cut" /\ Addr(q)' = Addr(q) /\ proc'[q].size = proc[q].size
    BY <1>4, <1>5 DEF Addr
  <1> QED
    BY <1>1, <1>2, <1>3, <1>6 DEF WithoutPower

LEMMA FinishFormatKind ==
  ASSUME Types, NEW a \in Drives, FinishFormat(a), proc' = proc, inv' = inv, told' = told
  PROVE  GoesOn(a)
  <1>1. PICK ua \in BOOLEAN : drive' = [drive EXCEPT ![a] = [FormatDone(a) EXCEPT !.ua = drive[a].ua \/ ua]]
    BY DEF FinishFormat
  <1>2. /\ FormatDone(a) \in DriveStates /\ FormatDone(a).job = "none"
        /\ FormatDone(a).page = drive[a].page /\ FormatDone(a).medium = drive[a].page
    BY FormatTyped DEF Jobs, Formats
  <1> DEFINE u == drive[a].ua \/ ua
             d == [FormatDone(a) EXCEPT !.ua = u]
  <1>3. d.job = "none" /\ d.page = drive[a].page /\ d.medium = drive[a].page /\ d.ua = u
    BY <1>2 DEF DriveStates
  <1>4. drive' = [drive EXCEPT ![a] = d]
    BY <1>1
  <1> HIDE DEF d
  <1>5. drive'[a] = d /\ OthersDrive(a)
    BY <1>4 DEF Types, OthersDrive
  <1>6. drive[a].ua => d.ua
    BY <1>3
  <1> QED
    BY <1>3, <1>5, <1>6 DEF FinishFormat, GoesOn, Finishes

LEMMA OtherDriftKinds ==
  ASSUME Types, NEW a \in Drives, SpinUp(a) \/ RaiseAttention(a),
         proc' = proc, inv' = inv, told' = told
  PROVE  GoesOn(a)
  <1> DEFINE d == [drive[a] EXCEPT !.job = "none"]
             e == [drive[a] EXCEPT !.ua = TRUE]
  <1>1. \/ drive[a].job = "spinup" /\ drive' = [drive EXCEPT ![a] = d]
        \/ drive' = [drive EXCEPT ![a] = e]
    BY DEF SpinUp, RaiseAttention, Types
  <1>2. /\ d.job = "none" /\ d.page = drive[a].page /\ d.medium = drive[a].medium /\ d.ua = drive[a].ua
        /\ e.job = drive[a].job /\ e.page = drive[a].page /\ e.medium = drive[a].medium
    BY DEF Types, DriveStates
  <1>3. e.ua = TRUE
    BY DEF Types, DriveStates
  <1> HIDE DEF d, e
  <1>4. OthersDrive(a) /\ ((drive[a].job = "spinup" /\ drive'[a] = d) \/ drive'[a] = e)
    BY <1>1 DEF Types, OthersDrive
  <1> QED
    BY <1>2, <1>3, <1>4 DEF GoesOn, SpinsUp, GetsUpset

LEMMA InterruptKind ==
  ASSUME Types, NEW p \in Procs, Local(p), Interrupt(p)
  PROVE  KilledByUser(p)
  <1>1. Exit(p, Killed) /\ Killed \in Int /\ drive' = drive /\ inv' = inv /\ told' = told
        /\ Active(p) /\ proc[p].pc \notin {"blocked", "cut"}
    BY DEF Interrupt, Killed
  <1>2. LocalStep(p)
    BY <1>1, ExitLocal
  <1>3. proc'[p].pc = "exited" /\ proc'[p].status = Killed
    BY <1>1, ExitStep DEF Types
  <1> QED
    BY <1>1, <1>2, <1>3 DEF KilledByUser

LEMMA StepIsKnown ==
  ASSUME LocalInv, [Next]_vars
  PROVE  StepKinds
  <1>1. Types /\ \A p \in Procs : Local(p)
    BY DEF LocalInv, TypeOK, Types
  <1>2. CASE \E p \in Procs : Start(p) \/ FollowUp(p)
    <2>1. PICK p \in Procs : Start(p) \/ FollowUp(p)
      BY <1>2
    <2>2. PICK i \in Invocations : Launch(p, i)
      BY <1>1, <2>1, PrintedTyped, ReformatAssumption DEF Start, FollowUp
    <2>3. Launched(p)
      BY <1>1, <2>2, LaunchStep DEF Launch, Launched
    <2> QED
      BY <2>3 DEF StepKinds
  <1>3. CASE \E p \in Procs : Interrupt(p)
    BY <1>1, <1>3, InterruptKind DEF StepKinds
  <1>4. CASE \E p \in Procs : Tool(p)
    BY <1>1, <1>4, ToolLocal, ToolDeed DEF StepKinds
  <1>5. CASE (\E p \in Procs : PowerCycle(p)) \/ (\E a \in Drives : Accident(a))
    BY <1>1, <1>5, CutPowerKind DEF StepKinds, PowerCycle, Accident
  <1>6. CASE \E a \in Drives : OwnTime(a) \/ Upset(a)
    <2>1. PICK a \in Drives : /\ FinishFormat(a) \/ SpinUp(a) \/ RaiseAttention(a)
                              /\ proc' = proc /\ inv' = inv /\ told' = told
      BY <1>6 DEF OwnTime, Upset, toolvars
    <2>2. GoesOn(a)
      BY <1>1, <2>1, FinishFormatKind, OtherDriftKinds
    <2> QED
      BY <2>2 DEF StepKinds
  <1>7. CASE UNCHANGED vars
    BY <1>7 DEF vars, StepKinds
  <1> QED
    BY <1>2, <1>3, <1>4, <1>5, <1>6, <1>7 DEF Next, Meanwhile, Finished

LEMMA StartsIt ==
  ASSUME LocalInv, [Next]_vars, NEW a \in Drives, StartsFormat(a)
  PROVE  \E p \in Procs : Active(p) /\ Starts(p) /\ Addr(p) = a
  <1>1. drive[a].job \notin Formats /\ drive'[a].job \in Formats
    BY DEF StartsFormat
  <1>2. ASSUME NEW p, Launched(p) \/ KilledByUser(p) PROVE FALSE
    BY <1>1, <1>2 DEF Launched, KilledByUser
  <1>3. PICK p \in Procs : Tool(p) /\ Deed(p)
    BY <1>1, <1>2, StepIsKnown DEF StepKinds, WithoutPower, GoesOn, Finishes, SpinsUp, GetsUpset,
         OthersDrive, Formats
  <1>4. ~Looks(p) /\ ~Asks(p) /\ ~Ends(p)
    BY <1>1 DEF Looks, Glances, Unmoved, Asks, Ends, OthersStay, Formats
  <1>5. Starts(p)
    BY <1>3, <1>4 DEF Deed
  <1>6. Addr(p) = a
    BY <1>1, <1>5 DEF Starts, OthersStay
  <1> QED
    BY <1>5, <1>6 DEF Starts, Active

LEMMA AsksIt ==
  ASSUME LocalInv, [Next]_vars, NEW a \in Drives,
         drive'[a].page # drive[a].page, drive'[a].job # "spinup"
  PROVE  \E p \in Procs : Active(p) /\ Asks(p) /\ Addr(p) = a
  <1>1. ASSUME NEW p, Launched(p) \/ KilledByUser(p) PROVE FALSE
    BY <1>1 DEF Launched, KilledByUser
  <1>2. PICK p \in Procs : Tool(p) /\ Deed(p)
    BY <1>1, StepIsKnown DEF StepKinds, WithoutPower, GoesOn, Finishes, SpinsUp, GetsUpset,
         OthersDrive
  <1>3. ~Looks(p) /\ ~Starts(p) /\ ~Ends(p)
    BY DEF Looks, Glances, Unmoved, Starts, Ends, OthersStay
  <1>4. Asks(p)
    BY <1>2, <1>3 DEF Deed
  <1>5. Addr(p) = a
    BY <1>4 DEF Asks, OthersStay
  <1> QED
    BY <1>4, <1>5 DEF Asks, Active

(* No drive starts to format unless the tool that does it has printed that *)
(* drive's identity and counted the whole time down, whatever runs, fails  *)
(* or is cut at the same time.                                             *)
THEOREM FormatsWithConsent == Spec => FormatConsented
  <1>1. ASSUME LocalInv, [Next]_vars, NEW a \in Drives, StartsFormat(a)
        PROVE  \E p \in Procs :
                 /\ Formatter(p) /\ proc[p].pc = "format" /\ Addr(p) = a
                 /\ a \in told[p].identity
                 /\ told[p].seconds = Wait(p)
    BY <1>1, StartsIt DEF Starts, LocalInv, Local
  <1>2. LocalInv /\ [Next]_vars
        => [\A a \in Drives : StartsFormat(a) =>
              \E p \in Procs :
                /\ Formatter(p) /\ proc[p].pc = "format" /\ Addr(p) = a
                /\ a \in told[p].identity
                /\ told[p].seconds = Wait(p)]_vars
    BY <1>1
  <1> QED
    BY <1>2, LocalInvariant, PTL DEF Spec, FormatConsented

-----------------------------------------------------------------------------
(***************************************************************************)
(* The address.  Hosts fit the driver's 16-bit host_no.                    *)
(***************************************************************************)
HostsFit == \A i \in CommandLines : i.host < 65536
HostInv  == LocalInv /\ \A p \in Procs : inv[p].host < 65536

LEMMA HostInvariant ==
  ASSUME HostsFit
  PROVE  Spec => []HostInv
  <1>1. Init => HostInv
    BY InitLocal DEF HostInv, Init, Blank
  <1>2. ASSUME HostInv, [Next]_vars, NEW q \in Procs PROVE inv'[q].host < 65536
    <2>1. Types
      BY <1>2 DEF HostInv, LocalInv, TypeOK, Types
    <2>2. ASSUME NEW p \in Procs, NEW i \in Invocations, Launch(p, i), i.host < 65536
          PROVE  inv'[q].host < 65536
      BY <1>2, <2>1, <2>2 DEF HostInv, Launch, Types
    <2>3. ASSUME inv' = inv PROVE inv'[q].host < 65536
      BY <1>2, <2>3 DEF HostInv
    <2>4. CASE \E p \in Procs : Start(p)
      BY <2>2, <2>4, ReformatAssumption DEF Start, HostsFit
    <2>5. CASE \E p \in Procs : FollowUp(p)
      <3>1. PICK p \in Procs, r \in Procs : Printed(r) /\ Launch(p, PrintedCommand(r))
        BY <2>5 DEF FollowUp
      <3>2. PrintedCommand(r) \in Invocations
        BY <2>1, <3>1, PrintedTyped
      <3>3. PrintedCommand(r).host = inv[r].host
        BY DEF PrintedCommand
      <3> QED
        BY <1>2, <2>2, <3>1, <3>2, <3>3 DEF HostInv
    <2>6. CASE \E p \in Procs : Tool(p)
      BY <2>1, <2>3, <2>6, ToolIsToolStep DEF ToolStep, Alone
    <2>7. CASE \E p \in Procs : Interrupt(p) \/ PowerCycle(p)
      BY <2>3, <2>7 DEF Interrupt, PowerCycle, CutPower
    <2>8. CASE \E a \in Drives : OwnTime(a) \/ Upset(a) \/ Accident(a)
      BY <2>3, <2>8 DEF OwnTime, Upset, Accident, CutPower, toolvars
    <2>9. CASE UNCHANGED vars
      BY <2>3, <2>9 DEF vars
    <2> QED
      BY <1>2, <2>4, <2>5, <2>6, <2>7, <2>8, <2>9 DEF Next, Meanwhile, Finished
  <1>3. HostInv /\ [Next]_vars => HostInv'
    BY <1>2, NextLocal DEF HostInv
  <1> QED
    BY <1>1, <1>3, PTL DEF Spec

LEMMA AimsWhereTyped ==
  ASSUME HostInv, NEW p \in Procs, Active(p), proc[p].pc \notin Early
  PROVE  CleanTarget(p) /\ Typed(p) = Addr(p)
  <1>1. /\ proc[p].bus = inv[p].host /\ Named(p)
        /\ inv[p].host \in Nat /\ inv[p].host < 65536 /\ proc[p].target \in Int
    BY DEF HostInv, LocalInv, Local, TypeOK, Invocations, ProcStates, Active, Early
  <1>2. proc[p].target \in Nat /\ proc[p].target < 256 /\ proc[p].target = inv[p].target.value
    BY <1>1 DEF Named
  <1>3. proc[p].bus % 65536 = inv[p].host
    BY <1>1, SmallModulo
  <1>4. proc[p].target % 256 = inv[p].target.value
    BY <1>2, SmallModulo
  <1> QED
    BY <1>1, <1>3, <1>4 DEF Addr, Typed, Named

(* No tool formats, or asks a new block size of, a drive that is not the   *)
(* one on its command line: a target that does not fit, or a host number   *)
(* that could not be had, never becomes the address of another drive.      *)
THEOREM NamedDriveOnly ==
  ASSUME HostsFit
  PROVE  Spec => OnlyTheNamedDrive
  <1>1. ASSUME HostInv, [Next]_vars, NEW a \in Drives,
               StartsFormat(a) \/ (drive'[a].page # drive[a].page /\ drive'[a].job # "spinup")
        PROVE  \E p \in Procs : Active(p) /\ CleanTarget(p) /\ Typed(p) = a
    <2>1. LocalInv
      BY <1>1 DEF HostInv
    <2>2. \E p \in Procs : Active(p) /\ (Starts(p) \/ Asks(p)) /\ Addr(p) = a
      BY <1>1, <2>1, StartsIt, AsksIt
    <2>3. PICK p \in Procs : Active(p) /\ proc[p].pc \notin Early /\ Addr(p) = a
      BY <2>2 DEF Starts, Asks, Early
    <2> QED
      BY <1>1, <2>3, AimsWhereTyped
  <1>2. HostInv /\ [Next]_vars
        => [\A a \in Drives :
              StartsFormat(a) \/ (drive'[a].page # drive[a].page /\ drive'[a].job # "spinup")
                => \E p \in Procs : Active(p) /\ CleanTarget(p) /\ Typed(p) = a]_vars
    BY <1>1
  <1> QED
    BY <1>2, HostInvariant, PTL DEF Spec, OnlyTheNamedDrive

-----------------------------------------------------------------------------
(***************************************************************************)
(* A tool that waits in FORMAT UNIT waits for its own drive, which is      *)
(* formatting for it and for no other tool.                                *)
(***************************************************************************)
Waits(p) == proc[p].pc = "blocked"
Waiting ==
  \A p \in Procs : Waits(p) =>
    /\ Addr(p) \in Drives /\ drive[Addr(p)].job = "blocking"
    /\ \A q \in Procs : Waits(q) /\ Addr(q) = Addr(p) => q = p
WaitInv == LocalInv /\ Waiting

(* A step after which every tool that waits did so before, its drive       *)
(* undisturbed.                                                            *)
LEMMA StillWaiting ==
  ASSUME Waiting,
         \A q \in Procs : Waits(q)' => Waits(q) /\ Addr(q)' = Addr(q),
         \A q \in Procs : Waits(q)' => drive'[Addr(q)].job = drive[Addr(q)].job
  PROVE  Waiting'
  <1> SUFFICES ASSUME NEW q \in Procs, Waits(q)'
               PROVE  /\ Addr(q)' \in Drives /\ drive'[Addr(q)'].job = "blocking"
                      /\ \A r \in Procs : Waits(r)' /\ Addr(r)' = Addr(q)' => r = q
    BY DEF Waiting
  <1>1. Waits(q) /\ Addr(q)' = Addr(q) /\ drive'[Addr(q)].job = drive[Addr(q)].job
    OBVIOUS
  <1>2. \A r \in Procs : Waits(r)' => Waits(r) /\ Addr(r)' = Addr(r)
    OBVIOUS
  <1> QED
    BY <1>1, <1>2 DEF Waiting

LEMMA ToolWaiting ==
  ASSUME WaitInv, NEW p \in Procs, Tool(p)
  PROVE  Waiting'
  <1>1. Types /\ Local(p)
    BY DEF WaitInv, LocalInv, TypeOK, Types
  <1>2. LocalStep(p) /\ Deed(p) /\ Alone(p)
    BY <1>1, ToolLocal, ToolDeed, ToolIsToolStep DEF ToolStep
  <1>3. \A q \in Procs : q # p => proc'[q] = proc[q]
    BY <1>2 DEF Alone
  <1>4. \A q \in Procs : q # p => (Waits(q)' <=> Waits(q)) /\ Addr(q)' = Addr(q)
    BY <1>3 DEF Waits, Addr
  <1>5. CASE Looks(p)
    <2>1. ~Waits(p)'
      BY <1>5 DEF Looks, NotYet, Waits
    <2>2. \A a \in Drives : drive'[a].job = drive[a].job
      BY <1>5 DEF Looks, Glances, Unmoved
    <2>3. \A q \in Procs : Waits(q) => Addr(q) \in Drives
      BY DEF WaitInv, Waiting
    <2> QED
      BY <1>4, <2>1, <2>2, <2>3, StillWaiting DEF WaitInv
  <1>6. CASE Asks(p)
    <2>1. ~Waits(p)'
      BY <1>6 DEF Asks, NotYet, Waits
    <2>2. \A a \in Drives : drive'[a].job = drive[a].job
      BY <1>6 DEF Asks, OthersStay
    <2>3. \A q \in Procs : Waits(q) => Addr(q) \in Drives
      BY DEF WaitInv, Waiting
    <2> QED
      BY <1>4, <2>1, <2>2, <2>3, StillWaiting DEF WaitInv
  <1>7. CASE Ends(p)
    <2>1. ~Waits(p)' /\ Waits(p) /\ OthersStay(p)
      BY <1>7 DEF Ends, Waits
    <2>2. \A q \in Procs : Waits(q) /\ q # p => Addr(q) \in Drives /\ Addr(q) # Addr(p)
      BY <2>1 DEF WaitInv, Waiting
    <2>3. \A q \in Procs : Waits(q) /\ q # p => drive'[Addr(q)].job = drive[Addr(q)].job
      BY <2>1, <2>2 DEF OthersStay
    <2> QED
      BY <1>4, <2>1, <2>3, StillWaiting DEF WaitInv
  <1>8. CASE Starts(p)
    <2>1. /\ Addr(p) \in Drives /\ drive[Addr(p)].job = "none" /\ OthersStay(p)
          /\ proc'[p].pc = "blocked" => drive'[Addr(p)].job = "blocking"
      BY <1>8 DEF Starts, CanFormat
    <2>2. \A q \in Procs : Waits(q) => Addr(q) \in Drives /\ Addr(q) # Addr(p)
      BY <2>1 DEF WaitInv, Waiting
    <2>3. \A q \in Procs : Waits(q) => drive'[Addr(q)] = drive[Addr(q)]
      BY <2>1, <2>2 DEF OthersStay
    <2>4. Addr(p)' = Addr(p)
      BY <1>2, <1>8 DEF LocalStep, KeepsAim, Early, Starts
    <2>5. CASE ~Waits(p)'
      BY <1>4, <2>3, <2>5, StillWaiting DEF WaitInv
    <2>6. CASE Waits(p)'
      <3>1. drive'[Addr(p)].job = "blocking"
        BY <2>1, <2>6 DEF Waits
      <3>2. ASSUME NEW q \in Procs, Waits(q)', q # p
            PROVE  Addr(q)' \in Drives /\ Addr(q)' # Addr(p)' /\ drive'[Addr(q)'].job = "blocking"
                   /\ \A r \in Procs : Waits(r)' /\ Addr(r)' = Addr(q)' => r = q
        <4>1. Waits(q) /\ Addr(q)' = Addr(q)
          BY <1>4, <3>2
        <4>2. drive[Addr(q)].job = "blocking" /\ \A r \in Procs : Waits(r) /\ Addr(r) = Addr(q) => r = q
          BY <4>1 DEF WaitInv, Waiting
        <4>3. Addr(q) \in Drives /\ Addr(q) # Addr(p) /\ drive'[Addr(q)] = drive[Addr(q)]
          BY <2>2, <2>3, <4>1
        <4> QED
          BY <1>4, <2>4, <4>1, <4>2, <4>3
      <3>3. \A r \in Procs : Waits(r)' /\ Addr(r)' = Addr(p)' => r = p
        BY <3>2
      <3> QED
        BY <2>1, <2>4, <3>1, <3>2, <3>3 DEF Waiting
    <2> QED
      BY <2>5, <2>6
  <1> QED
    BY <1>2, <1>5, <1>6, <1>7, <1>8 DEF Deed

LEMMA NextWaiting == WaitInv /\ [Next]_vars => WaitInv'
  <1> SUFFICES ASSUME WaitInv, [Next]_vars PROVE Waiting'
    BY NextLocal DEF WaitInv
  <1>1. StepKinds
    BY StepIsKnown DEF WaitInv
  <1>2. \A q \in Procs : Waits(q) => Addr(q) \in Drives /\ drive[Addr(q)].job = "blocking"
    BY DEF WaitInv, Waiting
  <1>3. ASSUME NEW p \in Procs, Tool(p) PROVE Waiting'
    BY <1>3, ToolWaiting
  <1>4. ASSUME NEW p \in Procs, Launched(p) \/ KilledByUser(p) PROVE Waiting'
    <2>1. /\ drive' = drive /\ proc'[p].pc # "blocked"
          /\ \A q \in Procs : q # p => proc'[q] = proc[q]
      BY <1>4 DEF Launched, KilledByUser, LocalStep, Elsewhere
    <2> QED
      BY <1>2, <2>1, StillWaiting DEF WaitInv, Waits, Addr
  <1>5. ASSUME NEW a \in Drives, WithoutPower(a) PROVE Waiting'
    <2>1. \A q \in Procs : Waits(q)' => Waits(q) /\ Addr(q)' = Addr(q) /\ Addr(q) # a
      BY <1>5 DEF WithoutPower, Waits, Addr
    <2> QED
      BY <1>2, <1>5, <2>1, StillWaiting DEF WaitInv, WithoutPower, OthersDrive
  <1>6. ASSUME NEW a \in Drives, GoesOn(a) PROVE Waiting'
    <2>1. proc' = proc /\ OthersDrive(a) /\ (drive'[a].job = drive[a].job \/ drive[a].job # "blocking")
      BY <1>6 DEF GoesOn, Finishes, SpinsUp, GetsUpset
    <2>2. \A q \in Procs : Waits(q) => drive'[Addr(q)].job = drive[Addr(q)].job
      BY <1>2, <2>1 DEF OthersDrive
    <2> QED
      BY <2>1, <2>2, StillWaiting DEF WaitInv, Waits, Addr
  <1>7. CASE drive' = drive /\ proc' = proc
    BY <1>7, StillWaiting DEF WaitInv, Waits, Addr
  <1> QED
    BY <1>1, <1>3, <1>4, <1>5, <1>6, <1>7 DEF StepKinds

LEMMA WaitInvariant == Spec => []WaitInv
  <1>1. Init => WaitInv
    BY InitLocal DEF WaitInv, Waiting, Waits, Init, Fresh
  <1> QED
    BY <1>1, NextWaiting, PTL DEF Spec

LEMMA SuccessStep ==
  ASSUME WaitInv, [Next]_vars, NEW p \in Procs, Formatter(p), Exits(p, {0})
  PROVE  LET d == drive[Addr(p)]
             e == drive'[Addr(p)]
         IN  \/ d.job = "none" /\ e.job = "immed"
             \/ d.job = "blocking" /\ e.job = "none" /\ e.medium = e.page
  <1>1. Types /\ Local(p)
    BY DEF WaitInv, LocalInv, TypeOK, Types
  <1>2. Tool(p)
    BY <1>1, EndsItself DEF Killed
  <1>3. Deed(p)
    BY <1>1, <1>2, ToolDeed
  <1>4. proc'[p].pc = "exited" /\ proc'[p].status = 0
    BY DEF Exits
  <1>5. ~Looks(p) /\ ~Asks(p)
    BY <1>4 DEF Looks, Asks, NotYet
  <1>6. CASE Starts(p)
    BY <1>4, <1>6 DEF Starts, CanFormat
  <1>7. CASE Ends(p)
    <2>1. Addr(p) \in Drives /\ drive[Addr(p)].job = "blocking"
      BY <1>7 DEF Ends, WaitInv, Waiting, Waits
    <2> QED
      BY <1>4, <1>7, <2>1 DEF Ends
  <1> QED
    BY <1>3, <1>5, <1>6, <1>7 DEF Deed

(* Exit status 0 of a formatter means that this drive's format ended, or   *)
(* started in the background, in that very step, whatever was cut, lost or *)
(* run on the drive meanwhile.                                             *)
THEOREM SuccessIsReal == Spec => SuccessMeansFormatted
  <1>1. WaitInv /\ [Next]_vars
        => [\A p \in Procs : Formatter(p) /\ Exits(p, {0}) =>
              LET d == drive[Addr(p)]
                  e == drive'[Addr(p)]
              IN  \/ d.job = "none" /\ e.job = "immed"
                  \/ d.job = "blocking" /\ e.job = "none" /\ e.medium = e.page]_vars
    BY SuccessStep
  <1> QED
    BY <1>1, WaitInvariant, PTL DEF Spec, SuccessMeansFormatted

-----------------------------------------------------------------------------
(***************************************************************************)
(* The block sizes a drive can come to hold.                               *)
(***************************************************************************)

(* The three bytes of MODE SELECT carry any size parse_block_size accepts. *)
LEMMA ByteSplit ==
  ASSUME NEW n \in Nat, n <= LargestSize
  PROVE  ModeSelectLength(set_mode_sel_block_length(n)) = n
  <1> DEFINE a == n % 256
             q == n \div 256
             b == q % 256
             c == q \div 256
  <1>1. n = 256 * q + a /\ q \in Nat /\ a \in Nat
    OBVIOUS
  <1>2. q = 256 * c + b /\ c \in Nat /\ b \in Nat
    BY <1>1
  <1>3. n \div 65536 = c
    BY SMT
  <1>4. c < 256
    BY SMT DEF LargestSize
  <1>5. c % 256 = c
    BY <1>2, <1>4, SmallModulo
  <1>6. set_mode_sel_block_length(n) = <<c, b, a>>
    BY <1>3, <1>5 DEF set_mode_sel_block_length
  <1>7. ModeSelectLength(<<c, b, a>>) = c * 65536 + b * 256 + a
    BY DEF ModeSelectLength
  <1> QED
    BY <1>1, <1>2, <1>6, <1>7

CameWith(a) == UNION {{d[a].medium, d[a].page} : d \in InitialDrives}
Asker(q, a) == Addr(q) = a /\ inv[q].tool \in Sizing /\ proc[q].pc \notin Early
Known(a)    == CameWith(a) \cup {proc[q].size : q \in {p \in Procs : Asker(p, a)}}

Sizes(a) == drive[a].page \in Known(a) /\ (drive[a].medium = 0 \/ drive[a].medium \in Known(a))
SizesInv == LocalInv /\ \A a \in Drives : Sizes(a)

LEMMA StillAsker ==
  ASSUME StepKinds, NEW q \in Procs, NEW a, Asker(q, a)
  PROVE  Asker(q, a)' /\ proc'[q].size = proc[q].size
  <1>1. ASSUME proc'[q] = proc[q], inv'[q] = inv[q]
        PROVE  Asker(q, a)' /\ proc'[q].size = proc[q].size
    BY <1>1 DEF Asker, Addr
  <1>2. ASSUME NEW p \in Procs, LocalStep(p)
        PROVE  Asker(q, a)' /\ proc'[q].size = proc[q].size
    <2>1. CASE q = p
      BY <1>2, <2>1 DEF LocalStep, Elsewhere, KeepsAim, Asker
    <2>2. CASE q # p
      BY <1>1, <1>2, <2>2 DEF LocalStep, Elsewhere
    <2> QED
      BY <2>1, <2>2
  <1>3. ASSUME NEW p \in Procs, Launched(p)
        PROVE  Asker(q, a)' /\ proc'[q].size = proc[q].size
    <2>1. q # p
      BY <1>3 DEF Launched, FreeSlot, Asker, Early
    <2> QED
      BY <1>1, <1>3, <2>1 DEF Launched
  <1>4. ASSUME NEW b \in Drives, WithoutPower(b)
        PROVE  Asker(q, a)' /\ proc'[q].size = proc[q].size
    <2>1. /\ inv' = inv
          /\ \/ proc'[q] = proc[q]
             \/ proc'[q].pc = "cut" /\ Addr(q)' = Addr(q) /\ proc'[q].size = proc[q].size
      BY <1>4 DEF WithoutPower
    <2> QED
      BY <1>1, <2>1 DEF Asker, Early
  <1> QED
    BY <1>1, <1>2, <1>3, <1>4 DEF StepKinds, KilledByUser, GoesOn

LEMMA StillKnown ==
  ASSUME StepKinds, NEW a
  PROVE  Known(a) \subseteq Known(a)'
  <1> SUFFICES ASSUME NEW n \in Known(a) PROVE n \in Known(a)'
    OBVIOUS
  <1>1. CASE n \in CameWith(a)
    BY <1>1 DEF Known, CameWith
  <1>2. CASE n \notin CameWith(a)
    <2>1. PICK q \in Procs : Asker(q, a) /\ n = proc[q].size
      BY <1>2 DEF Known
    <2> QED
      BY <2>1, StillAsker DEF Known
  <1> QED
    BY <1>1, <1>2

(* What MODE SELECT puts on a drive is what a command line asked for.      *)
LEMMA AskedIsKnown ==
  ASSUME LocalInv, NEW p \in Procs, LocalStep(p), Asks(p), NEW a, Addr(p) = a
  PROVE  Asked(p) \in Known(a)' /\ Asked(p) = proc[p].size
  <1>1. /\ proc[p].pc = "modesel" /\ inv[p].tool \in Sizing /\ Local(p)
        /\ proc[p].size \in Int
    BY DEF Asks, LocalInv, TypeOK, ProcStates
  <1>2. 1 <= proc[p].size /\ proc[p].size <= LargestSize
    BY <1>1 DEF Local, Sized
  <1>3. Asked(p) = proc[p].size
    BY <1>1, <1>2, ByteSplit DEF Asked
  <1>4. inv' = inv /\ Addr(p)' = Addr(p) /\ proc'[p].size = proc[p].size /\ proc'[p].pc \notin Early
    BY <1>1 DEF LocalStep, Elsewhere, KeepsAim, Early
  <1>5. Asker(p, a)'
    BY <1>1, <1>4 DEF Asker
  <1> QED
    BY <1>3, <1>4, <1>5 DEF Known

LEMMA NextSizes == SizesInv /\ [Next]_vars => SizesInv'
  <1> SUFFICES ASSUME SizesInv, [Next]_vars, NEW a \in Drives PROVE Sizes(a)'
    BY NextLocal DEF SizesInv
  <1>1. StepKinds /\ LocalInv /\ Sizes(a)
    BY StepIsKnown DEF SizesInv
  <1>2. drive[a].page \in Known(a)' /\ (drive[a].medium = 0 \/ drive[a].medium \in Known(a)')
    BY <1>1, StillKnown DEF Sizes
  <1>3. ASSUME \/ drive'[a].page = drive[a].page
               \/ drive[a].medium # 0 /\ drive'[a].page = drive[a].medium,
               \/ drive'[a].medium = 0 \/ drive'[a].medium = drive[a].medium
               \/ drive'[a].medium = drive[a].page
        PROVE  Sizes(a)'
    BY <1>2, <1>3 DEF Sizes
  <1>4. ASSUME drive'[a] = drive[a] PROVE Sizes(a)'
    BY <1>3, <1>4
  <1>5. ASSUME NEW p \in Procs, LocalStep(p), Deed(p) PROVE Sizes(a)'
    <2>1. CASE Looks(p)
      BY <1>3, <2>1 DEF Looks, Glances, Unmoved
    <2>2. CASE a # Addr(p) /\ (Asks(p) \/ Starts(p) \/ Ends(p))
      BY <1>4, <2>2 DEF Asks, Starts, Ends, OthersStay
    <2>3. CASE a = Addr(p) /\ Asks(p)
      <3>1. drive'[a].page \in {drive[a].page, Asked(p)} /\ drive'[a].medium = drive[a].medium
        BY <2>3 DEF Asks
      <3>2. Asked(p) \in Known(a)'
        BY <1>1, <1>5, <2>3, AskedIsKnown
      <3> QED
        BY <1>2, <3>1, <3>2 DEF Sizes
    <2>4. CASE a = Addr(p) /\ (Starts(p) \/ Ends(p))
      BY <1>3, <2>4 DEF Starts, Ends
    <2> QED
      BY <1>5, <2>1, <2>2, <2>3, <2>4 DEF Deed
  <1>6. ASSUME NEW b \in Drives, WithoutPower(b) \/ GoesOn(b) PROVE Sizes(a)'
    <2>1. CASE a # b
      BY <1>4, <1>6, <2>1 DEF WithoutPower, GoesOn, OthersDrive
    <2>2. CASE a = b
      BY <1>3, <1>6, <2>2 DEF WithoutPower, GoesOn, Finishes, SpinsUp, GetsUpset
    <2> QED
      BY <2>1, <2>2
  <1> QED
    BY <1>1, <1>4, <1>5, <1>6 DEF StepKinds, Launched, KilledByUser

LEMMA SizesInvariant == Spec => []SizesInv
  <1>1. ASSUME Init, NEW a \in Drives PROVE Sizes(a)
    BY <1>1 DEF Init, Sizes, Known, CameWith
  <1>2. Init => SizesInv
    BY <1>1, InitLocal DEF SizesInv
  <1> QED
    BY <1>2, NextSizes, PTL DEF Spec

(* However the tools overlap, fail and are cut, no drive is formatted to a *)
(* size that no command line naming it asked for and it did not come with. *)
THEOREM NoThirdSize == Spec => FormatsOnlyAskedSizes
  <1>1. ASSUME SizesInv, NEW a \in Drives PROVE drive[a].page \in AskedSizes(a)
    <2>1. drive[a].page \in Known(a)
      BY <1>1 DEF SizesInv, Sizes
    <2>2. ASSUME NEW q \in Procs, Asker(q, a) PROVE proc[q].size \in AskedSizes(a)
      <3> DEFINE S == {p \in Procs : Addr(p) = a /\ inv[p].tool \in {"modesel", "format_immed"}}
      <3>1. q \in S
        BY <2>2 DEF Asker, Sizing
      <3>2. {proc[r].size : r \in S} \subseteq AskedSizes(a)
        BY DEF AskedSizes
      <3> HIDE DEF S
      <3> QED
        BY <3>1, <3>2
    <2>3. CameWith(a) \subseteq AskedSizes(a)
      BY DEF CameWith, AskedSizes
    <2> QED
      BY <2>1, <2>2, <2>3 DEF Known
  <1>2. SizesInv => [\A a \in Drives : StartsFormat(a) => drive[a].page \in AskedSizes(a)]_vars
    BY <1>1
  <1> QED
    BY <1>2, SizesInvariant, PTL DEF FormatsOnlyAskedSizes
=============================================================================
