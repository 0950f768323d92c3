--------------------------- MODULE Reformat_proofs --------------------------
(***************************************************************************)
(* The reformatting procedure for any number of tools, any drives and any  *)
(* command lines: its type invariant, and what a step of a tool does to    *)
(* its process and to the jobs of the drives.                              *)
(***************************************************************************)
EXTENDS ReformatProperties, TLAPS

(* TypeOK without the counters, which no tool step touches.                *)
Types ==
  /\ drive \in [Drives -> DriveStates]
  /\ proc \in [Procs -> ProcStates]
  /\ inv \in [Procs -> Invocations]
  /\ told \in [Procs -> Told]

-----------------------------------------------------------------------------
(***************************************************************************)
(* What a step does to one process, to what its terminal shows and to one  *)
(* drive.                                                                  *)
(***************************************************************************)
LEMMA BecomeStep ==
  ASSUME proc \in [Procs -> ProcStates], NEW p \in Procs, NEW r \in ProcStates, Become(p, r)
  PROVE  /\ proc' \in [Procs -> ProcStates]
         /\ \A q \in Procs : q # p => proc'[q] = proc[q]
         /\ proc'[p] = r
  BY DEF Become

LEMMA ExitStep ==
  ASSUME proc \in [Procs -> ProcStates], NEW p \in Procs, NEW s \in Int, Exit(p, s)
  PROVE  /\ proc' \in [Procs -> ProcStates]
         /\ \A q \in Procs : q # p => proc'[q] = proc[q]
         /\ proc'[p].pc = "exited" /\ proc'[p].status = s
         /\ proc'[p].bus = proc[p].bus /\ proc'[p].target = proc[p].target
         /\ proc'[p].size = proc[p].size
  <1> DEFINE r == [proc[p] EXCEPT !.pc = "exited", !.status = s,
                                  !.left = 0, !.soft_errors = 0, !.attempt = 0]
  <1>1. r \in ProcStates
    BY DEF ProcStates, PCs
  <1>2. Become(p, r)
    BY DEF Exit
  <1>3. /\ proc' \in [Procs -> ProcStates]
        /\ \A q \in Procs : q # p => proc'[q] = proc[q]
        /\ proc'[p] = r
    BY <1>1, <1>2, BecomeStep
  <1> QED
    BY <1>3 DEF ProcStates

LEMMA GotoStep ==
  ASSUME proc \in [Procs -> ProcStates], NEW p \in Procs, NEW pc \in PCs, Goto(p, pc)
  PROVE  /\ proc' \in [Procs -> ProcStates]
         /\ \A q \in Procs : q # p => proc'[q] = proc[q]
         /\ proc'[p] = [proc[p] EXCEPT !.pc = pc]
  <1>1. [proc[p] EXCEPT !.pc = pc] \in ProcStates
    BY DEF ProcStates
  <1> QED
    BY <1>1, BecomeStep DEF Goto

LEMMA UpdateStep ==
  ASSUME drive \in [Drives -> DriveStates], NEW a, NEW d,
         a \in Drives => d \in DriveStates, drive' = Update(a, d)
  PROVE  /\ drive' \in [Drives -> DriveStates]
         /\ \A b \in Drives : b # a => drive'[b] = drive[b]
         /\ a \in Drives => drive'[a] = d
  BY DEF Update

-----------------------------------------------------------------------------
(***************************************************************************)
(* What a command does to a drive: only FORMAT UNIT changes its job and    *)
(* its medium, and only MODE SELECT its mode page.                         *)
(***************************************************************************)
Tame(a, d) ==
  a \in Drives => /\ d \in DriveStates /\ d.job = drive[a].job /\ d.medium = drive[a].medium
                  /\ d.ua \in {drive[a].ua, FALSE}
Gentle(a, d) == Tame(a, d) /\ (a \in Drives => d.page = drive[a].page)

LEMMA SettledGentle ==
  ASSUME Types, NEW a \in Drives
  PROVE  Gentle(a, drive[a]) /\ Gentle(a, [drive[a] EXCEPT !.ua = FALSE])
  <1> DEFINE d == [drive[a] EXCEPT !.ua = FALSE]
  <1>1. drive[a] \in DriveStates
    BY DEF Types
  <1>2. d \in DriveStates
    BY <1>1 DEF DriveStates
  <1>3. /\ d.job = drive[a].job /\ d.medium = drive[a].medium /\ d.page = drive[a].page
        /\ d.ua = FALSE
    BY <1>1 DEF DriveStates
  <1> HIDE DEF d
  <1>4. Gentle(a, drive[a]) /\ Gentle(a, d)
    BY <1>1, <1>2, <1>3 DEF Gentle, Tame
  <1> QED
    BY <1>4 DEF d

LEMMA RefusedGentle ==
  ASSUME Types, NEW a \in Drives
  PROVE  \A o \in Refused(drive[a]) \cup Faults(drive[a]) \cup Attention(drive[a]) : Gentle(a, o.drive)
  <1>1. \A o \in Refused(drive[a]) : o.drive = drive[a]
    BY DEF Refused
  <1>2. \A o \in Faults(drive[a]) : o \in Refused(drive[a])
    BY DEF Faults
  <1>3. \A o \in Attention(drive[a]) : o.drive = [drive[a] EXCEPT !.ua = FALSE]
    BY DEF Attention
  <1> QED
    BY <1>1, <1>2, <1>3, SettledGentle

LEMMA InquiryGentle ==
  ASSUME Types, NEW a
  PROVE  \A o \in Inquiry(a) : Gentle(a, o.drive)
  <1> SUFFICES ASSUME a \in Drives, NEW o \in Inquiry(a) PROVE Gentle(a, o.drive)
    BY DEF Gentle, Tame
  <1>1. o \in Faults(drive[a]) \/ o.drive = drive[a]
    BY DEF Inquiry
  <1> QED
    BY <1>1, RefusedGentle, SettledGentle

LEMMA ModeSelectTame ==
  ASSUME Types, NEW a, NEW n \in Nat
  PROVE  \A o \in ModeSelect(a, n) : Tame(a, o.drive)
  <1> SUFFICES ASSUME a \in Drives, NEW o \in ModeSelect(a, n) PROVE Tame(a, o.drive)
    BY DEF Tame
  <1>1. drive[a] \in DriveStates
    BY DEF Types
  <1> DEFINE d == [drive[a] EXCEPT !.page = n]
  <1>2. d \in DriveStates
    BY <1>1 DEF DriveStates
  <1>3. d.job = drive[a].job /\ d.medium = drive[a].medium /\ d.ua = drive[a].ua
    BY <1>1 DEF DriveStates
  <1>4. o \in Refused(drive[a]) \cup Faults(drive[a]) \cup Attention(drive[a]) \/ o.drive = d
    BY DEF ModeSelect
  <1> HIDE DEF d
  <1> QED
    BY <1>2, <1>3, <1>4, RefusedGentle DEF Gentle, Tame

LEMMA FormatRefusedGentle ==
  ASSUME Types, NEW a
  PROVE  \A o \in FormatRefused(a) : Gentle(a, o.drive)
  BY RefusedGentle DEF FormatRefused, Gentle, Tame

LEMMA RequestSenseGentle ==
  ASSUME Types, NEW a
  PROVE  \A o \in RequestSense(a) : Gentle(a, o.drive)
  <1> SUFFICES ASSUME a \in Drives, NEW o \in RequestSense(a) PROVE Gentle(a, o.drive)
    BY DEF Gentle, Tame
  <1>1. \/ \E x \in Faults(drive[a]) : o.drive = x.drive
        \/ o.drive = [drive[a] EXCEPT !.ua = FALSE]
        \/ o.drive = drive[a]
    <2> DEFINE failed(x)   == [reply |-> x.reply, drive |-> x.drive, sense |-> Undecodable]
               answered(s) == [reply |-> Good, drive |-> [drive[a] EXCEPT !.ua = FALSE], sense |-> s]
    <2>1. \/ o \in {failed(x) : x \in Faults(drive[a])}
          \/ o \in {answered(s) : s \in SenseOf(a)}
          \/ o = [reply |-> Good, drive |-> drive[a], sense |-> Undecodable]
      BY DEF RequestSense
    <2>2. CASE o \in {failed(x) : x \in Faults(drive[a])}
      <3>1. PICK x \in Faults(drive[a]) : o = failed(x)
        BY <2>2
      <3> QED
        BY <3>1
    <2>3. CASE o \in {answered(s) : s \in SenseOf(a)}
      <3>1. PICK s \in SenseOf(a) : o = answered(s)
        BY <2>3
      <3> QED
        BY <3>1
    <2>4. CASE o = [reply |-> Good, drive |-> drive[a], sense |-> Undecodable]
      BY <2>4
    <2> QED
      BY <2>1, <2>2, <2>3, <2>4
  <1> QED
    BY <1>1, RefusedGentle, SettledGentle

LEMMA ReadCapacityGentle ==
  ASSUME Types, NEW a
  PROVE  \A o \in ReadCapacity(a) : Gentle(a, o.drive)
  <1> SUFFICES ASSUME a \in Drives, NEW o \in ReadCapacity(a) PROVE Gentle(a, o.drive)
    BY DEF Gentle, Tame
  <1>1. \/ \E x \in Refused(drive[a]) \cup Faults(drive[a]) \cup Attention(drive[a]) : o.drive = x.drive
        \/ o.drive = drive[a]
    <2> DEFINE d == drive[a]
               failed(x) == [reply |-> x.reply, drive |-> x.drive, length |-> CapacityBytes(0)]
               says(n)   == [reply |-> Good, drive |-> d, length |-> CapacityBytes(n)]
    <2>1. \/ o \in {failed(x) : x \in Refused(d) \cup Faults(d) \cup Attention(d)}
          \/ o \in {says(0), says(d.medium), says(d.page)}
      BY DEF ReadCapacity
    <2> QED
      BY <2>1
  <1> QED
    BY <1>1, RefusedGentle, SettledGentle

-----------------------------------------------------------------------------
(***************************************************************************)
(* What a step of a tool is: its own record moves on, from somewhere in    *)
(* main(); a format starts only at FORMAT UNIT; mega_progress gets to READ *)
(* CAPACITY from a poll only if no format runs, and to exit status 0 or 2  *)
(* only from READ CAPACITY, aiming at the same drive throughout.           *)
(***************************************************************************)
Calm(a) == a \in Drives => drive[a].job \notin Formats

Alone(p) ==
  /\ Types' /\ inv' = inv
  /\ \A q \in Procs : q # p => proc'[q] = proc[q]
  /\ Active(p) /\ proc'[p].pc # "idle"

Harmless == \A a \in Drives : drive'[a].job \in {drive[a].job, "none"}
NoCut    == \A a \in Drives : drive'[a].job = "spinup" => drive[a].job = "spinup"

Ready(p) == inv[p].tool = "progress" /\ proc[p].pc = "readcap"
Passed(p) == inv[p].tool = "progress" /\ proc[p].pc = "exited" /\ proc[p].status \in {0, 2}

ToolStep(p) ==
  /\ Alone(p) /\ NoCut
  /\ proc[p].pc # "format" => Harmless
  /\ Ready(p)' \/ Passed(p)'
       => /\ Addr(p)' = Addr(p) /\ proc[p].pc # "format"
          /\ Ready(p) \/ Calm(Addr(p))
  /\ Passed(p)' => Addr(p) \in Drives

(* A step that leaves the drives' jobs and mega_progress's verdict alone.  *)
LEMMA PlainStep ==
  ASSUME Types, NEW p \in Procs, Alone(p), Harmless,
         proc'[p].pc # "readcap",
         inv[p].tool = "progress" /\ proc'[p].pc = "exited" => proc'[p].status \notin {0, 2}
  PROVE  ToolStep(p)
  BY DEF ToolStep, Alone, Ready, Passed, Harmless, NoCut

LEMMA TameIsHarmless ==
  ASSUME Types, NEW a, NEW d, Tame(a, d), drive' = Update(a, d)
  PROVE  drive' \in [Drives -> DriveStates] /\ Harmless
  <1>1. a \in Drives => d \in DriveStates /\ d.job = drive[a].job
    BY DEF Tame
  <1>2. /\ drive' \in [Drives -> DriveStates]
        /\ \A b \in Drives : b # a => drive'[b] = drive[b]
        /\ a \in Drives => drive'[a] = d
    BY <1>1, UpdateStep DEF Types
  <1> QED
    BY <1>1, <1>2 DEF Harmless

LEMMA SameDrives ==
  ASSUME Types, drive' = drive
  PROVE  drive' \in [Drives -> DriveStates] /\ Harmless
  BY DEF Types, Harmless

LEMMA NumbersRead ==
  ASSUME NEW s \in Texts
  PROVE  /\ strtol(s).v \in Int
         /\ parse_target(s) \in Int /\ parse_block_size(s) \in Int
         /\ parse_expected_block_size(s) \in Int
  <1>1. s.value \in Int /\ s.digits \in BOOLEAN
    BY DEF Texts
  <1>2. LongMax \in Int
    BY WordSizes
  <1>3. strtol(s).v \in Int
    BY <1>1, <1>2 DEF strtol
  <1> QED
    BY <1>3 DEF parse_target, parse_block_size, parse_expected_block_size

LEMMA BecomeAlone ==
  ASSUME Types, NEW p \in Procs, NEW r \in ProcStates, Become(p, r), Active(p), r.pc # "idle",
         drive' \in [Drives -> DriveStates], inv' = inv, told' \in [Procs -> Told]
  PROVE  Alone(p) /\ proc'[p] = r
  <1>1. /\ proc' \in [Procs -> ProcStates]
        /\ \A q \in Procs : q # p => proc'[q] = proc[q]
        /\ proc'[p] = r
    BY BecomeStep DEF Types
  <1> QED
    BY <1>1 DEF Alone, Types

LEMMA ExitAlone ==
  ASSUME Types, NEW p \in Procs, NEW s \in Int, Exit(p, s), Active(p),
         drive' \in [Drives -> DriveStates], inv' = inv, told' \in [Procs -> Told]
  PROVE  /\ Alone(p) /\ proc'[p].pc = "exited" /\ proc'[p].status = s
         /\ Addr(p)' = Addr(p)
  <1>1. /\ proc' \in [Procs -> ProcStates]
        /\ \A q \in Procs : q # p => proc'[q] = proc[q]
        /\ proc'[p].pc = "exited" /\ proc'[p].status = s
        /\ proc'[p].bus = proc[p].bus /\ proc'[p].target = proc[p].target
    BY ExitStep DEF Types
  <1> QED
    BY <1>1 DEF Alone, Types, Addr

LEMMA TakeArgumentsStep ==
  ASSUME Types, NEW p \in Procs, NEW t \in Int, NEW n \in Int, Active(p), TakeArguments(p, t, n)
  PROVE  ToolStep(p)
  <1>1. drive' = drive /\ inv' = inv /\ told' \in [Procs -> Told]
    BY DEF TakeArguments, Types
  <1>2. drive' \in [Drives -> DriveStates] /\ Harmless
    BY <1>1, SameDrives
  <1>3. CASE Exit(p, 1)
    BY <1>1, <1>2, <1>3, ExitAlone, PlainStep
  <1>4. CASE Become(p, [proc[p] EXCEPT !.pc = "open", !.target = t, !.size = n])
    <2> DEFINE r == [proc[p] EXCEPT !.pc = "open", !.target = t, !.size = n]
    <2>1. r \in ProcStates /\ r.pc = "open"
      BY DEF Types, ProcStates, PCs
    <2> HIDE DEF r
    <2>2. Alone(p) /\ proc'[p] = r
      BY <1>1, <1>2, <1>4, <2>1, BecomeAlone DEF r
    <2> QED
      BY <1>2, <2>1, <2>2, PlainStep
  <1> QED
    BY <1>3, <1>4 DEF TakeArguments

LEMMA OpenNodeStep ==
  ASSUME Types, NEW p \in Procs, NEW pc \in PCs, pc \notin {"idle", "readcap", "exited"},
         Active(p), OpenNode(p, pc)
  PROVE  ToolStep(p)
  <1>1. drive' = drive /\ inv' = inv /\ told' \in [Procs -> Told]
    BY DEF OpenNode, Types
  <1>2. drive' \in [Drives -> DriveStates] /\ Harmless
    BY <1>1, SameDrives
  <1>3. CASE Exit(p, 1)
    BY <1>1, <1>2, <1>3, ExitAlone, PlainStep
  <1>4. ASSUME NEW b \in KnownBus(p), Become(p, [proc[p] EXCEPT !.pc = pc, !.bus = b])
        PROVE  ToolStep(p)
    <2> DEFINE r == [proc[p] EXCEPT !.pc = pc, !.bus = b]
    <2>1. b \in Nat
      BY DEF KnownBus, GetBusNumber, Types, Invocations
    <2>2. r \in ProcStates /\ r.pc = pc
      BY <2>1 DEF Types, ProcStates
    <2> HIDE DEF r
    <2>3. Alone(p) /\ proc'[p] = r
      BY <1>1, <1>2, <1>4, <2>2, BecomeAlone DEF r
    <2> QED
      BY <1>2, <2>2, <2>3, PlainStep
  <1> QED
    BY <1>3, <1>4 DEF OpenNode

LEMMA IdentifyStep ==
  ASSUME Types, NEW p \in Procs, NEW pc \in PCs, pc \notin {"idle", "readcap", "exited"},
         NEW left \in Nat, Active(p), Identify(p, pc, left)
  PROVE  ToolStep(p)
  <1>1. PICK o \in Inquiry(Addr(p)) :
          /\ drive' = Update(Addr(p), o.drive)
          /\ IF ~Succeeded(o.reply)
             THEN Exit(p, 1) /\ UNCHANGED told
             ELSE /\ Become(p, [proc[p] EXCEPT !.pc = pc, !.left = left])
                  /\ told' = [told EXCEPT ![p].identity = @ \cup {Addr(p)}]
    BY DEF Identify
  <1>2. inv' = inv
    BY DEF Identify
  <1>3. drive' \in [Drives -> DriveStates] /\ Harmless
    BY <1>1, InquiryGentle, TameIsHarmless DEF Gentle
  <1>4. CASE ~Succeeded(o.reply)
    BY <1>1, <1>2, <1>3, <1>4, ExitAlone, PlainStep DEF Types
  <1>5. CASE Succeeded(o.reply)
    <2> DEFINE r == [proc[p] EXCEPT !.pc = pc, !.left = left]
    <2>1. r \in ProcStates /\ r.pc = pc
      BY DEF Types, ProcStates
    <2>2. Addr(p) \in Int \X Int
      BY DEF Addr, Types, ProcStates
    <2>3. told' \in [Procs -> Told]
      BY <1>1, <1>5, <2>2 DEF Types, Told
    <2> HIDE DEF r
    <2>4. Alone(p) /\ proc'[p] = r
      BY <1>1, <1>2, <1>3, <1>5, <2>1, <2>3, BecomeAlone DEF r
    <2> QED
      BY <1>3, <2>1, <2>4, PlainStep
  <1> QED
    BY <1>4, <1>5

LEMMA CountDownStep ==
  ASSUME Types, NEW p \in Procs, Active(p), CountDown(p), inv[p].tool # "progress"
  PROVE  ToolStep(p)
  <1>1. drive' = drive /\ inv' = inv
    BY DEF CountDown
  <1>2. drive' \in [Drives -> DriveStates] /\ Harmless
    BY <1>1, SameDrives
  <1>3. CASE Counting(proc[p].left)
    <2> DEFINE r == [proc[p] EXCEPT !.left = @ - 1]
    <2>1. r \in ProcStates /\ r.pc = proc[p].pc
      BY <1>3 DEF Types, ProcStates, Counting
    <2>2. Become(p, r) /\ told' = [told EXCEPT ![p].seconds = @ + 1]
      BY <1>3 DEF CountDown
    <2>3. told' \in [Procs -> Told]
      BY <2>2 DEF Types, Told
    <2> HIDE DEF r
    <2>4. Alone(p) /\ proc'[p] = r
      BY <1>1, <1>2, <2>1, <2>2, <2>3, BecomeAlone DEF Active
    <2> QED
      BY <1>2, <2>4 DEF ToolStep, Alone, Ready, Passed, Harmless, NoCut
  <1>4. CASE ~Counting(proc[p].left)
    <2> DEFINE r == [proc[p] EXCEPT !.pc = "format"]
    <2>1. r \in ProcStates /\ r.pc = "format"
      BY DEF Types, ProcStates, PCs
    <2>2. Become(p, r) /\ told' \in [Procs -> Told]
      BY <1>4 DEF CountDown, Goto, Types
    <2> HIDE DEF r
    <2>3. Alone(p) /\ proc'[p] = r
      BY <1>1, <1>2, <2>1, <2>2, BecomeAlone
    <2> QED
      BY <1>2, <2>1, <2>3, PlainStep
  <1> QED
    BY <1>3, <1>4

LEMMA FormatTyped ==
  ASSUME Types, NEW a \in Drives, NEW job \in Jobs
  PROVE  FormatStarted(a, job) \in DriveStates /\ FormatDone(a) \in DriveStates
         /\ FormatStarted(a, job).job = job /\ FormatDone(a).job = "none"
         /\ FormatStarted(a, job).medium = 0 /\ FormatStarted(a, job).page = drive[a].page
         /\ FormatDone(a).medium = drive[a].page /\ FormatDone(a).page = drive[a].page
         /\ [drive[a] EXCEPT !.job = "none"] \in DriveStates
  <1>1. drive[a] \in DriveStates /\ "none" \in Jobs
    BY DEF Types, Jobs
  <1> QED
    BY <1>1 DEF FormatStarted, FormatDone, DriveStates

(* A step of a formatter that is at FORMAT UNIT may do anything to jobs.   *)
LEMMA FormatStep ==
  ASSUME Types, NEW p \in Procs, Alone(p), NoCut, inv[p].tool # "progress", proc[p].pc = "format"
  PROVE  ToolStep(p)
  BY DEF ToolStep, Alone, Ready, Passed

LEMMA FormatBlockingStep ==
  ASSUME Types, NEW p \in Procs, inv[p].tool # "progress", proc[p].pc = "format", FormatBlocking(p)
  PROVE  ToolStep(p)
  <1>1. inv' = inv /\ told' \in [Procs -> Told] /\ Active(p)
    BY DEF FormatBlocking, Types, Active
  <1>2. ASSUME NEW o \in FormatRefused(Addr(p)), drive' = Update(Addr(p), o.drive),
               Exit(p, IF Succeeded(o.reply) THEN 0 ELSE 1)
        PROVE  ToolStep(p)
    <2>1. drive' \in [Drives -> DriveStates] /\ NoCut
      BY <1>2, FormatRefusedGentle, TameIsHarmless DEF Gentle, Harmless, NoCut
    <2> QED
      BY <1>1, <1>2, <2>1, ExitAlone, FormatStep
  <1>3. ASSUME CanFormat(Addr(p)), drive' = Update(Addr(p), FormatStarted(Addr(p), "blocking")),
               Goto(p, "blocked")
        PROVE  ToolStep(p)
    <2>1. /\ Addr(p) \in Drives /\ FormatStarted(Addr(p), "blocking") \in DriveStates
          /\ FormatStarted(Addr(p), "blocking").job = "blocking"
      BY <1>3, FormatTyped DEF CanFormat, Jobs, Formats
    <2>2. drive' \in [Drives -> DriveStates] /\ NoCut
      BY <1>3, <2>1, UpdateStep DEF Types, NoCut
    <2> DEFINE r == [proc[p] EXCEPT !.pc = "blocked"]
    <2>3. r \in ProcStates /\ r.pc = "blocked" /\ Become(p, r)
      BY <1>3 DEF Types, ProcStates, PCs, Goto
    <2> HIDE DEF r
    <2> QED
      BY <1>1, <2>2, <2>3, BecomeAlone, FormatStep
  <1> QED
    BY <1>2, <1>3 DEF FormatBlocking, ExitWith

LEMMA FormatReturnsStep ==
  ASSUME Types, NEW p \in Procs, inv[p].tool # "progress", proc[p].pc \in {"blocked", "cut"},
         FormatReturns(p)
  PROVE  ToolStep(p)
  <1>1. inv' = inv /\ told' \in [Procs -> Told] /\ Active(p)
    BY DEF FormatReturns, Types, Active
  <1>2. PICK o \in IF proc[p].pc = "cut"
                   THEN {[reply |-> ScsiFailed, drive |-> drive[Addr(p)]]}
                   ELSE FormatOutcomes(Addr(p)) :
          drive' = Update(Addr(p), o.drive) /\ Exit(p, IF Succeeded(o.reply) THEN 0 ELSE 1)
    BY DEF FormatReturns, ExitWith
  <1>3. Addr(p) \in Drives => /\ o.drive \in DriveStates
                              /\ o.drive.job \in {drive[Addr(p)].job, "none"}
    <2> SUFFICES ASSUME Addr(p) \in Drives
                 PROVE  /\ o.drive \in DriveStates
                        /\ o.drive.job \in {drive[Addr(p)].job, "none"}
      OBVIOUS
    <2>1. drive[Addr(p)] \in DriveStates /\ "none" \in Jobs
      BY DEF Types, Jobs
    <2>2. \/ o.drive = drive[Addr(p)]
          \/ o.drive = FormatDone(Addr(p))
          \/ o.drive = [drive[Addr(p)] EXCEPT !.job = "none"]
      BY <1>2 DEF FormatOutcomes
    <2>3. [drive[Addr(p)] EXCEPT !.job = "none"].job = "none"
      BY <2>1 DEF DriveStates
    <2> QED
      BY <2>1, <2>2, <2>3, FormatTyped DEF Formats
  <1>4. drive' \in [Drives -> DriveStates] /\ Harmless
    BY <1>2, <1>3, UpdateStep DEF Types, Harmless
  <1> QED
    BY <1>1, <1>2, <1>4, ExitAlone, PlainStep

LEMMA LengthIsNatural ==
  ASSUME NEW n \in Int
  PROVE  ModeSelectLength(set_mode_sel_block_length(n)) \in Nat
  <1>1. (n \div 65536) % 256 \in Nat /\ (n \div 256) % 256 \in Nat /\ n % 256 \in Nat
    OBVIOUS
  <1> QED
    BY <1>1 DEF ModeSelectLength, set_mode_sel_block_length

LEMMA ModeselModeSelectStep ==
  ASSUME Types, NEW p \in Procs, ModeselModeSelect(p)
  PROVE  ToolStep(p)
  <1> DEFINE n == ModeSelectLength(set_mode_sel_block_length(proc[p].size))
             r == [proc[p] EXCEPT !.pc = "countdown", !.left = ShortWait]
  <1>1. PICK o \in ModeSelect(Addr(p), n) :
          /\ drive' = Update(Addr(p), o.drive)
          /\ IF ~Succeeded(o.reply) THEN Exit(p, 1) ELSE Become(p, r)
    BY DEF ModeselModeSelect
  <1>2. inv' = inv /\ told' \in [Procs -> Told] /\ Active(p) /\ inv[p].tool # "progress"
    BY DEF ModeselModeSelect, Types, Active, At
  <1>3. n \in Nat
    BY LengthIsNatural DEF Types, ProcStates
  <1>4. r \in ProcStates /\ r.pc = "countdown"
    BY ToolAssumption DEF Types, ProcStates, PCs
  <1> HIDE DEF n, r
  <1>5. drive' \in [Drives -> DriveStates] /\ Harmless
    BY <1>1, <1>3, ModeSelectTame, TameIsHarmless
  <1>6. CASE ~Succeeded(o.reply)
    BY <1>1, <1>2, <1>5, <1>6, ExitAlone, PlainStep
  <1>7. CASE Succeeded(o.reply)
    BY <1>1, <1>2, <1>4, <1>5, <1>7, BecomeAlone, PlainStep
  <1> QED
    BY <1>6, <1>7

LEMMA ImmedModeSelectStep ==
  ASSUME Types, NEW p \in Procs, ImmedModeSelect(p)
  PROVE  ToolStep(p)
  <1> DEFINE n == ModeSelectLength(set_mode_sel_block_length(proc[p].size))
             r(f) == [proc[p] EXCEPT !.pc = "countdown", !.left = IF f THEN LongWait ELSE ShortWait]
  <1>1. PICK o \in ModeSelect(Addr(p), n) :
          /\ drive' = Update(Addr(p), o.drive)
          /\ Become(p, r(~Succeeded(o.reply)))
          /\ told' = [told EXCEPT ![p].failed = ~Succeeded(o.reply)]
    BY DEF ImmedModeSelect, countdown
  <1>2. inv' = inv /\ Active(p) /\ inv[p].tool # "progress"
    BY DEF ImmedModeSelect, Active, At
  <1>3. told' \in [Procs -> Told]
    BY <1>1 DEF Types, Told
  <1>4. n \in Nat
    BY LengthIsNatural DEF Types, ProcStates
  <1>5. \A f \in BOOLEAN : r(f) \in ProcStates /\ r(f).pc = "countdown"
    BY ToolAssumption DEF Types, ProcStates, PCs
  <1>6. (~Succeeded(o.reply)) \in BOOLEAN
    OBVIOUS
  <1> DEFINE q == r(~Succeeded(o.reply))
  <1>7. q \in ProcStates /\ q.pc = "countdown" /\ Become(p, q)
    BY <1>1, <1>5, <1>6
  <1> HIDE DEF n, q
  <1>8. drive' \in [Drives -> DriveStates] /\ Harmless
    BY <1>1, <1>4, ModeSelectTame, TameIsHarmless
  <1>9. Alone(p) /\ proc'[p] = q
    BY <1>2, <1>3, <1>7, <1>8, BecomeAlone
  <1> QED
    BY <1>2, <1>7, <1>8, <1>9, PlainStep

LEMMA ImmedFormatStep ==
  ASSUME Types, NEW p \in Procs, ImmedFormat(p)
  PROVE  ToolStep(p)
  <1>1. PICK o \in FormatImmed(Addr(p)) :
          /\ drive' = Update(Addr(p), o.drive)
          /\ Exit(p, IF Succeeded(o.reply) THEN 0 ELSE 1)
    BY DEF ImmedFormat, ExitWith
  <1>2. /\ inv' = inv /\ told' \in [Procs -> Told] /\ Active(p)
        /\ inv[p].tool # "progress" /\ proc[p].pc = "format"
    BY DEF ImmedFormat, Types, Active, At
  <1>3. CASE o \in FormatRefused(Addr(p))
    <2>1. drive' \in [Drives -> DriveStates] /\ NoCut
      BY <1>1, <1>3, FormatRefusedGentle, TameIsHarmless DEF Gentle, Harmless, NoCut
    <2> QED
      BY <1>1, <1>2, <2>1, ExitAlone, FormatStep
  <1>4. CASE CanFormat(Addr(p)) /\ o.drive = FormatStarted(Addr(p), "immed")
    <2>1. Addr(p) \in Drives /\ o.drive \in DriveStates /\ o.drive.job = "immed"
      BY <1>4, FormatTyped DEF CanFormat, Jobs, Formats
    <2>2. drive' \in [Drives -> DriveStates] /\ NoCut
      BY <1>1, <2>1, UpdateStep DEF Types, NoCut
    <2> QED
      BY <1>1, <1>2, <2>2, ExitAlone, FormatStep
  <1> QED
    BY <1>3, <1>4 DEF FormatImmed

LEMMA InquirySendStep ==
  ASSUME Types, NEW p \in Procs, InquirySend(p)
  PROVE  ToolStep(p)
  <1> DEFINE found(o) == o.reply.ioctl = 0 /\ o.reply.cmd_status = 0
  <1>1. PICK o \in Inquiry(Addr(p)) :
          /\ drive' = Update(Addr(p), o.drive)
          /\ Exit(p, IF found(o) THEN 0 ELSE 1)
          /\ told' = [told EXCEPT ![p].identity = IF found(o) THEN @ \cup {Addr(p)} ELSE @]
    BY DEF InquirySend
  <1>2. inv' = inv /\ Active(p) /\ inv[p].tool # "progress"
    BY DEF InquirySend, Active, At
  <1>3. Addr(p) \in Int \X Int
    BY DEF Addr, Types, ProcStates
  <1> DEFINE seen == IF found(o) THEN told[p].identity \cup {Addr(p)} ELSE told[p].identity
  <1>4. seen \in SUBSET (Int \X Int)
    BY <1>3 DEF Types, Told
  <1>5. told' = [told EXCEPT ![p].identity = seen]
    BY <1>1 DEF Types
  <1> HIDE DEF seen
  <1>6. told' \in [Procs -> Told]
    BY <1>4, <1>5 DEF Types, Told
  <1>7. drive' \in [Drives -> DriveStates] /\ Harmless
    BY <1>1, InquiryGentle, TameIsHarmless DEF Gentle
  <1>8. (IF found(o) THEN 0 ELSE 1) \in Int
    OBVIOUS
  <1> HIDE DEF found
  <1>9. Alone(p) /\ proc'[p].pc = "exited"
    BY <1>1, <1>2, <1>6, <1>7, <1>8, ExitAlone
  <1> QED
    BY <1>2, <1>7, <1>9, PlainStep

-----------------------------------------------------------------------------
(***************************************************************************)
(* mega_progress.                                                          *)
(***************************************************************************)

(* Whatever a formatting drive answers, it does not read as idle: 04/04    *)
(* counts without NOT READY, NOT READY counts without its ASC, and a       *)
(* progress indication counts without either.                              *)
LEMMA FormattingIsNotIdle ==
  ASSUME NEW a \in Drives, drive[a].job \in Formats, NEW s \in SenseOf(a)
  PROVE  classify(s) # "IDLE"
  <1>1. CASE drive[a].ua
    BY <1>1 DEF SenseOf, Sense, classify, InFormat, HasProgress
  <1>2. CASE ~drive[a].ua
    <2>1. s \in FormatSense(a)
      BY <1>2 DEF SenseOf
    <2>2. s \in {Sense(2, 4, 4, 32768), Sense(2, 4, 4, -1), Sense(0, 4, 4, 32768),
                 Sense(2, 0, 0, -1), Sense(0, 0, 0, 32768), Sense(0, 4, 4, -1)}
      BY <2>1 DEF FormatSense
    <2> QED
      BY <2>2 DEF Sense, classify, InFormat, HasProgress
  <1> QED
    BY <1>1, <1>2

LEMMA PollAnswered ==
  ASSUME Types, NEW a, NEW o \in RequestSense(a), o.sense.decoded, classify(o.sense) = "IDLE"
  PROVE  Calm(a)
  <1> SUFFICES ASSUME a \in Drives PROVE drive[a].job \notin Formats
    BY DEF Calm
  <1> DEFINE failed(x)   == [reply |-> x.reply, drive |-> x.drive, sense |-> Undecodable]
             answered(s) == [reply |-> Good, drive |-> [drive[a] EXCEPT !.ua = FALSE], sense |-> s]
  <1>1. \/ o \in {failed(x) : x \in Faults(drive[a])}
        \/ o \in {answered(s) : s \in SenseOf(a)}
        \/ o = [reply |-> Good, drive |-> drive[a], sense |-> Undecodable]
    BY DEF RequestSense
  <1>2. CASE o \in {answered(s) : s \in SenseOf(a)}
    <2>1. PICK s \in SenseOf(a) : o = answered(s)
      BY <1>2
    <2>2. o.sense = s
      BY <2>1
    <2> QED
      BY <2>2, FormattingIsNotIdle
  <1>3. CASE o \in {failed(x) : x \in Faults(drive[a])}
    <2>1. PICK x \in Faults(drive[a]) : o = failed(x)
      BY <1>3
    <2> QED
      BY <2>1 DEF Undecodable
  <1>4. CASE o = [reply |-> Good, drive |-> drive[a], sense |-> Undecodable]
    BY <1>4 DEF Undecodable
  <1> QED
    BY <1>1, <1>2, <1>3, <1>4

LEMMA ProgressPollStep ==
  ASSUME Types, NEW p \in Procs, ProgressPoll(p)
  PROVE  ToolStep(p)
  <1>1. PICK o \in RequestSense(Addr(p)) :
          /\ drive' = Update(Addr(p), o.drive)
          /\ IF ~Succeeded(o.reply) \/ ~o.sense.decoded THEN SoftError(p)
             ELSE IF classify(o.sense) # "IDLE" THEN NotConfirmed(p)
             ELSE NothingInProgress(p)
    BY DEF ProgressPoll
  <1>2. inv' = inv /\ Active(p) /\ proc[p].pc = "poll" /\ proc[p] \in ProcStates
    BY DEF ProgressPoll, Active, At, Types
  <1>3. drive' \in [Drives -> DriveStates] /\ Harmless
    BY <1>1, RequestSenseGentle, TameIsHarmless DEF Gentle
  <1>4. ASSUME SoftError(p) PROVE ToolStep(p)
    <2> DEFINE r == [proc[p] EXCEPT !.soft_errors = @ + 1]
    <2>1. told' \in [Procs -> Told]
      BY <1>4 DEF SoftError, Types, Told
    <2>2. CASE Exit(p, 1)
      BY <1>2, <1>3, <2>1, <2>2, ExitAlone, PlainStep
    <2>3. CASE Become(p, r)
      <3>1. r \in ProcStates /\ r.pc = "poll"
        BY <1>2 DEF ProcStates
      <3> HIDE DEF r
      <3>2. Alone(p) /\ proc'[p] = r
        BY <1>2, <1>3, <2>1, <2>3, <3>1, BecomeAlone
      <3> QED
        BY <1>3, <3>1, <3>2, PlainStep
    <2> QED
      BY <1>4, <2>2, <2>3 DEF SoftError
  <1>5. ASSUME NotConfirmed(p) PROVE ToolStep(p)
    <2> DEFINE r == [proc[p] EXCEPT !.soft_errors = 0]
    <2>1. told' \in [Procs -> Told]
      BY <1>5 DEF NotConfirmed, Types, Told
    <2>2. CASE Exit(p, 3)
      BY <1>2, <1>3, <2>1, <2>2, ExitAlone, PlainStep
    <2>3. CASE Become(p, r)
      <3>1. r \in ProcStates /\ r.pc = "poll"
        BY <1>2 DEF ProcStates
      <3> HIDE DEF r
      <3>2. Alone(p) /\ proc'[p] = r
        BY <1>2, <1>3, <2>1, <2>3, <3>1, BecomeAlone
      <3> QED
        BY <1>3, <3>1, <3>2, PlainStep
    <2> QED
      BY <1>5, <2>2, <2>3 DEF NotConfirmed, Decoded
  <1>6. ASSUME NothingInProgress(p), o.sense.decoded, classify(o.sense) = "IDLE" PROVE ToolStep(p)
    <2> DEFINE r == [proc[p] EXCEPT !.pc = "readcap", !.soft_errors = 0, !.attempt = 1]
    <2>1. told' \in [Procs -> Told]
      BY <1>6 DEF NothingInProgress, Types, Told
    <2>2. /\ r \in ProcStates /\ r.pc = "readcap" /\ Become(p, r)
          /\ r.bus = proc[p].bus /\ r.target = proc[p].target
      BY <1>2, <1>6 DEF ProcStates, PCs, NothingInProgress, Decoded
    <2> HIDE DEF r
    <2>3. Alone(p) /\ proc'[p] = r
      BY <1>2, <1>3, <2>1, <2>2, BecomeAlone
    <2>4. Addr(p)' = Addr(p)
      BY <2>2, <2>3 DEF Addr
    <2>5. Calm(Addr(p))
      BY <1>6, PollAnswered
    <2> QED
      BY <1>2, <1>3, <2>2, <2>3, <2>4, <2>5 DEF ToolStep, Harmless, NoCut, Passed
  <1> QED
    BY <1>1, <1>4, <1>5, <1>6

(* Nobody answers READ CAPACITY where there is no drive.                   *)
LEMMA CapacityAnswered ==
  ASSUME NEW a, NEW o \in ReadCapacity(a), read_capacity10(o) = 0
  PROVE  a \in Drives
  <1> SUFFICES ASSUME a \notin Drives PROVE read_capacity10(o) # 0
    OBVIOUS
  <1> DEFINE failed(x) == [reply |-> x.reply, drive |-> x.drive, length |-> CapacityBytes(0)]
  <1>1. PICK x \in Silence : o = failed(x)
    BY DEF ReadCapacity
  <1>2. o.reply = IoctlError
    BY <1>1 DEF Silence
  <1> QED
    BY <1>2 DEF read_capacity10, Succeeded, send_cmd, IoctlError

LEMMA ProgressReadCapacityStep ==
  ASSUME Types, NEW p \in Procs, ProgressReadCapacity(p)
  PROVE  ToolStep(p)
  <1> DEFINE r == [proc[p] EXCEPT !.attempt = @ + 1]
             verdict(o) == check_expected_block_size(block_size(o.length), proc[p].size)
  <1>1. PICK o \in ReadCapacity(Addr(p)) :
          /\ drive' = Update(Addr(p), o.drive)
          /\ \/ read_capacity10(o) = 0 /\ Exit(p, verdict(o))
             \/ Become(p, r)
             \/ Exit(p, 1)
    BY DEF ProgressReadCapacity
  <1>2. /\ inv' = inv /\ told' \in [Procs -> Told] /\ Active(p) /\ proc[p] \in ProcStates
        /\ Ready(p) /\ proc[p].pc = "readcap"
    BY DEF ProgressReadCapacity, Active, At, Types, Ready
  <1>3. drive' \in [Drives -> DriveStates] /\ Harmless
    BY <1>1, ReadCapacityGentle, TameIsHarmless DEF Gentle
  <1>4. CASE read_capacity10(o) = 0 /\ Exit(p, verdict(o))
    <2>1. verdict(o) \in Int
      BY DEF check_expected_block_size
    <2>2. Addr(p) \in Drives
      BY <1>4, CapacityAnswered
    <2> HIDE DEF verdict
    <2>3. Alone(p) /\ Addr(p)' = Addr(p)
      BY <1>2, <1>3, <1>4, <2>1, ExitAlone
    <2> QED
      BY <1>2, <1>3, <2>2, <2>3 DEF ToolStep, Harmless, NoCut
  <1>5. CASE Become(p, r)
    <2>1. /\ r \in ProcStates /\ r.pc = "readcap"
          /\ r.bus = proc[p].bus /\ r.target = proc[p].target
      BY <1>2 DEF ProcStates
    <2> HIDE DEF r
    <2>2. Alone(p) /\ proc'[p] = r
      BY <1>2, <1>3, <1>5, <2>1, BecomeAlone
    <2>3. Addr(p)' = Addr(p)
      BY <2>1, <2>2 DEF Addr
    <2> QED
      BY <1>2, <1>3, <2>1, <2>2, <2>3 DEF ToolStep, Harmless, NoCut, Passed
  <1>6. CASE Exit(p, 1)
    BY <1>2, <1>3, <1>6, ExitAlone, PlainStep
  <1> QED
    BY <1>1, <1>4, <1>5, <1>6

-----------------------------------------------------------------------------
(***************************************************************************)
(* Every step of every tool is such a step, and the steps that are no      *)
(* tool's keep the types.                                                  *)
(***************************************************************************)
LEMMA MegaInquiryStep ==
  ASSUME Types, NEW p \in Procs, MegaInquiry(p)
  PROVE  ToolStep(p)
  <1>1. CASE InquiryArgs(p)
    <2>1. inv[p].target \in Texts /\ Active(p) /\ inv[p].tool = "inquiry"
      BY <1>1 DEF InquiryArgs, At, Active, Types, Invocations
    <2> QED
      BY <1>1, <2>1, NumbersRead, TakeArgumentsStep DEF InquiryArgs
  <1>2. CASE InquiryOpen(p)
    BY <1>2, OpenNodeStep DEF InquiryOpen, At, Active, PCs
  <1> QED
    BY <1>1, <1>2, InquirySendStep DEF MegaInquiry

LEMMA MegaFormat512Step ==
  ASSUME Types, NEW p \in Procs, MegaFormat512(p)
  PROVE  ToolStep(p)
  <1>1. CASE Format512Args(p)
    <2>1. inv[p].target \in Texts /\ Active(p)
      BY <1>1 DEF Format512Args, At, Active, Types, Invocations
    <2> QED
      BY <1>1, <2>1, NumbersRead, TakeArgumentsStep DEF Format512Args
  <1>2. CASE Format512Open(p)
    BY <1>2, OpenNodeStep DEF Format512Open, At, Active, PCs
  <1>3. CASE Format512Inquiry(p)
    BY <1>3, IdentifyStep, ToolAssumption DEF Format512Inquiry, At, Active, PCs
  <1>4. CASE Format512CountDown(p)
    BY <1>4, CountDownStep DEF Format512CountDown, At, Active
  <1>5. CASE Format512Format(p)
    BY <1>5, FormatBlockingStep DEF Format512Format, At
  <1>6. CASE Format512Returns(p)
    BY <1>6, FormatReturnsStep DEF Format512Returns, At
  <1> QED
    BY <1>1, <1>2, <1>3, <1>4, <1>5, <1>6 DEF MegaFormat512

LEMMA MegaModeselStep ==
  ASSUME Types, NEW p \in Procs, MegaModesel(p)
  PROVE  ToolStep(p)
  <1>1. CASE ModeselArgs(p)
    <2>1. inv[p].target \in Texts /\ inv[p].size \in Texts /\ Active(p)
      BY <1>1 DEF ModeselArgs, At, Active, Types, Invocations
    <2> QED
      BY <1>1, <2>1, NumbersRead, TakeArgumentsStep DEF ModeselArgs
  <1>2. CASE ModeselOpen(p)
    BY <1>2, OpenNodeStep DEF ModeselOpen, At, Active, PCs
  <1>3. CASE ModeselInquiry(p)
    BY <1>3, IdentifyStep DEF ModeselInquiry, At, Active, PCs
  <1>4. CASE ModeselCountDown(p)
    BY <1>4, CountDownStep DEF ModeselCountDown, At, Active
  <1>5. CASE ModeselFormat(p)
    BY <1>5, FormatBlockingStep DEF ModeselFormat, At
  <1>6. CASE ModeselReturns(p)
    BY <1>6, FormatReturnsStep DEF ModeselReturns, At
  <1> QED
    BY <1>1, <1>2, <1>3, <1>4, <1>5, <1>6, ModeselModeSelectStep DEF MegaModesel

LEMMA MegaFormatImmedStep ==
  ASSUME Types, NEW p \in Procs, MegaFormatImmed(p)
  PROVE  ToolStep(p)
  <1>1. CASE ImmedArgs(p)
    <2>1. inv[p].target \in Texts /\ inv[p].size \in Texts /\ Active(p)
      BY <1>1 DEF ImmedArgs, At, Active, Types, Invocations
    <2> QED
      BY <1>1, <2>1, NumbersRead, TakeArgumentsStep DEF ImmedArgs
  <1>2. CASE ImmedOpen(p)
    BY <1>2, OpenNodeStep DEF ImmedOpen, At, Active, PCs
  <1>3. CASE ImmedInquiry(p)
    BY <1>3, IdentifyStep DEF ImmedInquiry, At, Active, PCs
  <1>4. CASE ImmedCountDown(p)
    BY <1>4, CountDownStep DEF ImmedCountDown, At, Active
  <1> QED
    BY <1>1, <1>2, <1>3, <1>4, ImmedModeSelectStep, ImmedFormatStep DEF MegaFormatImmed

LEMMA MegaProgressStep ==
  ASSUME Types, NEW p \in Procs, MegaProgress(p)
  PROVE  ToolStep(p)
  <1>1. CASE ProgressArgs(p)
    <2>1. inv[p].target \in Texts /\ inv[p].size \in Texts /\ Active(p)
      BY <1>1 DEF ProgressArgs, At, Active, Types, Invocations
    <2> QED
      BY <1>1, <2>1, NumbersRead, TakeArgumentsStep DEF ProgressArgs
  <1>2. CASE ProgressOpen(p)
    BY <1>2, OpenNodeStep DEF ProgressOpen, At, Active, PCs
  <1> QED
    BY <1>1, <1>2, ProgressPollStep, ProgressReadCapacityStep DEF MegaProgress

LEMMA ToolIsToolStep ==
  ASSUME Types, NEW p \in Procs, Tool(p)
  PROVE  ToolStep(p)
  BY MegaInquiryStep, MegaFormat512Step, MegaModeselStep, MegaFormatImmedStep, MegaProgressStep
  DEF Tool

(* The command mega_format_immed prints is an invocation.                  *)
LEMMA PrintedTyped ==
  ASSUME Types, NEW q \in Procs
  PROVE  PrintedCommand(q) \in Invocations
  <1>1. inv[q].host \in Nat /\ proc[q].target \in Int /\ proc[q].size \in Int
    BY DEF Types, Invocations, ProcStates
  <1>2. \A n \in Int : Decimal(n) \in Texts
    BY DEF Decimal, Texts
  <1> QED
    BY <1>1, <1>2 DEF PrintedCommand, Invocations, Tools

LEMMA LaunchStep ==
  ASSUME Types, NEW p \in Procs, NEW i \in Invocations, Launch(p, i)
  PROVE  /\ Types' /\ drive' = drive
         /\ \A q \in Procs : q # p => proc'[q] = proc[q] /\ inv'[q] = inv[q]
         /\ FreeSlot(p) /\ proc'[p].pc = "args" /\ inv'[p] = i
         /\ Solo => \A q \in Procs : Active(q) => Aim(inv[q]) # Aim(i)
  <1>1. /\ proc' \in [Procs -> ProcStates]
        /\ \A q \in Procs : q # p => proc'[q] = proc[q]
        /\ proc'[p] = [proc[p] EXCEPT !.pc = "args"]
    BY GotoStep DEF Launch, Types, PCs
  <1>2. /\ inv' \in [Procs -> Invocations] /\ inv'[p] = i
        /\ \A q \in Procs : q # p => inv'[q] = inv[q]
    BY DEF Launch, Types
  <1>3. proc'[p].pc = "args"
    BY <1>1 DEF Types, ProcStates
  <1> QED
    BY <1>1, <1>2, <1>3 DEF Launch, Types

LEMMA CutPowerStep ==
  ASSUME Types, NEW a \in Drives, CutPower(a)
  PROVE  /\ Types' /\ inv' = inv
         /\ \A b \in Drives : b # a => drive'[b] = drive[b]
         /\ drive'[a].job = "spinup"
         /\ \A q \in Procs : \/ proc'[q] = proc[q]
                             \/ /\ proc[q].pc = "blocked" /\ proc'[q].pc = "cut"
                                /\ Addr(q)' = Addr(q)
  <1> DEFINE page == IF drive[a].medium = 0 THEN drive[a].page ELSE drive[a].medium
             d    == [drive[a] EXCEPT !.job = "spinup", !.ua = TRUE, !.page = page]
             r(q) == [proc[q] EXCEPT !.pc = "cut"]
  <1>1. d \in DriveStates /\ d.job = "spinup"
    BY DEF Types, DriveStates, Jobs
  <1>2. drive' = [drive EXCEPT ![a] = d]
    BY DEF CutPower, LosePower, Types
  <1>3. drive' \in [Drives -> DriveStates] /\ drive'[a] = d
        /\ \A b \in Drives : b # a => drive'[b] = drive[b]
    BY <1>1, <1>2 DEF Types
  <1>4. \A q \in Procs : /\ r(q) \in ProcStates /\ r(q).pc = "cut"
                         /\ r(q).bus = proc[q].bus /\ r(q).target = proc[q].target
    BY DEF Types, ProcStates, PCs
  <1>5. proc' = [q \in Procs |-> IF proc[q].pc = "blocked" /\ Addr(q) = a THEN r(q) ELSE proc[q]]
    BY DEF CutPower
  <1> HIDE DEF d, r
  <1>6. \A q \in Procs : \/ proc'[q] = proc[q]
                         \/ proc[q].pc = "blocked" /\ proc'[q] = r(q)
    BY <1>5
  <1>7. proc' \in [Procs -> ProcStates]
    BY <1>4, <1>5 DEF Types
  <1>8. inv' = inv /\ told' = told
    BY DEF CutPower
  <1>9. ASSUME NEW q \in Procs
        PROVE  \/ proc'[q] = proc[q]
               \/ proc[q].pc = "blocked" /\ proc'[q].pc = "cut" /\ Addr(q)' = Addr(q)
    BY <1>4, <1>6 DEF Addr
  <1> QED
    BY <1>1, <1>3, <1>7, <1>8, <1>9 DEF Types

LEMMA OwnTimeStep ==
  ASSUME Types, NEW a \in Drives, OwnTime(a)
  PROVE  Types' /\ Harmless /\ proc' = proc /\ inv' = inv
  <1>1. proc' = proc /\ inv' = inv /\ told' = told
    BY DEF OwnTime, toolvars
  <1>2. drive[a] \in DriveStates /\ "none" \in Jobs
    BY DEF Types, Jobs
  <1>3. CASE FinishFormat(a)
    <2>1. FormatDone(a) \in DriveStates /\ FormatDone(a).job = "none"
      BY <1>2, FormatTyped
    <2>2. PICK ua \in BOOLEAN : drive' = [drive EXCEPT ![a] = [FormatDone(a) EXCEPT !.ua = drive[a].ua \/ ua]]
      BY <1>3 DEF FinishFormat
    <2> DEFINE d == [FormatDone(a) EXCEPT !.ua = drive[a].ua \/ ua]
    <2>3. d \in DriveStates /\ d.job = "none"
      BY <2>1 DEF DriveStates
    <2> HIDE DEF d
    <2> QED
      BY <1>1, <2>2, <2>3 DEF Types, Harmless, d
  <1>4. CASE SpinUp(a)
    <2> DEFINE d == [drive[a] EXCEPT !.job = "none"]
    <2>1. d \in DriveStates /\ d.job = "none"
      BY <1>2 DEF DriveStates
    <2>2. drive' = [drive EXCEPT ![a] = d]
      BY <1>4 DEF SpinUp, Types
    <2> HIDE DEF d
    <2> QED
      BY <1>1, <2>1, <2>2 DEF Types, Harmless
  <1> QED
    BY <1>3, <1>4 DEF OwnTime

LEMMA UpsetStep ==
  ASSUME Types, NEW a \in Drives, Upset(a)
  PROVE  Types' /\ Harmless /\ proc' = proc /\ inv' = inv
  <1> DEFINE d == [drive[a] EXCEPT !.ua = TRUE]
  <1>1. proc' = proc /\ inv' = inv /\ told' = told
    BY DEF Upset, toolvars
  <1>2. d \in DriveStates /\ d.job = drive[a].job
    BY DEF Types, DriveStates
  <1>3. drive' = [drive EXCEPT ![a] = d]
    BY DEF Upset, RaiseAttention, Types
  <1> HIDE DEF d
  <1> QED
    BY <1>1, <1>2, <1>3 DEF Types, Harmless

LEMMA InterruptStep ==
  ASSUME Types, NEW p \in Procs, Interrupt(p)
  PROVE  /\ Alone(p) /\ drive' = drive
         /\ proc'[p].pc = "exited" /\ proc'[p].status = Killed
  BY ExitAlone DEF Interrupt, Types, Killed

-----------------------------------------------------------------------------
(***************************************************************************)
(* Type correctness.                                                       *)
(***************************************************************************)
LEMMA InitTypes == Init => TypeOK
  <1> SUFFICES ASSUME Init PROVE TypeOK
    OBVIOUS
  <1>1. drive \in [Drives -> DriveStates]
    BY ReformatAssumption DEF Init
  <1>2. Fresh \in ProcStates
    BY DEF Fresh, ProcStates, PCs, Running
  <1>3. Untold \in Told
    BY DEF Untold, Told
  <1>4. Blank \in Invocations
    BY DEF Blank, Invocations, Tools, Decimal, Texts
  <1> QED
    BY <1>1, <1>2, <1>3, <1>4 DEF Init, TypeOK

LEMMA NextTypes == TypeOK /\ [Next]_vars => TypeOK'
  <1> SUFFICES ASSUME TypeOK, [Next]_vars PROVE TypeOK'
    OBVIOUS
  <1>1. Types /\ upsets \in Nat /\ cuts \in Nat
    BY DEF TypeOK, Types
  <1>2. ASSUME NEW p \in Procs, Start(p) PROVE TypeOK'
    BY <1>1, <1>2, LaunchStep, ReformatAssumption DEF Start, Launch, TypeOK, Types
  <1>3. ASSUME NEW p \in Procs, FollowUp(p) PROVE TypeOK'
    BY <1>1, <1>3, LaunchStep, PrintedTyped DEF FollowUp, Launch, TypeOK, Types
  <1>4. ASSUME NEW p \in Procs, Interrupt(p) PROVE TypeOK'
    BY <1>1, <1>4, InterruptStep DEF Interrupt, Alone, TypeOK, Types
  <1>5. ASSUME NEW p \in Procs, PowerCycle(p) PROVE TypeOK'
    BY <1>1, <1>5, CutPowerStep DEF PowerCycle, CutPower, TypeOK, Types
  <1>6. ASSUME NEW p \in Procs, Tool(p) PROVE TypeOK'
    BY <1>1, <1>6, ToolIsToolStep DEF Tool, ToolStep, Alone, TypeOK, Types
  <1>7. ASSUME NEW a \in Drives, OwnTime(a) PROVE TypeOK'
    BY <1>1, <1>7, OwnTimeStep DEF OwnTime, TypeOK, Types
  <1>8. ASSUME NEW a \in Drives, Upset(a) PROVE TypeOK'
    BY <1>1, <1>8, UpsetStep DEF Upset, TypeOK, Types
  <1>9. ASSUME NEW a \in Drives, Accident(a) PROVE TypeOK'
    BY <1>1, <1>9, CutPowerStep DEF Accident, CutPower, TypeOK, Types
  <1>10. CASE UNCHANGED vars
    BY <1>10 DEF vars, TypeOK
  <1> QED
    BY <1>2, <1>3, <1>4, <1>5, <1>6, <1>7, <1>8, <1>9, <1>10 DEF Next, Meanwhile, Finished

(* Every process, command line, terminal and drive stays in its set,       *)
(* whatever tools are run, in whatever order and on whatever drives.       *)
THEOREM TypeCorrect == Spec => []TypeOK
  <1>1. Init => TypeOK
    BY InitTypes
  <1>2. TypeOK /\ [Next]_vars => TypeOK'
    BY NextTypes
  <1> QED
    BY <1>1, <1>2, PTL DEF Spec

=============================================================================
