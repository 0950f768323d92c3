-------------------------- MODULE OneAtATime_proofs -------------------------
(***************************************************************************)
(* What holds if the operator waits for a tool to end before running the   *)
(* next one on the same drive, while other tools run on other drives:      *)
(* mega_progress gives its verdict, and the power cycle it gates happens,  *)
(* only while the drive is not formatting, the size announced is the size  *)
(* formatted to, no medium is left half formatted if slow drives are       *)
(* formatted in the background, a verdict is true then, and the procedure  *)
(* keeps the safety part of PowerGate's promise.                           *)
(***************************************************************************)
EXTENDS Formatters_proofs

(* What the clearances and the verdicts are about: the drive on the        *)
(* command line, which is where the tool sends its commands once it has    *)
(* found its node.                                                         *)
Placed(p) == proc[p].pc \notin {"idle", "args", "open", "exited"}

LEMMA AimRead ==
  ASSUME NEW i \in Invocations, i.target.digits, ~i.target.tail,
         0 <= i.target.value, i.target.value <= 255
  PROVE  Aim(i) = <<i.host % 65536, i.target.value>>
  <1> DEFINE v == i.target.value
  <1>1. i.target \in Texts /\ v \in Int /\ LongMax \in Nat /\ 255 <= LongMax
    BY WordSizes DEF Invocations, Texts, U32Max
  <1>2. -LongMax - 1 <= v /\ v <= LongMax
    BY <1>1
  <1>3. strtol(i.target).v = v /\ strtol(i.target).clean
    BY <1>2 DEF strtol
  <1>4. parse_target(i.target) = v
    BY <1>3 DEF parse_target
  <1> QED
    BY <1>4 DEF Aim

LEMMA AddrIsAim ==
  ASSUME LocalInv, NEW p \in Procs, Placed(p)
  PROVE  Addr(p) = Aim(inv[p])
  <1>1. inv[p] \in Invocations /\ proc[p].target \in Int
    BY DEF LocalInv, TypeOK, ProcStates
  <1>2. Named(p) /\ proc[p].bus = inv[p].host
    BY DEF LocalInv, Local, Placed
  <1>3. proc[p].target = inv[p].target.value /\ 0 <= proc[p].target /\ proc[p].target <= 255
    BY <1>2 DEF Named
  <1>4. Aim(inv[p]) = <<inv[p].host % 65536, proc[p].target>>
    BY <1>1, <1>2, <1>3, AimRead DEF Named, CleanTarget
  <1>5. proc[p].target % 256 = proc[p].target
    BY <1>1, <1>3, SmallModulo
  <1> QED
    BY <1>2, <1>4, <1>5 DEF Addr

(* A tool that has not found its node does nothing to any drive.           *)
LEMMA UnplacedStays ==
  ASSUME NEW p \in Procs, Tool(p), proc[p].pc \in {"args", "open"}
  PROVE  drive' = drive
  BY DEF Tool, At, TakeArguments, OpenNode,
         MegaProgress, ProgressArgs, ProgressOpen, ProgressPoll, ProgressReadCapacity,
         MegaInquiry, InquiryArgs, InquiryOpen, InquirySend,
         MegaFormat512, Format512Args, Format512Open, Format512Inquiry, Format512CountDown,
         Format512Format, Format512Returns,
         MegaModesel, ModeselArgs, ModeselOpen, ModeselInquiry, ModeselModeSelect,
         ModeselCountDown, ModeselFormat, ModeselReturns,
         MegaFormatImmed, ImmedArgs, ImmedOpen, ImmedInquiry, ImmedModeSelect,
         ImmedCountDown, ImmedFormat

(* No tool disturbs a drive that its command line does not name.           *)
LEMMA ToolSpares ==
  ASSUME LocalInv, NEW p \in Procs, Tool(p), NEW a \in Drives, a # Aim(inv[p])
  PROVE  drive'[a] = drive[a]
  <1>1. Types /\ Local(p)
    BY DEF LocalInv, TypeOK, Types
  <1>2. Active(p) /\ Deed(p)
    BY <1>1, ToolIsToolStep, ToolDeed DEF ToolStep, Alone
  <1>3. OthersStay(p)
    BY <1>2 DEF Deed, Looks, Glances, Asks, Starts, Ends
  <1>4. CASE Placed(p)
    BY <1>3, <1>4, AddrIsAim DEF OthersStay
  <1>5. CASE ~Placed(p)
    BY <1>2, <1>5, UnplacedStays DEF Placed, Active
  <1> QED
    BY <1>4, <1>5

(* A verdict comes from READ CAPACITY.                                     *)
LEMMA VerdictFromCapacity ==
  ASSUME Types, NEW p \in Procs, Tool(p), Verdict(p)
  PROVE  /\ proc[p].pc = "readcap"
         /\ \E o \in ReadCapacity(Addr(p)) :
              /\ read_capacity10(o) = 0
              /\ proc'[p].status = check_expected_block_size(block_size(o.length), proc[p].size)
  <1>1. inv[p].tool = "progress" /\ proc'[p].pc = "exited" /\ proc'[p].status \in {0, 2}
    BY DEF Verdict, Exits
  <1>2. ASSUME NEW s \in {1, 3}, Exit(p, s) PROVE FALSE
    BY <1>1, <1>2, ExitStep DEF Types
  <1>3. ASSUME NEW r \in ProcStates, Become(p, r), r.pc # "exited" PROVE FALSE
    BY <1>1, <1>3, BecomeStep DEF Types
  <1>4. proc[p] \in ProcStates /\ inv[p].target \in Texts /\ inv[p].size \in Texts
    BY DEF Types, Invocations
  <1>5. ~ProgressArgs(p)
    <2> DEFINE t == parse_target(inv[p].target)
               n == IF inv[p].argc > 4 THEN parse_expected_block_size(inv[p].size) ELSE 512
               r == [proc[p] EXCEPT !.pc = "open", !.target = t, !.size = n]
    <2>1. t \in Int /\ n \in Int
      BY <1>4, NumbersRead
    <2>2. ProgressArgs(p) => Exit(p, 1) \/ Become(p, r)
      BY DEF ProgressArgs, TakeArguments
    <2> HIDE DEF t, n
    <2>3. r \in ProcStates /\ r.pc = "open"
      BY <1>4, <2>1 DEF ProcStates, PCs
    <2> HIDE DEF r
    <2> QED
      BY <1>2, <1>3, <2>2, <2>3
  <1>6. ~ProgressOpen(p)
    <2> DEFINE r(b) == [proc[p] EXCEPT !.pc = "poll", !.bus = b]
    <2>1. \A b \in KnownBus(p) : b \in Nat
      BY DEF KnownBus, GetBusNumber, Types, Invocations
    <2>2. \A b \in Nat : r(b) \in ProcStates /\ r(b).pc = "poll"
      BY <1>4 DEF ProcStates, PCs
    <2>3. ProgressOpen(p) => Exit(p, 1) \/ \E b \in KnownBus(p) : Become(p, r(b))
      BY DEF ProgressOpen, OpenNode
    <2> HIDE DEF r
    <2> QED
      BY <1>2, <1>3, <2>1, <2>2, <2>3
  <1>7. ~ProgressPoll(p)
    <2> SUFFICES ASSUME ProgressPoll(p) PROVE FALSE
      OBVIOUS
    <2>1. SoftError(p) \/ NotConfirmed(p) \/ NothingInProgress(p)
      BY DEF ProgressPoll
    <2>2. proc[p].pc = "poll" /\ proc[p].soft_errors \in Nat
      BY <1>4 DEF ProgressPoll, At, ProcStates
    <2> DEFINE r(n) == [proc[p] EXCEPT !.soft_errors = n]
               s    == [proc[p] EXCEPT !.pc = "readcap", !.soft_errors = 0, !.attempt = 1]
    <2>3. s \in ProcStates /\ s.pc = "readcap" /\ \A n \in Nat : r(n) \in ProcStates /\ r(n).pc = "poll"
      BY <1>4, <2>2 DEF ProcStates, PCs
    <2>4. \/ \E k \in {1, 3} : Exit(p, k)
          \/ Become(p, r(proc[p].soft_errors + 1)) \/ Become(p, r(0)) \/ Become(p, s)
      BY <1>4, <2>1 DEF SoftError, NotConfirmed, NothingInProgress, Decoded, ProcStates
    <2> HIDE DEF r, s
    <2> QED
      BY <1>2, <1>3, <2>2, <2>3, <2>4
  <1>8. ProgressReadCapacity(p)
    BY <1>1, <1>5, <1>6, <1>7
    DEF Tool, At, MegaProgress, MegaInquiry, InquiryArgs, InquiryOpen, InquirySend,
         MegaFormat512, Format512Args, Format512Open, Format512Inquiry, Format512CountDown,
         Format512Format, Format512Returns,
         MegaModesel, ModeselArgs, ModeselOpen, ModeselInquiry, ModeselModeSelect,
         ModeselCountDown, ModeselFormat, ModeselReturns,
         MegaFormatImmed, ImmedArgs, ImmedOpen, ImmedInquiry, ImmedModeSelect,
         ImmedCountDown, ImmedFormat
  <1> DEFINE r == [proc[p] EXCEPT !.attempt = @ + 1]
             verdict(o) == check_expected_block_size(block_size(o.length), proc[p].size)
  <1>9. PICK o \in ReadCapacity(Addr(p)) :
          \/ read_capacity10(o) = 0 /\ Exit(p, verdict(o))
          \/ Become(p, r)
          \/ Exit(p, 1)
    BY <1>8 DEF ProgressReadCapacity
  <1>10. r \in ProcStates /\ r.pc = "readcap"
    BY <1>4, <1>8 DEF ProcStates, ProgressReadCapacity, At
  <1>11. verdict(o) \in Int
    BY DEF check_expected_block_size
  <1> HIDE DEF r, verdict
  <1>12. read_capacity10(o) = 0 /\ Exit(p, verdict(o))
    BY <1>2, <1>3, <1>9, <1>10
  <1>13. proc'[p].status = verdict(o)
    BY <1>11, <1>12, ExitStep DEF Types
  <1>14. proc[p].pc = "readcap"
    BY <1>8 DEF ProgressReadCapacity, At
  <1> QED
    BY <1>12, <1>13, <1>14 DEF verdict

-----------------------------------------------------------------------------
(***************************************************************************)
(* One tool at a time on each drive.                                       *)
(***************************************************************************)

(* Slots are used in order, ...                                            *)
Filled == \A p, q \in Procs : p < q /\ proc[q].pc # "idle" => proc[p].pc # "idle"

(* ... and on each drive once the tool before has ended.                   *)
SlotOrder ==
  \A p, q \in Procs :
    p < q /\ proc[q].pc # "idle" /\ Aim(inv[q]) = Aim(inv[p]) => proc[p].pc = "exited"

(* A verdict is about the drive on the command line, and it is there.      *)
Pointed == \A p \in Procs : Passed(p) => Addr(p) = Aim(inv[p]) /\ Addr(p) \in Drives

(* From the poll that found nothing in progress to the verdict, and from   *)
(* the verdict to the power cycle it gates, no format runs on the drive.   *)
Quiet == \A p \in Procs : Ready(p) \/ (Passed(p) /\ Last(p)) => Calm(Addr(p))

SoloInv == LocalInv /\ Filled /\ SlotOrder /\ Pointed /\ Quiet

LEMMA SoloTypes ==
  ASSUME SoloInv
  PROVE  Types /\ \A p \in Procs : Local(p)
  BY DEF SoloInv, LocalInv, TypeOK, Types

LEMMA InitSolo == Init => SoloInv
  <1> SUFFICES ASSUME Init PROVE SoloInv
    OBVIOUS
  <1>1. \A p \in Procs : proc[p].pc = "idle"
    BY DEF Init, Fresh
  <1> QED
    BY <1>1, InitLocal DEF SoloInv, Filled, SlotOrder, Pointed, Quiet, Ready, Passed

LEMMA SlotNumbers == \A p, q \in Procs : p = q \/ p < q \/ q < p
  BY ToolAssumption DEF Procs

(* Two tools that run are on different drives, ...                         *)
LEMMA OnOtherDrive ==
  ASSUME SlotOrder, NEW p \in Procs, NEW q \in Procs, Active(p), Active(q), q # p
  PROVE  Aim(inv[q]) # Aim(inv[p])
  BY SlotNumbers DEF SlotOrder, Active

(* ... and no drive is cleared on which a tool runs.                       *)
LEMMA NotTheLast ==
  ASSUME SlotOrder, NEW p \in Procs, NEW q \in Procs, Active(p), proc[q].pc = "exited", Last(q)
  PROVE  Aim(inv[q]) # Aim(inv[p])
  <1> SUFFICES ASSUME Aim(inv[q]) = Aim(inv[p]) PROVE FALSE
    OBVIOUS
  <1>1. p # q /\ proc[p].pc # "idle" /\ proc[p].pc # "exited"
    BY DEF Active
  <1>2. CASE p < q
    BY <1>1, <1>2 DEF SlotOrder
  <1>3. CASE q < p
    <2>1. p > q
      BY <1>3, ToolAssumption DEF Procs
    <2> QED
      BY <1>1, <2>1 DEF Last
  <1> QED
    BY <1>1, <1>2, <1>3, SlotNumbers

(* Who is the last on a drive depends on who has started, and on what.     *)
LEMMA SameLast ==
  ASSUME NEW q \in Procs, inv' = inv, \A r \in Procs : proc'[r].pc = "idle" <=> proc[r].pc = "idle"
  PROVE  Last(q)' <=> Last(q)
  BY DEF Last

(* A drive on which no format runs stays so through steps that start none. *)
LEMMA CalmStays ==
  ASSUME NEW a, Calm(a), Harmless
  PROVE  Calm(a)'
  BY DEF Calm, Harmless, Formats

LEMMA LaunchSolo ==
  ASSUME Solo, SoloInv, NEW p \in Procs, NEW i \in Invocations, Launch(p, i)
  PROVE  Filled' /\ SlotOrder' /\ Pointed' /\ Quiet'
  <1>1. Types /\ Filled /\ SlotOrder /\ Pointed /\ Quiet
    BY SoloTypes DEF SoloInv
  <1>2. /\ drive' = drive /\ inv'[p] = i
        /\ \A q \in Procs : q # p => proc'[q] = proc[q] /\ inv'[q] = inv[q]
        /\ proc[p].pc = "idle" /\ proc'[p].pc = "args"
        /\ \A q \in Procs : q < p => proc[q].pc # "idle"
        /\ \A q \in Procs : Active(q) => Aim(inv[q]) # Aim(i)
    BY <1>1, LaunchStep DEF FreeSlot, Procs
  <1>3. Filled'
    BY <1>1, <1>2 DEF Filled, Procs
  <1>4. SlotOrder'
    <2> SUFFICES ASSUME NEW q \in Procs, NEW r \in Procs, q < r, proc'[r].pc # "idle",
                        Aim(inv'[r]) = Aim(inv'[q])
                 PROVE  proc'[q].pc = "exited"
      BY DEF SlotOrder
    <2>1. q # r
      BY DEF Procs
    <2>2. CASE r = p
      BY <1>2, <2>1, <2>2 DEF Active
    <2>3. CASE r # p
      <3>1. q # p
        BY <1>1, <1>2, <2>3 DEF Filled
      <3> QED
        BY <1>1, <1>2, <2>3, <3>1 DEF SlotOrder
    <2> QED
      BY <2>2, <2>3
  <1>5. ASSUME NEW q \in Procs, Ready(q)' \/ Passed(q)'
        PROVE  q # p /\ proc'[q] = proc[q] /\ inv'[q] = inv[q] /\ Addr(q)' = Addr(q)
    BY <1>2, <1>5 DEF Ready, Passed, Addr
  <1>6. Pointed'
    BY <1>1, <1>5 DEF Pointed, Passed
  <1>7. ASSUME NEW q \in Procs, Ready(q)' \/ (Passed(q)' /\ Last(q)')
        PROVE  Calm(Addr(q))'
    <2>1. q # p /\ proc'[q] = proc[q] /\ inv'[q] = inv[q] /\ Addr(q)' = Addr(q)
      BY <1>5, <1>7
    <2>2. Last(q)' => Last(q)
      BY <1>2, <2>1 DEF Last
    <2>3. Calm(Addr(q))
      BY <1>1, <1>7, <2>1, <2>2 DEF Quiet, Ready, Passed
    <2> QED
      BY <1>2, <2>1, <2>3 DEF Calm
  <1> QED
    BY <1>3, <1>4, <1>6, <1>7 DEF Quiet

LEMMA ToolSolo ==
  ASSUME SoloInv, NEW p \in Procs, Tool(p)
  PROVE  Filled' /\ SlotOrder' /\ Pointed' /\ Quiet'
  <1>1. Types /\ Local(p) /\ LocalInv /\ Filled /\ SlotOrder /\ Pointed /\ Quiet
    BY SoloTypes DEF SoloInv
  <1>2. ToolStep(p) /\ LocalStep(p) /\ Active(p)
    BY <1>1, ToolIsToolStep, ToolLocal DEF ToolStep, Alone
  <1>3. /\ inv' = inv /\ proc'[p].pc # "idle" /\ proc[p].pc \notin {"idle", "exited"}
        /\ \A q \in Procs : q # p => proc'[q] = proc[q]
    BY <1>2 DEF ToolStep, Alone, Active
  <1>4. Filled' /\ SlotOrder'
    BY <1>1, <1>3 DEF Filled, SlotOrder
  <1>5. ASSUME NEW q \in Procs, q # p
        PROVE  Addr(q)' = Addr(q) /\ (Passed(q)' <=> Passed(q)) /\ (Ready(q)' <=> Ready(q))
               /\ (Last(q)' <=> Last(q))
    BY <1>3, <1>5, SameLast DEF Addr, Passed, Ready
  <1>6. Pointed'
    <2>1. ASSUME Passed(p)' PROVE Addr(p)' = Aim(inv[p]) /\ Addr(p)' \in Drives
      <3>1. Verdict(p)
        BY <1>2, <1>3, <2>1 DEF Verdict, Exits, Passed
      <3>2. proc[p].pc = "readcap"
        BY <1>1, <3>1, VerdictFromCapacity
      <3>3. Addr(p)' = Addr(p)
        BY <1>2, <3>2 DEF LocalStep, KeepsAim, Early
      <3> QED
        BY <1>1, <1>2, <2>1, <3>2, <3>3, AddrIsAim DEF Placed, ToolStep
    <2> QED
      BY <1>1, <1>3, <1>5, <2>1 DEF Pointed
  <1>7. ASSUME NEW q \in Procs, Ready(q)' \/ (Passed(q)' /\ Last(q)') PROVE Calm(Addr(q))'
    <2>1. CASE q # p
      <3>1. Addr(q)' = Addr(q) /\ (Ready(q) \/ (Passed(q) /\ Last(q))) /\ Calm(Addr(q))
        BY <1>1, <1>5, <1>7, <2>1 DEF Quiet
      <3>2. Addr(q) = Aim(inv[q])
        BY <1>1, <3>1, AddrIsAim DEF Pointed, Ready, Placed
      <3>3. Aim(inv[q]) # Aim(inv[p])
        BY <1>1, <1>2, <2>1, <3>1, OnOtherDrive, NotTheLast DEF Ready, Active, Passed
      <3>4. Addr(q) \in Drives => drive'[Addr(q)] = drive[Addr(q)]
        BY <1>1, <3>2, <3>3, ToolSpares
      <3> QED
        BY <3>1, <3>4 DEF Calm
    <2>2. CASE q = p
      <3>1. Addr(p)' = Addr(p) /\ Harmless /\ Calm(Addr(p))
        BY <1>1, <1>2, <1>7, <2>2 DEF ToolStep, Quiet
      <3> QED
        BY <2>2, <3>1, CalmStays DEF Calm
    <2> QED
      BY <2>1, <2>2
  <1> QED
    BY <1>4, <1>6, <1>7 DEF Quiet

(* A step of nobody's that starts no format: ended tools stay ended.       *)
LEMMA RestSolo ==
  ASSUME SoloInv, inv' = inv, Harmless \/ \E a \in Drives : CutPower(a),
         \A q \in Procs : \/ proc'[q] = proc[q]
                          \/ /\ Active(q) /\ proc'[q].pc # "idle"
                             /\ ~Ready(q)' /\ ~Passed(q)'
  PROVE  Filled' /\ SlotOrder' /\ Pointed' /\ Quiet'
  <1>1. Types /\ Filled /\ SlotOrder /\ Pointed /\ Quiet
    BY SoloTypes DEF SoloInv
  <1>2. \A q \in Procs : proc'[q].pc = "idle" <=> proc[q].pc = "idle"
    BY DEF Active
  <1>3. \A q \in Procs : proc[q].pc = "exited" => proc'[q].pc = "exited"
    BY DEF Active
  <1>4. Filled' /\ SlotOrder'
    BY <1>1, <1>2, <1>3 DEF Filled, SlotOrder
  <1>5. \A q \in Procs : Passed(q)' \/ Ready(q)' => proc'[q] = proc[q] /\ Addr(q)' = Addr(q)
    BY DEF Addr
  <1>6. Pointed'
    BY <1>1, <1>5 DEF Pointed, Passed
  <1>7. ASSUME NEW a, Calm(a) PROVE Calm(a)'
    <2>1. ASSUME NEW b \in Drives, CutPower(b) PROVE Calm(a)'
      BY <1>1, <1>7, <2>1, CutPowerStep DEF Calm, Formats
    <2> QED
      BY <1>7, <2>1, CalmStays
  <1>8. ASSUME NEW q \in Procs, Ready(q)' \/ (Passed(q)' /\ Last(q)') PROVE Calm(Addr(q))'
    <2>1. proc'[q] = proc[q] /\ Addr(q)' = Addr(q) /\ (Last(q)' <=> Last(q))
      BY <1>2, <1>5, <1>8, SameLast
    <2>2. Calm(Addr(q))
      BY <1>1, <1>8, <2>1 DEF Quiet, Ready, Passed
    <2> QED
      BY <1>7, <2>1, <2>2 DEF Calm
  <1> QED
    BY <1>4, <1>6, <1>8 DEF Quiet

LEMMA NextSolo ==
  ASSUME Solo
  PROVE  SoloInv /\ [Next]_vars => SoloInv'
  <1> DEFINE Goal == Filled' /\ SlotOrder' /\ Pointed' /\ Quiet'
  <1> SUFFICES ASSUME SoloInv, [Next]_vars PROVE Goal
    BY NextLocal DEF SoloInv
  <1> HIDE DEF Goal
  <1>1. Types /\ \A p \in Procs : Local(p)
    BY SoloTypes
  <1>2. CASE \E p \in Procs : Start(p) \/ FollowUp(p)
    <2>1. PICK p \in Procs, i \in Invocations : Launch(p, i)
      BY <1>1, <1>2, PrintedTyped, ReformatAssumption DEF Start, FollowUp
    <2> QED
      BY <2>1, LaunchSolo DEF Goal
  <1>3. ASSUME NEW p \in Procs, Interrupt(p) PROVE Goal
    <2>1. Alone(p) /\ drive' = drive /\ proc'[p].pc = "exited" /\ proc'[p].status = Killed
      BY <1>1, <1>3, InterruptStep
    <2>2. Harmless
      BY <2>1 DEF Harmless
    <2> QED
      BY <2>1, <2>2, RestSolo DEF Goal, Alone, Ready, Passed, Killed
  <1>4. ASSUME NEW p \in Procs, Tool(p) PROVE Goal
    BY <1>4, ToolSolo DEF Goal
  <1>5. ASSUME NEW a \in Drives, CutPower(a) PROVE Goal
    <2>1. /\ inv' = inv
          /\ \A q \in Procs : proc'[q] = proc[q] \/ (proc[q].pc = "blocked" /\ proc'[q].pc = "cut")
      BY <1>1, <1>5, CutPowerStep
    <2> QED
      BY <1>5, <2>1, RestSolo DEF Goal, Active, Ready, Passed
  <1>6. CASE (\E p \in Procs : PowerCycle(p)) \/ (\E a \in Drives : Accident(a))
    BY <1>5, <1>6 DEF PowerCycle, Accident
  <1>7. CASE \E a \in Drives : OwnTime(a) \/ Upset(a)
    BY <1>1, <1>7, OwnTimeStep, UpsetStep, RestSolo DEF Goal
  <1>8. CASE UNCHANGED vars
    <2>1. Harmless /\ proc' = proc /\ inv' = inv
      BY <1>8 DEF vars, Harmless
    <2> QED
      BY <2>1, RestSolo DEF Goal
  <1> QED
    BY <1>2, <1>3, <1>4, <1>6, <1>7, <1>8 DEF Next, Meanwhile, Finished

LEMMA SoloInvariant ==
  ASSUME Solo
  PROVE  Spec => []SoloInv
  <1>1. Init => SoloInv
    BY InitSolo
  <1>2. SoloInv /\ [Next]_vars => SoloInv'
    BY NextSolo
  <1> QED
    BY <1>1, <1>2, PTL DEF Spec

-----------------------------------------------------------------------------
(* The action properties follow from the invariant, step by step.          *)
LEMMA VerdictStep ==
  ASSUME SoloInv, [Next]_vars, NEW p \in Procs, Verdict(p)
  PROVE  Addr(p) \in Drives /\ drive[Addr(p)].job \notin Formats
  <1>1. Types /\ Quiet
    BY DEF SoloInv, LocalInv, TypeOK, Types
  <1>2. /\ inv[p].tool = "progress" /\ Active(p)
        /\ proc'[p].pc = "exited" /\ proc'[p].status \in {0, 2}
    BY DEF Verdict, Exits
  <1>3. ASSUME NEW q \in Procs, ToolStep(q)
        PROVE  Addr(p) \in Drives /\ drive[Addr(p)].job \notin Formats
    <2>1. q = p
      BY <1>2, <1>3 DEF ToolStep, Alone, Active
    <2>2. Passed(p)'
      BY <1>2, <1>3 DEF ToolStep, Alone, Passed
    <2> QED
      BY <1>1, <1>3, <2>1, <2>2 DEF ToolStep, Quiet, Calm
  <1>4. CASE proc' = proc
    BY <1>2, <1>4 DEF Active
  <1>5. ASSUME NEW q \in Procs, NEW i \in Invocations, Launch(q, i) PROVE FALSE
    <2>1. proc'[q].pc = "args" /\ \A r \in Procs : r # q => proc'[r] = proc[r]
      BY <1>1, <1>5, LaunchStep
    <2> QED
      BY <1>2, <2>1 DEF Active
  <1>6. ASSUME NEW q \in Procs, Interrupt(q) PROVE FALSE
    <2>1. proc'[q].status = Killed /\ \A r \in Procs : r # q => proc'[r] = proc[r]
      BY <1>1, <1>6, InterruptStep DEF Alone
    <2> QED
      BY <1>2, <2>1 DEF Active, Killed
  <1>7. ASSUME NEW a \in Drives, CutPower(a) PROVE FALSE
    <2>1. proc'[p] = proc[p] \/ proc'[p].pc = "cut"
      BY <1>1, <1>7, CutPowerStep
    <2> QED
      BY <1>2, <2>1 DEF Active
  <1>8. ASSUME NEW q \in Procs, Start(q) \/ FollowUp(q) PROVE FALSE
    BY <1>1, <1>5, <1>8, PrintedTyped, ReformatAssumption DEF Start, FollowUp
  <1>9. ASSUME NEW q \in Procs, Tool(q)
        PROVE  Addr(p) \in Drives /\ drive[Addr(p)].job \notin Formats
    BY <1>1, <1>3, <1>9, ToolIsToolStep
  <1>10. ASSUME NEW a \in Drives, OwnTime(a) \/ Upset(a) PROVE proc' = proc
    BY <1>1, <1>10, OwnTimeStep, UpsetStep
  <1>11. CASE UNCHANGED vars
    BY <1>4, <1>11 DEF vars
  <1> QED
    BY <1>4, <1>6, <1>7, <1>8, <1>9, <1>10, <1>11 DEF Next, Meanwhile, Finished, PowerCycle, Accident

(* mega_progress says that the drive is ready only while no format runs on *)
(* it: true of any number of tools, one after the other, on any drives,    *)
(* with any faults, power cuts and Ctrl+Cs in between.                     *)
THEOREM VerdictIsQuiet ==
  ASSUME Solo
  PROVE  Spec => VerdictOnlyWhenQuiet
  <1>1. SoloInv /\ [Next]_vars
        => [\A p \in Procs : Verdict(p) =>
              Addr(p) \in Drives /\ drive[Addr(p)].job \notin Formats]_vars
    BY VerdictStep
  <1> QED
    BY <1>1, SoloInvariant, PTL DEF Spec, VerdictOnlyWhenQuiet

LEMMA GateStep ==
  ASSUME SoloInv, [Next]_vars, NEW a \in Drives,
         drive[a].job \in Formats, drive'[a].job = "spinup"
  PROVE  cuts' # cuts
  <1>1. Types /\ Quiet /\ cuts \in Nat
    BY DEF SoloInv, LocalInv, TypeOK, Types
  <1>2. ~NoCut
    BY DEF NoCut, Formats
  <1>3. ~Harmless
    BY DEF Harmless, Formats
  <1>4. ASSUME NEW p \in Procs, PowerCycle(p) PROVE FALSE
    <2>1. Calm(Addr(p))
      BY <1>1, <1>4 DEF PowerCycle, Cleared, Quiet, Passed
    <2>2. \A b \in Drives : b # Addr(p) => drive'[b] = drive[b]
      BY <1>1, <1>4, CutPowerStep DEF PowerCycle
    <2> QED
      BY <2>1, <2>2 DEF Calm, Formats
  <1>5. ASSUME NEW b \in Drives, Accident(b) PROVE cuts' # cuts
    BY <1>1, <1>5 DEF Accident
  <1>6. ASSUME NEW p \in Procs, Tool(p) PROVE FALSE
    BY <1>1, <1>2, <1>6, ToolIsToolStep DEF ToolStep
  <1>7. ASSUME NEW b \in Drives, OwnTime(b) \/ Upset(b) PROVE FALSE
    BY <1>1, <1>3, <1>7, OwnTimeStep, UpsetStep
  <1>8. ASSUME drive' = drive PROVE FALSE
    BY <1>8 DEF Formats
  <1>9. ASSUME NEW p \in Procs, Start(p) \/ FollowUp(p) \/ Interrupt(p) PROVE drive' = drive
    BY <1>9 DEF Start, FollowUp, Launch, Interrupt
  <1>10. CASE UNCHANGED vars
    BY <1>8, <1>10 DEF vars
  <1> QED
    BY <1>4, <1>5, <1>6, <1>7, <1>8, <1>9, <1>10 DEF Next, Meanwhile, Finished

(* mega_progress && power_cycle, run on its own, never takes the power     *)
(* from a drive that is formatting: only an accident does.                 *)
THEOREM GateIsSafe ==
  ASSUME Solo
  PROVE  Spec => GateSparesFormats
  <1>1. SoloInv /\ [Next]_vars
        => [\A a \in Drives :
              drive[a].job \in Formats /\ drive'[a].job = "spinup" => cuts' # cuts]_vars
    BY GateStep
  <1> QED
    BY <1>1, SoloInvariant, PTL DEF Spec, GateSparesFormats

LEMMA ToolActive ==
  ASSUME Types, NEW p \in Procs, Tool(p)
  PROVE  Active(p)
  BY ToolIsToolStep DEF ToolStep, Alone

-----------------------------------------------------------------------------
(***************************************************************************)
(* "FORMATTING TO n-BYTE SECTORS".                                         *)
(***************************************************************************)
Promised(p) ==
  /\ inv[p].tool \in Sizing /\ proc[p].pc \in {"countdown", "format"} /\ ~told[p].failed
  /\ Addr(p) \in Drives

(* What a tool announced is on the drive, or the drive lost its power and  *)
(* will say so before it formats.                                          *)
Announced ==
  \A p \in Procs : Promised(p) => drive[Addr(p)].page = proc[p].size \/ drive[Addr(p)].ua

AnnounceInv == SoloInv /\ Announced

LEMMA SelectsAtModesel ==
  ASSUME Types, NEW p \in Procs, Tool(p), proc[p].pc = "modesel"
  PROVE  Asks(p)
  <1>1. ModeselModeSelect(p) \/ ImmedModeSelect(p)
    BY DEF Tool, At, MegaProgress, ProgressArgs, ProgressOpen, ProgressPoll, ProgressReadCapacity,
         MegaInquiry, InquiryArgs, InquiryOpen, InquirySend,
         MegaFormat512, Format512Args, Format512Open, Format512Inquiry, Format512CountDown,
         Format512Format, Format512Returns,
         MegaModesel, ModeselArgs, ModeselOpen, ModeselInquiry,
         ModeselCountDown, ModeselFormat, ModeselReturns,
         MegaFormatImmed, ImmedArgs, ImmedOpen, ImmedInquiry,
         ImmedCountDown, ImmedFormat
  <1> QED
    BY <1>1, ModeselModeSelectAsks, ImmedModeSelectAsks

(* Nothing but MODE SELECT and the countdown gets such a tool as far as    *)
(* FORMAT UNIT.                                                            *)
LEMMA CountsBefore ==
  ASSUME Types, NEW p \in Procs, Tool(p), inv[p].tool \in Sizing,
         proc'[p].pc \in {"countdown", "format"}, proc[p].pc # "modesel"
  PROVE  CountDown(p) /\ proc[p].pc = "countdown"
  <1>1. proc[p] \in ProcStates
    BY DEF Types
  <1>2. ASSUME NEW s \in Int, Exit(p, s) PROVE FALSE
    BY <1>2, ExitStep DEF Types
  <1>3. ASSUME NEW r \in ProcStates, Become(p, r), r.pc \notin {"countdown", "format"} PROVE FALSE
    BY <1>3, BecomeStep DEF Types
  <1>4. inv[p].target \in Texts /\ inv[p].size \in Texts
    BY DEF Types, Invocations
  <1>5. ASSUME NEW t \in Int, NEW n \in Int, TakeArguments(p, t, n) PROVE FALSE
    <2> DEFINE r == [proc[p] EXCEPT !.pc = "open", !.target = t, !.size = n]
    <2>1. r \in ProcStates /\ r.pc = "open"
      BY <1>1 DEF ProcStates, PCs
    <2>2. Exit(p, 1) \/ Become(p, r)
      BY <1>5 DEF TakeArguments
    <2> HIDE DEF r
    <2> QED
      BY <1>2, <1>3, <2>1, <2>2
  <1>6. ASSUME OpenNode(p, "inquiry") PROVE FALSE
    <2> DEFINE r(b) == [proc[p] EXCEPT !.pc = "inquiry", !.bus = b]
    <2>1. \A b \in KnownBus(p) : b \in Nat
      BY DEF KnownBus, GetBusNumber, Types, Invocations
    <2>2. \A b \in Nat : r(b) \in ProcStates /\ r(b).pc = "inquiry"
      BY <1>1 DEF ProcStates, PCs
    <2>3. Exit(p, 1) \/ \E b \in KnownBus(p) : Become(p, r(b))
      BY <1>6 DEF OpenNode
    <2> HIDE DEF r
    <2> QED
      BY <1>2, <1>3, <2>1, <2>2, <2>3
  <1>7. ASSUME Identify(p, "modesel", 0) PROVE FALSE
    <2> DEFINE r == [proc[p] EXCEPT !.pc = "modesel", !.left = 0]
    <2>1. r \in ProcStates /\ r.pc = "modesel"
      BY <1>1 DEF ProcStates, PCs
    <2>2. Exit(p, 1) \/ Become(p, r)
      BY <1>7 DEF Identify
    <2> HIDE DEF r
    <2> QED
      BY <1>2, <1>3, <2>1, <2>2
  <1>8. ASSUME FormatBlocking(p) PROVE FALSE
    <2> DEFINE r == [proc[p] EXCEPT !.pc = "blocked"]
    <2>1. r \in ProcStates /\ r.pc = "blocked"
      BY <1>1 DEF ProcStates, PCs
    <2>2. (\E s \in {0, 1} : Exit(p, s)) \/ Become(p, r)
      BY <1>8 DEF FormatBlocking, ExitWith, Goto
    <2> HIDE DEF r
    <2> QED
      BY <1>2, <1>3, <2>1, <2>2
  <1>9. ASSUME FormatReturns(p) \/ ImmedFormat(p) PROVE FALSE
    <2>1. \E s \in {0, 1} : Exit(p, s)
      BY <1>9 DEF FormatReturns, ImmedFormat, ExitWith
    <2> QED
      BY <1>2, <2>1
  <1>10. ~ModeselArgs(p) /\ ~ImmedArgs(p)
    <2> DEFINE t == parse_target(inv[p].target)
               n == IF inv[p].argc > 3 THEN parse_block_size(inv[p].size) ELSE 512
    <2>1. t \in Int /\ n \in Int
      BY <1>4, NumbersRead
    <2>2. ModeselArgs(p) \/ ImmedArgs(p) => TakeArguments(p, t, n)
      BY DEF ModeselArgs, ImmedArgs
    <2> HIDE DEF t, n
    <2> QED
      BY <1>5, <2>1, <2>2
  <1>11. ModeselCountDown(p) \/ ImmedCountDown(p)
    BY <1>6, <1>7, <1>8, <1>9, <1>10
    DEF Sizing, Tool, At, MegaProgress, ProgressArgs, ProgressOpen, ProgressPoll, ProgressReadCapacity,
         MegaInquiry, InquiryArgs, InquiryOpen, InquirySend,
         MegaFormat512, Format512Args, Format512Open, Format512Inquiry, Format512CountDown,
         Format512Format, Format512Returns,
         MegaModesel, ModeselOpen, ModeselInquiry, ModeselModeSelect,
         ModeselFormat, ModeselReturns,
         MegaFormatImmed, ImmedOpen, ImmedInquiry, ImmedModeSelect
  <1> QED
    BY <1>11 DEF ModeselCountDown, ImmedCountDown, At

LEMMA CountDownKeeps ==
  ASSUME Types, NEW p \in Procs, CountDown(p)
  PROVE  drive' = drive /\ inv' = inv /\ told'[p].failed = told[p].failed
  <1>1. drive' = drive /\ inv' = inv
    BY DEF CountDown
  <1>2. told' = told \/ told' = [told EXCEPT ![p].seconds = told[p].seconds + 1]
    BY DEF CountDown, Types
  <1> QED
    BY <1>1, <1>2 DEF Types, Told

(* A step that leaves p's promise and its drive alone.                     *)
LEMMA StillAnnounced ==
  ASSUME Announced, NEW p \in Procs, Promised(p)', proc'[p] = proc[p], inv'[p] = inv[p],
         told'[p].failed = told[p].failed,
         Addr(p) \in Drives => \/ drive'[Addr(p)].page = drive[Addr(p)].page
                                  /\ (drive[Addr(p)].ua => drive'[Addr(p)].ua)
                               \/ drive'[Addr(p)].ua
  PROVE  drive'[Addr(p)'].page = proc'[p].size \/ drive'[Addr(p)'].ua
  <1>1. Promised(p) /\ Addr(p)' = Addr(p)
    BY DEF Promised, Addr
  <1> QED
    BY <1>1 DEF Announced, Promised

LEMMA ToolAnnounced ==
  ASSUME AnnounceInv, NEW p \in Procs, Tool(p)
  PROVE  Announced'
  <1>1. Types /\ Local(p) /\ LocalInv /\ SlotOrder
    BY SoloTypes DEF AnnounceInv, SoloInv
  <1>2. LocalStep(p) /\ Active(p)
    BY <1>1, ToolLocal, ToolActive
  <1>3. ASSUME NEW q \in Procs, q # p, Promised(q)'
        PROVE  drive'[Addr(q)'].page = proc'[q].size \/ drive'[Addr(q)'].ua
    <2>1. proc'[q] = proc[q] /\ inv'[q] = inv[q] /\ told'[q] = told[q]
      BY <1>2, <1>3 DEF LocalStep, Elsewhere
    <2>2. Active(q) /\ Placed(q)
      BY <1>3, <2>1 DEF Promised, Active, Placed
    <2>3. Addr(q) # Aim(inv[p])
      BY <1>1, <1>2, <1>3, <2>2, OnOtherDrive, AddrIsAim
    <2>4. Addr(q) \in Drives => drive'[Addr(q)] = drive[Addr(q)]
      BY <1>1, <2>3, ToolSpares
    <2> QED
      BY <1>3, <2>1, <2>4, StillAnnounced DEF AnnounceInv
  <1>4. ASSUME Promised(p)'
        PROVE  drive'[Addr(p)'].page = proc'[p].size \/ drive'[Addr(p)'].ua
    <2>1. inv[p].tool \in Sizing /\ proc'[p].pc \in {"countdown", "format"} /\ ~told'[p].failed
      BY <1>2, <1>4 DEF Promised, LocalStep, Elsewhere
    <2>2. CASE proc[p].pc = "modesel"
      <3>1. Asks(p)
        BY <1>1, <2>2, SelectsAtModesel
      <3>2. Addr(p)' = Addr(p) /\ proc'[p].size = proc[p].size
        BY <1>2, <2>2 DEF LocalStep, KeepsAim, Early
      <3>3. proc'[p].pc = "countdown"
        BY <2>1, <3>1 DEF Asks
      <3>4. Addr(p) \in Drives
        BY <1>4, <3>2 DEF Promised
      <3>5. drive'[Addr(p)].page = Asked(p)
        BY <2>1, <3>1, <3>3, <3>4 DEF Asks
      <3>6. Asked(p) = proc[p].size
        BY <1>1, <1>2, <3>1, AskedIsKnown
      <3> QED
        BY <3>2, <3>5, <3>6
    <2>3. CASE proc[p].pc # "modesel"
      <3>1. CountDown(p) /\ proc[p].pc = "countdown"
        BY <1>1, <2>1, <2>3, CountsBefore
      <3>2. drive' = drive /\ told'[p].failed = told[p].failed
        BY <1>1, <3>1, CountDownKeeps
      <3>3. Addr(p)' = Addr(p) /\ proc'[p].size = proc[p].size
        BY <1>2, <3>1 DEF LocalStep, KeepsAim, Early
      <3>4. Promised(p)
        BY <1>4, <2>1, <3>1, <3>2, <3>3 DEF Promised
      <3> QED
        BY <3>2, <3>3, <3>4 DEF AnnounceInv, Announced
    <2> QED
      BY <2>2, <2>3
  <1> QED
    BY <1>3, <1>4 DEF Announced

LEMMA NextAnnounced ==
  ASSUME Solo
  PROVE  AnnounceInv /\ [Next]_vars => AnnounceInv'
  <1> SUFFICES ASSUME AnnounceInv, [Next]_vars PROVE Announced'
    BY NextSolo DEF AnnounceInv
  <1>1. StepKinds
    BY StepIsKnown DEF AnnounceInv, SoloInv
  <1>2. ASSUME NEW p \in Procs, Tool(p) PROVE Announced'
    BY <1>2, ToolAnnounced
  <1> SUFFICES ASSUME ~\E p \in Procs : Tool(p), NEW q \in Procs, Promised(q)'
               PROVE  drive'[Addr(q)'].page = proc'[q].size \/ drive'[Addr(q)'].ua
    BY <1>2 DEF Announced
  <1>3. ASSUME NEW p \in Procs, Launched(p) \/ KilledByUser(p)
        PROVE  drive'[Addr(q)'].page = proc'[q].size \/ drive'[Addr(q)'].ua
    <2>1. /\ drive' = drive /\ told' = told /\ proc'[p].pc \in {"args", "exited"}
          /\ \A r \in Procs : r # p => proc'[r] = proc[r] /\ inv'[r] = inv[r]
      BY <1>3 DEF Launched, KilledByUser, LocalStep, Elsewhere
    <2>2. q # p
      BY <2>1 DEF Promised
    <2> QED
      BY <2>1, <2>2, StillAnnounced DEF AnnounceInv
  <1>4. ASSUME NEW a \in Drives, WithoutPower(a)
        PROVE  drive'[Addr(q)'].page = proc'[q].size \/ drive'[Addr(q)'].ua
    <2>1. inv' = inv /\ told' = told /\ proc'[q] = proc[q]
      BY <1>4 DEF WithoutPower, Promised
    <2>2. Addr(q) \in Drives => drive'[Addr(q)].ua \/ drive'[Addr(q)] = drive[Addr(q)]
      BY <1>4 DEF WithoutPower, OthersDrive
    <2> QED
      BY <2>1, <2>2, StillAnnounced DEF AnnounceInv
  <1>5. ASSUME NEW a \in Drives, GoesOn(a)
        PROVE  drive'[Addr(q)'].page = proc'[q].size \/ drive'[Addr(q)'].ua
    <2>1. \A b \in Drives : drive'[b].page = drive[b].page /\ (drive[b].ua => drive'[b].ua)
      BY <1>5 DEF GoesOn, OthersDrive, Finishes, SpinsUp, GetsUpset
    <2> QED
      BY <1>5, <2>1, StillAnnounced DEF AnnounceInv, GoesOn
  <1>6. CASE drive' = drive /\ proc' = proc /\ inv' = inv /\ told' = told
    BY <1>6, StillAnnounced DEF AnnounceInv
  <1> QED
    BY <1>1, <1>3, <1>4, <1>5, <1>6 DEF StepKinds

LEMMA AnnounceInvariant ==
  ASSUME Solo
  PROVE  Spec => []AnnounceInv
  <1>1. Init => Announced
    BY DEF Init, Announced, Promised, Fresh
  <1>2. Init => AnnounceInv
    BY <1>1, InitSolo DEF AnnounceInv
  <1>3. AnnounceInv /\ [Next]_vars => AnnounceInv'
    BY NextAnnounced
  <1> QED
    BY <1>2, <1>3, PTL DEF Spec

(* If MODE SELECT was not reported as failed, the drive is formatted to    *)
(* the size announced, although the mode page is volatile and power can go *)
(* during the countdown: the UNIT ATTENTION it leaves refuses the format.  *)
THEOREM AnnouncedIsApplied ==
  ASSUME Solo
  PROVE  Spec => AnnouncedSizeApplies
  <1>1. ASSUME AnnounceInv, [Next]_vars, NEW a \in Drives, StartsFormat(a), NEW p \in Procs,
               inv[p].tool \in {"modesel", "format_immed"},
               proc[p].pc = "format", Addr(p) = a, ~told[p].failed
        PROVE  drive[a].page = proc[p].size
    <2>1. PICK q \in Procs : Starts(q) /\ Addr(q) = a
      BY <1>1, StartsIt DEF AnnounceInv, SoloInv
    <2>2. ~drive[a].ua
      BY <2>1 DEF Starts, CanFormat
    <2>3. Promised(p)
      BY <1>1 DEF Promised, Sizing
    <2> QED
      BY <1>1, <2>2, <2>3 DEF AnnounceInv, Announced
  <1>2. AnnounceInv /\ [Next]_vars
        => [\A a \in Drives : StartsFormat(a) =>
              \A p \in Procs :
                /\ inv[p].tool \in {"modesel", "format_immed"}
                /\ proc[p].pc = "format" /\ Addr(p) = a /\ ~told[p].failed
                => drive[a].page = proc[p].size]_vars
    BY <1>1
  <1> QED
    BY <1>2, AnnounceInvariant, PTL DEF Spec, AnnouncedSizeApplies

-----------------------------------------------------------------------------
(***************************************************************************)
(* Slow drives are formatted in the background only.                       *)
(***************************************************************************)
LargestBlock == 4294967295   \* what READ CAPACITY(10) has room for

Blocking == {"format512", "modesel"}

(* A blocking formatter is not aimed at a drive it would time out on.      *)
InTime(i) == i.tool \in Blocking => Aim(i) \notin Slow

SlowInBackground ==
  /\ \A i \in CommandLines : InTime(i)
  /\ MaxCuts = 0
  /\ \A d \in InitialDrives, a \in Drives :
       /\ 1 <= d[a].medium /\ d[a].medium <= LargestBlock
       /\ 1 <= d[a].page /\ d[a].page <= LargestBlock

(* A drive always knows a block size to format to, and has one unless it   *)
(* is formatting.                                                          *)
Sound(d) ==
  /\ 1 <= d.page /\ d.page <= LargestBlock /\ d.medium <= LargestBlock
  /\ d.medium = 0 => d.job \in Formats

HalfInv ==
  /\ SoloInv
  /\ \A p \in Procs : InTime(inv[p])
  /\ \A a \in Drives : Sound(drive[a])

LEMMA BlockFacts == LargestBlock \in Nat /\ 1 <= LargestBlock /\ LargestSize <= LargestBlock
  BY SMT DEF LargestBlock, LargestSize

LEMMA NoCuts ==
  ASSUME SlowInBackground, TypeOK, [Next]_vars
  PROVE  cuts' = cuts
  <1>1. \A a \in Drives : ~Accident(a)
    BY DEF Accident, SlowInBackground, TypeOK
  <1> QED
    BY <1>1 DEF Next, Meanwhile, Finished, Start, FollowUp, Launch, Interrupt, PowerCycle, Tool,
         OwnTime, Upset, vars

LEMMA NextHalf ==
  ASSUME Solo, SlowInBackground
  PROVE  HalfInv /\ [Next]_vars => HalfInv'
  <1> SUFFICES ASSUME HalfInv, [Next]_vars
               PROVE  /\ \A p \in Procs : InTime(inv'[p])
                      /\ \A a \in Drives : Sound(drive'[a])
    BY NextSolo DEF HalfInv, Sound, InTime
  <1>1. StepKinds /\ TypeOK /\ Types
    BY StepIsKnown DEF HalfInv, SoloInv, LocalInv, TypeOK, Types
  <1>2. ASSUME NEW q \in Procs PROVE InTime(inv'[q])
    <2>1. ASSUME NEW p \in Procs, NEW i, Launch(p, i), InTime(i)
          PROVE  InTime(inv'[q])
      BY <1>1, <2>1 DEF HalfInv, Launch, Types
    <2>2. ASSUME inv' = inv PROVE InTime(inv'[q])
      BY <2>2 DEF HalfInv
    <2>3. CASE \E p \in Procs : Start(p) \/ FollowUp(p)
      BY <2>1, <2>3 DEF Start, FollowUp, SlowInBackground, PrintedCommand, InTime, Blocking
    <2>4. CASE \E p \in Procs : Tool(p)
      BY <1>1, <2>2, <2>4, ToolIsToolStep DEF ToolStep, Alone
    <2>5. CASE \E p \in Procs : Interrupt(p) \/ PowerCycle(p)
      BY <2>2, <2>5 DEF Interrupt, PowerCycle, CutPower
    <2>6. CASE \E a \in Drives : OwnTime(a) \/ Upset(a) \/ Accident(a)
      BY <2>2, <2>6 DEF OwnTime, Upset, Accident, CutPower, toolvars
    <2>7. CASE UNCHANGED vars
      BY <2>2, <2>7 DEF vars
    <2> QED
      BY <2>3, <2>4, <2>5, <2>6, <2>7 DEF Next, Meanwhile, Finished
  <1>3. ASSUME NEW a \in Drives PROVE Sound(drive'[a])
    <2>1. Sound(drive[a]) /\ drive[a] \in DriveStates /\ drive[a].page \in Nat /\ drive[a].medium \in Nat
      BY <1>1 DEF HalfInv, Types, DriveStates
    <2>2. ASSUME drive'[a].job = drive[a].job, drive'[a].medium = drive[a].medium,
                 drive'[a].page = drive[a].page
          PROVE  Sound(drive'[a])
      BY <2>1, <2>2 DEF Sound
    <2>3. ASSUME drive'[a] = drive[a] PROVE Sound(drive'[a])
      BY <2>2, <2>3
    <2>4. ASSUME NEW p \in Procs, LocalStep(p), Deed(p) PROVE Sound(drive'[a])
      <3>1. CASE Looks(p)
        BY <2>2, <3>1 DEF Looks, Glances, Unmoved
      <3>2. CASE a # Addr(p) /\ (Asks(p) \/ Starts(p) \/ Ends(p))
        BY <2>3, <3>2 DEF Asks, Starts, Ends, OthersStay
      <3>3. CASE a = Addr(p) /\ Asks(p)
        <4>1. Asked(p) = proc[p].size
          BY <2>4, <3>3, AskedIsKnown DEF HalfInv, SoloInv
        <4>2. 1 <= proc[p].size /\ proc[p].size <= LargestSize /\ proc[p].size \in Int
          BY <1>1, <3>3 DEF Asks, HalfInv, SoloInv, LocalInv, Local, Sized, Types, ProcStates
        <4>3. 1 <= Asked(p) /\ Asked(p) <= LargestBlock
          BY <4>1, <4>2, BlockFacts, WordFacts
        <4>4. /\ drive'[a].job = drive[a].job /\ drive'[a].medium = drive[a].medium
              /\ drive'[a].page \in {drive[a].page, Asked(p)}
          BY <3>3 DEF Asks
        <4> QED
          BY <2>1, <4>3, <4>4 DEF Sound
      <3>4. CASE a = Addr(p) /\ Starts(p)
        <4>1. drive'[a].job \in Formats /\ drive'[a].medium = 0 /\ drive'[a].page = drive[a].page
          BY <3>4 DEF Starts, Formats
        <4> QED
          BY <2>1, <4>1, BlockFacts DEF Sound
      <3>5. CASE a = Addr(p) /\ Ends(p)
        <4>1. inv[p].tool \in Blocking /\ Placed(p)
          BY <3>5 DEF Ends, Blocking, Placed
        <4>2. a \notin Slow
          BY <3>5, <4>1, AddrIsAim DEF HalfInv, SoloInv, InTime
        <4>3. drive'[a].medium = drive[a].page /\ drive'[a].page = drive[a].page
          BY <3>5, <4>2 DEF Ends
        <4> QED
          BY <2>1, <4>3 DEF Sound
      <3> QED
        BY <2>4, <3>1, <3>2, <3>3, <3>4, <3>5 DEF Deed
    <2>5. ASSUME NEW b \in Drives, WithoutPower(b) PROVE Sound(drive'[a])
      <3>1. CASE a # b
        BY <2>3, <2>5, <3>1 DEF WithoutPower, OthersDrive
      <3>2. CASE a = b
        <4>1. drive[a].job \notin Formats
          BY <1>1, <2>5, <3>2, GateStep, NoCuts DEF WithoutPower, HalfInv
        <4>2. drive[a].medium # 0
          BY <2>1, <4>1 DEF Sound
        <4>3. drive'[a].medium = drive[a].medium /\ drive'[a].page = drive[a].medium
          BY <2>5, <3>2, <4>2 DEF WithoutPower
        <4>4. 1 <= drive[a].medium
          BY <2>1, <4>2
        <4> QED
          BY <2>1, <4>2, <4>3, <4>4 DEF Sound
      <3> QED
        BY <3>1, <3>2
    <2>6. ASSUME NEW b \in Drives, GoesOn(b) PROVE Sound(drive'[a])
      <3>1. CASE a # b
        BY <2>3, <2>6, <3>1 DEF GoesOn, OthersDrive
      <3>2. CASE a = b /\ Finishes(a)
        BY <2>1, <3>2 DEF Finishes, Sound
      <3>3. CASE a = b /\ SpinsUp(a)
        BY <2>1, <3>3 DEF SpinsUp, Sound, Formats
      <3>4. CASE a = b /\ GetsUpset(a)
        BY <2>2, <3>4 DEF GetsUpset
      <3> QED
        BY <2>6, <3>1, <3>2, <3>3, <3>4 DEF GoesOn
    <2> QED
      BY <1>1, <2>3, <2>4, <2>5, <2>6 DEF StepKinds, Launched, KilledByUser
  <1> QED
    BY <1>2, <1>3

LEMMA HalfInvariant ==
  ASSUME Solo, SlowInBackground
  PROVE  Spec => []HalfInv
  <1>1. ASSUME Init PROVE HalfInv
    <2>1. drive \in InitialDrives /\ \A p \in Procs : inv[p] = Blank
      BY <1>1 DEF Init
    <2>2. \A p \in Procs : InTime(inv[p])
      BY <2>1 DEF Blank, InTime, Blocking
    <2>3. \A a \in Drives : Sound(drive[a])
      BY <2>1 DEF SlowInBackground, Sound
    <2> QED
      BY <1>1, <2>2, <2>3, InitSolo DEF HalfInv
  <1>2. HalfInv /\ [Next]_vars => HalfInv'
    BY NextHalf
  <1> QED
    BY <1>1, <1>2, PTL DEF Spec

(* If slow drives are formatted in the background only, and power is       *)
(* cycled only behind mega_progress, no drive is ever left with a medium   *)
(* that is neither whole nor being formatted, however slow it is and       *)
(* whatever the driver loses.                                              *)
THEOREM NoneLeftHalfFormatted ==
  ASSUME Solo, SlowInBackground
  PROVE  Spec => []NeverHalfFormatted
  <1>1. HalfInv => NeverHalfFormatted
    BY DEF HalfInv, Sound, NeverHalfFormatted
  <1> QED
    BY <1>1, HalfInvariant, PTL

(* The four bytes of READ CAPACITY(10) carry any block size a drive has.   *)
LEMMA CapacityRead ==
  ASSUME NEW n \in Nat, n <= LargestBlock
  PROVE  block_size(CapacityBytes(n)) = n
  <1> DEFINE a == n % 256
             q == n \div 256
             b == q % 256
             r == q \div 256
             c == r % 256
             d == r \div 256
  <1>1. n = 256 * q + a /\ q \in Nat /\ a \in Nat
    OBVIOUS
  <1>2. q = 256 * r + b /\ r \in Nat /\ b \in Nat
    BY <1>1
  <1>3. r = 256 * d + c /\ d \in Nat /\ c \in Nat
    BY <1>2
  <1>4. n \div 65536 = r
    BY SMT
  <1>5. n \div 16777216 = d
    BY SMT
  <1>6. d < 256
    BY SMT DEF LargestBlock
  <1>7. d % 256 = d
    BY <1>3, <1>6, SmallModulo
  <1>8. CapacityBytes(n) = <<d, c, b, a>>
    BY <1>4, <1>5, <1>7 DEF CapacityBytes
  <1>9. block_size(<<d, c, b, a>>) = d * 16777216 + c * 65536 + b * 256 + a
    BY DEF block_size
  <1> QED
    BY <1>1, <1>2, <1>3, <1>8, <1>9, SMT

(* What READ CAPACITY says of a drive that is not formatting and whose     *)
(* medium is whole, is the block size of the medium.                       *)
LEMMA CapacityIsTrue ==
  ASSUME Types, NEW a \in Drives, drive[a].job \notin Formats, drive[a].medium # 0,
         drive[a].medium <= LargestBlock,
         NEW o \in ReadCapacity(a), read_capacity10(o) = 0
  PROVE  block_size(o.length) = drive[a].medium
  <1> DEFINE d == drive[a]
             failed(x) == [reply |-> x.reply, drive |-> x.drive, length |-> CapacityBytes(0)]
             says(n)   == [reply |-> Good, drive |-> d, length |-> CapacityBytes(n)]
  <1>1. block_size(CapacityBytes(0)) = 0
    BY BlockFacts, CapacityRead
  <1>2. o.length # CapacityBytes(0)
    BY <1>1 DEF read_capacity10
  <1>3. \/ o \in {failed(x) : x \in Refused(d) \cup Faults(d) \cup Attention(d)}
        \/ o \in {says(0), says(d.medium)}
    BY DEF ReadCapacity
  <1>4. o = says(d.medium)
    <2>1. o \notin {failed(x) : x \in Refused(d) \cup Faults(d) \cup Attention(d)}
      BY <1>2
    <2>2. o # says(0)
      BY <1>2
    <2> QED
      BY <1>3, <2>1, <2>2
  <1>5. o.length = CapacityBytes(drive[a].medium)
    BY <1>4
  <1>6. drive[a].medium \in Nat
    BY DEF Types, DriveStates
  <1> QED
    BY <1>5, <1>6, CapacityRead

LEMMA TruthStep ==
  ASSUME HalfInv, [Next]_vars, NEW p \in Procs, Verdict(p)
  PROVE  /\ drive[Addr(p)].medium # 0
         /\ proc'[p].status = 0 <=> drive[Addr(p)].medium = proc[p].size
  <1>1. Types
    BY DEF HalfInv, SoloInv, LocalInv, TypeOK, Types
  <1>2. Addr(p) \in Drives /\ drive[Addr(p)].job \notin Formats
    BY VerdictStep DEF HalfInv
  <1>3. drive[Addr(p)].medium # 0 /\ drive[Addr(p)].medium <= LargestBlock
    BY <1>2 DEF HalfInv, Sound
  <1>4. Tool(p)
    BY <1>1, EndsItself DEF Verdict, Killed
  <1>5. PICK o \in ReadCapacity(Addr(p)) :
          /\ read_capacity10(o) = 0
          /\ proc'[p].status = check_expected_block_size(block_size(o.length), proc[p].size)
    BY <1>1, <1>4, VerdictFromCapacity
  <1>6. block_size(o.length) = drive[Addr(p)].medium
    BY <1>1, <1>2, <1>3, <1>5, CapacityIsTrue
  <1> QED
    BY <1>3, <1>5, <1>6 DEF check_expected_block_size

(* Status 0 is given of a drive whose medium is whole and at the expected  *)
(* block size, and status 2 of one that is whole and at another.           *)
THEOREM VerdictHoldsTrue ==
  ASSUME Solo, SlowInBackground
  PROVE  Spec => VerdictIsTrue
  <1>1. HalfInv /\ [Next]_vars
        => [\A p \in Procs : Verdict(p) =>
              LET d == drive[Addr(p)]
              IN  d.medium # 0 /\ (proc'[p].status = 0 <=> d.medium = proc[p].size)]_vars
    BY TruthStep
  <1> QED
    BY <1>1, HalfInvariant, PTL DEF Spec, VerdictIsTrue

-----------------------------------------------------------------------------
(***************************************************************************)
(* The promise to whoever holds the power switch: every step of the        *)
(* procedure is a step of PowerGate, or none of its business.              *)
(***************************************************************************)
StageMap == [a \in Drives |-> StageOf(drive[a])]

(* What is formatting has lost its contents.                               *)
Emptied == \A a \in Drives : drive[a].job \in Formats => drive[a].medium = 0

GateInv == WaitInv /\ SoloInv /\ Emptied

LEMMA NextEmptied ==
  ASSUME Solo
  PROVE  GateInv /\ [Next]_vars => GateInv'
  <1> SUFFICES ASSUME GateInv, [Next]_vars, NEW a \in Drives, drive'[a].job \in Formats
               PROVE  drive'[a].medium = 0
    BY NextWaiting, NextSolo DEF GateInv, Emptied
  <1>1. StepKinds
    BY StepIsKnown DEF GateInv, WaitInv
  <1>2. CASE drive'[a].job = drive[a].job /\ drive'[a].medium = drive[a].medium
    BY <1>2 DEF GateInv, Emptied
  <1>3. ASSUME NEW p \in Procs, Deed(p), ~(drive'[a].job = drive[a].job /\ drive'[a].medium = drive[a].medium)
        PROVE  drive'[a].medium = 0
    <2>1. ~Looks(p) /\ ~Asks(p)
      BY <1>3 DEF Looks, Glances, Unmoved, Asks, OthersStay
    <2>2. ~Ends(p)
      BY <1>3 DEF Ends, OthersStay, Formats
    <2> QED
      BY <1>3, <2>1, <2>2 DEF Deed, Starts, OthersStay
  <1> QED
    BY <1>1, <1>2, <1>3 DEF StepKinds, Launched, KilledByUser, WithoutPower, GoesOn, OthersDrive,
       Finishes, SpinsUp, GetsUpset, Formats

LEMMA GateInvariant ==
  ASSUME Solo
  PROVE  Spec => []GateInv
  <1>1. ASSUME Init PROVE GateInv
    <2>1. WaitInv
      BY <1>1, InitLocal DEF WaitInv, Waiting, Waits, Init, Fresh
    <2>2. \A a \in Drives : drive[a].job = "none"
      BY <1>1, ReformatAssumption DEF Init
    <2> QED
      BY <1>1, <2>1, <2>2, InitSolo DEF GateInv, Emptied, Formats
  <1>2. GateInv /\ [Next]_vars => GateInv'
    BY NextEmptied
  <1> QED
    BY <1>1, <1>2, PTL DEF Spec

(* What is cleared is a drive that some command line named, ...            *)
LEMMA ClearedIsAimed ==
  ASSUME Pointed, NEW q \in Procs, Cleared(q)
  PROVE  Addr(q) = Aim(inv[q]) /\ Addr(q) \in Drives
  BY DEF Pointed, Cleared, Passed

(* ... and no tool runs on it.                                             *)
LEMMA NotCleared ==
  ASSUME SoloInv, NEW p \in Procs, Active(p)
  PROVE  Aim(inv[p]) \notin ClearedDrives
  BY NotTheLast, ClearedIsAimed DEF SoloInv, ClearedDrives, Cleared

(* A step that leaves every clearance as it is.                            *)
LEMMA SameClearances ==
  ASSUME \A q \in Procs : (Cleared(q)' <=> Cleared(q)) /\ (Cleared(q) => Addr(q)' = Addr(q))
  PROVE  ClearedDrives' = ClearedDrives
  BY DEF ClearedDrives

(* A step of a tool that keeps running, or ends, touches its clearance     *)
(* only.                                                                   *)
LEMMA OwnClearance ==
  ASSUME NEW p \in Procs, Active(p), proc'[p].pc # "idle", inv' = inv,
         \A q \in Procs : q # p => proc'[q] = proc[q]
  PROVE  ClearedDrives' = ClearedDrives \cup (IF Cleared(p)' THEN {Addr(p)'} ELSE {})
  <1>1. ~Cleared(p) /\ proc[p].pc # "idle"
    BY DEF Cleared, Active
  <1>2. ASSUME NEW q \in Procs, q # p PROVE (Cleared(q)' <=> Cleared(q)) /\ Addr(q)' = Addr(q)
    <2>1. Last(q)' <=> Last(q)
      BY <1>1, SameLast
    <2> QED
      BY <1>2, <2>1 DEF Cleared, Addr
  <1> QED
    BY <1>1, <1>2 DEF ClearedDrives

LEMMA SameStages ==
  ASSUME \A a \in Drives : StageOf(drive'[a]) = StageOf(drive[a])
  PROVE  StageMap' = StageMap
  BY DEF StageMap

LEMMA OneStage ==
  ASSUME NEW a \in Drives, \A b \in Drives : b # a => drive'[b] = drive[b], NEW s,
         StageOf(drive'[a]) = s
  PROVE  StageMap' = [StageMap EXCEPT ![a] = s]
  BY DEF StageMap

GateStutters == Gate!gatevars' = Gate!gatevars

(* A tool's step: it starts no format on a cleared drive, as it runs       *)
(* there, and clears its drive by a verdict only.                          *)
LEMMA ToolGate ==
  ASSUME GateInv, [Next]_vars, NEW p \in Procs, Tool(p), cuts' = cuts
  PROVE  Gate!GateNext \/ GateStutters
  <1>1. Types /\ Local(p) /\ SoloInv /\ LocalInv
    BY SoloTypes DEF GateInv, SoloInv
  <1>2. LocalStep(p) /\ Deed(p) /\ Alone(p) /\ Active(p)
    BY <1>1, ToolLocal, ToolDeed, ToolIsToolStep DEF ToolStep, Alone
  <1>3. ClearedDrives' = ClearedDrives \cup (IF Cleared(p)' THEN {Addr(p)'} ELSE {})
    BY <1>2, OwnClearance DEF Alone
  <1>4. Placed(p) => Addr(p) \notin ClearedDrives
    BY <1>1, <1>2, AddrIsAim, NotCleared
  <1>5. CASE Cleared(p)'
    <2>1. Verdict(p) /\ ~Formatter(p)
      BY <1>2, <1>5 DEF Cleared, Verdict, Exits, Alone, Formatter
    <2>2. Addr(p) \in Drives /\ drive[Addr(p)].job \notin Formats
      BY <1>1, <2>1, VerdictStep
    <2>3. Looks(p)
      <3>1. inv[p].tool \notin {"format512", "modesel", "format_immed"}
        BY <2>1 DEF Verdict
      <3> QED
        BY <1>2, <3>1 DEF Deed, Asks, Starts, Ends, Sizing
    <2>4. StageMap' = StageMap
      BY <2>3, SameStages DEF Looks, Glances, Unmoved, StageOf
    <2>5. proc[p].pc \notin Early
      BY <2>1, <1>1, VerdictFromCapacity DEF Early
    <2>6. Addr(p)' = Addr(p)
      BY <1>2, <2>5 DEF LocalStep, KeepsAim
    <2>7. ClearedDrives' = ClearedDrives \cup {Addr(p)}
      BY <1>3, <1>5, <2>6
    <2>8. StageMap[Addr(p)] # "formatting"
      BY <2>2 DEF StageMap, StageOf
    <2>9. Gate!Clear(Addr(p))
      BY <2>4, <2>7, <2>8 DEF Gate!Clear, StageMap
    <2> QED
      BY <2>2, <2>9 DEF Gate!GateNext
  <1>6. CASE ~Cleared(p)'
    <2>1. ClearedDrives' = ClearedDrives
      BY <1>3, <1>6
    <2>2. CASE StageMap' = StageMap
      BY <2>1, <2>2 DEF GateStutters, Gate!gatevars, StageMap
    <2>3. CASE Looks(p) \/ Asks(p)
      <3>1. \A a \in Drives : drive'[a].job = drive[a].job /\ drive'[a].medium = drive[a].medium
        BY <2>3 DEF Looks, Glances, Unmoved, Asks, OthersStay
      <3> QED
        BY <2>2, <3>1, SameStages DEF StageOf
    <2>4. CASE Starts(p)
      <3>1. Addr(p) \in Drives /\ drive[Addr(p)].job = "none" /\ drive'[Addr(p)].job \in Formats
        BY <2>4 DEF Starts, CanFormat, Formats
      <3>2. StageOf(drive'[Addr(p)]) = "formatting" /\ StageMap[Addr(p)] # "formatting"
        BY <3>1 DEF StageOf, StageMap, Formats
      <3>3. StageMap' = [StageMap EXCEPT ![Addr(p)] = "formatting"]
        BY <2>4, <3>1, <3>2, OneStage DEF Starts, OthersStay
      <3>4. Addr(p) \notin ClearedDrives
        BY <1>4, <2>4 DEF Starts, Placed
      <3>5. Gate!StartFormat(Addr(p))
        BY <2>1, <3>2, <3>3, <3>4 DEF Gate!StartFormat, StageMap
      <3> QED
        BY <3>1, <3>5 DEF Gate!GateNext
    <2>5. CASE Ends(p)
      <3>1. Addr(p) \in Drives /\ drive[Addr(p)].job = "blocking" /\ drive'[Addr(p)].job = "none"
        BY <2>5 DEF Ends, GateInv, WaitInv, Waiting, Waits
      <3>2. StageOf(drive'[Addr(p)]) \in {"whole", "broken"} /\ StageMap[Addr(p)] = "formatting"
        BY <3>1 DEF StageOf, StageMap, Formats
      <3>3. \E s \in {"whole", "broken"} : StageMap' = [StageMap EXCEPT ![Addr(p)] = s]
        BY <2>5, <3>1, <3>2, OneStage DEF Ends, OthersStay
      <3>4. Gate!EndFormat(Addr(p))
        BY <2>1, <3>2, <3>3 DEF Gate!EndFormat, StageMap
      <3> QED
        BY <3>1, <3>4 DEF Gate!GateNext
    <2> QED
      BY <1>2, <2>3, <2>4, <2>5 DEF Deed
  <1> QED
    BY <1>5, <1>6

(* Power is lost: only what was formatting is harmed.                      *)
LEMMA CutStages ==
  ASSUME Emptied, NEW a \in Drives, WithoutPower(a)
  PROVE  StageMap' = [StageMap EXCEPT ![a] = IF @ = "formatting" THEN "broken" ELSE @]
  <1> DEFINE s == IF StageMap[a] = "formatting" THEN "broken" ELSE StageMap[a]
  <1>1. StageOf(drive'[a]) = s
    BY DEF WithoutPower, StageMap, StageOf, Emptied, Formats
  <1>2. StageMap' = [StageMap EXCEPT ![a] = s]
    BY <1>1, OneStage DEF WithoutPower, OthersDrive
  <1> QED
    BY <1>2

(* A process that is cut from its drive has not ended, and did not before. *)
LEMMA CutClearance ==
  ASSUME NEW a \in Drives, WithoutPower(a)
  PROVE  ClearedDrives' = ClearedDrives
  <1>1. \A q \in Procs : /\ proc'[q] = proc[q] \/ (proc[q].pc = "blocked" /\ proc'[q].pc = "cut")
                         /\ inv' = inv
    BY DEF WithoutPower
  <1>2. ASSUME NEW q \in Procs PROVE Last(q)' <=> Last(q)
    BY <1>1, SameLast
  <1>3. \A q \in Procs : Cleared(q)' <=> Cleared(q)
    BY <1>1, <1>2 DEF Cleared
  <1>4. \A q \in Procs : Cleared(q) => Addr(q)' = Addr(q)
    BY <1>1 DEF Cleared, Addr
  <1> QED
    BY <1>3, <1>4, SameClearances

LEMMA PowerGateStep ==
  ASSUME GateInv, NEW p \in Procs, PowerCycle(p)
  PROVE  GateStutters
  <1>1. Types /\ Quiet
    BY SoloTypes DEF GateInv, SoloInv
  <1>2. Addr(p) \in Drives /\ drive[Addr(p)].job \notin Formats
    BY <1>1 DEF PowerCycle, Cleared, Quiet, Passed, Calm
  <1>3. WithoutPower(Addr(p)) /\ cuts' = cuts
    BY <1>1, CutPowerKind DEF PowerCycle
  <1>4. StageMap' = StageMap
    <2>1. StageMap[Addr(p)] # "formatting"
      BY <1>2 DEF StageMap, StageOf
    <2>2. StageMap' = [StageMap EXCEPT ![Addr(p)] = StageMap[Addr(p)]]
      BY <1>2, <1>3, <2>1, CutStages DEF GateInv
    <2> QED
      BY <2>2 DEF StageMap
  <1> QED
    BY <1>2, <1>3, <1>4, CutClearance DEF GateStutters, Gate!gatevars, StageMap

LEMMA AccidentStep ==
  ASSUME GateInv, NEW a \in Drives, Accident(a)
  PROVE  Gate!Accident(a)
  <1>1. Types
    BY SoloTypes DEF GateInv
  <1>2. WithoutPower(a) /\ cuts' = cuts + 1
    BY <1>1, CutPowerKind DEF Accident
  <1> QED
    BY <1>2, CutStages, CutClearance DEF GateInv, Gate!Accident, StageMap

LEMMA DriftStep ==
  ASSUME Types, NEW a \in Drives, OwnTime(a) \/ Upset(a)
  PROVE  Gate!EndFormat(a) \/ GateStutters
  <1>1. proc' = proc /\ inv' = inv /\ told' = told /\ cuts' = cuts
    BY DEF OwnTime, Upset, toolvars
  <1>2. GoesOn(a)
    BY <1>1, FinishFormatKind, OtherDriftKinds DEF OwnTime, Upset
  <1>3. ClearedDrives' = ClearedDrives
    BY <1>1 DEF ClearedDrives, Cleared, Last, Addr
  <1>4. CASE Finishes(a)
    <2>1. StageMap[a] = "formatting" /\ StageOf(drive'[a]) \in {"whole", "broken"}
      BY <1>4 DEF Finishes, StageMap, StageOf, Formats
    <2>2. \E s \in {"whole", "broken"} : StageMap' = [StageMap EXCEPT ![a] = s]
      BY <1>2, <2>1, OneStage DEF GoesOn, OthersDrive
    <2> QED
      BY <1>1, <1>3, <2>1, <2>2 DEF Gate!EndFormat, StageMap
  <1>5. CASE SpinsUp(a) \/ GetsUpset(a)
    <2>1. StageOf(drive'[a]) = StageOf(drive[a])
      BY <1>5 DEF SpinsUp, GetsUpset, StageOf, Formats
    <2>2. StageMap' = StageMap
      BY <1>2, <2>1, SameStages DEF GoesOn, OthersDrive
    <2> QED
      BY <1>1, <1>3, <2>2 DEF GateStutters, Gate!gatevars, StageMap
  <1> QED
    BY <1>2, <1>4, <1>5 DEF GoesOn

(* Whatever is launched, its drive is not cleared any more.                *)
LEMMA LaunchGate ==
  ASSUME GateInv, NEW p \in Procs, NEW i \in Invocations, Launch(p, i)
  PROVE  Gate!GateNext \/ GateStutters
  <1>1. Types /\ Filled /\ Pointed
    BY SoloTypes DEF GateInv, SoloInv
  <1>2. /\ proc[p].pc = "idle" /\ proc'[p].pc = "args" /\ inv'[p] = i
        /\ drive' = drive /\ cuts' = cuts
        /\ \A q \in Procs : q # p => proc'[q] = proc[q] /\ inv'[q] = inv[q]
    BY <1>1, LaunchStep DEF Launch, FreeSlot
  <1>3. ~Cleared(p) /\ ~Cleared(p)'
    BY <1>2 DEF Cleared
  <1>4. ASSUME NEW q \in Procs, q # p
        PROVE  (Cleared(q)' <=> Cleared(q) /\ Aim(inv[q]) # Aim(i)) /\ Addr(q)' = Addr(q)
    <2>1. proc[q].pc = "exited" => p > q
      <3> SUFFICES ASSUME proc[q].pc = "exited" PROVE p > q
        OBVIOUS
      <3>1. ~(p < q)
        BY <1>1, <1>2 DEF Filled
      <3> QED
        BY <1>4, <3>1, ToolAssumption DEF Procs
    <2>2. proc[q].pc = "exited" => (Last(q)' <=> Last(q) /\ Aim(inv[q]) # Aim(i))
      BY <1>2, <1>4, <2>1 DEF Last
    <2> QED
      BY <1>2, <1>4, <2>2 DEF Cleared, Addr
  <1>5. ClearedDrives' = ClearedDrives \ {Aim(i)}
    <2>1. \A q \in Procs : Cleared(q) => Addr(q) = Aim(inv[q])
      BY <1>1, ClearedIsAimed
    <2> QED
      BY <1>3, <1>4, <2>1 DEF ClearedDrives
  <1>6. StageMap' = StageMap
    BY <1>2 DEF StageMap
  <1>7. CASE Aim(i) \in Drives
    BY <1>2, <1>5, <1>6, <1>7 DEF Gate!Begin, Gate!GateNext, StageMap
  <1>8. CASE Aim(i) \notin Drives
    <2>1. ClearedDrives \subseteq Drives
      BY <1>1, ClearedIsAimed DEF ClearedDrives
    <2> QED
      BY <1>2, <1>5, <1>6, <1>8, <2>1 DEF GateStutters, Gate!gatevars, StageMap
  <1> QED
    BY <1>7, <1>8

(* A tool that is killed clears nothing.                                   *)
LEMMA InterruptGate ==
  ASSUME GateInv, NEW p \in Procs, Interrupt(p)
  PROVE  GateStutters
  <1>1. Types /\ Local(p)
    BY SoloTypes DEF GateInv
  <1>2. KilledByUser(p) /\ cuts' = cuts
    BY <1>1, InterruptKind DEF Interrupt
  <1>3. /\ proc'[p].pc = "exited" /\ ~Cleared(p)' /\ Active(p) /\ drive' = drive /\ inv' = inv
        /\ \A q \in Procs : q # p => proc'[q] = proc[q]
    BY <1>2 DEF KilledByUser, Killed, LocalStep, Elsewhere, Cleared
  <1>4. ClearedDrives' = ClearedDrives
    BY <1>3, OwnClearance
  <1> QED
    BY <1>2, <1>3, <1>4 DEF GateStutters, Gate!gatevars

LEMMA GateNextStep ==
  ASSUME GateInv, [Next]_vars
  PROVE  [Gate!GateNext]_(Gate!gatevars)
  <1>1. Types
    BY SoloTypes DEF GateInv
  <1>2. ASSUME NEW p \in Procs, Start(p) \/ FollowUp(p) PROVE Gate!GateNext \/ GateStutters
    <2>1. PICK i \in Invocations : Launch(p, i)
      BY <1>1, <1>2, PrintedTyped, ReformatAssumption DEF Start, FollowUp
    <2> QED
      BY <2>1, LaunchGate
  <1>3. ASSUME NEW p \in Procs, Tool(p) PROVE Gate!GateNext \/ GateStutters
    BY <1>3, ToolGate DEF Tool
  <1>4. ASSUME NEW a \in Drives, OwnTime(a) \/ Upset(a) \/ Accident(a)
        PROVE  Gate!GateNext \/ GateStutters
    BY <1>1, <1>4, DriftStep, AccidentStep DEF Gate!GateNext
  <1>5. ASSUME NEW p \in Procs, Interrupt(p) \/ PowerCycle(p) PROVE GateStutters
    BY <1>1, <1>5, InterruptGate, PowerGateStep
  <1>6. CASE UNCHANGED vars
    BY <1>6 DEF vars, GateStutters, Gate!gatevars, ClearedDrives, Cleared, Last, Addr
  <1> QED
    BY <1>2, <1>3, <1>4, <1>5, <1>6 DEF Next, Meanwhile, Finished, GateStutters

(* The procedure implements the safety part of PowerGate's promise:        *)
(* mega_progress's status 0 is a clearance to cycle the power of a drive   *)
(* on which no format runs, which the next tool's start on it voids, and a *)
(* format is harmed by an accident only.                                   *)
THEOREM GateKept ==
  ASSUME Solo
  PROVE  Spec => Gate!GateSpec
  <1>1. ASSUME Init PROVE Gate!GateInit
    <2>1. \A a \in Drives : drive[a].job = "none"
      BY <1>1, ReformatAssumption DEF Init
    <2>2. \A p \in Procs : ~Cleared(p)
      BY <1>1 DEF Init, Fresh, Cleared
    <2> QED
      BY <1>1, <2>1, <2>2 DEF Gate!GateInit, StageOf, Formats, ClearedDrives, Init
  <1>2. GateInv /\ [Next]_vars => [Gate!GateNext]_(Gate!gatevars)
    BY GateNextStep
  <1> QED
    BY <1>1, <1>2, GateInvariant, PTL DEF Spec, Gate!GateSpec
=============================================================================
