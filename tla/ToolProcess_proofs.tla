-------------------------- MODULE ToolProcess_proofs ------------------------
(***************************************************************************)
(* What a tool's process knows at each place of main(), for any number of  *)
(* tools running at the same time, and what follows for the drives:        *)
(* consent, the address, the printed command and the retries.              *)
(***************************************************************************)
EXTENDS Reformat_proofs

Early  == {"idle", "args", "open", "inquiry"}
Sizing == {"modesel", "format_immed"}

LargestSize == 16777215   \* what fits the three bytes of MODE SELECT

(* The arguments were parsed, and accepted.                                *)
Named(p) ==
  /\ CleanTarget(p) /\ proc[p].target = inv[p].target.value
  /\ 0 <= proc[p].target /\ proc[p].target <= 255
Sized(p) == inv[p].tool \in Sizing => 1 <= proc[p].size /\ proc[p].size <= LargestSize

(* What holds of one process, by the place it is at.                       *)
Local(p) ==
  /\ proc[p].pc \in Early
       => /\ told[p].seconds = 0 /\ ~told[p].failed
          /\ told[p].misses = 0 /\ proc[p].soft_errors = 0
  /\ proc[p].pc = "modesel" => told[p].seconds = 0 /\ ~told[p].failed
  /\ proc[p].pc = "countdown" => told[p].seconds + proc[p].left = Wait(p)
  /\ proc[p].pc = "format" => told[p].seconds = Wait(p)
  /\ proc[p].pc \in {"modesel", "countdown", "format", "blocked", "cut"}
       => Formatter(p) /\ Addr(p) \in told[p].identity
  /\ proc[p].pc \notin {"idle", "args", "exited"} \/ told[p].seconds > 0 => Named(p) /\ Sized(p)
  /\ proc[p].pc \notin {"idle", "args", "open", "exited"} \/ told[p].seconds > 0
       => proc[p].bus = inv[p].host
  /\ proc[p].pc = "poll" => proc[p].soft_errors = told[p].misses

(* A step of p that keeps it so and touches no other process.              *)
Elsewhere(p) ==
  /\ inv' = inv
  /\ \A q \in Procs : q # p => proc'[q] = proc[q] /\ told'[q] = told[q]

(* Once INQUIRY was answered it keeps its address and its block size.      *)
KeepsAim(p) ==
  proc[p].pc \notin Early
    => /\ Addr(p)' = Addr(p) /\ proc'[p].size = proc[p].size
       /\ proc'[p].pc \notin Early

LocalStep(p) == Elsewhere(p) /\ Local(p)' /\ KeepsAim(p)

-----------------------------------------------------------------------------
LEMMA SameRecords ==
  ASSUME NEW p \in Procs, Local(p), proc'[p] = proc[p], inv'[p] = inv[p], told'[p] = told[p]
  PROVE  Local(p)'
  BY DEF Local, Named, Sized, CleanTarget, Formatter, Wait, Addr

LEMMA ExitLocal ==
  ASSUME Types, NEW p \in Procs, Local(p), Active(p), NEW s \in Int, Exit(p, s), inv' = inv,
         told'[p].seconds = told[p].seconds,
         \A q \in Procs : q # p => told'[q] = told[q]
  PROVE  LocalStep(p)
  <1>1. /\ \A q \in Procs : q # p => proc'[q] = proc[q]
        /\ proc'[p].pc = "exited" /\ proc'[p].bus = proc[p].bus
        /\ proc'[p].target = proc[p].target /\ proc'[p].size = proc[p].size
    BY ExitStep DEF Types
  <1>2. told[p].seconds > 0 => Named(p) /\ Sized(p)
    BY DEF Local
  <1>3. Local(p)'
    BY <1>1, <1>2 DEF Local, Named, Sized, CleanTarget, Early
  <1> QED
    BY <1>1, <1>3 DEF LocalStep, Elsewhere, KeepsAim, Addr, Early

LEMMA BecomeElsewhere ==
  ASSUME Types, NEW p \in Procs, NEW r \in ProcStates, Become(p, r), inv' = inv,
         \A q \in Procs : q # p => told'[q] = told[q]
  PROVE  Elsewhere(p) /\ proc'[p] = r
  BY BecomeStep DEF Types, Elsewhere

(* A target that was accepted is the number that was typed.                *)
LEMMA TargetRead ==
  ASSUME NEW s \in Texts, parse_target(s) >= 0
  PROVE  s.digits /\ ~s.tail /\ parse_target(s) = s.value /\ parse_target(s) <= 255
  <1>1. s.value \in Int /\ s.digits \in BOOLEAN /\ s.tail \in BOOLEAN
    BY DEF Texts
  <1>2. strtol(s).clean /\ parse_target(s) = strtol(s).v /\ parse_target(s) <= 255
    BY DEF parse_target
  <1>3. s.digits /\ ~s.tail /\ -LongMax - 1 <= s.value /\ s.value <= LongMax
    BY <1>2 DEF strtol
  <1>4. strtol(s).v = s.value
    BY <1>3 DEF strtol
  <1> QED
    BY <1>2, <1>3, <1>4

LEMMA TakeArgumentsLocal ==
  ASSUME Types, NEW p \in Procs, Local(p), proc[p].pc = "args", NEW t \in Int, NEW n \in Int,
         t >= 0 => CleanTarget(p) /\ t = inv[p].target.value /\ t <= 255,
         TakeArguments(p, t, n),
         inv[p].tool \in Sizing /\ n >= 0 => 1 <= n /\ n <= LargestSize
  PROVE  LocalStep(p)
  <1>1. inv' = inv /\ told' = told /\ Active(p)
    BY DEF TakeArguments, Active
  <1>2. CASE Exit(p, 1)
    BY <1>1, <1>2, ExitLocal
  <1>3. CASE t >= 0 /\ n >= 0 /\ Become(p, [proc[p] EXCEPT !.pc = "open", !.target = t, !.size = n])
    <2> DEFINE r == [proc[p] EXCEPT !.pc = "open", !.target = t, !.size = n]
    <2>1. /\ r \in ProcStates /\ r.pc = "open" /\ r.target = t /\ r.size = n
          /\ r.soft_errors = proc[p].soft_errors
      BY DEF Types, ProcStates, PCs
    <2>2. Become(p, r)
      BY <1>3
    <2> HIDE DEF r
    <2>3. Elsewhere(p) /\ proc'[p] = r
      BY <1>1, <2>1, <2>2, BecomeElsewhere
    <2>4. Named(p)' /\ Sized(p)'
      BY <1>1, <1>3, <2>1, <2>3 DEF Named, Sized, CleanTarget
    <2>5. Local(p)'
      BY <1>1, <2>1, <2>3, <2>4 DEF Local, Early
    <2> QED
      BY <2>3, <2>5 DEF LocalStep, KeepsAim, Early
  <1> QED
    BY <1>2, <1>3 DEF TakeArguments

LEMMA OpenNodeLocal ==
  ASSUME Types, NEW p \in Procs, Local(p), proc[p].pc = "open",
         NEW pc \in {"inquiry", "poll"}, OpenNode(p, pc)
  PROVE  LocalStep(p)
  <1>1. inv' = inv /\ told' = told /\ Active(p)
    BY DEF OpenNode, Active
  <1>2. CASE Exit(p, 1)
    BY <1>1, <1>2, ExitLocal
  <1>3. ASSUME NEW b \in KnownBus(p), Become(p, [proc[p] EXCEPT !.pc = pc, !.bus = b])
        PROVE  LocalStep(p)
    <2> DEFINE r == [proc[p] EXCEPT !.pc = pc, !.bus = b]
    <2>1. b = inv[p].host /\ b \in Nat
      BY DEF KnownBus, GetBusNumber, Types, Invocations
    <2>2. /\ r \in ProcStates /\ r.pc = pc /\ r.bus = b /\ r.target = proc[p].target
          /\ r.size = proc[p].size /\ r.soft_errors = proc[p].soft_errors
      BY <2>1 DEF Types, ProcStates, PCs
    <2> HIDE DEF r
    <2>3. Elsewhere(p) /\ proc'[p] = r
      BY <1>1, <1>3, <2>2, BecomeElsewhere DEF r
    <2>4. Local(p)'
      BY <1>1, <2>1, <2>2, <2>3 DEF Local, Named, Sized, CleanTarget, Early
    <2> QED
      BY <2>3, <2>4 DEF LocalStep, KeepsAim, Early
  <1> QED
    BY <1>2, <1>3 DEF OpenNode

LEMMA IdentifyLocal ==
  ASSUME Types, NEW p \in Procs, Local(p), proc[p].pc = "inquiry", Formatter(p),
         NEW pc, NEW left \in Nat, pc = "modesel" \/ (pc = "countdown" /\ left = ShortWait),
         Identify(p, pc, left)
  PROVE  LocalStep(p)
  <1> DEFINE r == [proc[p] EXCEPT !.pc = pc, !.left = left]
             t == [told[p] EXCEPT !.identity = @ \cup {Addr(p)}]
  <1>1. \/ Exit(p, 1) /\ UNCHANGED told
        \/ Become(p, r) /\ told' = [told EXCEPT ![p] = t]
    BY DEF Identify, Types
  <1>2. inv' = inv /\ Active(p)
    BY DEF Identify, Active
  <1>3. CASE Exit(p, 1) /\ UNCHANGED told
    BY <1>2, <1>3, ExitLocal
  <1>4. CASE Become(p, r) /\ told' = [told EXCEPT ![p] = t]
    <2>1. /\ r \in ProcStates /\ r.pc = pc /\ r.left = left /\ r.bus = proc[p].bus
          /\ r.target = proc[p].target /\ r.size = proc[p].size
      BY DEF Types, ProcStates, PCs
    <2>2. /\ t.identity = told[p].identity \cup {Addr(p)} /\ t.seconds = told[p].seconds
          /\ t.failed = told[p].failed
      BY DEF Types, Told
    <2> HIDE DEF r, t
    <2>3. told'[p] = t /\ \A q \in Procs : q # p => told'[q] = told[q]
      BY <1>4 DEF Types
    <2>4. Elsewhere(p) /\ proc'[p] = r
      BY <1>2, <1>4, <2>1, <2>3, BecomeElsewhere
    <2>5. Addr(p)' = Addr(p) /\ Formatter(p)' /\ told[p].seconds = 0 /\ ~told[p].failed
      BY <1>2, <2>1, <2>4 DEF Addr, Formatter, Local, Early
    <2>6. Named(p)' /\ Sized(p)' /\ proc'[p].bus = inv'[p].host
      BY <1>2, <2>1, <2>4 DEF Local, Named, Sized, CleanTarget
    <2>7. Wait(p) = ShortWait /\ Wait(p)' = Wait(p)
      BY <2>2, <2>3, <2>5 DEF Wait
    <2>8. pc = "countdown" => t.seconds + r.left = Wait(p)'
      BY <2>1, <2>2, <2>5, <2>7, ToolAssumption
    <2>9. Local(p)'
      BY <2>1, <2>2, <2>3, <2>4, <2>5, <2>6, <2>8 DEF Local, Early
    <2> QED
      BY <2>4, <2>9 DEF LocalStep, KeepsAim, Early
  <1> QED
    BY <1>1, <1>3, <1>4

LEMMA CountDownLocal ==
  ASSUME Types, NEW p \in Procs, Local(p), proc[p].pc = "countdown", CountDown(p)
  PROVE  LocalStep(p)
  <1>1. inv' = inv /\ Active(p) /\ proc[p].left \in Nat /\ told[p].seconds \in Nat
    BY DEF CountDown, Active, Types, ProcStates, Told
  <1>2. /\ told[p].seconds + proc[p].left = Wait(p) /\ Formatter(p) /\ Addr(p) \in told[p].identity
        /\ Named(p) /\ Sized(p) /\ proc[p].bus = inv[p].host
    BY DEF Local
  <1>3. CASE proc[p].left > 0
    <2> DEFINE r == [proc[p] EXCEPT !.left = @ - 1]
               t == [told[p] EXCEPT !.seconds = @ + 1]
    <2>1. Become(p, r) /\ told' = [told EXCEPT ![p] = t]
      BY <1>3 DEF CountDown, Counting, Types
    <2>2. /\ r \in ProcStates /\ r.pc = "countdown" /\ r.left = proc[p].left - 1
          /\ r.bus = proc[p].bus /\ r.target = proc[p].target /\ r.size = proc[p].size
      BY <1>1, <1>3 DEF Types, ProcStates
    <2>3. /\ t.identity = told[p].identity /\ t.seconds = told[p].seconds + 1
          /\ t.failed = told[p].failed
      BY DEF Types, Told
    <2> HIDE DEF r, t
    <2>4. told'[p] = t /\ \A q \in Procs : q # p => told'[q] = told[q]
      BY <2>1 DEF Types
    <2>5. Elsewhere(p) /\ proc'[p] = r
      BY <1>1, <2>1, <2>2, <2>4, BecomeElsewhere
    <2>6. Wait(p)' = Wait(p) /\ Addr(p)' = Addr(p) /\ Formatter(p)' /\ Named(p)' /\ Sized(p)'
      BY <1>1, <1>2, <2>2, <2>3, <2>4, <2>5 DEF Wait, Addr, Formatter, Named, Sized, CleanTarget
    <2>7. Local(p)'
      BY <1>1, <1>2, <2>2, <2>3, <2>4, <2>5, <2>6 DEF Local, Early
    <2> QED
      BY <2>2, <2>5, <2>7 DEF LocalStep, KeepsAim, Addr, Early
  <1>4. CASE ~(proc[p].left > 0)
    <2> DEFINE r == [proc[p] EXCEPT !.pc = "format"]
    <2>1. Become(p, r) /\ told' = told
      BY <1>4 DEF CountDown, Counting, Goto
    <2>2. /\ r \in ProcStates /\ r.pc = "format"
          /\ r.bus = proc[p].bus /\ r.target = proc[p].target /\ r.size = proc[p].size
      BY DEF Types, ProcStates, PCs
    <2> HIDE DEF r
    <2>3. Elsewhere(p) /\ proc'[p] = r
      BY <1>1, <2>1, <2>2, BecomeElsewhere
    <2>4. Wait(p)' = Wait(p) /\ Addr(p)' = Addr(p) /\ Formatter(p)' /\ Named(p)' /\ Sized(p)'
      BY <1>1, <1>2, <2>1, <2>2, <2>3 DEF Wait, Addr, Formatter, Named, Sized, CleanTarget
    <2>5. told[p].seconds = Wait(p)
      BY <1>1, <1>2, <1>4
    <2>6. Local(p)'
      BY <1>1, <1>2, <2>1, <2>2, <2>3, <2>4, <2>5 DEF Local, Early
    <2> QED
      BY <2>2, <2>3, <2>6 DEF LocalStep, KeepsAim, Addr, Early
  <1> QED
    BY <1>3, <1>4

(* FORMAT UNIT: the tool ends, or blocks.                                  *)
LEMMA FormatBlockingLocal ==
  ASSUME Types, NEW p \in Procs, Local(p), proc[p].pc = "format", FormatBlocking(p)
  PROVE  LocalStep(p)
  <1> DEFINE r == [proc[p] EXCEPT !.pc = "blocked"]
  <1>1. inv' = inv /\ told' = told /\ Active(p)
    BY DEF FormatBlocking, Active
  <1>2. \/ \E s \in {0, 1} : Exit(p, s)
        \/ Become(p, r)
    BY DEF FormatBlocking, ExitWith, Goto
  <1>3. ASSUME NEW s \in {0, 1}, Exit(p, s) PROVE LocalStep(p)
    BY <1>1, <1>3, ExitLocal
  <1>4. CASE Become(p, r)
    <2>1. /\ r \in ProcStates /\ r.pc = "blocked"
          /\ r.bus = proc[p].bus /\ r.target = proc[p].target /\ r.size = proc[p].size
      BY DEF Types, ProcStates, PCs
    <2> HIDE DEF r
    <2>2. Elsewhere(p) /\ proc'[p] = r
      BY <1>1, <1>4, <2>1, BecomeElsewhere
    <2>3. Local(p)'
      BY <1>1, <2>1, <2>2 DEF Local, Named, Sized, CleanTarget, Early, Formatter, Addr
    <2> QED
      BY <2>1, <2>2, <2>3 DEF LocalStep, KeepsAim, Addr, Early
  <1> QED
    BY <1>2, <1>3, <1>4

LEMMA FormatReturnsLocal ==
  ASSUME Types, NEW p \in Procs, Local(p), proc[p].pc \in {"blocked", "cut"}, FormatReturns(p)
  PROVE  LocalStep(p)
  <1>1. inv' = inv /\ told' = told /\ Active(p)
    BY DEF FormatReturns, Active
  <1>2. \E s \in {0, 1} : Exit(p, s)
    BY DEF FormatReturns, ExitWith
  <1> QED
    BY <1>1, <1>2, ExitLocal

LEMMA ModeselModeSelectLocal ==
  ASSUME Types, NEW p \in Procs, Local(p), ModeselModeSelect(p)
  PROVE  LocalStep(p)
  <1> DEFINE r == [proc[p] EXCEPT !.pc = "countdown", !.left = ShortWait]
  <1>1. /\ inv' = inv /\ told' = told /\ Active(p) /\ proc[p].pc = "modesel"
        /\ Exit(p, 1) \/ Become(p, r)
    BY DEF ModeselModeSelect, Active, At
  <1>2. CASE Exit(p, 1)
    BY <1>1, <1>2, ExitLocal
  <1>3. CASE Become(p, r)
    <2>1. /\ r \in ProcStates /\ r.pc = "countdown" /\ r.left = ShortWait
          /\ r.bus = proc[p].bus /\ r.target = proc[p].target /\ r.size = proc[p].size
      BY ToolAssumption DEF Types, ProcStates, PCs
    <2> HIDE DEF r
    <2>2. Elsewhere(p) /\ proc'[p] = r
      BY <1>1, <1>3, <2>1, BecomeElsewhere
    <2>3. /\ told[p].seconds = 0 /\ ~told[p].failed /\ Formatter(p)
          /\ Addr(p) \in told[p].identity /\ Named(p) /\ Sized(p) /\ proc[p].bus = inv[p].host
      BY <1>1 DEF Local
    <2>4. /\ Addr(p)' = Addr(p) /\ Formatter(p)' /\ Named(p)' /\ Sized(p)'
          /\ Wait(p)' = ShortWait /\ ShortWait \in Nat
      BY <1>1, <2>1, <2>2, <2>3, ToolAssumption DEF Addr, Formatter, Named, Sized, CleanTarget, Wait
    <2>5. Local(p)'
      BY <1>1, <2>1, <2>2, <2>3, <2>4 DEF Local, Early
    <2> QED
      BY <2>1, <2>2, <2>5 DEF LocalStep, KeepsAim, Addr, Early
  <1> QED
    BY <1>1, <1>2, <1>3

(* The warning and the countdown it calls for go together.                 *)
LEMMA ImmedModeSelectLocal ==
  ASSUME Types, NEW p \in Procs, Local(p), ImmedModeSelect(p)
  PROVE  LocalStep(p)
  <1>1. PICK f \in BOOLEAN :
          /\ Become(p, [proc[p] EXCEPT !.pc = "countdown", !.left = countdown(f)])
          /\ told' = [told EXCEPT ![p].failed = f]
    BY DEF ImmedModeSelect
  <1> DEFINE r == [proc[p] EXCEPT !.pc = "countdown", !.left = countdown(f)]
             t == [told[p] EXCEPT !.failed = f]
  <1>2. inv' = inv /\ Active(p) /\ proc[p].pc = "modesel"
    BY DEF ImmedModeSelect, Active, At
  <1>3. countdown(f) = IF f THEN LongWait ELSE ShortWait
    BY DEF countdown
  <1>4. /\ r \in ProcStates /\ r.pc = "countdown" /\ r.left = countdown(f)
        /\ r.bus = proc[p].bus /\ r.target = proc[p].target /\ r.size = proc[p].size
    BY <1>3, ToolAssumption DEF Types, ProcStates, PCs
  <1>5. t.identity = told[p].identity /\ t.seconds = told[p].seconds /\ t.failed = f
    BY DEF Types, Told
  <1>6. Become(p, r) /\ told' = [told EXCEPT ![p] = t]
    BY <1>1 DEF Types
  <1> HIDE DEF r, t
  <1>7. told'[p] = t /\ \A q \in Procs : q # p => told'[q] = told[q]
    BY <1>6 DEF Types
  <1>8. Elsewhere(p) /\ proc'[p] = r
    BY <1>2, <1>4, <1>6, <1>7, BecomeElsewhere
  <1>9. /\ told[p].seconds = 0 /\ Formatter(p)
        /\ Addr(p) \in told[p].identity /\ Named(p) /\ Sized(p) /\ proc[p].bus = inv[p].host
    BY <1>2 DEF Local
  <1>10. /\ Addr(p)' = Addr(p) /\ Formatter(p)' /\ Named(p)' /\ Sized(p)'
         /\ Wait(p)' = countdown(f) /\ countdown(f) \in Nat
    BY <1>2, <1>3, <1>4, <1>5, <1>7, <1>8, <1>9, ToolAssumption
    DEF Addr, Formatter, Named, Sized, CleanTarget, Wait
  <1>11. Local(p)'
    BY <1>2, <1>4, <1>5, <1>7, <1>8, <1>9, <1>10 DEF Local, Early
  <1> QED
    BY <1>4, <1>8, <1>11 DEF LocalStep, KeepsAim, Addr, Early

LEMMA ImmedFormatLocal ==
  ASSUME Types, NEW p \in Procs, Local(p), ImmedFormat(p)
  PROVE  LocalStep(p)
  <1>1. inv' = inv /\ told' = told /\ Active(p)
    BY DEF ImmedFormat, Active, At
  <1>2. \E s \in {0, 1} : Exit(p, s)
    BY DEF ImmedFormat, ExitWith
  <1> QED
    BY <1>1, <1>2, ExitLocal

LEMMA InquirySendLocal ==
  ASSUME Types, NEW p \in Procs, Local(p), InquirySend(p)
  PROVE  LocalStep(p)
  <1>1. inv' = inv /\ Active(p)
    BY DEF InquirySend, Active, At
  <1>2. (\E s \in {0, 1} : Exit(p, s)) /\ (\E d : told' = [told EXCEPT ![p].identity = d])
    BY DEF InquirySend, Types
  <1>3. told'[p].seconds = told[p].seconds /\ \A q \in Procs : q # p => told'[q] = told[q]
    BY <1>2 DEF Types, Told
  <1> QED
    BY <1>1, <1>2, <1>3, ExitLocal

(* A failed poll is counted and reported, one that decodes starts over.    *)
LEMMA ProgressPollLocal ==
  ASSUME Types, NEW p \in Procs, Local(p), ProgressPoll(p)
  PROVE  LocalStep(p)
  <1>1. inv' = inv /\ Active(p) /\ proc[p].pc = "poll" /\ proc[p].soft_errors = told[p].misses
    BY DEF ProgressPoll, Active, At, Local
  <1>2. SoftError(p) \/ NotConfirmed(p) \/ NothingInProgress(p)
    BY DEF ProgressPoll
  <1>3. PICK k \in {told[p].misses + 1, 0} :
          /\ told' = [told EXCEPT ![p].misses = k]
          /\ \/ \E s \in {1, 3} : Exit(p, s)
             \/ Become(p, [proc[p] EXCEPT !.soft_errors = k])
             \/ Become(p, [proc[p] EXCEPT !.pc = "readcap", !.soft_errors = 0, !.attempt = 1])
    <2>1. CASE SoftError(p)
      BY <1>1, <2>1 DEF SoftError, Types
    <2>2. CASE NotConfirmed(p)
      BY <2>2 DEF NotConfirmed, Decoded
    <2>3. CASE NothingInProgress(p)
      BY <1>1, <2>3 DEF NothingInProgress, Decoded, Types, ProcStates
    <2> QED
      BY <1>2, <2>1, <2>2, <2>3
  <1>4. /\ told'[p].misses = k /\ told'[p].seconds = told[p].seconds /\ k \in Nat
        /\ \A q \in Procs : q # p => told'[q] = told[q]
    BY <1>3 DEF Types, Told
  <1>5. ASSUME NEW r \in ProcStates, Become(p, r), r.pc \in {"poll", "readcap"},
               r.pc = "poll" => r.soft_errors = k,
               r.bus = proc[p].bus, r.target = proc[p].target, r.size = proc[p].size
        PROVE  LocalStep(p)
    <2>1. Elsewhere(p) /\ proc'[p] = r
      BY <1>1, <1>4, <1>5, BecomeElsewhere
    <2>2. Local(p)'
      BY <1>1, <1>4, <1>5, <2>1 DEF Local, Named, Sized, CleanTarget, Early
    <2> QED
      BY <1>5, <2>1, <2>2 DEF LocalStep, KeepsAim, Addr, Early
  <1>6. CASE \E s \in {1, 3} : Exit(p, s)
    BY <1>1, <1>4, <1>6, ExitLocal
  <1>7. CASE Become(p, [proc[p] EXCEPT !.soft_errors = k])
    <2> DEFINE r == [proc[p] EXCEPT !.soft_errors = k]
    <2>1. /\ r \in ProcStates /\ r.pc = "poll" /\ r.soft_errors = k
          /\ r.bus = proc[p].bus /\ r.target = proc[p].target /\ r.size = proc[p].size
      BY <1>1, <1>4 DEF Types, ProcStates
    <2> HIDE DEF r
    <2> QED
      BY <1>5, <1>7, <2>1 DEF r
  <1>8. CASE Become(p, [proc[p] EXCEPT !.pc = "readcap", !.soft_errors = 0, !.attempt = 1])
    <2> DEFINE r == [proc[p] EXCEPT !.pc = "readcap", !.soft_errors = 0, !.attempt = 1]
    <2>1. /\ r \in ProcStates /\ r.pc = "readcap"
          /\ r.bus = proc[p].bus /\ r.target = proc[p].target /\ r.size = proc[p].size
      BY DEF Types, ProcStates, PCs
    <2> HIDE DEF r
    <2> QED
      BY <1>5, <1>8, <2>1 DEF r
  <1> QED
    BY <1>3, <1>6, <1>7, <1>8

LEMMA ProgressReadCapacityLocal ==
  ASSUME Types, NEW p \in Procs, Local(p), ProgressReadCapacity(p)
  PROVE  LocalStep(p)
  <1> DEFINE r == [proc[p] EXCEPT !.attempt = @ + 1]
  <1>1. /\ inv' = inv /\ told' = told /\ Active(p) /\ proc[p].pc = "readcap"
        /\ (\E s \in {0, 1, 2} : Exit(p, s)) \/ Become(p, r)
    BY DEF ProgressReadCapacity, check_expected_block_size, Active, At
  <1>2. CASE \E s \in {0, 1, 2} : Exit(p, s)
    BY <1>1, <1>2, ExitLocal
  <1>3. CASE Become(p, r)
    <2>1. /\ r \in ProcStates /\ r.pc = "readcap"
          /\ r.bus = proc[p].bus /\ r.target = proc[p].target /\ r.size = proc[p].size
      BY <1>1 DEF Types, ProcStates
    <2> HIDE DEF r
    <2>2. Elsewhere(p) /\ proc'[p] = r
      BY <1>1, <1>3, <2>1, BecomeElsewhere
    <2>3. Local(p)'
      BY <1>1, <2>1, <2>2 DEF Local, Named, Sized, CleanTarget, Early
    <2> QED
      BY <2>1, <2>2, <2>3 DEF LocalStep, KeepsAim, Addr, Early
  <1> QED
    BY <1>1, <1>2, <1>3

-----------------------------------------------------------------------------
(***************************************************************************)
(* Every step of the procedure keeps it so, of every process.              *)
(***************************************************************************)
LEMMA SizeRead ==
  ASSUME NEW s \in Texts, parse_block_size(s) >= 0
  PROVE  1 <= parse_block_size(s) /\ parse_block_size(s) <= LargestSize
  BY DEF parse_block_size, LargestSize

LEMMA ToolLocal ==
  ASSUME Types, NEW p \in Procs, Local(p), Tool(p)
  PROVE  LocalStep(p)
  <1>1. inv[p].target \in Texts /\ inv[p].size \in Texts
    BY DEF Types, Invocations
  <1> DEFINE t == parse_target(inv[p].target)
  <1>2. /\ t \in Int
        /\ t >= 0 => CleanTarget(p) /\ t = inv[p].target.value /\ t <= 255
    BY <1>1, NumbersRead, TargetRead DEF CleanTarget
  <1>3. /\ parse_block_size(inv[p].size) \in Int
        /\ parse_expected_block_size(inv[p].size) \in Int
        /\ parse_block_size(inv[p].size) >= 0
             => 1 <= parse_block_size(inv[p].size) /\ parse_block_size(inv[p].size) <= LargestSize
    BY <1>1, NumbersRead, SizeRead
  <1>4. ASSUME proc[p].pc = "args", NEW n \in Int, TakeArguments(p, t, n),
               inv[p].tool \in Sizing /\ n >= 0 => 1 <= n /\ n <= LargestSize
        PROVE  LocalStep(p)
    BY <1>2, <1>4, TakeArgumentsLocal
  <1>5. CASE MegaInquiry(p)
    <2>1. CASE InquiryArgs(p)
      BY <1>4, <2>1 DEF InquiryArgs, At, Sizing
    <2>2. CASE InquiryOpen(p)
      BY <2>2, OpenNodeLocal DEF InquiryOpen, At
    <2> QED
      BY <1>5, <2>1, <2>2, InquirySendLocal DEF MegaInquiry
  <1>6. CASE MegaFormat512(p)
    <2>1. CASE Format512Args(p)
      BY <1>4, <2>1 DEF Format512Args, At, Sizing
    <2>2. CASE Format512Open(p)
      BY <2>2, OpenNodeLocal DEF Format512Open, At
    <2>3. CASE Format512Inquiry(p)
      BY <2>3, IdentifyLocal, ToolAssumption DEF Format512Inquiry, At, Formatter
    <2>4. CASE Format512CountDown(p)
      BY <2>4, CountDownLocal DEF Format512CountDown, At
    <2>5. CASE Format512Format(p)
      BY <2>5, FormatBlockingLocal DEF Format512Format, At
    <2>6. CASE Format512Returns(p)
      BY <2>6, FormatReturnsLocal DEF Format512Returns, At
    <2> QED
      BY <1>6, <2>1, <2>2, <2>3, <2>4, <2>5, <2>6 DEF MegaFormat512
  <1>7. CASE MegaModesel(p)
    <2>1. CASE ModeselArgs(p)
      <3> DEFINE n == IF inv[p].argc > 3 THEN parse_block_size(inv[p].size) ELSE 512
      <3>1. n \in Int /\ (n >= 0 => 1 <= n /\ n <= LargestSize)
        BY <1>3 DEF LargestSize
      <3>2. TakeArguments(p, t, n) /\ proc[p].pc = "args"
        BY <2>1 DEF ModeselArgs, At
      <3> HIDE DEF n
      <3> QED
        BY <1>4, <3>1, <3>2
    <2>2. CASE ModeselOpen(p)
      BY <2>2, OpenNodeLocal DEF ModeselOpen, At
    <2>3. CASE ModeselInquiry(p)
      BY <2>3, IdentifyLocal DEF ModeselInquiry, At, Formatter
    <2>4. CASE ModeselCountDown(p)
      BY <2>4, CountDownLocal DEF ModeselCountDown, At
    <2>5. CASE ModeselFormat(p)
      BY <2>5, FormatBlockingLocal DEF ModeselFormat, At
    <2>6. CASE ModeselReturns(p)
      BY <2>6, FormatReturnsLocal DEF ModeselReturns, At
    <2> QED
      BY <1>7, <2>1, <2>2, <2>3, <2>4, <2>5, <2>6, ModeselModeSelectLocal DEF MegaModesel
  <1>8. CASE MegaFormatImmed(p)
    <2>1. CASE ImmedArgs(p)
      <3> DEFINE n == IF inv[p].argc > 3 THEN parse_block_size(inv[p].size) ELSE 512
      <3>1. n \in Int /\ (n >= 0 => 1 <= n /\ n <= LargestSize)
        BY <1>3 DEF LargestSize
      <3>2. TakeArguments(p, t, n) /\ proc[p].pc = "args"
        BY <2>1 DEF ImmedArgs, At
      <3> HIDE DEF n
      <3> QED
        BY <1>4, <3>1, <3>2
    <2>2. CASE ImmedOpen(p)
      BY <2>2, OpenNodeLocal DEF ImmedOpen, At
    <2>3. CASE ImmedInquiry(p)
      BY <2>3, IdentifyLocal DEF ImmedInquiry, At, Formatter
    <2>4. CASE ImmedCountDown(p)
      BY <2>4, CountDownLocal DEF ImmedCountDown, At
    <2> QED
      BY <1>8, <2>1, <2>2, <2>3, <2>4, ImmedModeSelectLocal, ImmedFormatLocal DEF MegaFormatImmed
  <1>9. CASE MegaProgress(p)
    <2>1. CASE ProgressArgs(p)
      <3> DEFINE n == IF inv[p].argc > 4 THEN parse_expected_block_size(inv[p].size) ELSE 512
      <3>1. n \in Int
        BY <1>3
      <3>2. /\ TakeArguments(p, t, n) /\ proc[p].pc = "args"
            /\ inv[p].tool \notin Sizing
        BY <2>1 DEF ProgressArgs, At, Sizing
      <3> HIDE DEF n
      <3> QED
        BY <1>4, <3>1, <3>2
    <2>2. CASE ProgressOpen(p)
      BY <2>2, OpenNodeLocal DEF ProgressOpen, At
    <2> QED
      BY <1>9, <2>1, <2>2, ProgressPollLocal, ProgressReadCapacityLocal DEF MegaProgress
  <1> QED
    BY <1>5, <1>6, <1>7, <1>8, <1>9 DEF Tool

LocalInv == TypeOK /\ \A p \in Procs : Local(p)

LEMMA InitLocal == Init => LocalInv
  <1> SUFFICES ASSUME Init, NEW p \in Procs PROVE Local(p)
    BY InitTypes DEF LocalInv
  <1>1. proc[p].pc = "idle" /\ proc[p].soft_errors = 0 /\ told[p] = Untold
    BY DEF Init, Fresh
  <1> QED
    BY <1>1 DEF Local, Untold, Early

LEMMA NextLocal == LocalInv /\ [Next]_vars => LocalInv'
  <1> SUFFICES ASSUME LocalInv, [Next]_vars, NEW q \in Procs PROVE Local(q)'
    BY NextTypes DEF LocalInv
  <1>1. Types /\ Local(q) /\ \A p \in Procs : Local(p)
    BY DEF LocalInv, TypeOK, Types
  <1>2. ASSUME NEW p \in Procs, LocalStep(p) PROVE Local(q)'
    BY <1>1, <1>2, SameRecords DEF LocalStep, Elsewhere
  <1>3. ASSUME NEW p \in Procs, NEW i \in Invocations, Launch(p, i) PROVE Local(q)'
    <2>1. told' = told /\ \A r \in Procs : r # p => proc'[r] = proc[r] /\ inv'[r] = inv[r]
      BY <1>1, <1>3, LaunchStep DEF Launch
    <2>2. CASE q # p
      BY <1>1, <2>1, <2>2, SameRecords
    <2>3. CASE q = p
      <3>1. proc[p].pc = "idle" /\ proc[p] \in ProcStates /\ Goto(p, "args") /\ "args" \in PCs
        BY <1>1, <1>3 DEF Launch, FreeSlot, Types, PCs
      <3>2. proc'[p] = [proc[p] EXCEPT !.pc = "args"]
        BY <1>1, <3>1, GotoStep DEF Types
      <3>3. proc'[p].pc = "args" /\ proc'[p].soft_errors = proc[p].soft_errors
        BY <3>1, <3>2 DEF ProcStates
      <3> QED
        BY <1>1, <2>1, <2>3, <3>1, <3>3 DEF Local, Early
    <2> QED
      BY <2>2, <2>3
  <1>4. ASSUME NEW p \in Procs, Interrupt(p) PROVE Local(q)'
    <2>1. LocalStep(p)
      BY <1>1, <1>4, ExitLocal DEF Interrupt, Killed
    <2> QED
      BY <1>2, <2>1
  <1>5. ASSUME NEW a \in Drives, CutPower(a) PROVE Local(q)'
    <2>1. inv' = inv /\ told' = told
      BY <1>5 DEF CutPower
    <2>2. \/ proc'[q] = proc[q]
          \/ proc[q].pc = "blocked" /\ proc'[q] = [proc[q] EXCEPT !.pc = "cut"]
      BY <1>5 DEF CutPower
    <2>3. CASE proc'[q] = proc[q]
      BY <1>1, <2>1, <2>3, SameRecords
    <2>4. CASE proc[q].pc = "blocked" /\ proc'[q] = [proc[q] EXCEPT !.pc = "cut"]
      <3>1. /\ proc'[q].pc = "cut" /\ proc'[q].bus = proc[q].bus
            /\ proc'[q].target = proc[q].target /\ proc'[q].size = proc[q].size
        BY <1>1, <2>4 DEF Types, ProcStates
      <3> QED
        BY <1>1, <2>1, <2>4, <3>1 DEF Local, Named, Sized, CleanTarget, Early, Formatter, Addr
    <2> QED
      BY <2>2, <2>3, <2>4
  <1>6. ASSUME proc' = proc, inv' = inv, told' = told PROVE Local(q)'
    BY <1>1, <1>6, SameRecords
  <1>7. CASE \E p \in Procs : Start(p) \/ FollowUp(p)
    BY <1>1, <1>3, <1>7, PrintedTyped, ReformatAssumption DEF Start, FollowUp
  <1>8. CASE \E p \in Procs : Tool(p)
    BY <1>1, <1>2, <1>8, ToolLocal
  <1>9. CASE \E a \in Drives : OwnTime(a) \/ Upset(a)
    BY <1>6, <1>9 DEF OwnTime, Upset, toolvars
  <1>10. CASE UNCHANGED vars
    BY <1>6, <1>10 DEF vars
  <1>11. CASE (\E p \in Procs : PowerCycle(p)) \/ (\E a \in Drives : Accident(a))
    BY <1>5, <1>11 DEF PowerCycle, Accident
  <1> QED
    BY <1>4, <1>7, <1>8, <1>9, <1>10, <1>11 DEF Next, Meanwhile, Finished

LEMMA LocalInvariant == Spec => []LocalInv
  <1>1. Init => LocalInv
    BY InitLocal
  <1>2. LocalInv /\ [Next]_vars => LocalInv'
    BY NextLocal
  <1> QED
    BY <1>1, <1>2, PTL DEF Spec

-----------------------------------------------------------------------------
(***************************************************************************)
(* What mega_format_immed prints and mega_progress reads.                  *)
(***************************************************************************)
LEMMA SmallModulo ==
  ASSUME NEW x \in Nat, NEW m \in Nat, x < m
  PROVE  x % m = x
  OBVIOUS

LEMMA WordFacts ==
  /\ IntMax \in Nat /\ LongMax \in Nat /\ 255 <= LongMax /\ 255 <= IntMax
  /\ U32Max = 2 * IntMax + 1 /\ U32Max \in Nat
  /\ LargestSize \in Nat /\ LargestSize <= LongMax /\ LargestSize <= U32Max - 1
  BY WordSizes, SMT DEF U32Max, LargestSize

(* What was printed with %d is read back.                                  *)
LEMMA ReadBack ==
  ASSUME NEW n \in Nat, n <= LongMax
  PROVE  strtol(Decimal(n)).v = n /\ strtol(Decimal(n)).clean
  <1>1. Decimal(n).value = n /\ Decimal(n).digits /\ ~Decimal(n).tail
    BY DEF Decimal
  <1>2. -LongMax - 1 <= Decimal(n).value /\ Decimal(n).value <= LongMax
    BY <1>1, WordFacts
  <1>3. strtol(Decimal(n)).v = Decimal(n).value
    BY <1>1, <1>2 DEF strtol
  <1>4. strtol(Decimal(n)).clean
    BY <1>1, <1>2 DEF strtol
  <1> QED
    BY <1>1, <1>3, <1>4

LEMMA IntervalRead == atoi(Decimal(60)) = 60 /\ atoi(Decimal(0)) = 0
  <1> DEFINE m == 2 * IntMax + 2
  <1>1. IntMax \in Nat /\ 255 <= IntMax /\ U32Max = 2 * IntMax + 1
    BY WordFacts
  <1>2. strtol(Decimal(60)).v = 60 /\ strtol(Decimal(0)).v = 0
    BY WordFacts DEF strtol, Decimal
  <1>3. U32Max + 1 = m /\ m \in Nat /\ 60 + IntMax + 1 < m /\ 0 + IntMax + 1 < m
        /\ 60 + IntMax + 1 \in Nat /\ 0 + IntMax + 1 \in Nat
    BY <1>1
  <1> HIDE DEF m
  <1>4. (60 + IntMax + 1) % m = 60 + IntMax + 1 /\ (0 + IntMax + 1) % m = 0 + IntMax + 1
    BY <1>3, SmallModulo
  <1> QED
    BY <1>1, <1>2, <1>3, <1>4 DEF atoi

LEMMA PrintedIsRead ==
  ASSUME LocalInv, NEW q \in Procs, Printed(q)
  PROVE  LET i == PrintedCommand(q)
         IN  /\ Aim(i) = Addr(q)
             /\ (IF i.argc > 4 THEN parse_expected_block_size(i.size) ELSE 512) = proc[q].size
             /\ i.argc > 3 /\ atoi(i.interval) > 0 <=> proc[q].status = 0
  <1>1. /\ inv[q].tool = "format_immed" /\ proc[q].pc = "exited" /\ told[q].seconds > 0
        /\ proc[q].status \in {0, 1}
    BY ToolAssumption DEF Printed, Wait
  <1>2. /\ Named(q) /\ Sized(q) /\ proc[q].target \in Int /\ proc[q].size \in Int
        /\ proc[q].bus = inv[q].host
    BY <1>1 DEF LocalInv, Local, TypeOK, ProcStates
  <1> DEFINE t == proc[q].target
             n == proc[q].size
  <1>3. t \in Int /\ n \in Int /\ 0 <= t /\ t <= 255 /\ 1 <= n /\ n <= LargestSize
    BY <1>1, <1>2 DEF Named, Sized, Sizing
  <1>4. /\ PrintedCommand(q).target = Decimal(t) /\ PrintedCommand(q).size = Decimal(n)
        /\ PrintedCommand(q).interval = Decimal(IF proc[q].status = 0 THEN 60 ELSE 0)
        /\ PrintedCommand(q).host = inv[q].host /\ PrintedCommand(q).argc = 5
    BY DEF PrintedCommand
  <1> HIDE DEF t, n
  <1>5. parse_target(Decimal(t)) = t
    BY <1>3, WordFacts, ReadBack DEF parse_target
  <1>6. parse_expected_block_size(Decimal(n)) = n
    BY <1>3, WordFacts, ReadBack DEF parse_expected_block_size
  <1>7. atoi(PrintedCommand(q).interval) > 0 <=> proc[q].status = 0
    BY <1>1, <1>4, IntervalRead
  <1>8. t % 256 = t
    BY <1>3, SmallModulo
  <1>9. Aim(PrintedCommand(q)) = Addr(q)
    BY <1>2, <1>4, <1>5, <1>8 DEF Aim, Addr, t
  <1> QED
    BY <1>4, <1>6, <1>7, <1>9 DEF n

(* The command mega_format_immed prints is one mega_progress accepts and   *)
(* understands, whatever was typed to get there: a target that wraps, a    *)
(* size that does not fit or a bad number never reaches FORMAT UNIT.       *)
THEOREM PrintedCommandWorks == Spec => []HandOff
  <1>1. LocalInv => HandOff
    BY PrintedIsRead DEF HandOff
  <1> QED
    BY <1>1, LocalInvariant, PTL

-----------------------------------------------------------------------------
(***************************************************************************)
(* How a tool ends.                                                        *)
(***************************************************************************)

(* Only Ctrl+C and the tool itself end it.                                 *)
LEMMA EndsItself ==
  ASSUME Types, [Next]_vars, NEW p \in Procs, NEW S, Exits(p, S), Killed \notin S
  PROVE  Tool(p)
  <1>1. Active(p) /\ proc'[p].pc = "exited" /\ proc'[p].status \in S
    BY DEF Exits
  <1>2. ASSUME proc'[p] = proc[p] PROVE FALSE
    BY <1>1, <1>2 DEF Active
  <1>3. ASSUME NEW q \in Procs, NEW i \in Invocations, Launch(q, i) PROVE FALSE
    <2>1. proc'[q].pc = "args" /\ \A r \in Procs : r # q => proc'[r] = proc[r]
      BY <1>3, LaunchStep
    <2> QED
      BY <1>1, <1>2, <2>1
  <1>4. ASSUME NEW q \in Procs, Interrupt(q) PROVE FALSE
    <2>1. proc'[q].status = Killed /\ \A r \in Procs : r # q => proc'[r] = proc[r]
      BY <1>4, InterruptStep DEF Alone
    <2> QED
      BY <1>1, <1>2, <2>1
  <1>5. ASSUME NEW a \in Drives, CutPower(a) PROVE FALSE
    <2>1. proc'[p] = proc[p] \/ proc'[p].pc = "cut"
      BY <1>5, CutPowerStep
    <2> QED
      BY <1>1, <1>2, <2>1
  <1>6. ASSUME NEW q \in Procs, Tool(q), q # p PROVE FALSE
    <2>1. Alone(q)
      BY <1>6, ToolIsToolStep DEF ToolStep
    <2> QED
      BY <1>2, <1>6, <2>1 DEF Alone
  <1>7. ASSUME NEW q \in Procs, Start(q) \/ FollowUp(q) PROVE FALSE
    BY <1>3, <1>7, PrintedTyped, ReformatAssumption DEF Start, FollowUp
  <1>8. ASSUME NEW a \in Drives, OwnTime(a) \/ Upset(a) PROVE FALSE
    BY <1>2, <1>8, OwnTimeStep, UpsetStep
  <1>9. ASSUME UNCHANGED vars PROVE FALSE
    BY <1>2, <1>9 DEF vars
  <1> QED
    BY <1>4, <1>5, <1>6, <1>7, <1>8, <1>9 DEF Next, Meanwhile, Finished, PowerCycle, Accident

LEMMA StreakStep ==
  ASSUME LocalInv, [Next]_vars, NEW p \in Procs,
         At(p, "progress", "poll"), Interval(p) > 0, Exits(p, {1})
  PROVE  told'[p].misses >= MAX_SOFT_ERRORS
  <1>1. Types /\ proc[p].soft_errors = told[p].misses /\ told[p].misses \in Nat
        /\ proc[p] \in ProcStates
    BY DEF LocalInv, TypeOK, Types, Local, At, Told
  <1>2. Tool(p)
    BY <1>1, EndsItself DEF Killed
  <1>3. ProgressPoll(p)
    BY <1>2 DEF Tool, At, MegaProgress, ProgressArgs, ProgressOpen, ProgressReadCapacity,
         MegaInquiry, InquiryArgs, InquiryOpen, InquirySend,
         MegaFormat512, Format512Args, Format512Open, Format512Inquiry, Format512CountDown,
         Format512Format, Format512Returns,
         MegaModesel, ModeselArgs, ModeselOpen, ModeselInquiry, ModeselModeSelect,
         ModeselCountDown, ModeselFormat, ModeselReturns,
         MegaFormatImmed, ImmedArgs, ImmedOpen, ImmedInquiry, ImmedModeSelect,
         ImmedCountDown, ImmedFormat
  <1>4. SoftError(p) \/ NotConfirmed(p) \/ NothingInProgress(p)
    BY <1>3 DEF ProgressPoll
  <1>5. proc'[p].pc = "exited"
    BY DEF Exits
  <1>6. ASSUME NEW r \in ProcStates, Become(p, r), r.pc # "exited" PROVE FALSE
    BY <1>1, <1>5, <1>6, BecomeStep DEF Types
  <1>7. CASE NotConfirmed(p)
    <2> DEFINE r == [proc[p] EXCEPT !.soft_errors = 0]
    <2>1. Become(p, r) /\ r \in ProcStates /\ r.pc = "poll"
      BY <1>1, <1>7 DEF NotConfirmed, Decoded, ProcStates, At
    <2> QED
      BY <1>6, <2>1
  <1>8. CASE NothingInProgress(p)
    <2> DEFINE r == [proc[p] EXCEPT !.pc = "readcap", !.soft_errors = 0, !.attempt = 1]
    <2>1. Become(p, r) /\ r \in ProcStates /\ r.pc = "readcap"
      BY <1>1, <1>8 DEF NothingInProgress, Decoded, ProcStates, PCs
    <2> QED
      BY <1>6, <2>1
  <1>9. CASE SoftError(p)
    <2>1. told'[p].misses = told[p].misses + 1
      BY <1>1, <1>9 DEF SoftError, Types, Told
    <2>2. CASE proc[p].soft_errors + 1 < MAX_SOFT_ERRORS
      <3> DEFINE r == [proc[p] EXCEPT !.soft_errors = @ + 1]
      <3>1. Become(p, r) /\ r \in ProcStates /\ r.pc = "poll"
        BY <1>1, <1>9, <2>2 DEF SoftError, ProcStates, At
      <3> QED
        BY <1>6, <3>1
    <2>3. CASE ~(proc[p].soft_errors + 1 < MAX_SOFT_ERRORS)
      BY <1>1, <2>1, <2>3 DEF MAX_SOFT_ERRORS
    <2> QED
      BY <2>2, <2>3
  <1> QED
    BY <1>4, <1>7, <1>8, <1>9

(* mega_progress gives up a watch at a failed poll only at the end of a    *)
(* whole streak of them, however long it has been polling, and whatever    *)
(* else is run, cut or lost meanwhile.                                     *)
THEOREM StreakNeeded == Spec => GivesUpOnlyAfterStreak
  <1>1. LocalInv /\ [Next]_vars
        => [\A p \in Procs :
              At(p, "progress", "poll") /\ Interval(p) > 0 /\ Exits(p, {1})
                => told'[p].misses >= MAX_SOFT_ERRORS]_vars
    BY StreakStep
  <1> QED
    BY <1>1, LocalInvariant, PTL DEF Spec, GivesUpOnlyAfterStreak
=============================================================================
