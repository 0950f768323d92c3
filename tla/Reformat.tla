------------------------------ MODULE Reformat ------------------------------
(***************************************************************************)
(* The whole reformatting procedure: an operator who runs the tools, one   *)
(* after the other or several at a time, the tools' processes, and the     *)
(* drives, which format, spin up and lose power in their own time.         *)
(***************************************************************************)
EXTENDS MegaInquiry, MegaFormat512, MegaModesel, MegaFormatImmed, MegaProgress

CONSTANTS
  CommandLines,   \* the invocations the operator may type
  Solo,           \* whether a drive has one tool at a time
  InitialDrives,  \* the states the drives may be in at the start
  MaxUpsets,      \* bound on the UNIT ATTENTIONs raised out of the blue
  MaxCuts         \* bound on the accidental power cuts

ASSUME ReformatAssumption ==
  /\ CommandLines \subseteq Invocations
  /\ Solo \in BOOLEAN
  /\ InitialDrives \subseteq [Drives -> {d \in DriveStates : d.job = "none"}]
  /\ MaxUpsets \in Nat /\ MaxCuts \in Nat

VARIABLES upsets, cuts

vars == <<drive, proc, inv, told, upsets, cuts>>

Blank == [tool |-> "inquiry", argc |-> 0, host |-> 0,
          target |-> Decimal(0), interval |-> Decimal(0), size |-> Decimal(0)]

Init ==
  /\ drive \in InitialDrives
  /\ proc = [p \in Procs |-> Fresh]
  /\ inv = [p \in Procs |-> Blank]
  /\ told = [p \in Procs |-> Untold]
  /\ upsets = 0 /\ cuts = 0

-----------------------------------------------------------------------------
(***************************************************************************)
(* The operator.                                                           *)
(***************************************************************************)
(* The drive a command line names, as Addr will have it; none for a target *)
(* that does not parse.                                                    *)
Aim(i) == <<i.host % 65536, parse_target(i.target)>>

FreeSlot(p) == proc[p].pc = "idle" /\ \A q \in 1 .. p - 1 : proc[q].pc # "idle"

Launch(p, i) ==
  /\ FreeSlot(p)
  /\ Solo => \A q \in Procs : Active(q) => Aim(inv[q]) # Aim(i)
  /\ Goto(p, "args")
  /\ inv' = [inv EXCEPT ![p] = i]
  /\ UNCHANGED <<drive, told, upsets, cuts>>

Start(p) == \E i \in CommandLines : Launch(p, i)

(* Type the command mega_format_immed printed.                             *)
FollowUp(p) == \E q \in Procs : Printed(q) /\ Launch(p, PrintedCommand(q))

(* Ctrl+C.  A process blocked in FORMAT UNIT's ioctl does not notice.      *)
Interrupt(p) ==
  /\ Active(p) /\ proc[p].pc \notin {"blocked", "cut"}
  /\ Exit(p, Killed)
  /\ UNCHANGED <<drive, inv, told, upsets, cuts>>

(* Power off the drive; a FORMAT UNIT blocked on it will fail.             *)
CutPower(a) ==
  /\ LosePower(a)
  /\ proc' = [p \in Procs |-> IF proc[p].pc = "blocked" /\ Addr(p) = a
                              THEN [proc[p] EXCEPT !.pc = "cut"] ELSE proc[p]]
  /\ UNCHANGED <<inv, told, upsets>>

(* mega_progress ... && power_cycle: exit status 0 and nothing run on the  *)
(* drive since.                                                            *)
Last(p) == \A q \in Procs : q > p /\ Aim(inv[q]) = Aim(inv[p]) => proc[q].pc = "idle"
Cleared(p) ==
  /\ inv[p].tool = "progress" /\ proc[p].pc = "exited" /\ proc[p].status = 0
  /\ Last(p)

PowerCycle(p) ==
  /\ Cleared(p) /\ Addr(p) \in Drives
  /\ CutPower(Addr(p))
  /\ UNCHANGED cuts

-----------------------------------------------------------------------------
(***************************************************************************)
(* The tools and the drives.                                               *)
(***************************************************************************)
Tool(p) ==
  /\ MegaInquiry(p) \/ MegaFormat512(p) \/ MegaModesel(p) \/ MegaFormatImmed(p)
     \/ MegaProgress(p)
  /\ UNCHANGED <<upsets, cuts>>

OwnTime(a) ==
  /\ FinishFormat(a) \/ SpinUp(a)
  /\ UNCHANGED <<toolvars, upsets, cuts>>

Upset(a) ==
  /\ upsets < MaxUpsets /\ upsets' = upsets + 1
  /\ RaiseAttention(a)
  /\ UNCHANGED <<toolvars, cuts>>

Accident(a) ==
  /\ cuts < MaxCuts /\ cuts' = cuts + 1
  /\ CutPower(a)

Finished ==
  /\ \A p \in Procs : proc[p].pc = "exited"
  /\ UNCHANGED vars

(* Everything but what the operator types.                                 *)
Meanwhile ==
  \/ \E p \in Procs : Interrupt(p) \/ PowerCycle(p) \/ Tool(p)
  \/ \E a \in Drives : OwnTime(a) \/ Upset(a) \/ Accident(a)
  \/ Finished

Next == (\E p \in Procs : Start(p) \/ FollowUp(p)) \/ Meanwhile

Spec == Init /\ [][Next]_vars

(* Processes are scheduled, formats end and drives spin up; the operator   *)
(* owes nothing.                                                           *)
Fairness ==
  /\ \A p \in Procs : WF_vars(Tool(p))
  /\ \A a \in Drives : WF_vars(OwnTime(a))

FairSpec == Spec /\ Fairness
=============================================================================
