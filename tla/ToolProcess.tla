----------------------------- MODULE ToolProcess ----------------------------
(***************************************************************************)
(* The tools as processes, and the steps their main()s have in common.     *)
(* Each run of a tool is a process of its own, in one of the slots Procs;  *)
(* the operator fills the slots in order and can have several running.     *)
(* proc[p] holds the locals of main() under the names they have there:     *)
(*   pc           where main() is                                          *)
(*   bus, target  bus_no and target: where commands are sent               *)
(*   size         block_size, or expected_bs in mega_progress              *)
(*   left         i of the abort countdown                                 *)
(*   soft_errors, attempt   the two retry counters of mega_progress        *)
(*   status       the exit status once pc = "exited"                       *)
(* told[p] is what the terminal has shown so far, for the properties:      *)
(*   identity  the drives whose INQUIRY data was printed                   *)
(*   seconds   how much of the abort countdown was printed                 *)
(*   failed    whether the MODE SELECT FAILED warning was printed          *)
(*   misses    how many polls in a row were reported as failed             *)
(***************************************************************************)
EXTENDS Controller

CONSTANTS
  MaxTools,    \* how many tools the operator runs
  ShortWait,   \* the abort countdown, in seconds: 5 in every formatter
  LongWait     \* the countdown after a failed MODE SELECT: 15

ASSUME ToolAssumption ==
  /\ MaxTools \in Nat \ {0}
  /\ ShortWait \in Nat \ {0} /\ LongWait \in Nat /\ ShortWait < LongWait

VARIABLES proc, inv, told

toolvars == <<proc, inv, told>>

Procs == 1 .. MaxTools
Tools == {"inquiry", "format512", "modesel", "format_immed", "progress"}

(* A command line: <tool> <block_device> <target_id> and, as argc allows,  *)
(* what follows.  The block device only says on which host to look.        *)
Invocations == [tool : Tools, argc : Nat, host : Nat,
                target : Texts, interval : Texts, size : Texts]

Killed  == 130   \* what the shell reports for a tool ended by Ctrl+C
Running == -1

PCs == {"idle", "args", "open", "inquiry", "modesel", "countdown", "format",
        "blocked", "cut", "poll", "readcap", "exited"}

ProcStates == [pc : PCs, bus : Nat, target : Int, size : Int, left : Nat,
               soft_errors : Nat, attempt : Nat, status : Int]
Told == [identity : SUBSET (Int \X Int), seconds : Nat, failed : BOOLEAN, misses : Nat]

Fresh == [pc |-> "idle", bus |-> 0, target |-> 0, size |-> 0, left |-> 0,
          soft_errors |-> 0, attempt |-> 0, status |-> Running]
Untold == [identity |-> {}, seconds |-> 0, failed |-> FALSE, misses |-> 0]

At(p, tool, pc) == inv[p].tool = tool /\ proc[p].pc = pc
Addr(p) == <<proc[p].bus % 65536, proc[p].target % 256>>   \* u16 host_no, u8 target_id
Active(p) == proc[p].pc \notin {"idle", "exited"}

(* One process goes on with new locals.                                    *)
Become(p, locals) == proc' = [proc EXCEPT ![p] = locals]

(* close(fd_mega) and return: the counters go, the terminal stays.         *)
Exit(p, status) ==
  Become(p, [proc[p] EXCEPT !.pc = "exited", !.status = status,
                       !.left = 0, !.soft_errors = 0, !.attempt = 0])

(* Most steps print, then carry on from the tool's own locals.             *)
Goto(p, pc) == Become(p, [proc[p] EXCEPT !.pc = pc])

(* argc < 3, or an argument that does not parse, ends the tool with 1.     *)
TakeArguments(p, target, size) ==
  /\ IF inv[p].argc < 3 \/ target < 0 \/ size < 0
     THEN Exit(p, 1)
     ELSE Become(p, [proc[p] EXCEPT !.pc = "open", !.target = target, !.size = size])
  /\ UNCHANGED <<drive, inv, told>>

(* SCSI_IOCTL_GET_BUS_NUMBER writes bus_no only when it succeeds.          *)
GetBusNumber(p) == {[rc |-> 0, bus_no |-> inv[p].host], [rc |-> -1, bus_no |-> 0]}

(* A slip for the runs to catch: bus_no keeps its 0 if the ioctl fails.    *)
KnownBus_Unchecked(p) == {b.bus_no : b \in GetBusNumber(p)}
KnownBus(p) == {b.bus_no : b \in {c \in GetBusNumber(p) : c.rc >= 0}}

(* open() of the block device, the host it is on, open() of the node: any  *)
(* of the three can fail.                                                  *)
OpenNode(p, pc) ==
  /\ \/ Exit(p, 1)
     \/ \E bus_no \in KnownBus(p) :
          Become(p, [proc[p] EXCEPT !.pc = pc, !.bus = bus_no])
  /\ UNCHANGED <<drive, inv, told>>

(* INQUIRY: carry on only if a drive answered, after printing who it is.   *)
Identify(p, pc, left) ==
  /\ \E o \in Inquiry(Addr(p)) :
       /\ drive' = Update(Addr(p), o.drive)
       /\ IF ~Succeeded(o.reply)
          THEN Exit(p, 1) /\ UNCHANGED told
          ELSE /\ Become(p, [proc[p] EXCEPT !.pc = pc, !.left = left])
               /\ told' = [told EXCEPT ![p].identity = @ \cup {Addr(p)}]
  /\ UNCHANGED inv

(* for (int i = countdown; i > 0; i--).  Slips for the runs to catch: an   *)
(* iteration too many, and one too few.                                    *)
Counting_OneMore(i) == i >= 0
Counting_OneLess(i) == i > 1
Counting(i)         == i > 0

(* One second of the countdown, or its end.                                *)
CountDown(p) ==
  /\ IF Counting(proc[p].left)
     THEN /\ Become(p, [proc[p] EXCEPT !.left = @ - 1])
          /\ told' = [told EXCEPT ![p].seconds = @ + 1]
     ELSE Goto(p, "format") /\ UNCHANGED told
  /\ UNCHANGED <<drive, inv>>

(* return (rc == 0) ? 0 : 1                                                *)
ExitWith(p, reply) == Exit(p, IF Succeeded(reply) THEN 0 ELSE 1)

(* FORMAT UNIT without IMMED: refused, or the ioctl blocks while the drive *)
(* formats.                                                                *)
FormatBlocking(p) ==
  /\ \/ \E o \in FormatRefused(Addr(p)) :
          /\ drive' = Update(Addr(p), o.drive)
          /\ ExitWith(p, o.reply)
     \/ /\ CanFormat(Addr(p))
        /\ drive' = Update(Addr(p), FormatStarted(Addr(p), "blocking"))
        /\ Goto(p, "blocked")
  /\ UNCHANGED <<inv, told>>

(* The blocking FORMAT UNIT returns.  A finished format may still be       *)
(* reported as SCSI_IO_FAILED; on a slow drive the controller can time out *)
(* and abort it half way.                                                  *)
FormatOutcomes(a) ==
  {[reply |-> r, drive |-> FormatDone(a)] : r \in {Good, ScsiFailed}}
  \cup IF a \in Slow
       THEN {[reply |-> ScsiFailed, drive |-> [drive[a] EXCEPT !.job = "none"]]} ELSE {}

FormatReturns(p) ==
  /\ \E o \in IF proc[p].pc = "cut"
              THEN {[reply |-> ScsiFailed, drive |-> drive[Addr(p)]]}
              ELSE FormatOutcomes(Addr(p)) :
       /\ drive' = Update(Addr(p), o.drive)
       /\ ExitWith(p, o.reply)
  /\ UNCHANGED <<inv, told>>
=============================================================================
