--------------------------- MODULE MegaFormatImmed --------------------------
(***************************************************************************)
(* mega_format_immed.c: MODE SELECT, a countdown that is longer if the     *)
(* drive did not accept it, and FORMAT UNIT with IMMED=1, which returns    *)
(* while the drive formats in the background.  The tool ends by printing   *)
(* the mega_progress command that watches the format.                      *)
(***************************************************************************)
EXTENDS ToolProcess

ImmedArgs(p) ==
  /\ At(p, "format_immed", "args")
  /\ TakeArguments(p, parse_target(inv[p].target),
                   IF inv[p].argc > 3 THEN parse_block_size(inv[p].size) ELSE 512)

ImmedOpen(p) ==
  /\ At(p, "format_immed", "open")
  /\ OpenNode(p, "inquiry")

ImmedInquiry(p) ==
  /\ At(p, "format_immed", "inquiry")
  /\ Identify(p, "modesel", 0)

(* The warning makes the countdown longer.  A slip for the runs to catch:  *)
(* it does not.                                                            *)
countdown_Short(failed) == ShortWait
countdown(failed)       == IF failed THEN LongWait ELSE ShortWait

(* A failed MODE SELECT does not end the tool.                             *)
ImmedModeSelect(p) ==
  /\ At(p, "format_immed", "modesel")
  /\ \E o \in ModeSelect(Addr(p), ModeSelectLength(set_mode_sel_block_length(proc[p].size))) :
       LET failed == ~Succeeded(o.reply)
       IN  /\ drive' = Update(Addr(p), o.drive)
           /\ Become(p, [proc[p] EXCEPT !.pc = "countdown", !.left = countdown(failed)])
           /\ told' = [told EXCEPT ![p].failed = failed]
  /\ UNCHANGED inv

ImmedCountDown(p) ==
  /\ At(p, "format_immed", "countdown")
  /\ CountDown(p)

(* FORMAT UNIT, IMMED=1: refused, or started, in which case the answer can *)
(* still be lost.                                                          *)
FormatImmed(a) ==
  FormatRefused(a)
  \cup IF CanFormat(a)
       THEN {[reply |-> r, drive |-> FormatStarted(a, "immed")] : r \in Replies} ELSE {}

ImmedFormat(p) ==
  /\ At(p, "format_immed", "format")
  /\ \E o \in FormatImmed(Addr(p)) :
       /\ drive' = Update(Addr(p), o.drive)
       /\ ExitWith(p, o.reply)
  /\ UNCHANGED <<inv, told>>

(* Whether main() got as far as FORMAT UNIT and what it prints after it.    *)
Wait(p) == IF told[p].failed THEN LongWait ELSE ShortWait
Printed(p) ==
  /\ inv[p].tool = "format_immed" /\ proc[p].pc = "exited"
  /\ proc[p].status \in {0, 1} /\ told[p].seconds = Wait(p)

(* A slip for the runs to catch: the block size left to the default.       *)
PrintedCommand_DefaultSize(p) ==
  [tool |-> "progress", argc |-> 4, host |-> inv[p].host,
   target |-> Decimal(proc[p].target),
   interval |-> Decimal(IF proc[p].status = 0 THEN 60 ELSE 0),
   size |-> Decimal(512)]

(* The command printed at the end: poll every minute if the format was     *)
(* accepted, once if not, and expect the block size that was asked for.    *)
PrintedCommand(p) ==
  [tool |-> "progress", argc |-> 5, host |-> inv[p].host,
   target |-> Decimal(proc[p].target),
   interval |-> Decimal(IF proc[p].status = 0 THEN 60 ELSE 0),
   size |-> Decimal(proc[p].size)]

MegaFormatImmed(p) ==
  \/ ImmedArgs(p) \/ ImmedOpen(p) \/ ImmedInquiry(p) \/ ImmedModeSelect(p)
  \/ ImmedCountDown(p) \/ ImmedFormat(p)
=============================================================================
