---------------------------- MODULE MegaProgress ----------------------------
(***************************************************************************)
(* mega_progress.c: ask the drive what it is doing, once or every interval *)
(* seconds, and, when nothing is in progress, which block size it has.     *)
(* Exit status: 0 ready at the expected size, 2 ready at another, 3 not    *)
(* confirmed complete, 1 error.                                            *)
(***************************************************************************)
EXTENDS ToolProcess, DriveState

MAX_SOFT_ERRORS == 5
READ_CAP_TRIES_Two == 2   \* a slip for the runs to catch
READ_CAP_TRIES  == 3

(* 0xFFFFFFFF marks a capacity that does not fit, never a block size.      *)
parse_expected_block_size(s) ==
  LET r == strtol(s)
  IN  IF r.clean /\ r.v >= 1 /\ r.v <= U32Max - 1 THEN r.v ELSE -1

(* atoi(): no number is 0, what follows a number is ignored, and what does *)
(* not fit an int wraps.                                                   *)
atoi(s) == ((strtol(s).v + IntMax + 1) % (U32Max + 1)) - (IntMax + 1)
Interval(p) == IF inv[p].argc > 3 THEN atoi(inv[p].interval) ELSE 0

ProgressArgs(p) ==
  /\ At(p, "progress", "args")
  /\ TakeArguments(p, parse_target(inv[p].target),
                   IF inv[p].argc > 4 THEN parse_expected_block_size(inv[p].size) ELSE 512)

ProgressOpen(p) ==
  /\ At(p, "progress", "open")
  /\ OpenNode(p, "poll")

(* A slip for the runs to catch: failed polls that are not counted.        *)
SoftError_NotCounted(p) ==
  IF Interval(p) > 0 THEN UNCHANGED <<proc, told>> ELSE Exit(p, 1) /\ UNCHANGED told

(* A poll that failed, or whose sense data does not decode: try again, a   *)
(* few times in a row, if polling; report it if not.                       *)
SoftError(p) ==
  /\ told' = [told EXCEPT ![p].misses = @ + 1]
  /\ IF Interval(p) > 0 /\ proc[p].soft_errors + 1 < MAX_SOFT_ERRORS
     THEN Become(p, [proc[p] EXCEPT !.soft_errors = @ + 1])
     ELSE Exit(p, 1)

(* soft_errors = 0 after every poll that decodes.  A slip for the runs to  *)
(* catch: it is not reset.                                                 *)
Decoded_NoReset(p) == proc[p]
Decoded(p)         == [proc[p] EXCEPT !.soft_errors = 0]

(* Still busy, not ready, or a UNIT ATTENTION: poll again, or say so.      *)
NotConfirmed(p) ==
  /\ told' = [told EXCEPT ![p].misses = 0]
  /\ IF Interval(p) > 0 THEN Become(p, Decoded(p)) ELSE Exit(p, 3)

NothingInProgress(p) ==
  /\ told' = [told EXCEPT ![p].misses = 0]
  /\ Become(p, [Decoded(p) EXCEPT !.pc = "readcap", !.attempt = 1])

ProgressPoll(p) ==
  /\ At(p, "progress", "poll")
  /\ \E o \in RequestSense(Addr(p)) :
       /\ drive' = Update(Addr(p), o.drive)
       /\ IF ~Succeeded(o.reply) \/ ~o.sense.decoded THEN SoftError(p)
          ELSE IF classify(o.sense) # "IDLE" THEN NotConfirmed(p)
          ELSE NothingInProgress(p)
  /\ UNCHANGED inv

(* The block length out of READ CAPACITY's big-endian data; 0 would mean   *)
(* that the drive transferred nothing.                                     *)
block_size(b) == b[1] * 16777216 + b[2] * 65536 + b[3] * 256 + b[4]

read_capacity10(o) ==
  IF ~Succeeded(o.reply) \/ block_size(o.length) = 0 THEN -1 ELSE 0

(* A slip for the runs to catch: 512 whatever was expected.                *)
check_expected_block_size_512(actual, expected) == IF actual = 512 THEN 0 ELSE 2

check_expected_block_size(actual, expected) == IF actual = expected THEN 0 ELSE 2

ProgressReadCapacity(p) ==
  /\ At(p, "progress", "readcap")
  /\ \E o \in ReadCapacity(Addr(p)) :
       /\ drive' = Update(Addr(p), o.drive)
       /\ IF read_capacity10(o) = 0
          THEN Exit(p, check_expected_block_size(block_size(o.length), proc[p].size))
          ELSE IF proc[p].attempt < READ_CAP_TRIES
          THEN Become(p, [proc[p] EXCEPT !.attempt = @ + 1])
          ELSE Exit(p, 1)
  /\ UNCHANGED <<inv, told>>

MegaProgress(p) ==
  ProgressArgs(p) \/ ProgressOpen(p) \/ ProgressPoll(p) \/ ProgressReadCapacity(p)
=============================================================================
