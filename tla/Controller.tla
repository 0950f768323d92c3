----------------------------- MODULE Controller -----------------------------
(***************************************************************************)
(* What the tools talk to, and what is not in the repository: the          *)
(* megaraid_sas driver, the controller and the SAS drives behind it.  The  *)
(* model says no more about them than the tools' code, comments, tests and *)
(* README rely on.  A drive is                                             *)
(*   medium : the block size the medium is formatted at, 0 while it is     *)
(*            being formatted and when a format was cut short              *)
(*   page   : the block length of its mode page, which the next format     *)
(*            applies                                                      *)
(*   job    : "none", "immed" (a background format), "blocking" (a format  *)
(*            whose command has not returned) or "spinup"                  *)
(*   ua     : whether a UNIT ATTENTION is pending                          *)
(* Each command is the set of outcomes it can have: the driver's reply,    *)
(* the drive afterwards and the data returned.                             *)
(***************************************************************************)
EXTENDS MegaraidCommon

CONSTANTS
  Drives,      \* the addresses, <<host, target>>, that have a drive
  Slow,        \* drives whose format outlasts the controller's command timeout
  Accessible,  \* drives that keep the logical unit accessible while formatting
  Flaky        \* whether the driver may fail a command the drive could answer

ASSUME ControllerAssumption ==
  /\ Drives \subseteq Int \X Int
  /\ Slow \subseteq Drives /\ Accessible \subseteq Drives
  /\ Flaky \in BOOLEAN

VARIABLE drive

Formats == {"immed", "blocking"}
Jobs    == Formats \cup {"none", "spinup"}
DriveStates == [medium : Nat, page : Nat, job : Jobs, ua : BOOLEAN]

Update(a, d) == IF a \in Drives THEN [drive EXCEPT ![a] = d] ELSE drive

(* What the drive reads in, and writes to, big-endian length fields.       *)
ModeSelectLength(b) == b[1] * 65536 + b[2] * 256 + b[3]
CapacityBytes(n) ==
  <<(n \div 16777216) % 256, (n \div 65536) % 256, (n \div 256) % 256, n % 256>>

Refused(d)   == {[reply |-> r, drive |-> d] : r \in FailedReplies}
Faults(d)    == IF Flaky THEN Refused(d) ELSE {}
(* A pending UNIT ATTENTION fails the command and is cleared by that.      *)
Attention(d) == {[reply |-> ScsiFailed, drive |-> [d EXCEPT !.ua = FALSE]]}

(* No drive answers at this address.                                       *)
Nobody == [medium |-> 0, page |-> 0, job |-> "none", ua |-> FALSE]
Silence == {[reply |-> IoctlError, drive |-> Nobody]}

Inquiry(a) ==
  IF a \notin Drives THEN Silence
  ELSE {[reply |-> Good, drive |-> drive[a]]} \cup Faults(drive[a])

(* MODE SELECT.  A drive may take the new length and still report failure. *)
ModeSelect(a, n) ==
  IF a \notin Drives THEN Silence
  ELSE LET d == drive[a]
       IN  Faults(d) \cup
           IF d.ua THEN Attention(d)
           ELSE IF d.job # "none" THEN Refused(d)
           ELSE Refused(d) \cup {[reply |-> r, drive |-> [d EXCEPT !.page = n]] : r \in Replies}

(* FORMAT UNIT that the drive does not start.                              *)
FormatRefused(a) ==
  IF a \notin Drives THEN Silence
  ELSE LET d == drive[a]
       IN  Faults(d) \cup IF d.ua THEN Attention(d) ELSE Refused(d)

CanFormat(a) == a \in Drives /\ ~drive[a].ua /\ drive[a].job = "none"

(* The drive starts formatting: the old contents are gone.                 *)
FormatStarted(a, job) == [drive[a] EXCEPT !.job = job, !.medium = 0]
FormatDone(a)         == [drive[a] EXCEPT !.job = "none", !.medium = drive[a].page]

(***************************************************************************)
(* REQUEST SENSE, as decoded sense: key, ASC, ASCQ and the progress        *)
(* indication (-1 if there is none).  A formatting drive says so in one of *)
(* the ways mega_progress.c names: 04/04 with NOT READY or NO SENSE, or    *)
(* NOT READY with its ASC cut off by a short additional length, or, on a   *)
(* drive that keeps the logical unit accessible, NO SENSE with a progress  *)
(* indication.                                                             *)
(***************************************************************************)
SenseRecord == [decoded : BOOLEAN, key : 0 .. 15, asc : Byte, ascq : Byte, progress : Int]

Sense(k, a, q, g) == [decoded |-> TRUE, key |-> k, asc |-> a, ascq |-> q, progress |-> g]
Undecodable == [decoded |-> FALSE, key |-> 0, asc |-> 0, ascq |-> 0, progress |-> -1]

FormatSense(a) ==
  {Sense(2, 4, 4, 32768), Sense(2, 4, 4, -1), Sense(0, 4, 4, 32768), Sense(2, 0, 0, -1)}
  \cup IF a \in Accessible THEN {Sense(0, 0, 0, 32768), Sense(0, 4, 4, -1)} ELSE {}

(* An idle drive: NO SENSE or RECOVERED ERROR, or, with a medium left half *)
(* formatted, possibly MEDIUM ERROR.                                       *)
IdleSense(d) ==
  {Sense(0, 0, 0, -1)} \cup IF d.medium = 0 THEN {Sense(3, 17, 0, -1)} ELSE {Sense(1, 0, 0, -1)}

SenseOf(a) ==
  IF drive[a].ua THEN {Sense(6, 41, 0, -1)}
  ELSE IF drive[a].job \in Formats THEN FormatSense(a)
  ELSE IF drive[a].job = "spinup" THEN {Sense(2, 4, 1, -1)}
  ELSE IdleSense(drive[a])

RequestSense(a) ==
  LET failed(o)   == [reply |-> o.reply, drive |-> o.drive, sense |-> Undecodable]
      answered(s) == [reply |-> Good, drive |-> [drive[a] EXCEPT !.ua = FALSE], sense |-> s]
  IN  IF a \notin Drives THEN {failed(o) : o \in Silence}
      ELSE {failed(o) : o \in Faults(drive[a])}
           \cup {answered(s) : s \in SenseOf(a)}
           \cup IF Flaky THEN {[reply |-> Good, drive |-> drive[a], sense |-> Undecodable]}
                ELSE {}

(* READ CAPACITY(10).  A half formatted medium may fail it, or report the  *)
(* geometry its mode page intends; so does an accessible drive that is     *)
(* still formatting.                                                       *)
ReadCapacity(a) ==
  LET failed(o) == [reply |-> o.reply, drive |-> o.drive, length |-> CapacityBytes(0)]
      says(n)   == [reply |-> Good, drive |-> drive[a], length |-> CapacityBytes(n)]
      d         == drive[a]
  IN  IF a \notin Drives THEN {failed(o) : o \in Silence}
      ELSE {failed(o) : o \in Faults(d)}
           \cup (IF Flaky THEN {says(0)} ELSE {})
           \cup IF d.ua THEN {failed(o) : o \in Attention(d)}
                ELSE IF d.job = "none" /\ d.medium # 0 THEN {says(d.medium)}
                ELSE {failed(o) : o \in Refused(d)}
                     \cup IF d.job = "none" \/ (d.job \in Formats /\ a \in Accessible)
                          THEN {says(d.page)} ELSE {}

(***************************************************************************)
(* What happens to a drive on its own.                                     *)
(***************************************************************************)
FinishFormat(a) ==
  /\ drive[a].job = "immed"
  /\ \E ua \in BOOLEAN : drive' = [drive EXCEPT ![a] = [FormatDone(a) EXCEPT !.ua = drive[a].ua \/ ua]]

SpinUp(a) ==
  /\ drive[a].job = "spinup"
  /\ drive' = [drive EXCEPT ![a].job = "none"]

RaiseAttention(a) ==
  /\ ~drive[a].ua
  /\ drive' = [drive EXCEPT ![a].ua = TRUE]

(* MODE SELECT is sent with SP=0, so the mode page falls back to the       *)
(* medium's own block size when power is lost.                             *)
LosePower(a) ==
  LET page == IF drive[a].medium = 0 THEN drive[a].page ELSE drive[a].medium
  IN  drive' = [drive EXCEPT ![a] = [drive[a] EXCEPT !.job = "spinup", !.ua = TRUE, !.page = page]]
=============================================================================
