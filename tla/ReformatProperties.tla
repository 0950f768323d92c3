-------------------------- MODULE ReformatProperties ------------------------
(***************************************************************************)
(* What the reformatting procedure promises.  Which promise holds under    *)
(* which use of the tools is the subject of the runs (README, "Runs").     *)
(***************************************************************************)
EXTENDS Reformat

(* Every variable stays in its set: the type invariant of the procedure.   *)
TypeOK ==
  /\ drive \in [Drives -> DriveStates]
  /\ proc \in [Procs -> ProcStates]
  /\ inv \in [Procs -> Invocations]
  /\ told \in [Procs -> Told]
  /\ upsets \in Nat /\ cuts \in Nat

-----------------------------------------------------------------------------
(* Words for the steps the properties are about.                           *)

Exits(p, statuses) == Active(p) /\ proc'[p].pc = "exited" /\ proc'[p].status \in statuses

Verdict(p) == inv[p].tool = "progress" /\ Exits(p, {0, 2})

Formatter(p) == inv[p].tool \in {"format512", "modesel", "format_immed"}

(* The drive the operator typed, if that is what it was.                   *)
Typed(p) == <<inv[p].host, inv[p].target.value>>
CleanTarget(p) == inv[p].target.digits /\ ~inv[p].target.tail

StartsFormat(a) == drive[a].job \notin Formats /\ drive'[a].job \in Formats

(* mega_progress polling a drive that exists.                              *)
Watching(p) ==
  /\ At(p, "progress", "poll") \/ At(p, "progress", "readcap")
  /\ Interval(p) > 0 /\ Addr(p) \in Drives

-----------------------------------------------------------------------------
(***************************************************************************)
(* The verdict of mega_progress and the power cycle it gates.              *)
(***************************************************************************)

(* mega_progress ends with 0 or 2 (drive ready) only about a drive that is *)
(* there and while no format runs on it, although its last look at the     *)
(* sense data is older than the READ CAPACITY it concludes from.  Holds    *)
(* for one tool at a time on each drive, and is refuted for tools that     *)
(* overlap.                                                                *)
VerdictOnlyWhenQuiet ==
  [][\A p \in Procs : Verdict(p) =>
       Addr(p) \in Drives /\ drive[Addr(p)].job \notin Formats]_vars

(* Status 0 says the medium is whole and at the expected block size,       *)
(* status 2 that it is whole and at another (mega_progress.c, header).     *)
VerdictIsTrue ==
  [][\A p \in Procs : Verdict(p) =>
       LET d == drive[Addr(p)]
       IN  d.medium # 0 /\ (proc'[p].status = 0 <=> d.medium = proc[p].size)]_vars

(* mega_progress && power_cycle never cuts the power of a drive that is    *)
(* formatting; only an accident does.                                      *)
GateSparesFormats ==
  [][\A a \in Drives :
       drive[a].job \in Formats /\ drive'[a].job = "spinup" => cuts' # cuts]_vars

(* If slow drives are formatted in the background only, and power is       *)
(* cycled behind the gate, no drive is left half formatted, however slow   *)
(* it is (README, "IMMED bit").                                            *)
NeverHalfFormatted == \A a \in Drives : drive[a].medium = 0 => drive[a].job \in Formats

(* The command mega_format_immed prints is one mega_progress accepts, and  *)
(* by what mega_progress makes of its words, left out ones included, it    *)
(* aims at the drive FORMAT UNIT was sent to, expects the block size asked *)
(* for and keeps polling exactly when the format was accepted.             *)
HandOff ==
  \A q \in Procs : Printed(q) =>
    LET i == PrintedCommand(q)
    IN  /\ Aim(i) = Addr(q)
        /\ (IF i.argc > 4 THEN parse_expected_block_size(i.size) ELSE 512) = proc[q].size
        /\ i.argc > 3 /\ atoi(i.interval) > 0 <=> proc[q].status = 0

(* A watch is abandoned at a failed poll only if it was the last of        *)
(* MAX_SOFT_ERRORS in a row: an answered poll in between starts over.      *)
GivesUpOnlyAfterStreak ==
  [][\A p \in Procs :
       At(p, "progress", "poll") /\ Interval(p) > 0 /\ Exits(p, {1})
         => told'[p].misses >= MAX_SOFT_ERRORS]_vars

(* On a bus that loses nothing, a watch is never abandoned: the UNIT       *)
(* ATTENTIONs around the end of a format cost polls and READ CAPACITY      *)
(* attempts, not the watch.                                                *)
WatchSurvives ==
  [][\A p \in Procs : Watching(p) => ~Exits(p, {1, 3})]_vars

(* ... and it ends with a verdict, unless the operator ends it.            *)
WatchConcludes ==
  \A p \in Procs :
    Watching(p) ~> proc[p].pc = "exited" /\ proc[p].status \in {0, 2, Killed}

(* Every tool that is run ends, whatever the other one does to its drive:  *)
(* a claim for two tools.  With a third, an operator who cycles power      *)
(* behind one clearance for ever keeps a watch in another terminal waiting.*)
ToolsEnd == \A p \in Procs : Active(p) ~> proc[p].pc = "exited"

(* What the procedure looks like to whoever holds the power switch.        *)
StageOf(d) ==
  IF d.job \in Formats THEN "formatting" ELSE IF d.medium = 0 THEN "broken" ELSE "whole"

ClearedDrives == {Addr(p) : p \in {q \in Procs : Cleared(q)}}

Gate == INSTANCE PowerGate WITH
          stage <- [a \in Drives |-> StageOf(drive[a])],
          cleared <- ClearedDrives,
          accidents <- cuts

(* With one tool at a time on each drive the tools keep the promise of     *)
(* PowerGate: status 0 is a clearance of that drive, given only while no   *)
(* format runs on it and void as soon as another tool starts on it; and    *)
(* every format, blocking or not, comes to an end, whatever is cut, lost   *)
(* or interrupted.                                                         *)
KeepsPowerGate == Gate!GateFairSpec

-----------------------------------------------------------------------------
(***************************************************************************)
(* The formatters.                                                         *)
(***************************************************************************)

(* A drive starts formatting only after the tool that does it has printed  *)
(* that drive's identity and let the whole countdown run, the long one if  *)
(* it had to warn that MODE SELECT failed.                                 *)
FormatConsented ==
  [][\A a \in Drives : StartsFormat(a) =>
       \E p \in Procs :
         /\ Formatter(p) /\ proc[p].pc = "format" /\ Addr(p) = a
         /\ a \in told[p].identity
         /\ told[p].seconds = Wait(p)]_vars

(* No tool touches the mode page or the medium of a drive other than the   *)
(* one on the command line: not by a mistyped target that wraps or reads   *)
(* as 0, nor by a host number that could not be had.                       *)
OnlyTheNamedDrive ==
  [][\A a \in Drives :
       StartsFormat(a) \/ (drive'[a].page # drive[a].page /\ drive'[a].job # "spinup")
         => \E p \in Procs : Active(p) /\ CleanTarget(p) /\ Typed(p) = a]_vars

(* A formatter that exits 0 has formatted: the format ended, or runs on.   *)
SuccessMeansFormatted ==
  [][\A p \in Procs : Formatter(p) /\ Exits(p, {0}) =>
       LET d == drive[Addr(p)]
           e == drive'[Addr(p)]
       IN  \/ d.job = "none" /\ e.job = "immed"
           \/ d.job = "blocking" /\ e.job = "none" /\ e.medium = e.page]_vars

(* However the tools overlap, a drive is formatted only to a size that a   *)
(* command line naming it asked for, or that it came with: between MODE    *)
(* SELECT and FORMAT UNIT of two tools no third size comes about.          *)
AskedSizes(a) ==
  (UNION {{d[a].medium, d[a].page} : d \in InitialDrives})
  \cup {proc[q].size : q \in {p \in Procs : Addr(p) = a /\ inv[p].tool \in {"modesel", "format_immed"}}}

FormatsOnlyAskedSizes ==
  [][\A a \in Drives : StartsFormat(a) => drive[a].page \in AskedSizes(a)]_vars

(* With one tool at a time on each drive, "FORMATTING TO n-BYTE SECTORS"   *)
(* is what it does: if MODE SELECT was not reported as failed, the drive   *)
(* still holds the block size asked for when it starts to format, although *)
(* the mode page is not saved and power can go during the countdown.       *)
(* Refuted for tools that overlap on it.                                   *)
AnnouncedSizeApplies ==
  [][\A a \in Drives : StartsFormat(a) =>
       \A p \in Procs :
         /\ inv[p].tool \in {"modesel", "format_immed"}
         /\ proc[p].pc = "format" /\ Addr(p) = a /\ ~told[p].failed
         => drive[a].page = proc[p].size]_vars

-----------------------------------------------------------------------------
(***************************************************************************)
(* What the documentation says and the code does not do; each is refuted   *)
(* by a run.                                                               *)
(***************************************************************************)

(* mega_progress.c:25: "0 = drive ready and at the expected block size".   *)
ZeroMeansReady ==
  [][\A p \in Procs : inv[p].tool = "progress" /\ Exits(p, {0})
       => drive[Addr(p)].medium = proc[p].size]_vars

(* mega_progress.c:48: MAX_SOFT_ERRORS is how many consecutive failed      *)
(* polls are "tolerated before giving up".                                 *)
ToleratesMaxSoftErrors ==
  [][\A p \in Procs :
       At(p, "progress", "poll") /\ Interval(p) > 0 /\ Exits(p, {1})
         => told'[p].misses > MAX_SOFT_ERRORS]_vars

(* mega_format512.c:46-49: it formats at whatever size the mode page       *)
(* already holds, and so "on a 520-byte drive it [...] leaves it at 520".  *)
Format512KeepsSize ==
  [][\A p \in Procs : At(p, "format512", "format") /\ drive[Addr(p)].medium = 520
       /\ Addr(p) \in Drives /\ proc'[p].pc = "blocked"
       => drive[Addr(p)].page = 520]_vars
=============================================================================
