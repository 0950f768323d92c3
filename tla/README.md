# Verification of megaraid_format_tools

TLA+ models of the tools that reformat SAS drives behind a MegaRAID controller
from 520-byte to 512- or 4096-byte sectors, checked with TLC on small instances
and, for the properties that matter most, proved with TLAPS for all of them.

The tools are small C programs. What makes them hard is not in any one of them:
a format takes hours, the drive goes on while the tools come and go, answers get
lost, UNIT ATTENTIONs come at the worst moment, power fails, and an operator
aborts, mistypes and scripts `mega_progress && power_cycle`.

## The system

| part | state | operations | correct if |
|---|---|---|---|
| `megaraid_common.h` | none | `send_cmd`, `parse_target`, `parse_block_size`, `set_mode_sel_block_length` | an unanswered command never reads as success; a mistyped number never becomes another one |
| driver, controller, drives (external) | per drive: medium, mode page, running job, pending UNIT ATTENTION | INQUIRY, MODE SELECT, FORMAT UNIT, REQUEST SENSE, READ CAPACITY; finishing, spinning up, losing power | (environment) |
| `mega_inquiry.c` | locals of `main` | INQUIRY | exit 0 only if a drive answered |
| `mega_format512.c` | locals of `main` | INQUIRY, countdown, blocking FORMAT UNIT | formats only what it named, after the countdown; exit 0 only if formatted |
| `mega_modesel.c` | locals of `main` | INQUIRY, MODE SELECT, countdown, blocking FORMAT UNIT | as above, at the size it announced |
| `mega_format_immed.c` | locals of `main` | INQUIRY, MODE SELECT, countdown (longer after a failure), FORMAT UNIT with IMMED, prints the follow-up `mega_progress` command | as above, and the printed command watches the same drive for the same size |
| `mega_progress.c` | locals of `main`: `soft_errors`, `attempt`; `parse_sense`: the descriptor walk | polls REQUEST SENSE, then READ CAPACITY, exit status 0/1/2/3 | 0 only if ready at the expected size: it gates a power cycle |
| `megaraid_tool.c` | none | dispatch by program name or subcommand, `usage()` | the same run as the standalone binary; a mistyped name is never a tool, nor a success |
| `check_size.c`, ABI structs, `print_ascii` | none | | not modelled: layout and text only |

**Interaction.** The tools share nothing but the drives. There is no lock, no
state on disk, and a tool knows of another only what the drive tells it. They
hand over by what the operator reads: the printed `mega_progress` command and
the exit status.

**Hard behaviours.** A verdict from two commands with time between them; sense
data in many dialects; a command that was carried out but reported as failed, and
the reverse; a blocking format aborted half way; a mode page that is not saved
(SP=0) and falls back when power is lost; an abort between MODE SELECT and
FORMAT UNIT; UNIT ATTENTION absorbed by the wrong command; counters of consecutive
failures; drive-controlled lengths in `parse_sense`. `PROJECT.json` lists each
under `hazards`, at its line.

## The modules

```
MegaraidCommon          send_cmd, argument parsing (operators)
  Controller            drives: what each command can do        VARIABLE drive
    ToolProcess         tools as processes, their shared steps  proc, inv, told
      MegaInquiry  MegaFormat512  MegaModesel  MegaFormatImmed  MegaProgress
        Reformat        operator + tools + drives + power       upsets, cuts
          ReformatProperties      what it promises; INSTANCE PowerGate
            MCReformat            instances for TLC
          MegaraidTool            the same with the multicall binary
            MCMegaraidTool        (with MCReformat) instances for TLC
PowerGate               abstract: what whoever holds the power switch may rely on
DriveState              classify(), used by MegaProgress and ParseSense
ParseSense              parse_sense(), byte by byte
  SenseOnTheWire        how Controller's drives put their answers on the wire
    MCParseSense        instances for TLC

ReformatProperties <- Reformat_proofs <- ToolProcess_proofs <- Formatters_proofs
                   <- OneAtATime_proofs <- Watch_proofs
MegaraidTool <- MegaraidTool_proofs
ParseSense   <- ParseSense_proofs         SenseOnTheWire, ParseSense_proofs <- SenseOnTheWire_proofs
```

**Controller** is the environment: it is not in the repository, and says what the
code, its comments and the README rely on, no more. A command is a set of
outcomes `[reply, drive, ...]`; `Flaky` adds the driver's failures; a pending
UNIT ATTENTION fails any command but INQUIRY and REQUEST SENSE, and is gone then.
A drive in `Slow` may have its blocking format aborted; a drive in `Accessible`
formats while it keeps answering READ CAPACITY, with the size its mode page
intends.

**ToolProcess** gives each run of a tool a slot. `proc[p]` holds the locals of
`main` under their names and a `pc`; `told[p]` is a history of what the terminal
has shown, which the tools never read; `inv[p]` is the command line. An argument
is what `strtol` can tell of it: does it start with a number, which, is there a
tail. Every sent command is one atomic step, with its exit or next `pc`: only a
blocking FORMAT UNIT is two (`FormatBlocking`, `FormatReturns`), since everything
can happen in between. `sleep` is no step of its own: any step of anything else
may come between two steps of a tool.

**Tools**: one action per stage of `main`, named for the tool and the stage.
`MegaProgress` keeps `soft_errors` and `attempt` and the three outcomes of a poll
(`SoftError`, `NotConfirmed`, `NothingInProgress`). There, `parse_sense` is
abstracted to its result (`decoded`, key, ASC, ASCQ, progress): `ParseSense`
models how it gets there.

**Reformat** adds the operator: starts a tool (`Start`), types the printed command
(`FollowUp`), hits Ctrl+C (`Interrupt`; a process blocked in the ioctl does not
notice), and runs `power_cycle` behind `&&` (`PowerCycle`). With `Solo` the
operator waits for one tool on a drive to end before starting the next there, and may
work on other drives meanwhile (`Aim` is the drive a command line names). `Accident` cuts
the power; `Upset` raises a UNIT ATTENTION.

**ParseSense** is one call of the function: header, one action per descriptor,
gate. The drive chooses the bytes. `reads` collects the indices that were read.
The reference it is compared with (`RefProgress`) finds the descriptors as a set
and picks one as the code does: a 0x02 before a 0x0A, as the comments want; of several
0x02 the last, of several 0x0A the first, which only the code says.

**SenseOnTheWire** joins the two views of sense data: `Controller`'s drives answer
with decoded records, `ParseSense` with bytes. It puts each of those records on the
wire in fixed and in descriptor format, behind other descriptors, with stale bytes
behind a short additional length, and asks for the same record back.

**MegaraidTool** is `Reformat` typed at a shell with the multicall binary. A word of
the command line is a name (with or without a directory, with or without `mega_`), a
block device or a number; `Applet`/`AppletArgv` are `main`'s dispatch and argv shift,
`Read` what the tool's own `main` makes of the argv it gets. `main` starts the applet
if there is one, whoever typed the line. `Mistype` puts a mistyped line in front of
`&& power_cycle`: it goes through the same dispatch, so a line taken for a tool would
run it, and an exit status 0 of `usage()` would cut the power.

**PowerGate** forgets the tools: a drive is whole, formatting or broken, and may be
cleared for a power cycle. A drive's clearance is given while no format runs on it and
void as soon as anything is started on it. `ReformatProperties!Gate` is the refinement mapping: a drive
is formatting by its `job`, broken by its empty medium, and cleared by a
`mega_progress` that exited with 0 and after which nothing was run on that drive.

## The runs

Word sizes are scaled so that TLC can compute with them (`INT_MAX` = 2^29-1,
`LONG_MAX` = 2^30-1): all that the code's bounds tell apart (0, 255, 256,
0xFFFFFF, wrap, saturation) still exists, and `int`/`long` keep their relation of
one being cut off to the other's low bits.

| run | question | bounds |
|---|---|---|
| `watch` | Can the chain format, watch, power cycle go wrong? | 3 tools (format, check, check again, or a restart) on two drives, one slow and formatted in the background, the other also with a blocking format; driver failing at will |
| `formatters` | Do exit 0, the banner and the countdown mean what they say? | 2 tools, on the same drive one after the other or on two drives at once, real countdowns 5 and 15, 1 power cut, 1 upset, mode page equal to or different from the medium |
| `addresses` | Can a mistyped command line hit another drive, and is `megaraid_tool` the tools it contains? | 1 tool and its printed command, 2 hosts x 2 targets, 10 target texts, 4 intervals, 6 sizes, every way to name a tool, 9 mistyped lines; arguments are read once, so one tool is enough |
| `quiet_bus` | Does a watch survive and end? | 2 tools, 2 upsets, nothing lost |
| `together` | What is left when tools overlap? | 2 tools at once, any of the five or a watch of a target with no drive, 1 cut, 1 upset |
| `power_gate` | Does the procedure implement `PowerGate`, and does every format end? | 2 tools on two drives, one at a time on each, blocking and background formats, aborted ones too, 1 cut |
| `parse_sense` | Is the decoding right for every header and pair of descriptors, and for what the drives answer? | 28 bytes, two descriptors of 9 kinds, 6 reported lengths, 4 values of `len`; every encoding of `SenseOnTheWire` |
| `overlap_verdict`, `overlap_size`, `half_formatted`, `soft_errors`, `keeps_size` | the statements below that the code does not keep | 2 tools or 1, the fewest commands that show it |

Countdowns are 1 and 2 where no property depends on their length. `MaxUpsets` is
2 in `quiet_bus`, because `READ_CAP_TRIES` = 3 withstands two UNIT ATTENTIONs
after the poll that found the drive idle, and a third would end the watch: the
claim is for fewer upsets than tries. The UNIT ATTENTION that the end of a format
may raise comes on top; the polls absorb it.
`watch` has no accidental cuts, so that every power loss in it is the gate's, and no
upsets: its UNIT ATTENTIONs are those of a format's end and of power coming back.
In `ParseSense` the reads of a descriptor depend on its own bytes and `prog` only,
so two descriptors exhibit every interaction of one with the next.

Deadlock is checked in every run: an idle slot always has a command line to run,
and `Finished` is the end of all slots.

### What the properties say

*Verdict and gate* - `VerdictOnlyWhenQuiet`: 0 or 2 only about a drive that exists and
does not format, although READ CAPACITY follows the last poll. `VerdictIsTrue`: 0 iff
the medium is whole and at the expected size. `GateSparesFormats`, `NeverHalfFormatted`:
the power cycle behind the gate never cuts a format. `GivesUpOnlyAfterStreak`: only
consecutive failures end a watch. `WatchSurvives`, `WatchConcludes`: on a bus that loses
nothing, it ends with a verdict. `HandOff`: the printed command is accepted (its number
of arguments, too), polls, and means the drive that FORMAT UNIT was sent to and the size
it was formatted for. `KeepsPowerGate`: the procedure implements `PowerGate`, fairness
included: every format, blocking, background, cut or interrupted, comes to an end.
`ToolsEnd`: so does every tool, whatever the other of two does, a flaky driver and an
absent drive included. With more tools than two, one that is started, cleared and power
cycled over and over could keep a watch of the same drive waiting for ever. A power
cycle is that of the drive the gate is about; a chassis with several drives in it is as
safe as all their gates.

*Formatters* - `FormatConsented`: no format without identity and full countdown.
`SuccessMeansFormatted`: exit 0 only for a format that ended whole or runs on.
`AnnouncedSizeApplies`: with one tool at a time on the drive a format runs at the
announced size, even if power goes during the countdown: the fallen-back mode page is
protected by the UNIT ATTENTION that fails FORMAT UNIT. `FormatsOnlyAskedSizes`: when
tools overlap, at least no size comes about that nobody asked for. `OnlyTheNamedDrive`.

*megaraid_tool* - `SameAsStandalone`: `MulticallSpec` implements `Spec`: whichever way
a tool is named, the procedure is the standalone binaries', and a line that names none
(`NamesNoTool`) starts none and cuts no power.

*parse_sense* - `ReadsWithinReport`, `Terminates`, `WorkIsNeverImagined` (a drive
that says neither busy nor UNIT ATTENTION is read as idle, so no watch hangs on it),
`ProgressFromTheRightDescriptor`, `BusyIsNeverIdle`, which joins it with `classify`,
and `DecodesAsMeant`, which joins it with the drives of `Controller`.

Each property of a passing run has at least one mutant in `PROJECT.json`: an operator
beside the one it replaces ("a slip for the runs to catch"), which makes TLC find the
property violated.

### Where the code and its words differ

- `half_formatted`: `mega_progress.c:25` says 0 is "drive ready". After a blocking
  format that timed out half way, the drive is idle and may report the geometry of
  its mode page; the code prints ready and exits 0. `VerdictIsTrue` therefore holds
  if slow drives are formatted in the background (`watch`).
- `soft_errors`: the fifth failed poll in a row gives up; the comment on
  `MAX_SOFT_ERRORS` says five are tolerated before that.
- `overlap_verdict`: "drive ready" again. With a second tool running, a format can
  start between the idle poll and READ CAPACITY; an accessible drive answers it.
- `overlap_size`: "FORMATTING TO n-BYTE SECTORS" is printed from a local; a second
  formatter's MODE SELECT during the countdown changes what FORMAT UNIT does.
- `keeps_size`: `mega_format512` promises to leave a 520-byte drive at 520; it
  applies the mode page that an earlier `mega_modesel` left, one that was aborted or
  one whose MODE SELECT took effect but was reported failed.

## Fairness

`FairSpec` assumes weak fairness of each tool (the scheduler runs processes, the
ioctl returns, `sleep` ends) and of each drive's own progress (formats finish,
drives spin up). The operator owes nothing: no fairness for starting tools or for
Ctrl+C, and none for accidents. `WatchConcludes` further needs a bus that loses
nothing (`Flaky = FALSE`): nothing in the code can make a failing driver answer.

## What is proved

Every proof is for any drives, command lines, number of tools, wait times, faults,
upsets and cuts, any buffer of any size. Assumptions on the constants are those of the
modules (`WordSizes`, `ControllerAssumption`, `ToolAssumption`, `ReformatAssumption`,
`OrderAssumption`, `BufferAssumption`), which TLC evaluates in the runs, and those
named here:

- `Solo`: one tool at a time on each drive, any number of drives at once;
- `HostsFit`: host numbers fit the 16 bits of `bus_no`;
- `SlowInBackground`: `mega_format512` and `mega_modesel` are not aimed at a drive that
  outlasts the controller's timeout (`Slow`), there are no accidental cuts, and the media
  are whole at the start;
- `QuietBus`: the bus loses nothing, and there are fewer UNIT ATTENTIONs out of the blue
  (`MaxUpsets`) than READ CAPACITY attempts (`READ_CAP_TRIES`);
- `RoomForAll`: the sense buffer has room for the longest encoding of `SenseOnTheWire`, 28
  bytes (`main` has 96).

| theorem | states | assumes |
|---|---|---|
| `Reformat_proofs!TypeCorrect` | `[]TypeOK` | |
| `ToolProcess_proofs!PrintedCommandWorks` | `[]HandOff` | |
| `StreakNeeded` | `GivesUpOnlyAfterStreak` | |
| `Formatters_proofs!FormatsWithConsent` | `FormatConsented` | |
| `NamedDriveOnly` | `OnlyTheNamedDrive` | `HostsFit` |
| `SuccessIsReal` | `SuccessMeansFormatted` | |
| `NoThirdSize` | `FormatsOnlyAskedSizes` | |
| `OneAtATime_proofs!VerdictIsQuiet` | `VerdictOnlyWhenQuiet` | `Solo` |
| `GateIsSafe` | `GateSparesFormats` | `Solo` |
| `AnnouncedIsApplied` | `AnnouncedSizeApplies` | `Solo` |
| `NoneLeftHalfFormatted` | `[]NeverHalfFormatted` | `Solo`, `SlowInBackground` |
| `VerdictHoldsTrue` | `VerdictIsTrue` | `Solo`, `SlowInBackground` |
| `GateKept` | `Gate!GateSpec`, the safety part of `KeepsPowerGate` | `Solo` |
| `Watch_proofs!WatchGoesOn` | `WatchSurvives` | `Solo`, `SlowInBackground`, `QuietBus` |
| `MegaraidTool_proofs!MulticallIsStandalone` | `SameAsStandalone` | |
| `ParseSense_proofs!TypeCorrect`, `ReadsAreInBounds`, `IdleIsSeen` | `[]TypeOK`, `[]ReadsWithinReport`, `[]WorkIsNeverImagined` | |
| `RightDescriptor`, `BusyIsSeen` | `[]ProgressFromTheRightDescriptor`, `[]BusyIsNeverIdle` | |
| `SenseOnTheWire_proofs!DecodedAsMeant` | `[]DecodesAsMeant` | `RoomForAll` |

By `MulticallIsStandalone`, what is proved of `Spec` holds of the multicall binary.

### The arguments

*Verdict.* `VerdictOnlyWhenQuiet` is not inductive: between the idle poll and the
verdict other steps happen. `SoloInv` adds `SlotOrder` (on each drive the slots are used
one after the other, so the tool that runs there is the only one and the last) and
`Quiet`: from the poll that found nothing in progress until the verdict, and from exit
status 0 or 2 until something else is started on the drive, no format runs on it. It is
kept because a formatting drive's sense data never classifies as idle, in any of its
dialects (`FormattingIsNotIdle`); only a tool at FORMAT UNIT starts a format, and only on
the drive its command line names (`AddrIsAim`, `ToolSpares`): the drive with the verdict
is another tool's, and two tools that run have different drives (`OnOtherDrive`).

*One process.* `Local(p)` is the inductive invariant of one tool's own records: before
each `pc`, what was parsed, printed and counted down. It needs no `Solo`, since
nothing another tool does touches them. `LocalStep(p)`, proved action by action, keeps
it; `HandOff` and `GivesUpOnlyAfterStreak` follow from it and one step.

*Deeds.* To the drives a tool's step is one of four things: `Looks`, `Asks` (MODE
SELECT), `Starts` (a format) or `Ends` (a blocking one). `StepKinds` puts beside them
all other steps. Everything about drives is then a case split over nine kinds of steps
instead of forty actions. `FormatConsented` and `OnlyTheNamedDrive` are `Starts` and
`Asks` with `Local`. `WaitInv`: a tool blocked in FORMAT UNIT waits for its own drive,
which is formatting for it alone - so an exit 0 after it is about that format, although
tools overlap. `SizesInv`: page and medium of a drive are of the sizes it came with or
that a tool aimed at it was given; the three bytes of MODE SELECT carry such a size
unchanged (`ByteSplit`).

*One tool at a time on each drive.* `AnnounceInv`: from MODE SELECT to FORMAT UNIT the mode page is
the size asked for, or a UNIT ATTENTION is pending that will fail FORMAT UNIT.
`HalfInv`: a medium is empty only while it formats; a blocking format can end otherwise
only on a drive in `Slow`, and it is the tool's own drive (`AddrIsAim`). `VerdictIsTrue` adds that the four
bytes of READ CAPACITY carry the size (`CapacityIsTrue`). `GateInv` joins `SoloInv`,
`WaitInv` and "what formats is empty"; each step then is a step of `PowerGate` about one
drive, or a stutter: a launch voids the clearance of the drive it aims at (`LaunchGate`),
a verdict adds that drive's and leaves the others' (`OwnClearance`).

*The watch.* On a bus that loses nothing a poll is always answered, so only READ
CAPACITY can make `mega_progress` give up. `WatchInv`: once the drive was found idle it
stays so, and the attempts that failed, with the one a pending UNIT ATTENTION is going
to fail, are no more than the upsets so far. The poll before the first attempt took
the UNIT ATTENTION of the format's end with it, so that one is not counted.

*parse_sense.* At the walk, `end` is bounded by `len` and by the reported length:
`i + 1 < end` and `i + dlen <= end` then bound every read. For the choice of the
descriptor, `RefInv` says that the descriptors met so far, together with those that
`from[i]` still finds, are all there are, and that `prog` is the reference's choice
among the ones met; adding one changes both alike (`OneMore`). That the recursive
reference `from` satisfies its equation (`FromUnfolds`) needs no induction: the least
sets closed under following the descriptors do.

*From the wire.* `DecodesAsMeant` needs no more than the reference: each encoding
`Says` its record (`FixedSays`, `DescriptorSays`) - the header's fields are where
`HeaderRead` takes them from, and the walk's last descriptor, alone or behind the
information descriptor, is the one with the progress (`LastIn`, `LastProgress`). `RefInv`
carries that to the results; `Accepted` says that only a short buffer or an unknown
response code is refused. The lemma (`SaidIsDecoded`) holds of every record sense data can
hold (`Sayable`), of which the modelled drives' answers are a few (`AnswersSayable`).

### Only model-checked

Liveness (`WatchConcludes`, `ToolsEnd`, `Terminates`, the fairness of `KeepsPowerGate`),
which is beyond the prover.

## Not modelled

Struct layout and `check_size` (compile time); `print_ascii`, messages and
percentages; the warning for unusual block sizes, which changes nothing; the
controller's own cache of drive states, which no tool reads; defect lists written by
older builds; READ CAPACITY's last LBA, which is only printed. `send_cmd`'s frame layout
is data that the driver reads: its outcomes are modelled, its bytes are not. Build and
tests have no run-time behaviour; the tests served as evidence of what `parse_sense`
and `classify` promise.

## Plan

Done, in this order: `ParseSense` and the common operators; drives, processes and
tools; `Reformat` and its runs; type correctness, `parse_sense` in bounds, the verdict
and its gate; `MegaraidTool` and its equivalence with the standalone tools; `PowerGate`
and the refinement; overlapping tools; `SenseOnTheWire`; proofs of every safety
property of `Reformat`, of the reference of `parse_sense` and of `DecodesAsMeant`; from
one tool at a time to one tool at a time on each drive, and from background formats to
any on drives that are not slow.

Left: nothing but what *Only model-checked* and *Not modelled* name.
