----------------------------- MODULE MCReformat -----------------------------
(***************************************************************************)
(* Small instances of the reformatting procedure: drives, what the         *)
(* operator types, and word sizes scaled down to what TLC can compute      *)
(* with (int 30 bits, long 31).                                            *)
(***************************************************************************)
EXTENDS ReformatProperties

MCIntMax  == 536870911
MCLongMax == 1073741823

Num(n)   == Decimal(n)
NumX(n)  == [digits |-> TRUE,  value |-> n, tail |-> TRUE]    \* "4x"
Word     == [digits |-> FALSE, value |-> 0, tail |-> TRUE]    \* "abc"
Empty    == [digits |-> FALSE, value |-> 0, tail |-> FALSE]   \* ""

(* A command line on host 0, target 4, with argc arguments.                *)
Line(tool, argc, interval, size) ==
  [tool |-> tool, argc |-> argc, host |-> 0, target |-> Num(4),
   interval |-> Num(interval), size |-> Num(size)]

OneDrive == {<<0, 4>>}
TwoDrives == {<<0, 4>>, <<0, 5>>}
NoDrive  == {}

Disk(medium, page) == [medium |-> medium, page |-> page, job |-> "none", ua |-> FALSE]
All(disks) == [Drives -> disks]

(* A 520-byte drive, its mode page as shipped or already changed by a run  *)
(* that was aborted; a drive that is 512 already; any of them beside one   *)
(* as shipped; one left half formatted.                                    *)
Shipped    == All({Disk(520, 520)})
Whole      == All({Disk(520, 520), Disk(520, 512), Disk(512, 512)})
Mixed      == {d \in Whole : \A a \in Drives \ OneDrive : d[a] = Disk(520, 520)}
HalfDone   == All({Disk(0, 512)})

(* The same on the drive beside it.                                        *)
Beside(lines) == {[i EXCEPT !.target = Num(5)] : i \in lines}

(* mega_format_immed to 4096, mega_progress once and polling; a blocking   *)
(* format of the drive beside it, which ends in time, and its watch.       *)
WatchLines ==
  {Line("format_immed", 4, 0, 4096), Line("progress", 3, 0, 0), Line("progress", 5, 60, 4096)}
  \cup Beside({Line("modesel", 3, 0, 0), Line("progress", 3, 0, 0)})

QuietLines == {Line("format_immed", 4, 0, 512), Line("progress", 4, 60, 0)}

(* The blocking formatters, and what may be run before, after and beside   *)
(* them.                                                                   *)
BlockingLines ==
  {Line("format512", 3, 0, 0), Line("modesel", 3, 0, 0), Line("modesel", 4, 0, 4096),
   Line("format_immed", 4, 0, 4096)}
  \cup Beside({Line("modesel", 4, 0, 4096)})

(* Both kinds of formats, and the watch that clears them.                  *)
GateLines ==
  LET lines == {Line("modesel", 3, 0, 0), Line("format_immed", 4, 0, 4096), Line("progress", 5, 60, 4096)}
  IN  lines \cup Beside(lines)

(* What each refuted statement is about.                                   *)
AbortLines   == {Line("modesel", 3, 0, 0), Line("progress", 3, 0, 0)}
PollLines    == {Line("progress", 4, 60, 0)}
Same512Lines == {Line("modesel", 3, 0, 0), Line("format512", 3, 0, 0)}

(* All tools, and a watch aimed where there is no drive.                   *)
AnyLines ==
  {Line("format512", 3, 0, 0), Line("modesel", 3, 0, 0), Line("format_immed", 4, 0, 4096),
   Line("progress", 4, 60, 0), Line("inquiry", 3, 0, 0),
   [Line("progress", 4, 60, 0) EXCEPT !.target = Num(7)]}
=============================================================================
