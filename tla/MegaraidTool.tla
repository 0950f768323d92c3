---------------------------- MODULE MegaraidTool ----------------------------
(***************************************************************************)
(* megaraid_tool.c: all tools in one binary, run as                        *)
(* "megaraid_tool <command> ...", or under the name of a tool by a symlink *)
(* or a copy; and the procedure of Reformat carried out with that binary.  *)
(* A word of the command line is a name, a block device or a number:       *)
(*   dir, mega   whether a name has a directory, and "mega_" after that    *)
(*   stem        the rest of the name, "other" if no code knows it         *)
(*   host        the host of a block device                                *)
(*   text        how the word reads as a number                            *)
(***************************************************************************)
EXTENDS Reformat

CONSTANTS
  Orders,      \* what the operator wants: a tool and the words after its name
  Mistyped,    \* lines that name no tool (NamesNoTool)
  MaxTyped     \* bound on the tools the operator runs of his own accord

Nothing == "nothing"
applets == Tools \cup {"check_size"}
Stems   == applets \cup {"megaraid_tool", "other"}

NoNumber == [digits |-> FALSE, value |-> 0, tail |-> TRUE]

Words == [dir : BOOLEAN, mega : BOOLEAN, stem : Stems, host : Nat, text : Texts]

Name(dir, mega, stem) ==
  [dir |-> dir, mega |-> mega, stem |-> stem, host |-> 0, text |-> NoNumber]
Command(stem) == Name(FALSE, FALSE, stem)   \* inquiry
Binary(stem)  == Name(TRUE, TRUE, stem)     \* ./mega_inquiry
Device(host) == [Name(TRUE, FALSE, "other") EXCEPT !.host = host]
Number(text) == [Command("other") EXCEPT !.text = text]

(* A slip for the runs to catch: "mega_" is stripped from a command, too.  *)
find_by_name_Prefixed(w) == IF ~w.dir /\ w.stem \in applets THEN w.stem ELSE Nothing
find_by_name(w) == IF ~w.dir /\ ~w.mega /\ w.stem \in applets THEN w.stem ELSE Nothing

find_by_progname(w) == find_by_name([w EXCEPT !.dir = FALSE, !.mega = FALSE])

(* main(): the applet that is run, and the argv it sees.  A slip for the   *)
(* runs to catch: a subcommand's argv is not shifted.                      *)
Applet(argv) ==
  IF find_by_progname(argv[1]) # Nothing THEN find_by_progname(argv[1])
  ELSE IF Len(argv) < 2 THEN Nothing ELSE find_by_name(argv[2])

AppletArgv_Unshifted(argv) == argv
AppletArgv(argv) == IF find_by_progname(argv[1]) # Nothing THEN argv ELSE Tail(argv)

(* What a tool's own main() makes of its argv.                             *)
Text(argv, i) == IF i <= Len(argv) THEN argv[i].text ELSE Decimal(0)

Read(tool, argv) ==
  [tool |-> tool, argc |-> Len(argv),
   host |-> IF Len(argv) < 2 THEN 0 ELSE argv[2].host,
   target |-> Text(argv, 3),
   interval |-> IF tool = "progress" THEN Text(argv, 4) ELSE Decimal(0),
   size |-> Text(argv, IF tool = "progress" THEN 5 ELSE 4)]

(* The exit status of usage().  A slip for the runs to catch: 0.           *)
usage_Zero == 0
usage == 1

-----------------------------------------------------------------------------
(* A tool run as its own binary, and the ways to run it with this one.     *)
megaraid_tool == Name(TRUE, FALSE, "megaraid_tool")

Standalone(o) == Read(o.tool, <<Binary(o.tool)>> \o o.args)

AsSubcommand(o) == <<megaraid_tool>> \o (<<Command(o.tool)>> \o o.args)
UnderItsName(o) == {<<Name(dir, mega, o.tool)>> \o o.args : dir, mega \in BOOLEAN}
Lines(o) == {AsSubcommand(o)} \cup UnderItsName(o)

(* PROGRESS_CMD and the arguments mega_format_immed prints after it.       *)
PrintedLine(q) ==
  LET i == PrintedCommand(q)
  IN  <<megaraid_tool>> \o (<<Command("progress")>> \o
        <<Device(i.host), Number(i.target), Number(i.interval), Number(i.size)>>)

(* What is meant by a mistyped line, in terms of its words: the program's  *)
(* own name, a directory and "mega_" aside, is no tool's, and the word     *)
(* after it is not, by itself, the name of one.                            *)
NamesNoTool(argv) ==
  /\ argv[1].stem \notin applets
  /\ Len(argv) >= 2 /\ argv[2].stem \in applets => argv[2].dir \/ argv[2].mega

ASSUME OrderAssumption ==
  /\ Orders \subseteq [tool : applets, args : Seq(Words)]
  /\ CommandLines = {Standalone(o) : o \in {x \in Orders : x.tool \in Tools}}
  /\ Mistyped \subseteq Seq(Words) \ {<<>>}
  /\ \A argv \in Mistyped : NamesNoTool(argv)
  /\ MaxTyped \in Nat

-----------------------------------------------------------------------------
(***************************************************************************)
(* The operator of Reformat with this binary.                              *)
(***************************************************************************)
(* main() for any line, meant or mistyped.  check_size and usage() answer  *)
(* at once and touch nothing.                                              *)
main(p, argv) ==
  IF Applet(argv) \in Tools THEN Launch(p, Read(Applet(argv), AppletArgv(argv)))
  ELSE UNCHANGED vars

Type(p) == p <= MaxTyped /\ \E o \in Orders : \E argv \in Lines(o) : main(p, argv)

TypePrinted(p) == \E q \in Procs : Printed(q) /\ main(p, PrintedLine(q))

(* megaraid_tool <no such command> ... && power_cycle: whatever main()     *)
(* takes it for is what is run.                                            *)
Mistype(p) ==
  /\ p <= MaxTyped
  /\ \E argv \in Mistyped :
       IF Applet(argv) = Nothing /\ usage = 0
       THEN \E a \in Drives : CutPower(a) /\ UNCHANGED cuts
       ELSE main(p, argv)

MulticallNext ==
  \/ \E p \in Procs : Type(p) \/ TypePrinted(p) \/ Mistype(p)
  \/ Meanwhile

MulticallSpec == Init /\ [][MulticallNext]_vars

(* README.md:52-54: "megaraid_tool <command> behaves identically to        *)
(* running that tool's own standalone binary with the same arguments";     *)
(* under a tool's name it is "a drop-in replacement", the command it       *)
(* prints leads to mega_progress with those arguments, and a mistyped      *)
(* command (Mistype), which has no step in Spec, starts no tool and is no  *)
(* success.                                                                *)
SameAsStandalone == Spec
=============================================================================
