------------------------- MODULE MegaraidTool_proofs ------------------------
(***************************************************************************)
(* Whichever way the tools in megaraid_tool are run, the procedure is the  *)
(* one of their own binaries, for any orders and any mistyped lines.       *)
(***************************************************************************)
EXTENDS MegaraidTool, Reformat_proofs

LEMMA NameIsWord ==
  ASSUME NEW dir \in BOOLEAN, NEW mega \in BOOLEAN, NEW stem \in Stems
  PROVE  Name(dir, mega, stem) \in Words
  <1>1. NoNumber \in Texts
    BY DEF NoNumber, Texts
  <1> QED
    BY <1>1 DEF Name, Words

LEMMA PlainNames ==
  ASSUME NEW stem \in Stems
  PROVE  Command(stem) \in Words /\ Binary(stem) \in Words /\ megaraid_tool \in Words
  <1>1. NoNumber \in Texts
    BY DEF NoNumber, Texts
  <1>2. Command(stem) \in Words
    BY <1>1 DEF Command, Name, Words
  <1>3. Binary(stem) \in Words
    BY <1>1 DEF Binary, Name, Words
  <1>4. "megaraid_tool" \in Stems
    BY DEF Stems
  <1>5. megaraid_tool \in Words
    BY <1>1, <1>4 DEF megaraid_tool, Name, Words
  <1> QED
    BY <1>2, <1>3, <1>5

(* A word in front of a sequence.                                          *)
LEMMA Prefixed ==
  ASSUME NEW S, NEW x \in S, NEW s \in Seq(S)
  PROVE  /\ <<x>> \o s \in Seq(S)
         /\ Len(<<x>> \o s) = 1 + Len(s)
         /\ (<<x>> \o s)[1] = x
         /\ \A i \in Nat : 2 <= i /\ i <= Len(<<x>> \o s) => (<<x>> \o s)[i] = s[i - 1]
         /\ Tail(<<x>> \o s) = s
  <1>1. <<x>> \o s \in Seq(S) /\ Len(<<x>> \o s) = 1 + Len(s)
    OBVIOUS
  <1>2. (<<x>> \o s)[1] = x
    OBVIOUS
  <1>3. \A i \in Nat : 2 <= i /\ i <= Len(<<x>> \o s) => (<<x>> \o s)[i] = s[i - 1]
    OBVIOUS
  <1>4. Tail(<<x>> \o s) = s
    OBVIOUS
  <1> QED
    BY <1>1, <1>2, <1>3, <1>4

(* The same with four words after it.  (With Len(s) = 4 in sight the       *)
(* provers lose their way.)                                                *)
Four == 4

LEMMA FourIsFour == Four \in Nat /\ 1 <= Four /\ 2 <= Four /\ 3 <= Four /\ 4 <= Four /\ 1 + Four = 5
  BY DEF Four

LEMMA PrefixedFour ==
  ASSUME NEW S, NEW x \in S, NEW s \in Seq(S), NEW own, Len(s) = Four, own = <<x>> \o s
  PROVE  /\ Len(own) = 5
         /\ own[2] = s[1] /\ own[3] = s[2] /\ own[4] = s[3] /\ own[5] = s[4]
  <1>1. Len(own) = 5
    BY FourIsFour
  <1>2. \A i \in Nat : 1 <= i /\ i <= Four => own[i + 1] = s[i]
    BY FourIsFour
  <1>3. own[1 + 1] = s[1] /\ own[2 + 1] = s[2] /\ own[3 + 1] = s[3] /\ own[4 + 1] = s[4]
    BY <1>2, FourIsFour
  <1> QED
    BY <1>1, <1>3

LEMMA AppletsAreNames == applets \subseteq Stems /\ Nothing \notin applets
  <1>1. applets \subseteq Stems
    BY DEF Stems
  <1>2. Nothing \notin applets
    BY DEF applets, Tools, Nothing
  <1> QED
    BY <1>1, <1>2

(* find_by_progname() sees past a directory and "mega_".                   *)
LEMMA FoundByProgname ==
  ASSUME NEW dir \in BOOLEAN, NEW mega \in BOOLEAN, NEW tool \in applets
  PROVE  find_by_progname(Name(dir, mega, tool)) = tool
  BY DEF find_by_progname, find_by_name, Name

LEMMA MulticallHasNoApplet == find_by_progname(megaraid_tool) = Nothing
  BY DEF find_by_progname, find_by_name, megaraid_tool, Name, applets, Tools, Nothing

(* What is after the name decides what a tool reads.                       *)
LEMMA ReadsAfterTheName ==
  ASSUME NEW x \in Words, NEW y \in Words, NEW s \in Seq(Words), NEW tool
  PROVE  Read(tool, <<x>> \o s) = Read(tool, <<y>> \o s)
  <1>1. Len(<<x>> \o s) = Len(<<y>> \o s) /\ Len(<<x>> \o s) \in Nat
    BY Prefixed
  <1>2. \A i \in Nat : 2 <= i /\ i <= Len(<<x>> \o s) => (<<x>> \o s)[i] = (<<y>> \o s)[i]
    BY Prefixed
  <1>3. \A i \in Nat : 2 <= i => Text(<<x>> \o s, i) = Text(<<y>> \o s, i)
    BY <1>1, <1>2 DEF Text
  <1>4. Text(<<x>> \o s, 3) = Text(<<y>> \o s, 3)
        /\ Text(<<x>> \o s, 4) = Text(<<y>> \o s, 4)
        /\ Text(<<x>> \o s, 5) = Text(<<y>> \o s, 5)
    BY <1>3
  <1>5. Len(<<x>> \o s) >= 2 => (<<x>> \o s)[2].host = (<<y>> \o s)[2].host
    BY <1>1, <1>2
  <1> QED
    BY <1>1, <1>4, <1>5 DEF Read

LEMMA Subcommand ==
  ASSUME NEW tool \in applets, NEW s \in Seq(Words)
  PROVE  LET argv == <<megaraid_tool>> \o (<<Command(tool)>> \o s)
         IN  Applet(argv) = tool /\ AppletArgv(argv) = <<Command(tool)>> \o s
  <1> DEFINE own == <<Command(tool)>> \o s
             argv == <<megaraid_tool>> \o own
  <1>1. tool \in Stems
    BY AppletsAreNames
  <1>2. Command(tool) \in Words /\ megaraid_tool \in Words
    BY <1>1, PlainNames
  <1>3. own \in Seq(Words) /\ own[1] = Command(tool) /\ Len(own) >= 1
    BY <1>2, Prefixed
  <1> HIDE DEF own
  <1>4. argv[1] = megaraid_tool /\ argv[2] = own[1] /\ Len(argv) >= 2 /\ Tail(argv) = own
    BY <1>2, <1>3, Prefixed
  <1>5. find_by_name(own[1]) = tool
    BY <1>3 DEF find_by_name, Command, Name
  <1> HIDE DEF argv
  <1>6. Applet(argv) = tool /\ AppletArgv(argv) = own
    BY <1>4, <1>5, MulticallHasNoApplet DEF Applet, AppletArgv
  <1> QED
    BY <1>6 DEF argv, own

LEMMA OrderTyped ==
  ASSUME NEW o \in Orders
  PROVE  o.tool \in applets /\ o.args \in Seq(Words)
  BY OrderAssumption DEF Words

(* A mistyped line is none of the tools' names to main().                  *)
LEMMA MistypedIsNoTool ==
  ASSUME NEW argv \in Mistyped
  PROVE  Applet(argv) = Nothing
  <1>1. argv \in Seq(Words) /\ argv # <<>> /\ NamesNoTool(argv)
    BY OrderAssumption
  <1>2. Len(argv) >= 1 /\ argv[1] \in Words /\ (Len(argv) >= 2 => argv[2] \in Words)
    BY <1>1
  <1>3. find_by_progname(argv[1]) = Nothing
    BY <1>1, <1>2 DEF NamesNoTool, find_by_progname, find_by_name, Words
  <1>4. Len(argv) >= 2 => find_by_name(argv[2]) = Nothing
    BY <1>1, <1>2 DEF NamesNoTool, find_by_name, Words
  <1> QED
    BY <1>2, <1>3, <1>4 DEF Applet

(* Every way to give an order comes to its standalone command line.        *)
LEMMA LinesMeanTheOrder ==
  ASSUME NEW o \in Orders, NEW argv \in Lines(o)
  PROVE  Applet(argv) = o.tool /\ Read(Applet(argv), AppletArgv(argv)) = Standalone(o)
  <1>1. o.tool \in applets /\ o.tool \in Stems /\ o.args \in Seq(Words)
    BY OrderTyped, AppletsAreNames
  <1>2. Binary(o.tool) \in Words
    BY <1>1, PlainNames
  <1>3. CASE argv = AsSubcommand(o)
    <2>1. Applet(argv) = o.tool /\ AppletArgv(argv) = <<Command(o.tool)>> \o o.args
      BY <1>1, <1>3, Subcommand DEF AsSubcommand
    <2>2. Command(o.tool) \in Words
      BY <1>1, PlainNames
    <2> QED
      BY <1>1, <1>2, <2>1, <2>2, ReadsAfterTheName DEF Standalone
  <1>4. CASE argv \in UnderItsName(o)
    <2>1. PICK dir \in BOOLEAN, mega \in BOOLEAN : argv = <<Name(dir, mega, o.tool)>> \o o.args
      BY <1>4 DEF UnderItsName
    <2>2. Name(dir, mega, o.tool) \in Words
      BY <1>1, NameIsWord
    <2>3. argv[1] = Name(dir, mega, o.tool)
      BY <1>1, <2>1, <2>2, Prefixed
    <2>4. find_by_progname(argv[1]) = o.tool
      BY <1>1, <2>3, FoundByProgname
    <2>5. Applet(argv) = o.tool /\ AppletArgv(argv) = argv
      BY <1>1, <2>4, AppletsAreNames DEF Applet, AppletArgv
    <2> DEFINE n == Name(dir, mega, o.tool)
    <2>6. n \in Words /\ argv = <<n>> \o o.args
      BY <2>1, <2>2
    <2> HIDE DEF n
    <2>7. Read(o.tool, argv) = Read(o.tool, <<Binary(o.tool)>> \o o.args)
      BY <1>1, <1>2, <2>6, ReadsAfterTheName
    <2> QED
      BY <2>5, <2>7 DEF Standalone
  <1> QED
    BY <1>3, <1>4 DEF Lines

(* The printed line leads to mega_progress with the printed arguments.     *)
LEMMA PrintedLineMeansTheCommand ==
  ASSUME NEW q, PrintedCommand(q) \in Invocations
  PROVE  /\ Applet(PrintedLine(q)) = "progress"
         /\ Read("progress", AppletArgv(PrintedLine(q))) = PrintedCommand(q)
  <1> DEFINE c == PrintedCommand(q)
             s == <<Device(c.host), Number(c.target), Number(c.interval), Number(c.size)>>
             own == <<Command("progress")>> \o s
  <1>1. /\ c.tool = "progress" /\ c.argc = 5
        /\ c = [tool |-> c.tool, argc |-> c.argc, host |-> c.host, target |-> c.target,
                interval |-> c.interval, size |-> c.size]
    BY DEF PrintedCommand
  <1>2. c.host \in Nat /\ c.target \in Texts /\ c.interval \in Texts /\ c.size \in Texts
    BY DEF Invocations
  <1> HIDE DEF c
  <1>3. NoNumber \in Texts /\ "other" \in Stems
    BY DEF NoNumber, Texts, Stems
  <1>4. Device(c.host) \in Words /\ Device(c.host).host = c.host
    BY <1>2, <1>3 DEF Device, Name, Words
  <1>5. \A t \in Texts : Number(t) \in Words /\ Number(t).text = t
    BY <1>3 DEF Number, Command, Name, Words
  <1>6. /\ s \in Seq(Words) /\ Len(s) = Four /\ s[1].host = c.host
        /\ s[2].text = c.target /\ s[3].text = c.interval /\ s[4].text = c.size
    <2> DEFINE d == Device(c.host)  t == Number(c.target)
               v == Number(c.interval)  z == Number(c.size)
    <2>1. /\ d \in Words /\ t \in Words /\ v \in Words /\ z \in Words
          /\ d.host = c.host /\ t.text = c.target /\ v.text = c.interval /\ z.text = c.size
      BY <1>2, <1>4, <1>5
    <2> HIDE DEF d, t, v, z
    <2>2. /\ <<d, t, v, z>> \in Seq(Words) /\ Len(<<d, t, v, z>>) = Four
          /\ <<d, t, v, z>>[1] = d /\ <<d, t, v, z>>[2] = t
          /\ <<d, t, v, z>>[3] = v /\ <<d, t, v, z>>[4] = z
      BY <2>1 DEF Four
    <2>3. s = <<d, t, v, z>>
      BY DEF d, t, v, z
    <2> HIDE DEF s
    <2> QED
      BY <2>1, <2>2, <2>3
  <1> HIDE DEF s
  <1>7. "progress" \in applets /\ "progress" \in Stems
    BY DEF applets, Tools, Stems
  <1>8. Applet(PrintedLine(q)) = "progress" /\ AppletArgv(PrintedLine(q)) = own
    BY <1>6, <1>7, Subcommand DEF PrintedLine, c, s
  <1>9. /\ Len(own) = 5 /\ own[2].host = c.host
        /\ own[3].text = c.target /\ own[4].text = c.interval /\ own[5].text = c.size
    <2> DEFINE n == Command("progress")
    <2>1. n \in Words
      BY <1>7, PlainNames
    <2> HIDE DEF n
    <2>2. own = <<n>> \o s
      BY DEF n
    <2> HIDE DEF own
    <2>3. s \in Seq(Words) /\ Len(s) = Four
      BY <1>6
    <2> HIDE DEF s
    <2>4. /\ Len(own) = 5
          /\ own[2] = s[1] /\ own[3] = s[2] /\ own[4] = s[3] /\ own[5] = s[4]
      BY <2>1, <2>2, <2>3, PrefixedFour, SMTT(60)
    <2> QED
      BY <1>6, <2>4
  <1> HIDE DEF own
  <1>10. Read("progress", own) = c
    BY <1>1, <1>9 DEF Read, Text
  <1> QED
    BY <1>8, <1>10 DEF c

-----------------------------------------------------------------------------
LEMMA RunIsLaunch ==
  ASSUME [MulticallNext]_vars, TypeOK
  PROVE  [Next]_vars
  <1>1. ASSUME NEW p \in Procs, Type(p) PROVE Start(p) \/ UNCHANGED vars
    <2>1. PICK o \in Orders : \E argv \in Lines(o) : main(p, argv)
      BY <1>1 DEF Type
    <2>2. CASE o.tool \in Tools
      <3>1. Launch(p, Standalone(o))
        BY <2>1, <2>2, LinesMeanTheOrder DEF main
      <3>2. Standalone(o) \in CommandLines
        BY <2>2, OrderAssumption
      <3> QED
        BY <3>1, <3>2 DEF Start
    <2>3. CASE o.tool \notin Tools
      BY <2>1, <2>3, LinesMeanTheOrder DEF main
    <2> QED
      BY <2>2, <2>3
  <1>2. ASSUME NEW p \in Procs, TypePrinted(p) PROVE FollowUp(p)
    <2>1. PICK q \in Procs : Printed(q) /\ main(p, PrintedLine(q))
      BY <1>2 DEF TypePrinted
    <2>2. PrintedCommand(q) \in Invocations
      BY PrintedTyped DEF TypeOK, Types
    <2>3. Launch(p, PrintedCommand(q))
      BY <2>1, <2>2, PrintedLineMeansTheCommand DEF main, Tools
    <2> QED
      BY <2>1, <2>3 DEF FollowUp
  <1>3. ASSUME NEW p \in Procs, Mistype(p) PROVE UNCHANGED vars
    <2>1. PICK argv \in Mistyped :
            IF Applet(argv) = Nothing /\ usage = 0
            THEN \E a \in Drives : CutPower(a) /\ UNCHANGED cuts
            ELSE main(p, argv)
      BY <1>3 DEF Mistype
    <2>2. Applet(argv) = Nothing /\ usage # 0 /\ Nothing \notin Tools
      BY MistypedIsNoTool DEF usage, Nothing, Tools
    <2> QED
      BY <2>1, <2>2 DEF main
  <1> QED
    BY <1>1, <1>2, <1>3 DEF MulticallNext, Next

(* Whatever is ordered, typed or mistyped, and whichever of its names the  *)
(* binary is run by: what happens is what the standalone tools would do,   *)
(* so that all that is proved of Spec is true of megaraid_tool.            *)
THEOREM MulticallIsStandalone == MulticallSpec => SameAsStandalone
  <1>1. Init => TypeOK
    BY InitTypes
  <1>2. TypeOK /\ [MulticallNext]_vars => TypeOK' /\ [Next]_vars
    BY RunIsLaunch, NextTypes
  <1> QED
    BY <1>1, <1>2, PTL DEF MulticallSpec, SameAsStandalone, Spec
=============================================================================
