--------------------------- MODULE MCMegaraidTool ---------------------------
(***************************************************************************)
(* Small instances of megaraid_tool: two hosts, two targets on each, and   *)
(* the ways a command line can be mistyped.                                *)
(***************************************************************************)
EXTENDS MCReformat, MegaraidTool

FourDrives == {0, 1} \X {0, 4}
MixedDisks == {[a \in FourDrives |-> Disk(520, 520)]}

Targets == {Num(0), Num(4), NumX(4), Word, Empty, Num(-1), Num(255), Num(256), Num(260), Num(2000000000)}
Intervals == {Word, NumX(1), Num(-5), Num(MCLongMax + 1)}
Sizes   == {Num(0), Num(1), Num(512), Num(16777215), Num(16777216), NumX(512)}

Order(tool, texts) == [tool |-> tool, args |-> <<Device(1)>> \o [i \in DOMAIN texts |-> Number(texts[i])]]

(* Targets for all tools, block sizes for those that set them, both of its *)
(* arguments for mega_progress, too few words, and check_size.             *)
MCOrders ==
  {Order(t, <<x>>) : t \in Tools, x \in Targets}
  \cup {Order(t, <<Num(4), y>>) : t \in {"modesel", "format_immed"}, y \in Sizes}
  \cup {Order("progress", <<Num(4), x>>) : x \in Intervals}
  \cup {Order("progress", <<Num(4), Num(60), y>>) : y \in Sizes}
  \cup {Order(t, <<>>) : t \in applets}

OrderedLines == {Standalone(o) : o \in {x \in MCOrders : x.tool \in Tools}}

(* "megaraid_tool", "mega_progres ...", "megaraid_tool progres ...",       *)
(* "megaraid_tool mega_modesel ...", "megaraid_tool ./progress ..." and    *)
(* the like.  4096 is nothing MCOrders asks for, so that no tool run by    *)
(* one of these lines is taken for one that was ordered.                   *)
MCMistyped ==
  LET tail == <<Device(1), Number(Num(4)), Number(Num(4096))>>
  IN  {<<megaraid_tool>>, <<Binary("other")>> \o tail, <<megaraid_tool, Command("other")>> \o tail}
      \cup {<<megaraid_tool, Name(dm[1], dm[2], tool)>> \o tail :
              dm \in {<<FALSE, TRUE>>, <<TRUE, FALSE>>, <<TRUE, TRUE>>},
              tool \in {"modesel", "progress"}}
=============================================================================
