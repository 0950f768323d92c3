---------------------------- MODULE MegaFormat512 ---------------------------
(***************************************************************************)
(* mega_format512.c: FORMAT UNIT at whatever block size the mode page      *)
(* holds, after INQUIRY and a countdown.  No MODE SELECT is sent and the   *)
(* parameter list has IMMED=0, so the command blocks.                      *)
(***************************************************************************)
EXTENDS ToolProcess

Format512Args(p) ==
  /\ At(p, "format512", "args")
  /\ TakeArguments(p, parse_target(inv[p].target), 0)

Format512Open(p) ==
  /\ At(p, "format512", "open")
  /\ OpenNode(p, "inquiry")

Format512Inquiry(p) ==
  /\ At(p, "format512", "inquiry")
  /\ Identify(p, "countdown", ShortWait)

Format512CountDown(p) ==
  /\ At(p, "format512", "countdown")
  /\ CountDown(p)

Format512Format(p) ==
  /\ At(p, "format512", "format")
  /\ FormatBlocking(p)

Format512Returns(p) ==
  /\ At(p, "format512", "blocked") \/ At(p, "format512", "cut")
  /\ FormatReturns(p)

MegaFormat512(p) ==
  \/ Format512Args(p) \/ Format512Open(p) \/ Format512Inquiry(p)
  \/ Format512CountDown(p) \/ Format512Format(p) \/ Format512Returns(p)
=============================================================================
