----------------------------- MODULE MegaModesel ----------------------------
(***************************************************************************)
(* mega_modesel.c: MODE SELECT to the block size asked for, then, if the   *)
(* drive accepted it and the operator let the countdown run out, a         *)
(* blocking FORMAT UNIT that applies it.                                   *)
(***************************************************************************)
EXTENDS ToolProcess

ModeselArgs(p) ==
  /\ At(p, "modesel", "args")
  /\ TakeArguments(p, parse_target(inv[p].target),
                   IF inv[p].argc > 3 THEN parse_block_size(inv[p].size) ELSE 512)

ModeselOpen(p) ==
  /\ At(p, "modesel", "open")
  /\ OpenNode(p, "inquiry")

ModeselInquiry(p) ==
  /\ At(p, "modesel", "inquiry")
  /\ Identify(p, "modesel", 0)

(* A failed MODE SELECT ends the tool: FORMAT UNIT is not sent.            *)
ModeselModeSelect(p) ==
  /\ At(p, "modesel", "modesel")
  /\ \E o \in ModeSelect(Addr(p), ModeSelectLength(set_mode_sel_block_length(proc[p].size))) :
       /\ drive' = Update(Addr(p), o.drive)
       /\ IF ~Succeeded(o.reply) THEN Exit(p, 1)
          ELSE Become(p, [proc[p] EXCEPT !.pc = "countdown", !.left = ShortWait])
  /\ UNCHANGED <<inv, told>>

ModeselCountDown(p) ==
  /\ At(p, "modesel", "countdown")
  /\ CountDown(p)

ModeselFormat(p) ==
  /\ At(p, "modesel", "format")
  /\ FormatBlocking(p)

ModeselReturns(p) ==
  /\ At(p, "modesel", "blocked") \/ At(p, "modesel", "cut")
  /\ FormatReturns(p)

MegaModesel(p) ==
  \/ ModeselArgs(p) \/ ModeselOpen(p) \/ ModeselInquiry(p) \/ ModeselModeSelect(p)
  \/ ModeselCountDown(p) \/ ModeselFormat(p) \/ ModeselReturns(p)
=============================================================================
