----------------------------- MODULE MegaInquiry ----------------------------
(***************************************************************************)
(* mega_inquiry.c: one INQUIRY, built by hand rather than through          *)
(* send_cmd(), and an exit status that says whether a drive answered.      *)
(***************************************************************************)
EXTENDS ToolProcess

InquiryArgs(p) ==
  /\ At(p, "inquiry", "args")
  /\ TakeArguments(p, parse_target(inv[p].target), 0)

InquiryOpen(p) ==
  /\ At(p, "inquiry", "open")
  /\ OpenNode(p, "inquiry")

InquirySend(p) ==
  /\ At(p, "inquiry", "inquiry")
  /\ \E o \in Inquiry(Addr(p)) :
       LET found == o.reply.ioctl = 0 /\ o.reply.cmd_status = 0
       IN  /\ drive' = Update(Addr(p), o.drive)
           /\ Exit(p, IF found THEN 0 ELSE 1)
           /\ told' = [told EXCEPT ![p].identity = IF found THEN @ \cup {Addr(p)} ELSE @]
  /\ UNCHANGED inv

MegaInquiry(p) == InquiryArgs(p) \/ InquiryOpen(p) \/ InquirySend(p)
=============================================================================
