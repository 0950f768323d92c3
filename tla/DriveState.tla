-------------------------------- MODULE DriveState -----------------------------
(***************************************************************************)
(* What mega_progress.c makes of decoded sense data: the state it takes    *)
(* the drive to be in.                                                     *)
(***************************************************************************)
EXTENDS Integers

(* The pair 04/04, FORMAT IN PROGRESS, whatever the sense key.  A slip for *)
(* the runs to catch: only with NOT READY.                                 *)
InFormat_NotReady(s) == s.key = 2 /\ s.asc = 4 /\ s.ascq = 4
InFormat(s) == s.asc = 4 /\ s.ascq = 4

(* A progress indication.  Slips for the runs to catch: ignored; its       *)
(* absence, -1, taken for one.                                             *)
HasProgress_Never(s)  == FALSE
HasProgress_Absent(s) == s.progress >= -1
HasProgress(s) == s.progress >= 0

classify(s) ==
  IF InFormat(s)         THEN "FORMATTING"
  ELSE IF s.key = 2      THEN "NOT_READY"
  ELSE IF HasProgress(s) THEN "BACKGROUND_OP"
  ELSE IF s.key = 6      THEN "UNIT_ATTENTION"
  ELSE "IDLE"
=============================================================================
