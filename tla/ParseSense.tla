------------------------------ MODULE ParseSense ----------------------------
(***************************************************************************)
(* One call of parse_sense() in mega_progress.c: the header, one iteration *)
(* of the descriptor walk at a time, and the gate at the end.  The drive   *)
(* chooses every byte.  Variables have the names of the function's locals  *)
(* and out parameters; reads collects the indices of sense[] it looked at. *)
(***************************************************************************)
EXTENDS DriveState

CONSTANTS
  Size,      \* how many bytes a sense buffer has; 96 in main()
  Buffers,   \* what those bytes can be
  Lengths    \* the values of len that callers pass

Byte     == {n \in Nat : n < 256}
Progress == {n \in Int : -1 <= n /\ n < 65536}   \* -1 if there is none

ASSUME BufferAssumption ==
  /\ Size \in Nat
  /\ Buffers \subseteq [0 .. Size - 1 -> Byte]
  /\ Lengths \subseteq 0 .. Size

VARIABLES sense, len, pc, i, end, prog, sense_key, asc, ascq, progress, rc, reads

args == <<sense, len>>
outs == <<sense_key, asc, ascq, progress>>
vars == <<args, pc, i, end, prog, outs, rc, reads>>

(* The caller zeroes the out parameters first.                             *)
Init ==
  /\ sense \in Buffers /\ len \in Lengths
  /\ pc = "header" /\ i = 0 /\ end = 0 /\ prog = -1
  /\ sense_key = 0 /\ asc = 0 /\ ascq = 0 /\ progress = -1
  /\ rc = 0 /\ reads = {}

-----------------------------------------------------------------------------
resp  == sense[0] % 128
Fixed      == resp \in {112, 113}   \* 0x70, 0x71
Descriptor == resp \in {114, 115}   \* 0x72, 0x73

(* A slip for the runs to catch: the sense key with the bits above it.     *)
KeyOf_Unmasked(b) == b
KeyOf(b)          == b % 16

(* The drive's own ADDITIONAL SENSE LENGTH, within the buffer.  A slip for *)
(* the runs to catch: the buffer alone.                                    *)
Valid_LenOnly == len
Valid == IF 8 + sense[7] > len THEN len ELSE 8 + sense[7]

SKSV(k) == sense[k] >= 128
Word(k) == sense[k] * 256 + sense[k + 1]

Fail ==
  /\ rc' = -1 /\ pc' = "done"
  /\ UNCHANGED <<args, i, end, prog, outs>>

TooShort ==
  /\ pc = "header" /\ len < 8
  /\ Fail /\ UNCHANGED reads

UnknownFormat ==
  /\ pc = "header" /\ len >= 8 /\ ~Fixed /\ ~Descriptor
  /\ Fail /\ reads' = {0}

FixedFormat ==
  /\ pc = "header" /\ len >= 8 /\ Fixed
  /\ sense_key' = KeyOf(sense[2])
  /\ asc'  = IF Valid > 12 THEN sense[12] ELSE 0
  /\ ascq' = IF Valid > 13 THEN sense[13] ELSE 0
  /\ prog' = IF Valid > 17 /\ SKSV(15) THEN Word(16) ELSE prog
  /\ reads' = {0, 2, 7} \cup {k \in {12, 13} : k < Valid}
                        \cup {k \in 15 .. 17 : Valid > 17 /\ (k = 15 \/ SKSV(15))}
  /\ pc' = "gate"
  /\ UNCHANGED <<args, i, end, progress, rc>>

DescriptorFormat ==
  /\ pc = "header" /\ len >= 8 /\ Descriptor
  /\ sense_key' = KeyOf(sense[1]) /\ asc' = sense[2] /\ ascq' = sense[3]
  /\ end' = Valid /\ i' = 8
  /\ reads' = {0, 1, 2, 3, 7}
  /\ pc' = "walk"
  /\ UNCHANGED <<args, prog, progress, rc>>

dlen_NoHeader(k) == sense[k + 1]   \* a slip for the runs to catch
(* The descriptor at index k: its length, and whether it carries progress. *)
dlen(k) == 2 + sense[k + 1]
SenseKeySpecific(k) == sense[k] = 2 /\ dlen(k) >= 7
AnotherProgress(k)  == sense[k] = 10 /\ dlen(k) >= 8

WalkEnds ==
  /\ pc = "walk"
  /\ \/ i + 1 >= end /\ UNCHANGED reads
     \/ i + 1 < end /\ i + dlen(i) > end /\ reads' = reads \cup {i + 1}
  /\ pc' = "gate"
  /\ UNCHANGED <<args, i, end, prog, outs, rc>>

(* 0x0A is the fallback.  A slip for the runs to catch: it overrides.      *)
Fallback_Overrides(k) == AnotherProgress(k)
Fallback(k)           == AnotherProgress(k) /\ prog < 0

WalkDescriptor ==
  /\ pc = "walk" /\ i + 1 < end /\ i + dlen(i) <= end
  /\ LET sks   == SenseKeySpecific(i) /\ SKSV(i + 4)
         other == ~sks /\ Fallback(i)
     IN  /\ prog' = IF sks THEN Word(i + 5) ELSE IF other THEN Word(i + 6) ELSE prog
         /\ reads' = reads \cup {i, i + 1} \cup {k \in {i + 4} : SenseKeySpecific(i)}
                           \cup {k \in {i + 5, i + 6} : sks} \cup {k \in {i + 6, i + 7} : other}
  /\ i' = i + dlen(i)
  /\ UNCHANGED <<args, pc, end, outs, rc>>

(* A slip for the runs to catch: progress whatever the sense key.          *)
ProgressKeys_Any == 0 .. 15
ProgressKeys     == {0, 2}

(* The bytes mean progress only for NO SENSE and NOT READY; for MEDIUM     *)
(* ERROR, for one, they are a retry count.                                 *)
Gate ==
  /\ pc = "gate"
  /\ progress' = IF prog >= 0 /\ sense_key \in ProgressKeys THEN prog ELSE progress
  /\ pc' = "done"
  /\ UNCHANGED <<args, i, end, prog, sense_key, asc, ascq, rc, reads>>

Returned == pc = "done" /\ UNCHANGED vars

Next ==
  \/ TooShort \/ UnknownFormat \/ FixedFormat \/ DescriptorFormat
  \/ WalkEnds \/ WalkDescriptor \/ Gate \/ Returned

Spec     == Init /\ [][Next]_vars
FairSpec == Spec /\ WF_vars(Next)

-----------------------------------------------------------------------------
TypeOK ==
  /\ sense \in Buffers /\ len \in Lengths
  /\ pc \in {"header", "walk", "gate", "done"}
  /\ i \in Nat /\ end \in Nat /\ prog \in Progress
  /\ sense_key \in 0 .. 15 /\ asc \in Byte /\ ascq \in Byte
  /\ progress \in Progress /\ rc \in {-1, 0} /\ reads \subseteq Nat

(* parse_sense never looks past the buffer it was given, nor, beyond the   *)
(* 8 byte header, past the length the drive reported, whatever the bytes   *)
(* and the descriptor lengths among them are.                              *)
ReadsWithinReport ==
  \A k \in reads : k < len /\ (k < 8 \/ k < 8 + sense[7])

(* The call returns, whatever the descriptors claim their lengths are.     *)
Terminates == <>(pc = "done")

-----------------------------------------------------------------------------
(***************************************************************************)
(* The reference: what sense data says, read off the buffer as a whole.    *)
(* The comments of the function say which fields count and that 0x0A is    *)
(* the fallback for 0x02; of several descriptors of one type the code      *)
(* takes the last 0x02 and the first 0x0A, and so does the reference.      *)
(***************************************************************************)

(* Where the descriptors that lie within the reported length start, from   *)
(* one that starts at k.                                                   *)
Fits(k) == k + 1 < Valid /\ k + dlen(k) <= Valid
from[k \in 8 .. len] == IF Fits(k) THEN {k} \cup from[k + dlen(k)] ELSE {}
Starts == from[8]

(* Of the descriptors at S, type 0x02 with SKSV wins.                      *)
Specific(S) == {k \in S : SenseKeySpecific(k) /\ SKSV(k + 4)}
Another(S)  == {k \in S : AnotherProgress(k)}
LastOf(S)   == CHOOSE k \in S : \A j \in S : j <= k
FirstOf(S)  == CHOOSE k \in S : \A j \in S : k <= j
ProgressOf(S) ==
  IF Specific(S) # {}     THEN Word(LastOf(Specific(S)) + 5)
  ELSE IF Another(S) # {} THEN Word(FirstOf(Another(S)) + 6)
  ELSE -1

RefProgress ==
  IF Fixed THEN IF Valid > 17 /\ SKSV(15) THEN Word(16) ELSE -1
  ELSE ProgressOf(Starts)

(* The walk finds the progress indication the reference does: a 0x0A       *)
(* descriptor never hides a 0x02 one, on whichever side of it it is.       *)
ProgressFromTheRightDescriptor ==
  pc = "done" /\ rc = 0 /\ sense_key \in {0, 2} => progress = RefProgress

(* Sense data that says, in any of the ways there are, that the drive is   *)
(* at work is not taken for an idle drive's.                               *)
Key     == IF Fixed THEN sense[2] % 16 ELSE sense[1] % 16
Says0404 ==
  IF Fixed THEN Valid > 13 /\ sense[12] = 4 /\ sense[13] = 4
  ELSE sense[2] = 4 /\ sense[3] = 4
SaysBusy == Key = 2 \/ Says0404 \/ (Key = 0 /\ RefProgress >= 0)

BusyIsNeverIdle ==
  pc = "done" /\ rc = 0 /\ SaysBusy =>
    classify([key |-> sense_key, asc |-> asc, ascq |-> ascq, progress |-> progress]) # "IDLE"

(* Nor is work imagined where the drive is idle: a retry count, a field    *)
(* pointer, or an old 04/04 or progress behind the reported length, would  *)
(* keep the watch of a finished format polling for ever.                   *)
WorkIsNeverImagined ==
  pc = "done" /\ rc = 0 /\ ~SaysBusy /\ Key # 6 =>
    classify([key |-> sense_key, asc |-> asc, ascq |-> ascq, progress |-> progress]) = "IDLE"
=============================================================================
