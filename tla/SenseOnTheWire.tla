---------------------------- MODULE SenseOnTheWire --------------------------
(***************************************************************************)
(* MegaProgress has drives answer REQUEST SENSE with decoded records, and  *)
(* ParseSense decodes bytes.  This joins the two: how a drive may put each *)
(* of those records on the wire, in fixed and in descriptor format, and    *)
(* that parse_sense() makes the same record of it again.                   *)
(***************************************************************************)
EXTENDS ParseSense, Sequences

(* A sequence of bytes as a C array, zero beyond its end.                  *)
Array(s) == [k \in 0 .. Size - 1 |-> IF k < Len(s) THEN s[k + 1] ELSE 0]

(* What the drives of Controller answer, whatever they are doing.          *)
HasDrive(d) == INSTANCE Controller WITH
                 drive <- [a \in {<<0, 4>>} |-> d],
                 Drives <- {<<0, 4>>}, Slow <- {}, Accessible <- {<<0, 4>>},
                 Flaky <- FALSE, IntMax <- 536870911, LongMax <- 1073741823

Answers ==
  UNION {HasDrive([medium |-> m, page |-> 512, job |-> j, ua |-> u])!SenseOf(<<0, 4>>) :
           m \in {0, 512}, j \in {"none", "immed", "blocking", "spinup"}, u \in BOOLEAN}

(* The sense key specific bytes: SKSV and the progress, an actual retry    *)
(* count under MEDIUM ERROR, or, without SKSV, anything.                   *)
SpecificBytes(r) ==
  IF r.progress >= 0 THEN <<128, r.progress \div 256, r.progress % 256>>
  ELSE IF r.key = 3 THEN <<128, 0, 5>> ELSE <<0, 9, 9>>

(* Fixed format, with and without the VALID bit; a drive with nothing to   *)
(* say after the header can cut off stale bytes by the length it reports.  *)
FixedWire(r) ==
  {Array(<<x, 0, r.key, 0, 0, 0, 0, 10, 0, 0, 0, 0, r.asc, r.ascq, 0>> \o SpecificBytes(r)) :
     x \in {112, 240}}
  \cup {Array(<<112, 0, r.key, 0, 0, 0, 0, n, 0, 0, 0, 0, 4, 4, 0, 128, 64, 1>>) :
          n \in {m \in {0, 4} : r.asc = 0 /\ r.ascq = 0 /\ r.progress = -1}}

(* Descriptor format: progress as a sense key specific descriptor, behind  *)
(* an information descriptor or not, or as "another progress indication".  *)
Information == <<0, 10, 128, 0, 0, 0, 0, 0, 0, 0, 0, 7>>
SpecificDescriptor(r) == <<2, 6, 0, 0>> \o SpecificBytes(r) \o <<0>>
AnotherDescriptor(r) == <<10, 6, 0, 0, 0, 0, r.progress \div 256, r.progress % 256>>

DescriptorWire(r) ==
  {Array(<<114, r.key, r.asc, r.ascq, 0, 0, 0, Len(s)>> \o s) :
     s \in {SpecificDescriptor(r), Information \o SpecificDescriptor(r)}
           \cup IF r.progress >= 0 THEN {AnotherDescriptor(r), Information \o AnotherDescriptor(r)} ELSE {<<>>}}

Wire == [r \in Answers |-> FixedWire(r) \cup DescriptorWire(r)]

(* parse_sense gives back what the drive meant, in whichever format it was *)
(* sent: the records mega_progress is modelled with are the ones it gets.  *)
DecodesAsMeant ==
  pc = "done" /\ len = Size => \A r \in Answers :
    sense \in Wire[r] =>
      rc = 0 /\ sense_key = r.key /\ asc = r.asc /\ ascq = r.ascq /\ progress = r.progress
=============================================================================
