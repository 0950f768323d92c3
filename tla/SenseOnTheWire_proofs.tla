------------------------ MODULE SenseOnTheWire_proofs -----------------------
(***************************************************************************)
(* parse_sense() gives back every record that can be put on the wire, in   *)
(* every one of its encodings: not only those the modelled drives answer.  *)
(***************************************************************************)
EXTENDS SenseOnTheWire, ParseSense_proofs, SequenceTheorems

USE DEF Byte, Progress

(* The longest encoding fits the buffer; main() has 96 bytes.              *)
RoomForAll == Size >= 28

(* What sense data can say: only NO SENSE and NOT READY have a progress    *)
(* indication.                                                             *)
Sayable(r) ==
  /\ r.key \in 0 .. 15 /\ r.asc \in Byte /\ r.ascq \in Byte /\ r.progress \in Progress
  /\ r.progress >= 0 => r.key \in {0, 2}

LEMMA AnswersSayable ==
  ASSUME NEW r \in Answers
  PROVE  Sayable(r)
  <1>1. PICK m \in {0, 512}, j \in {"none", "immed", "blocking", "spinup"}, u \in BOOLEAN :
          r \in HasDrive([medium |-> m, page |-> 512, job |-> j, ua |-> u])!SenseOf(<<0, 4>>)
    BY DEF Answers
  <1> DEFINE d == [medium |-> m, page |-> 512, job |-> j, ua |-> u]
  <1>2. \A k, a, q, g : HasDrive(d)!Sense(k, a, q, g)
                          = [decoded |-> TRUE, key |-> k, asc |-> a, ascq |-> q, progress |-> g]
    BY DEF HasDrive!Sense
  <1>3. r \in HasDrive(d)!FormatSense(<<0, 4>>) \cup HasDrive(d)!IdleSense(d)
              \cup {HasDrive(d)!Sense(6, 41, 0, -1), HasDrive(d)!Sense(2, 4, 1, -1)}
    BY <1>1 DEF HasDrive!SenseOf
  <1>4. PICK k \in {0, 1, 2, 3, 6}, a \in {0, 4, 17, 41}, q \in {0, 1, 4}, g \in {-1, 32768} :
          /\ r = HasDrive(d)!Sense(k, a, q, g)
          /\ g = 32768 => k \in {0, 2}
    BY <1>3 DEF HasDrive!FormatSense, HasDrive!IdleSense
  <1>5. r = [decoded |-> TRUE, key |-> k, asc |-> a, ascq |-> q, progress |-> g]
    BY <1>2, <1>4
  <1> HIDE DEF d
  <1>6. r.key = k /\ r.asc = a /\ r.ascq = q /\ r.progress = g
    BY <1>5
  <1> QED
    BY <1>4, <1>6 DEF Sayable

-----------------------------------------------------------------------------
(***************************************************************************)
(* Arrays of bytes.                                                        *)
(***************************************************************************)
LEMMA ArrayAt ==
  ASSUME NEW c \in Seq(Int), Size \in Nat, Len(c) <= Size, sense = Array(c)
  PROVE  \A k \in 1 .. Len(c) : sense[k - 1] = c[k]
  <1> SUFFICES ASSUME NEW k \in 1 .. Len(c) PROVE sense[k - 1] = c[k]
    OBVIOUS
  <1>1. k - 1 \in 0 .. Size - 1 /\ k - 1 < Len(c) /\ k - 1 + 1 = k
    OBVIOUS
  <1> QED
    BY <1>1 DEF Array

LEMMA Joined ==
  ASSUME NEW h \in Seq(Int), NEW s \in Seq(Int)
  PROVE  /\ h \o s \in Seq(Int) /\ Len(h \o s) = Len(h) + Len(s)
         /\ \A k \in 1 .. Len(h) : (h \o s)[k] = h[k]
         /\ \A k \in 1 .. Len(s) : (h \o s)[Len(h) + k] = s[k]
  <1>1. PICK m \in Nat, n \in Nat : m = Len(h) /\ n = Len(s)
    OBVIOUS
  <1>2. PICK c : c = h \o s
    OBVIOUS
  <1>3. /\ c \in Seq(Int) /\ Len(c) = m + n
        /\ \A k \in 1 .. m + n : c[k] = IF k <= m THEN h[k] ELSE s[k - m]
    BY <1>1, <1>2, ConcatProperties
  <1>4. ASSUME NEW k \in 1 .. m PROVE c[k] = h[k]
    <2>1. k \in 1 .. m + n /\ k <= m
      OBVIOUS
    <2> QED
      BY <1>3, <2>1
  <1>5. ASSUME NEW k \in 1 .. n PROVE c[m + k] = s[k]
    <2>1. m + k \in 1 .. m + n /\ ~(m + k <= m) /\ (m + k) - m = k
      OBVIOUS
    <2> QED
      BY <1>3, <2>1
  <1> QED
    BY <1>1, <1>2, <1>3, <1>4, <1>5, Zenon

(* The bytes of a header and of what follows it.                           *)
LEMMA Behind ==
  ASSUME NEW h \in Seq(Int), NEW s \in Seq(Int),
         Size \in Nat, Len(h) + Len(s) <= Size, sense = Array(h \o s)
  PROVE  /\ \A k \in 1 .. Len(h) : sense[k - 1] = h[k]
         /\ \A k \in 1 .. Len(s) : sense[Len(h) - 1 + k] = s[k]
  <1>1. PICK m \in Nat, n \in Nat : m = Len(h) /\ n = Len(s)
    OBVIOUS
  <1>2. PICK w : w = h \o s
    OBVIOUS
  <1>3. /\ w \in Seq(Int) /\ Len(w) = m + n
        /\ \A k \in 1 .. m : w[k] = h[k]
        /\ \A k \in 1 .. n : w[m + k] = s[k]
    BY <1>1, <1>2, Joined
  <1>4. \A k \in 1 .. m + n : sense[k - 1] = w[k]
    <2>1. sense = Array(w) /\ Len(w) <= Size
      BY <1>1, <1>2, <1>3
    <2> QED
      BY <1>3, <2>1, ArrayAt
  <1>5. ASSUME NEW k \in 1 .. m PROVE sense[k - 1] = h[k]
    <2>1. k \in 1 .. m + n
      OBVIOUS
    <2> QED
      BY <1>3, <1>4, <2>1
  <1>6. ASSUME NEW k \in 1 .. n PROVE sense[m - 1 + k] = s[k]
    <2>1. m + k \in 1 .. m + n /\ m + k - 1 = m - 1 + k
      OBVIOUS
    <2>2. sense[m + k - 1] = w[m + k]
      BY <1>4, <2>1
    <2> QED
      BY <1>3, <2>1, <2>2
  <1> QED
    BY <1>1, <1>5, <1>6, Zenon

LEMMA BehindEight ==
  ASSUME NEW h \in Seq(Int), NEW s \in Seq(Int), NEW n \in Nat,
         Size \in Nat, sense = Array(h \o s), Len(h) = 8, Len(s) = n, 8 + n <= Size
  PROVE  /\ sense[0] = h[1] /\ sense[1] = h[2] /\ sense[2] = h[3] /\ sense[3] = h[4]
         /\ sense[7] = h[8]
         /\ \A k \in 1 .. n : sense[7 + k] = s[k]
  <1>1. /\ \A k \in 1 .. Len(h) : sense[k - 1] = h[k]
        /\ \A k \in 1 .. Len(s) : sense[Len(h) - 1 + k] = s[k]
    <2>1. Len(h) + Len(s) <= Size
      OBVIOUS
    <2> QED
      BY <2>1, Behind, Zenon
  <1>2. PICK m \in Nat : m = 8 /\ m = Len(h)
    OBVIOUS
  <1>3. /\ \A k \in 1 .. m : sense[k - 1] = h[k]
        /\ \A k \in 1 .. n : sense[m - 1 + k] = s[k]
    BY <1>1, <1>2, Zenon
  <1> QED
    BY <1>2, <1>3

LEMMA BehindFifteen ==
  ASSUME NEW h \in Seq(Int), NEW s \in Seq(Int),
         Size \in Nat, sense = Array(h \o s), Len(h) = 15, Len(s) = 3, 18 <= Size
  PROVE  /\ sense[0] = h[1] /\ sense[2] = h[3] /\ sense[7] = h[8]
         /\ sense[12] = h[13] /\ sense[13] = h[14]
         /\ sense[15] = s[1] /\ sense[16] = s[2] /\ sense[17] = s[3]
  <1>1. /\ \A k \in 1 .. Len(h) : sense[k - 1] = h[k]
        /\ \A k \in 1 .. Len(s) : sense[Len(h) - 1 + k] = s[k]
    <2>1. Len(h) + Len(s) <= Size
      OBVIOUS
    <2> QED
      BY <2>1, Behind, Zenon
  <1>2. /\ \A k \in {1, 3, 8, 13, 14} : k \in 1 .. Len(h)
        /\ \A k \in {1, 2, 3} : k \in 1 .. Len(s) /\ Len(h) - 1 + k = 14 + k
    OBVIOUS
  <1>3. \A k \in {1, 3, 8, 13, 14} : sense[k - 1] = h[k]
    BY <1>1, <1>2, Zenon
  <1>4. \A k \in {1, 2, 3} : sense[14 + k] = s[k]
    BY <1>1, <1>2, Zenon
  <1> QED
    BY <1>3, <1>4

(* The sense key specific bytes say what the record says.                  *)
LEMMA SpecificRead ==
  ASSUME NEW r, Sayable(r)
  PROVE  \E a, b, c \in Byte :
           /\ SpecificBytes(r) = <<a, b, c>>
           /\ r.progress >= 0 => a = 128 /\ b * 256 + c = r.progress
           /\ r.progress = -1 /\ r.key # 3 => a = 0
  <1>1. CASE r.progress >= 0
    <2> DEFINE b == r.progress \div 256
               c == r.progress % 256
    <2>1. b \in Byte /\ c \in Byte /\ b * 256 + c = r.progress
      BY <1>1 DEF Sayable
    <2> HIDE DEF b, c
    <2>2. SpecificBytes(r) = <<128, b, c>>
      BY <1>1 DEF SpecificBytes, b, c
    <2> QED
      BY <1>1, <2>1, <2>2
  <1>2. CASE r.progress = -1 /\ r.key = 3
    <2>1. SpecificBytes(r) = <<128, 0, 5>>
      BY <1>2 DEF SpecificBytes
    <2> QED
      BY <1>2, <2>1
  <1>3. CASE r.progress = -1 /\ r.key # 3
    <2>1. SpecificBytes(r) = <<0, 9, 9>>
      BY <1>3 DEF SpecificBytes
    <2> QED
      BY <1>3, <2>1
  <1> QED
    BY <1>1, <1>2, <1>3 DEF Sayable

-----------------------------------------------------------------------------
(***************************************************************************)
(* What is on the wire says what the record says.                          *)
(***************************************************************************)
Says(r) ==
  /\ Fixed \/ Descriptor
  /\ Key = r.key
  /\ r.asc  = IF ~Fixed THEN sense[2] ELSE IF Valid > 12 THEN sense[12] ELSE 0
  /\ r.ascq = IF ~Fixed THEN sense[3] ELSE IF Valid > 13 THEN sense[13] ELSE 0
  /\ r.key \in {0, 2} => RefProgress = r.progress

LEMMA FixedSays ==
  ASSUME RoomForAll, Size \in Nat, len = Size, NEW r, Sayable(r), sense \in FixedWire(r)
  PROVE  Says(r)
  <1>1. CASE \E x \in {112, 240} :
               sense = Array(<<x, 0, r.key, 0, 0, 0, 0, 10, 0, 0, 0, 0, r.asc, r.ascq, 0>> \o SpecificBytes(r))
    <2>1. PICK x \in {112, 240} :
            sense = Array(<<x, 0, r.key, 0, 0, 0, 0, 10, 0, 0, 0, 0, r.asc, r.ascq, 0>> \o SpecificBytes(r))
      BY <1>1
    <2>2. PICK a, b, c \in Byte :
            /\ SpecificBytes(r) = <<a, b, c>>
            /\ r.progress >= 0 => a = 128 /\ b * 256 + c = r.progress
            /\ r.progress = -1 /\ r.key # 3 => a = 0
      BY SpecificRead
    <2>3. PICK h, s : /\ h = <<x, 0, r.key, 0, 0, 0, 0, 10, 0, 0, 0, 0, r.asc, r.ascq, 0>>
                      /\ s = <<a, b, c>>
      OBVIOUS
    <2>4. /\ h \in Seq(Int) /\ Len(h) = 15 /\ h[1] = x /\ h[3] = r.key /\ h[8] = 10
          /\ h[13] = r.asc /\ h[14] = r.ascq
      BY <2>1, <2>3 DEF Sayable
    <2>5. s \in Seq(Int) /\ Len(s) = 3 /\ s[1] = a /\ s[2] = b /\ s[3] = c
      BY <2>3
    <2>6. sense = Array(h \o s) /\ 18 <= Size
      BY <2>1, <2>2, <2>3 DEF RoomForAll
    <2>7. /\ sense[0] = h[1] /\ sense[2] = h[3] /\ sense[7] = h[8]
          /\ sense[12] = h[13] /\ sense[13] = h[14]
          /\ sense[15] = s[1] /\ sense[16] = s[2] /\ sense[17] = s[3]
      BY <2>4, <2>5, <2>6, BehindFifteen
    <2>8. /\ sense[0] = x /\ sense[2] = r.key /\ sense[7] = 10 /\ sense[12] = r.asc
          /\ sense[13] = r.ascq /\ sense[15] = a /\ sense[16] = b /\ sense[17] = c
      BY <2>4, <2>5, <2>7
    <2>9. Fixed /\ Valid = 18 /\ Key = r.key
      BY <2>1, <2>8 DEF Fixed, resp, Valid, Key, RoomForAll, Sayable
    <2>10. r.key \in {0, 2} => RefProgress = r.progress
      BY <2>2, <2>8, <2>9 DEF RefProgress, SKSV, Word, Sayable
    <2> QED
      BY <2>8, <2>9, <2>10 DEF Says
  <1>2. CASE \E n \in {0, 4} :
               /\ r.asc = 0 /\ r.ascq = 0 /\ r.progress = -1
               /\ sense = Array(<<112, 0, r.key, 0, 0, 0, 0, n, 0, 0, 0, 0, 4, 4, 0, 128, 64, 1>>)
    <2>1. PICK n \in {0, 4} :
            /\ r.asc = 0 /\ r.ascq = 0 /\ r.progress = -1
            /\ sense = Array(<<112, 0, r.key, 0, 0, 0, 0, n, 0, 0, 0, 0, 4, 4, 0, 128, 64, 1>>)
      BY <1>2
    <2>2. PICK s : s = <<112, 0, r.key, 0, 0, 0, 0, n, 0, 0, 0, 0, 4, 4, 0, 128, 64, 1>>
      OBVIOUS
    <2>3. s \in Seq(Int) /\ Len(s) = 18 /\ s[1] = 112 /\ s[3] = r.key /\ s[8] = n
      BY <2>1, <2>2 DEF Sayable
    <2>4. sense[0] = 112 /\ sense[2] = r.key /\ sense[7] = n
      <3>1. sense = Array(s) /\ Len(s) <= Size
        BY <2>1, <2>2, <2>3 DEF RoomForAll
      <3>2. \A k \in 1 .. 18 : sense[k - 1] = s[k]
        BY <2>3, <3>1, ArrayAt
      <3> QED
        BY <2>3, <3>2
    <2>5. Fixed /\ Valid = 8 + n /\ Key = r.key
      BY <2>1, <2>4 DEF Fixed, resp, Valid, Key, RoomForAll, Sayable
    <2>6. RefProgress = r.progress
      BY <2>1, <2>5 DEF RefProgress
    <2> QED
      BY <2>1, <2>5, <2>6 DEF Says
  <1> QED
    BY <1>1, <1>2 DEF FixedWire

-----------------------------------------------------------------------------
(***************************************************************************)
(* Descriptor format: what comes behind the header.                        *)
(***************************************************************************)
LEMMA DescriptorHeader ==
  ASSUME RoomForAll, Size \in Nat, len = Size, NEW r, Sayable(r),
         NEW s \in Seq(Int), Len(s) \in {0, 8, 20},
         sense = Array(<<114, r.key, r.asc, r.ascq, 0, 0, 0, Len(s)>> \o s)
  PROVE  /\ Descriptor /\ ~Fixed /\ Key = r.key /\ sense[2] = r.asc /\ sense[3] = r.ascq
         /\ Valid = 8 + Len(s)
         /\ \A k \in 1 .. Len(s) : sense[7 + k] = s[k]
  <1>1. PICK h, n : /\ h = <<114, r.key, r.asc, r.ascq, 0, 0, 0, Len(s)>>
                    /\ n = Len(s)
    OBVIOUS
  <1>2. n \in Nat
    BY <1>1
  <1>3. /\ h \in Seq(Int) /\ Len(h) = 8 /\ h[1] = 114 /\ h[2] = r.key /\ h[3] = r.asc
        /\ h[4] = r.ascq /\ h[8] = n
    <2>1. r.key \in Int /\ r.asc \in Int /\ r.ascq \in Int
      BY DEF Sayable
    <2>2. h = <<114, r.key, r.asc, r.ascq, 0, 0, 0, n>>
      BY <1>1
    <2> QED
      BY <1>2, <2>1, <2>2
  <1>4. sense = Array(h \o s) /\ Len(s) = n /\ 8 + n <= Size
    <2>1. n \in {0, 8, 20}
      BY <1>1, Zenon
    <2>2. 8 + n <= Size
      BY <2>1 DEF RoomForAll
    <2> QED
      BY <1>1, <2>2, Zenon
  <1>5. /\ sense[0] = h[1] /\ sense[1] = h[2] /\ sense[2] = h[3] /\ sense[3] = h[4]
        /\ sense[7] = h[8]
        /\ \A k \in 1 .. n : sense[7 + k] = s[k]
    BY <1>2, <1>3, <1>4, BehindEight, ZenonT(60)
  <1>6. /\ sense[0] = 114 /\ sense[1] = r.key /\ sense[2] = r.asc /\ sense[3] = r.ascq
        /\ sense[7] = n
    BY <1>3, <1>5
  <1>7. ~Fixed /\ Descriptor /\ Key = r.key /\ Valid = 8 + n
    <2>4. n \in {0, 8, 20}
      BY <1>1, Zenon
    <2>1. n \in {0, 8, 20} /\ r.key \in 0 .. 15 /\ len \in Nat /\ len >= 28
      BY <2>4 DEF Sayable, RoomForAll
    <2>2. ~Fixed /\ Descriptor
      BY <1>6 DEF Fixed, Descriptor, resp
    <2>3. Key = r.key
      BY <1>6, <2>1, <2>2 DEF Key
    <2> QED
      BY <1>2, <1>6, <2>1, <2>2, <2>3 DEF Valid
  <1> QED
    BY <1>1, <1>5, <1>6, <1>7

(* The two descriptors with a progress indication, and one behind another. *)
LEMMA SpecificAt ==
  ASSUME NEW r, Sayable(r)
  PROVE  LET s == SpecificDescriptor(r)
         IN  /\ s \in Seq(Int) /\ Len(s) = 8 /\ s[1] = 2 /\ s[2] = 6
             /\ s[5] \in Byte /\ s[6] \in Byte /\ s[7] \in Byte
             /\ r.progress >= 0 => s[5] = 128 /\ s[6] * 256 + s[7] = r.progress
             /\ r.progress = -1 /\ r.key # 3 => s[5] = 0
  <1>1. PICK a, b, c \in Byte :
          /\ SpecificBytes(r) = <<a, b, c>>
          /\ r.progress >= 0 => a = 128 /\ b * 256 + c = r.progress
          /\ r.progress = -1 /\ r.key # 3 => a = 0
    BY SpecificRead
  <1>2. PICK u, v, z : u = <<2, 6, 0, 0>> /\ v = <<a, b, c>> /\ z = <<0>>
    OBVIOUS
  <1>3. /\ u \in Seq(Int) /\ Len(u) = 4 /\ u[1] = 2 /\ u[2] = 6
        /\ v \in Seq(Int) /\ Len(v) = 3 /\ v[1] = a /\ v[2] = b /\ v[3] = c
        /\ z \in Seq(Int) /\ Len(z) = 1
    BY <1>2
  <1>4. PICK w, s : w = u \o v /\ s = w \o z
    OBVIOUS
  <1>5. /\ w \in Seq(Int) /\ Len(w) = 7 /\ w[1] = 2 /\ w[2] = 6
        /\ w[5] = a /\ w[6] = b /\ w[7] = c
    <2>1. /\ w \in Seq(Int) /\ Len(w) = Len(u) + Len(v)
          /\ \A k \in 1 .. Len(u) : w[k] = u[k]
          /\ \A k \in 1 .. Len(v) : w[Len(u) + k] = v[k]
      BY <1>3, <1>4, Joined, ZenonT(60)
    <2> QED
      BY <1>3, <2>1
  <1>6. /\ s \in Seq(Int) /\ Len(s) = 8 /\ \A k \in 1 .. 7 : s[k] = w[k]
    <2>1. /\ s \in Seq(Int) /\ Len(s) = Len(w) + Len(z)
          /\ \A k \in 1 .. Len(w) : s[k] = w[k]
      BY <1>3, <1>4, <1>5, Joined, ZenonT(60)
    <2> QED
      BY <1>3, <1>5, <2>1
  <1>7. SpecificDescriptor(r) = s
    BY <1>1, <1>2, <1>4 DEF SpecificDescriptor
  <1>8. s[1] = 2 /\ s[2] = 6 /\ s[5] = a /\ s[6] = b /\ s[7] = c
    BY <1>5, <1>6
  <1> QED
    BY <1>1, <1>6, <1>7, <1>8

LEMMA AnotherAt ==
  ASSUME NEW r, Sayable(r), r.progress >= 0
  PROVE  LET s == AnotherDescriptor(r)
         IN  /\ s \in Seq(Int) /\ Len(s) = 8 /\ s[1] = 10 /\ s[2] = 6
             /\ s[7] \in Byte /\ s[8] \in Byte
             /\ s[7] * 256 + s[8] = r.progress
  <1>1. PICK b, c : b = r.progress \div 256 /\ c = r.progress % 256
    OBVIOUS
  <1>2. b \in Byte /\ c \in Byte /\ b * 256 + c = r.progress
    BY <1>1 DEF Sayable
  <1>3. PICK s : s = <<10, 6, 0, 0, 0, 0, b, c>>
    OBVIOUS
  <1>4. s \in Seq(Int) /\ Len(s) = 8 /\ s[1] = 10 /\ s[2] = 6 /\ s[7] = b /\ s[8] = c
    BY <1>2, <1>3
  <1>5. AnotherDescriptor(r) = s
    BY <1>1, <1>3 DEF AnotherDescriptor
  <1> QED
    BY <1>2, <1>4, <1>5

LEMMA BehindInformation ==
  ASSUME NEW t \in Seq(Int), Len(t) = 8
  PROVE  LET s == Information \o t
         IN  /\ s \in Seq(Int) /\ Len(s) = 20 /\ s[1] = 0 /\ s[2] = 10
             /\ \A k \in 1 .. 8 : s[12 + k] = t[k]
  <1>1. PICK h : h = <<0, 10, 128, 0, 0, 0, 0, 0, 0, 0, 0, 7>>
    OBVIOUS
  <1>2. h \in Seq(Int) /\ Len(h) = 12 /\ h[1] = 0 /\ h[2] = 10
    BY <1>1
  <1>3. Information \o t = h \o t
    BY <1>1 DEF Information
  <1>4. PICK s : s = h \o t
    OBVIOUS
  <1>5. /\ s \in Seq(Int) /\ Len(s) = Len(h) + Len(t)
        /\ \A k \in 1 .. Len(h) : s[k] = h[k]
        /\ \A k \in 1 .. Len(t) : s[Len(h) + k] = t[k]
    BY <1>2, <1>4, Joined, Zenon
  <1>6. /\ s \in Seq(Int) /\ Len(s) = 20 /\ s[1] = 0 /\ s[2] = 10
        /\ \A k \in 1 .. 8 : s[12 + k] = t[k]
    BY <1>2, <1>5
  <1> QED
    BY <1>3, <1>4, <1>6

-----------------------------------------------------------------------------
(***************************************************************************)
(* Descriptor format: where the descriptors start, and what they say.      *)
(***************************************************************************)
LEMMA LastPlace ==
  ASSUME TypeOK, len >= 8, NEW k \in 8 .. len, k + 1 < Valid, k + dlen(k) = Valid
  PROVE  from[k] = {k}
  <1>1. len \in Nat /\ Valid \in 8 .. len /\ Fits(k)
    BY Bytes DEF Fits
  <1>2. ~Fits(Valid)
    BY <1>1 DEF Fits
  <1>3. from[k] = {k} \cup from[Valid]
    BY <1>1, FromUnfolds
  <1>4. from[Valid] = {}
    BY <1>1, <1>2, FromUnfolds
  <1> QED
    BY <1>3, <1>4

(* The descriptor that carries progress is the last one; those before it,  *)
(* V, carry none.                                                          *)
LEMMA LastSays ==
  ASSUME NEW V \in SUBSET Nat, NEW n \in Nat, \A k \in V : k < n,
         Specific(V) = {}, Another(V) = {}, NEW g \in Progress,
         \/ sense[n] = 2 /\ dlen(n) = 8 /\ sense[n + 4] \in Byte
            /\ (g >= 0 => sense[n + 4] = 128 /\ sense[n + 5] * 256 + sense[n + 6] = g)
            /\ (g = -1 => sense[n + 4] = 0)
         \/ sense[n] = 10 /\ dlen(n) = 8 /\ g >= 0
            /\ sense[n + 6] * 256 + sense[n + 7] = g
  PROVE  ProgressOf(V \cup {n}) = g
  <1> DEFINE sks   == SenseKeySpecific(n) /\ SKSV(n + 4)
             other == ~sks /\ AnotherProgress(n) /\ ~Carries(V)
  <1>1. ~Carries(V) /\ HasFirst(Another(V)) /\ ProgressOf(V) = -1
    BY DEF Carries, HasFirst, ProgressOf
  <1>2. ProgressOf(V \cup {n}) = IF sks THEN Word(n + 5) ELSE IF other THEN Word(n + 6) ELSE -1
    BY <1>1, OneMore
  <1>3. CASE sense[n] = 2
    BY <1>2, <1>3 DEF SenseKeySpecific, AnotherProgress, SKSV, Word
  <1>4. CASE sense[n] = 10
    BY <1>1, <1>2, <1>4 DEF SenseKeySpecific, AnotherProgress, SKSV, Word
  <1> QED
    BY <1>3, <1>4

LEMMA SpecificSays ==
  ASSUME NEW V \in SUBSET Nat, NEW n \in Nat, \A k \in V : k < n,
         Specific(V) = {}, Another(V) = {}, NEW r, Sayable(r), r.key \in {0, 2},
         \A k \in 1 .. 8 : sense[n - 1 + k] = SpecificDescriptor(r)[k]
  PROVE  dlen(n) = 8 /\ ProgressOf(V \cup {n}) = r.progress
  <1>1. PICK s : s = SpecificDescriptor(r)
    OBVIOUS
  <1>2. /\ s[1] = 2 /\ s[2] = 6 /\ s[5] \in Byte /\ s[6] \in Byte /\ s[7] \in Byte
        /\ r.progress >= 0 => s[5] = 128 /\ s[6] * 256 + s[7] = r.progress
        /\ r.progress = -1 => s[5] = 0
    <2>1. /\ s[1] = 2 /\ s[2] = 6 /\ s[5] \in Byte /\ s[6] \in Byte /\ s[7] \in Byte
          /\ r.progress >= 0 => s[5] = 128 /\ s[6] * 256 + s[7] = r.progress
          /\ r.progress = -1 /\ r.key # 3 => s[5] = 0
      BY <1>1, SpecificAt, ZenonT(60)
    <2>2. r.key # 3
      OBVIOUS
    <2> QED
      BY <2>1, <2>2, Zenon
  <1>3. \A k \in 1 .. 8 : sense[n - 1 + k] = s[k]
    BY <1>1
  <1>4. /\ sense[n] = s[1] /\ sense[n + 1] = s[2] /\ sense[n + 4] = s[5]
        /\ sense[n + 5] = s[6] /\ sense[n + 6] = s[7]
    BY <1>3
  <1>5. dlen(n) = 8 /\ r.progress \in Progress
    BY <1>2, <1>4 DEF dlen, Sayable
  <1> QED
    BY <1>2, <1>4, <1>5, LastSays

LEMMA AnotherSays ==
  ASSUME NEW V \in SUBSET Nat, NEW n \in Nat, \A k \in V : k < n,
         Specific(V) = {}, Another(V) = {}, NEW r, Sayable(r), r.progress >= 0,
         \A k \in 1 .. 8 : sense[n - 1 + k] = AnotherDescriptor(r)[k]
  PROVE  dlen(n) = 8 /\ ProgressOf(V \cup {n}) = r.progress
  <1>1. PICK s : s = AnotherDescriptor(r)
    OBVIOUS
  <1>2. /\ s[1] = 10 /\ s[2] = 6 /\ s[7] \in Byte /\ s[8] \in Byte
        /\ s[7] * 256 + s[8] = r.progress
    BY <1>1, AnotherAt
  <1>3. \A k \in 1 .. 8 : sense[n - 1 + k] = s[k]
    BY <1>1
  <1>4. /\ sense[n] = s[1] /\ sense[n + 1] = s[2] /\ sense[n + 6] = s[7] /\ sense[n + 7] = s[8]
    BY <1>3
  <1>5. dlen(n) = 8 /\ r.progress \in Progress
    BY <1>2, <1>4 DEF dlen, Sayable
  <1> QED
    BY <1>2, <1>4, <1>5, LastSays

(* One descriptor of eight bytes, or one behind the information descriptor. *)
LEMMA OneDescriptor ==
  ASSUME TypeOK, len >= 8, Valid = 16, dlen(8) = 8
  PROVE  Starts = {} \cup {8}
  <1>1. len \in Nat /\ Valid <= len
    BY Bytes
  <1> QED
    BY <1>1, LastPlace DEF Starts

LEMMA TwoDescriptors ==
  ASSUME TypeOK, len >= 8, Valid = 28, sense[8] = 0, sense[9] = 10
  PROVE  /\ Specific({8}) = {} /\ Another({8}) = {}
         /\ dlen(20) = 8 => Starts = {8} \cup {20}
  <1>1. len \in Nat /\ Valid <= len
    BY Bytes
  <1>2. dlen(8) = 12 /\ Fits(8) /\ 8 \in 8 .. len /\ 20 \in 8 .. len
    BY <1>1 DEF dlen, Fits
  <1>3. from[8] = {8} \cup from[20]
    <2>1. from[8] = {8} \cup from[8 + dlen(8)]
      BY <1>2, FromUnfolds
    <2> QED
      BY <1>2, <2>1
  <1>4. dlen(20) = 8 => from[20] = {20}
    BY <1>2, LastPlace
  <1>5. Specific({8}) = {} /\ Another({8}) = {}
    BY DEF Specific, Another, SenseKeySpecific, AnotherProgress
  <1> QED
    BY <1>3, <1>4, <1>5 DEF Starts

LEMMA NoDescriptor ==
  ASSUME TypeOK, len >= 8, Valid = 8
  PROVE  ProgressOf(Starts) = -1
  <1>1. len \in Nat /\ 8 \in 8 .. len /\ ~Fits(8)
    BY Bytes DEF Fits
  <1>2. Starts = {}
    BY <1>1, FromUnfolds DEF Starts
  <1> QED
    BY <1>2 DEF ProgressOf, Specific, Another

(* The eight bytes t are where the walk finds its last descriptor, and     *)
(* before them there is no progress indication.                            *)
LastIn(t) ==
  \E V \in SUBSET Nat, n \in Nat :
    /\ \A k \in V : k < n
    /\ Specific(V) = {} /\ Another(V) = {}
    /\ \A k \in 1 .. 8 : sense[n - 1 + k] = t[k]
    /\ dlen(n) = 8 => Starts = V \cup {n}

LEMMA LastAlone ==
  ASSUME TypeOK, len >= 8, Valid = 16, NEW t, \A k \in 1 .. 8 : sense[7 + k] = t[k]
  PROVE  LastIn(t)
  <1> DEFINE V == {}
             n == 8
  <1>1. V \in SUBSET Nat /\ n \in Nat /\ (\A k \in V : k < n) /\ Specific(V) = {} /\ Another(V) = {}
    BY DEF Specific, Another
  <1>2. \A k \in 1 .. 8 : sense[n - 1 + k] = t[k]
    OBVIOUS
  <1>3. dlen(n) = 8 => Starts = V \cup {n}
    BY OneDescriptor
  <1> HIDE DEF V, n
  <1> QED
    BY <1>1, <1>2, <1>3 DEF LastIn

LEMMA LastBehind ==
  ASSUME TypeOK, len >= 8, Valid = 28, NEW t, NEW s, s[1] = 0, s[2] = 10,
         \A k \in 1 .. 8 : s[12 + k] = t[k], \A k \in 1 .. 20 : sense[7 + k] = s[k]
  PROVE  LastIn(t)
  <1> DEFINE V == {8}
             n == 20
  <1>2. sense[8] = 0 /\ sense[9] = 10
    <2>1. 7 + 1 = 8 /\ 7 + 2 = 9
      OBVIOUS
    <2> QED
      BY <2>1
  <1>3. /\ Specific(V) = {} /\ Another(V) = {}
        /\ dlen(n) = 8 => Starts = V \cup {n}
    BY <1>2, TwoDescriptors
  <1>4. V \in SUBSET Nat /\ n \in Nat /\ \A k \in V : k < n
    OBVIOUS
  <1>5. ASSUME NEW k \in 1 .. 8 PROVE sense[n - 1 + k] = t[k]
    <2>1. 12 + k \in 1 .. 20 /\ 7 + (12 + k) = n - 1 + k
      OBVIOUS
    <2>2. sense[7 + (12 + k)] = s[12 + k]
      BY <2>1
    <2> QED
      BY <2>1, <2>2
  <1> HIDE DEF V, n
  <1> QED
    BY <1>3, <1>4, <1>5 DEF LastIn

LEMMA LastProgress ==
  ASSUME NEW r, Sayable(r), r.key \in {0, 2},
         \/ LastIn(SpecificDescriptor(r))
         \/ r.progress >= 0 /\ LastIn(AnotherDescriptor(r))
  PROVE  ProgressOf(Starts) = r.progress
  <1>1. CASE LastIn(SpecificDescriptor(r))
    <2>1. PICK V \in SUBSET Nat, n \in Nat :
            /\ \A k \in V : k < n
            /\ Specific(V) = {} /\ Another(V) = {}
            /\ \A k \in 1 .. 8 : sense[n - 1 + k] = SpecificDescriptor(r)[k]
            /\ dlen(n) = 8 => Starts = V \cup {n}
      BY <1>1 DEF LastIn
    <2>2. dlen(n) = 8 /\ ProgressOf(V \cup {n}) = r.progress
      BY <2>1, SpecificSays
    <2> QED
      BY <2>1, <2>2
  <1>2. CASE r.progress >= 0 /\ LastIn(AnotherDescriptor(r))
    <2>1. PICK V \in SUBSET Nat, n \in Nat :
            /\ \A k \in V : k < n
            /\ Specific(V) = {} /\ Another(V) = {}
            /\ \A k \in 1 .. 8 : sense[n - 1 + k] = AnotherDescriptor(r)[k]
            /\ dlen(n) = 8 => Starts = V \cup {n}
      BY <1>2 DEF LastIn
    <2>2. dlen(n) = 8 /\ ProgressOf(V \cup {n}) = r.progress
      BY <1>2, <2>1, AnotherSays
    <2> QED
      BY <2>1, <2>2
  <1> QED
    BY <1>1, <1>2

LEMMA DescriptorSays ==
  ASSUME TypeOK, RoomForAll, len = Size, NEW r, Sayable(r), sense \in DescriptorWire(r)
  PROVE  Says(r)
  <1>1. Size \in Nat /\ len \in Nat /\ len >= 8
    BY BufferAssumption DEF RoomForAll
  <1>2. PICK s : /\ sense = Array(<<114, r.key, r.asc, r.ascq, 0, 0, 0, Len(s)>> \o s)
                 /\ \/ s = SpecificDescriptor(r) \/ s = Information \o SpecificDescriptor(r)
                    \/ r.progress >= 0 /\ (s = AnotherDescriptor(r) \/ s = Information \o AnotherDescriptor(r))
                    \/ ~(r.progress >= 0) /\ s = <<>>
    BY DEF DescriptorWire
  <1>3. ASSUME s \in Seq(Int), Len(s) \in {0, 8, 20}, r.key \in {0, 2} => ProgressOf(Starts) = r.progress
        PROVE  Says(r)
    <2>1. /\ Descriptor /\ ~Fixed /\ Key = r.key /\ sense[2] = r.asc /\ sense[3] = r.ascq
      BY <1>1, <1>2, <1>3, DescriptorHeader, ZenonT(60)
    <2> QED
      BY <1>3, <2>1 DEF Says, RefProgress
  <1>4. ASSUME NEW t \in Seq(Int), Len(t) = 8, s = t \/ s = Information \o t,
               r.key \in {0, 2} /\ LastIn(t) => ProgressOf(Starts) = r.progress
        PROVE  Says(r)
    <2>1. CASE s = t
      <3>1. Valid = 16 /\ \A k \in 1 .. 8 : sense[7 + k] = t[k]
        <4>1. s \in Seq(Int) /\ Len(s) \in {0, 8, 20} /\ Len(s) = 8
          BY <1>4, <2>1
        <4>2. Valid = 8 + Len(s) /\ \A k \in 1 .. Len(s) : sense[7 + k] = s[k]
          BY <1>1, <1>2, <4>1, DescriptorHeader, ZenonT(60)
        <4> QED
          BY <2>1, <4>1, <4>2
      <3>2. LastIn(t)
        BY <1>1, <3>1, LastAlone
      <3> QED
        BY <1>3, <1>4, <2>1, <3>2
    <2>2. CASE s = Information \o t
      <3>1. /\ s \in Seq(Int) /\ Len(s) = 20 /\ s[1] = 0 /\ s[2] = 10
            /\ \A k \in 1 .. 8 : s[12 + k] = t[k]
        BY <1>4, <2>2, BehindInformation
      <3>2. Len(s) \in {0, 8, 20}
        BY <3>1
      <3>3. Valid = 28 /\ \A k \in 1 .. 20 : sense[7 + k] = s[k]
        <4>1. Valid = 8 + Len(s) /\ \A k \in 1 .. Len(s) : sense[7 + k] = s[k]
          BY <1>1, <1>2, <3>1, <3>2, DescriptorHeader
        <4> QED
          BY <3>1, <4>1
      <3>4. LastIn(t)
        BY <1>1, <3>1, <3>3, LastBehind
      <3> QED
        BY <1>3, <1>4, <3>1, <3>2, <3>4
    <2> QED
      BY <1>4, <2>1, <2>2
  <1>5. CASE s = SpecificDescriptor(r) \/ s = Information \o SpecificDescriptor(r)
    <2>1. PICK t : t = SpecificDescriptor(r)
      OBVIOUS
    <2>2. t \in Seq(Int) /\ Len(t) = 8
      BY <2>1, SpecificAt, Zenon
    <2>3. r.key \in {0, 2} /\ LastIn(t) => ProgressOf(Starts) = r.progress
      BY <2>1, LastProgress, Zenon
    <2> QED
      BY <1>4, <1>5, <2>1, <2>2, <2>3, Zenon
  <1>6. CASE r.progress >= 0 /\ (s = AnotherDescriptor(r) \/ s = Information \o AnotherDescriptor(r))
    <2>1. PICK t : t = AnotherDescriptor(r)
      OBVIOUS
    <2>2. t \in Seq(Int) /\ Len(t) = 8
      BY <1>6, <2>1, AnotherAt, Zenon
    <2>3. r.key \in {0, 2} /\ LastIn(t) => ProgressOf(Starts) = r.progress
      BY <1>6, <2>1, LastProgress, Zenon
    <2> QED
      BY <1>4, <1>6, <2>1, <2>2, <2>3, Zenon
  <1>7. CASE ~(r.progress >= 0) /\ s = <<>>
    <2>1. s \in Seq(Int) /\ Len(s) = 0
      BY <1>7
    <2>2. Len(s) \in {0, 8, 20} /\ r.progress = -1
      BY <1>7, <2>1 DEF Sayable
    <2>3. Valid = 8 + Len(s)
      BY <1>1, <1>2, <2>1, <2>2, DescriptorHeader
    <2>4. ProgressOf(Starts) = -1
      BY <1>1, <2>1, <2>3, NoDescriptor
    <2> QED
      BY <1>3, <2>1, <2>2, <2>4
  <1> QED
    BY <1>2, <1>5, <1>6, <1>7

-----------------------------------------------------------------------------
(***************************************************************************)
(* parse_sense() on such a buffer.                                         *)
(***************************************************************************)

(* It fails on a short buffer or an unknown response code only.            *)
Accepted == rc = -1 => len < 8 \/ (~Fixed /\ ~Descriptor)

LEMMA AcceptedStep == IInv /\ Accepted /\ [Next]_vars => Accepted'
  <1> SUFFICES ASSUME IInv, Accepted, [Next]_vars PROVE Accepted'
    OBVIOUS
  <1>1. CASE TooShort \/ UnknownFormat
    BY <1>1 DEF TooShort, UnknownFormat, Fail, Accepted, args, Fixed, Descriptor, resp
  <1>2. CASE FixedFormat \/ DescriptorFormat \/ WalkEnds \/ WalkDescriptor \/ Gate \/ UNCHANGED vars
    <2>1. rc' = rc /\ sense' = sense /\ len' = len
      BY <1>2 DEF FixedFormat, DescriptorFormat, WalkEnds, WalkDescriptor, Gate, vars, args
    <2> QED
      BY <2>1 DEF Accepted, Fixed, Descriptor, resp
  <1> QED
    BY <1>1, <1>2 DEF Next, Returned

(* Whatever sense data can say is what the caller gets, in every encoding  *)
(* and however many bytes the buffer has beyond the longest one.           *)
LEMMA SaidIsDecoded ==
  ASSUME RoomForAll, IInv, RefInv, Accepted, pc = "done", len = Size,
         NEW r, Sayable(r), sense \in FixedWire(r) \cup DescriptorWire(r)
  PROVE  rc = 0 /\ sense_key = r.key /\ asc = r.asc /\ ascq = r.ascq /\ progress = r.progress
  <1>1. Size \in Nat /\ TypeOK
    BY BufferAssumption DEF IInv
  <1>2. Says(r)
    BY <1>1, FixedSays, DescriptorSays
  <1>3. rc = 0
    <2>1. rc \in {-1, 0} /\ ~(len < 8)
      BY <1>1 DEF TypeOK, RoomForAll
    <2> QED
      BY <1>2, <2>1 DEF Accepted, Says
  <1>4. HeaderRead
    BY <1>3 DEF RefInv
  <1>5. sense_key = r.key /\ asc = r.asc /\ ascq = r.ascq
    BY <1>2, <1>4 DEF HeaderRead, Says
  <1>6. CASE r.key \in {0, 2}
    BY <1>2, <1>3, <1>5, <1>6 DEF RefInv, Says
  <1>7. CASE r.key \notin {0, 2}
    <2>1. ~(progress >= 0) /\ progress \in Progress
      BY <1>1, <1>5, <1>7 DEF IInv, ProgressGated, TypeOK
    <2>2. ~(r.progress >= 0) /\ r.progress \in Progress
      BY <1>7 DEF Sayable
    <2> QED
      BY <1>3, <1>5, <2>1, <2>2
  <1> QED
    BY <1>3, <1>5, <1>6, <1>7

(* parse_sense() makes of the bytes a drive may answer REQUEST SENSE with  *)
(* the record it meant, in fixed and in descriptor format: the records     *)
(* MegaProgress is modelled with are the ones the poll loop gets.          *)
THEOREM DecodedAsMeant ==
  ASSUME RoomForAll
  PROVE  Spec => []DecodesAsMeant
  <1>1. IInv /\ RefInv /\ Accepted => DecodesAsMeant
    <2> SUFFICES ASSUME IInv, RefInv, Accepted, pc = "done", len = Size,
                        NEW r \in Answers, sense \in Wire[r]
                 PROVE  rc = 0 /\ sense_key = r.key /\ asc = r.asc /\ ascq = r.ascq /\ progress = r.progress
      BY DEF DecodesAsMeant
    <2>1. sense \in FixedWire(r) \cup DescriptorWire(r)
      BY DEF Wire
    <2> QED
      BY <2>1, AnswersSayable, SaidIsDecoded
  <1>2. Init => Accepted
    BY DEF Init, Accepted
  <1> QED
    BY <1>1, <1>2, AcceptedStep, Inductive, Reference, PTL DEF Spec
=============================================================================
