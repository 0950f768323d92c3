-------------------------- MODULE ParseSense_proofs -------------------------
(***************************************************************************)
(* parse_sense() for every buffer and every length: it stays within the    *)
(* buffer and the reported length, finds the right progress indication,    *)
(* and takes a drive for busy exactly when its sense data says so.         *)
(***************************************************************************)
EXTENDS ParseSense, TLAPS

(* What TypeOK and ReadsWithinReport need to be inductive: the walk is     *)
(* behind the header and within Valid, a call that fails is over, and      *)
(* *progress is set by the last step only, for two sense keys only.        *)
WalkInv == pc = "walk" => len >= 8 /\ i >= 8 /\ end = Valid
OutInv  == (pc # "done" => rc = 0 /\ progress = -1) /\ (rc = -1 => progress = -1)
ProgressGated == progress >= 0 => rc = 0 /\ sense_key \in {0, 2}

IInv == TypeOK /\ WalkInv /\ OutInv /\ ReadsWithinReport /\ ProgressGated

USE DEF Byte, Progress

-----------------------------------------------------------------------------
(* A buffer of n bytes or more has a byte at every index below n.          *)
LEMMA Bytes ==
  ASSUME TypeOK
  PROVE  /\ len \in Nat /\ \A k \in Nat : k < len => sense[k] \in Byte
         /\ len >= 8 => Valid \in Nat /\ Valid <= len /\ Valid <= 8 + sense[7]
  <1>1. len \in 0 .. Size /\ sense \in [0 .. Size - 1 -> Byte] /\ Size \in Nat
    BY BufferAssumption DEF TypeOK
  <1>2. len \in Nat /\ \A k \in Nat : k < len => sense[k] \in Byte
    BY <1>1
  <1>3. len >= 8 => sense[7] \in Byte
    BY <1>2
  <1> QED
    BY <1>2, <1>3 DEF Valid

(* Two bytes make an unsigned 16 bit number.                               *)
LEMMA Words ==
  ASSUME TypeOK, NEW k \in Nat, k + 1 < len
  PROVE  Word(k) \in Progress
  <1>1. sense[k] \in Byte /\ sense[k + 1] \in Byte
    BY Bytes
  <1> QED
    BY <1>1 DEF Word

LEMMA InitInv == Init => IInv
  BY DEF Init, IInv, TypeOK, WalkInv, OutInv, ReadsWithinReport, ProgressGated

LEMMA HeaderInv ==
  ASSUME IInv, TooShort \/ UnknownFormat
  PROVE  IInv'
  <1> USE DEF IInv
  <1>1. /\ pc' = "done" /\ rc' = -1 /\ UNCHANGED <<args, i, end, prog, outs>>
        /\ pc = "header" /\ (reads' = reads \/ (len >= 8 /\ reads' = {0}))
    BY DEF TooShort, UnknownFormat, Fail
  <1>2. TypeOK'
    <2>1. reads \subseteq Nat
      BY DEF TypeOK
    <2>2. \A k \in reads' \ reads : k \in Nat
      BY <1>1
    <2>3. reads' \subseteq Nat
      BY <2>1, <2>2
    <2> QED
      BY <1>1, <2>3 DEF TypeOK, args, outs
  <1>3. WalkInv' /\ OutInv' /\ ProgressGated'
    BY <1>1 DEF WalkInv, OutInv, ProgressGated, TypeOK, outs
  <1>4. ReadsWithinReport'
    BY <1>1, Bytes DEF ReadsWithinReport, args
  <1> QED
    BY <1>2, <1>3, <1>4

LEMMA FixedInv ==
  ASSUME IInv, FixedFormat
  PROVE  IInv'
  <1> USE DEF IInv
  <1>1. /\ len \in Nat /\ len >= 8 /\ \A k \in Nat : k < len => sense[k] \in Byte
        /\ Valid \in Nat /\ Valid <= len /\ Valid <= 8 + sense[7]
    BY Bytes DEF FixedFormat
  <1>2. Valid > 17 => Word(16) \in Progress
    BY <1>1, Words
  <1>3. TypeOK'
    <2>1. sense[2] \in Byte /\ sense_key' \in 0 .. 15
      BY <1>1 DEF FixedFormat, KeyOf
    <2>2. asc' \in Byte /\ ascq' \in Byte
      BY <1>1 DEF FixedFormat
    <2>3. prog' \in Progress
      BY <1>2 DEF FixedFormat, TypeOK
    <2>4. reads' \subseteq Nat
      BY DEF FixedFormat
    <2> QED
      BY <2>1, <2>2, <2>3, <2>4 DEF FixedFormat, TypeOK, args
  <1>4. ReadsWithinReport'
    <2>1. sense' = sense /\ len' = len
      BY DEF FixedFormat, args
    <2>2. \A k \in reads' : k < 8 \/ k < Valid
      BY <1>1 DEF FixedFormat
    <2>3. \A k \in reads' : k \in Nat
      BY DEF FixedFormat
    <2> QED
      BY <1>1, <2>1, <2>2, <2>3 DEF ReadsWithinReport
  <1>5. WalkInv' /\ OutInv' /\ ProgressGated'
    BY DEF FixedFormat, WalkInv, OutInv, ProgressGated
  <1> QED
    BY <1>3, <1>4, <1>5

LEMMA DescriptorInv ==
  ASSUME IInv, DescriptorFormat
  PROVE  IInv'
  <1> USE DEF IInv
  <1>1. /\ len \in Nat /\ len >= 8 /\ \A k \in Nat : k < len => sense[k] \in Byte
        /\ Valid \in Nat
    BY Bytes DEF DescriptorFormat
  <1>2. sense[1] \in Byte /\ sense[2] \in Byte /\ sense[3] \in Byte
    BY <1>1
  <1>3. TypeOK'
    BY <1>1, <1>2 DEF DescriptorFormat, KeyOf, TypeOK, args
  <1>4. ReadsWithinReport'
    BY <1>1 DEF DescriptorFormat, ReadsWithinReport, args
  <1>5. WalkInv'
    <2>1. sense' = sense /\ len' = len /\ i' = 8 /\ end' = Valid
      BY DEF DescriptorFormat, args
    <2>2. Valid' = Valid
      BY <2>1 DEF Valid
    <2> QED
      BY <1>1, <2>1, <2>2 DEF WalkInv
  <1>6. OutInv' /\ ProgressGated'
    BY DEF DescriptorFormat, OutInv, ProgressGated
  <1> QED
    BY <1>3, <1>4, <1>5, <1>6

LEMMA WalkEndsInv ==
  ASSUME IInv, WalkEnds
  PROVE  IInv'
  <1> USE DEF IInv
  <1>1. /\ len \in Nat /\ len >= 8 /\ i \in Nat /\ i >= 8
        /\ Valid \in Nat /\ Valid <= len /\ Valid <= 8 + sense[7] /\ end = Valid
    BY Bytes DEF WalkEnds, WalkInv, TypeOK
  <1>2. sense' = sense /\ len' = len
    BY DEF WalkEnds, args
  <1>3. sense[7] \in Byte
    BY <1>1, Bytes
  <1>4. ReadsWithinReport'
    BY <1>1, <1>2, <1>3 DEF WalkEnds, ReadsWithinReport
  <1>5. TypeOK'
    <2>1. reads \subseteq Nat
      BY DEF TypeOK
    <2>2. \A k \in reads' \ reads : k \in Nat
      BY <1>1 DEF WalkEnds
    <2>3. reads' \subseteq Nat
      BY <2>1, <2>2
    <2> QED
      BY <2>3 DEF WalkEnds, TypeOK, args, outs
  <1>6. WalkInv' /\ OutInv' /\ ProgressGated'
    BY DEF WalkEnds, WalkInv, OutInv, ProgressGated, outs
  <1> QED
    BY <1>4, <1>5, <1>6

LEMMA WalkDescriptorInv ==
  ASSUME IInv, WalkDescriptor
  PROVE  IInv'
  <1> USE DEF IInv
  <1>1. /\ len \in Nat /\ len >= 8 /\ i \in Nat /\ i >= 8
        /\ Valid \in Nat /\ Valid <= len /\ Valid <= 8 + sense[7] /\ end = Valid
        /\ sense[7] \in Byte
    BY Bytes DEF WalkDescriptor, WalkInv, TypeOK
  <1>2. sense' = sense /\ len' = len /\ pc = "walk" /\ pc' = pc /\ end' = end
    BY DEF WalkDescriptor, args
  <1>3. dlen(i) \in Nat /\ dlen(i) >= 2 /\ i + dlen(i) <= Valid
    BY <1>1, Bytes DEF WalkDescriptor, dlen
  <1>4. /\ SenseKeySpecific(i) => i + 6 < Valid
        /\ AnotherProgress(i) => i + 7 < Valid
    BY <1>1, <1>3 DEF SenseKeySpecific, AnotherProgress
  <1>5. \A k \in reads' \ reads : k \in Nat /\ k < Valid
    BY <1>1, <1>3, <1>4 DEF WalkDescriptor, Fallback
  <1>6. ReadsWithinReport'
    BY <1>1, <1>2, <1>5 DEF ReadsWithinReport
  <1>7. TypeOK'
    <2>1. i + 6 < Valid => Word(i + 5) \in Progress
      BY <1>1, Words
    <2>2. i + 7 < Valid => Word(i + 6) \in Progress
      BY <1>1, Words
    <2>3. prog' \in Progress
      BY <1>4, <2>1, <2>2 DEF WalkDescriptor, Fallback, TypeOK
    <2>4. i' \in Nat
      BY <1>1, <1>3 DEF WalkDescriptor
    <2>5. reads \subseteq Nat
      BY DEF TypeOK
    <2>6. reads' \subseteq Nat
      BY <1>5, <2>5
    <2> QED
      BY <2>3, <2>4, <2>6 DEF WalkDescriptor, TypeOK, args, outs
  <1>8. WalkInv'
    BY <1>1, <1>2, <1>3 DEF WalkDescriptor, WalkInv, Valid
  <1>9. OutInv' /\ ProgressGated'
    BY DEF WalkDescriptor, OutInv, ProgressGated, outs
  <1> QED
    BY <1>6, <1>7, <1>8, <1>9

LEMMA GateInv ==
  ASSUME IInv, Gate
  PROVE  IInv'
  BY DEF IInv, Gate, ProgressKeys, TypeOK, WalkInv, OutInv, ReadsWithinReport, ProgressGated, args

LEMMA StepInv == IInv /\ [Next]_vars => IInv'
  <1> SUFFICES ASSUME IInv, [Next]_vars PROVE IInv'
    OBVIOUS
  <1>1. CASE TooShort \/ UnknownFormat   BY <1>1, HeaderInv
  <1>2. CASE FixedFormat                 BY <1>2, FixedInv
  <1>3. CASE DescriptorFormat            BY <1>3, DescriptorInv
  <1>4. CASE WalkEnds                    BY <1>4, WalkEndsInv
  <1>5. CASE WalkDescriptor              BY <1>5, WalkDescriptorInv
  <1>6. CASE Gate                        BY <1>6, GateInv
  <1>7. CASE UNCHANGED vars
    BY <1>7 DEF vars, args, outs, IInv, TypeOK, WalkInv, OutInv, ReadsWithinReport,
       ProgressGated, Valid
  <1> QED
    BY <1>1, <1>2, <1>3, <1>4, <1>5, <1>6, <1>7 DEF Next, Returned

LEMMA Inductive == Spec => []IInv
  BY InitInv, StepInv, PTL DEF Spec

(* Every local and out parameter of parse_sense stays in its range.        *)
THEOREM TypeCorrect == Spec => []TypeOK
  BY Inductive, PTL DEF IInv

(* No byte outside the buffer, nor past the length the drive reported, is  *)
(* ever looked at, whatever the drive sends.                               *)
THEOREM ReadsAreInBounds == Spec => []ReadsWithinReport
  BY Inductive, PTL DEF IInv

-----------------------------------------------------------------------------
(***************************************************************************)
(* The progress indication is the one of the reference.                    *)
(***************************************************************************)

(* Within the reported length a descriptor is followed by another place    *)
(* within it.                                                              *)
LEMMA NextPlace ==
  ASSUME TypeOK, len >= 8, NEW k \in Nat, k >= 8, Fits(k)
  PROVE  /\ k \in 8 .. len /\ k + dlen(k) \in 8 .. len
         /\ dlen(k) \in Nat /\ dlen(k) >= 2
  <1>1. len \in Nat /\ Valid \in Nat /\ Valid <= len /\ k + 1 < len
    BY Bytes DEF Fits
  <1>2. sense[k + 1] \in Byte
    BY <1>1, Bytes
  <1> QED
    BY <1>1, <1>2 DEF Fits, dlen

(* from is what its recursive definition says: the least sets closed under *)
(* following the descriptors' lengths are as it demands.                   *)
LEMMA FromUnfolds ==
  ASSUME TypeOK, len >= 8
  PROVE  from = [k \in 8 .. len |-> IF Fits(k) THEN {k} \cup from[k + dlen(k)] ELSE {}]
  <1> DEFINE Follows(T) == \A j \in T : Fits(j) => j + dlen(j) \in T
             places     == {j \in Nat : j >= 8}
             Reach(k)   == {j \in places : Fits(j) /\ \A T \in SUBSET places : k \in T /\ Follows(T) => j \in T}
             g          == [k \in 8 .. len |-> Reach(k)]
             step(f)    == [k \in 8 .. len |-> IF Fits(k) THEN {k} \cup f[k + dlen(k)] ELSE {}]
  <1>1. ASSUME NEW k \in 8 .. len, Fits(k)
        PROVE  k + dlen(k) \in 8 .. len /\ Reach(k) = {k} \cup Reach(k + dlen(k))
    <2>1. k \in places /\ k + dlen(k) \in 8 .. len /\ k + dlen(k) \in places
      BY <1>1, NextPlace DEF TypeOK
    <2> DEFINE n == k + dlen(k)
    <2> HIDE DEF places
    <2>2. k \in Reach(k)
      BY <1>1, <2>1
    <2>3. ASSUME NEW j \in Reach(n) PROVE j \in Reach(k)
      <3>1. ASSUME NEW T \in SUBSET places, k \in T, Follows(T) PROVE j \in T
        BY <1>1, <2>3, <3>1
      <3> QED
        BY <2>3, <3>1
    <2>4. ASSUME NEW j \in Reach(k), j # k PROVE j \in Reach(n)
      <3>1. ASSUME NEW T \in SUBSET places, n \in T, Follows(T) PROVE j \in T
        <4>1. T \cup {k} \in SUBSET places /\ k \in T \cup {k}
          BY <2>1
        <4>2. Follows(T \cup {k})
          BY <3>1
        <4>3. j \in T \cup {k}
          BY <2>4, <4>1, <4>2
        <4> QED
          BY <2>4, <4>3
      <3> QED
        BY <2>4, <3>1
    <2> QED
      BY <2>1, <2>2, <2>3, <2>4
  <1>2. ASSUME NEW k \in 8 .. len, ~Fits(k) PROVE Reach(k) = {}
    <2>1. k \in places
      BY DEF TypeOK
    <2>2. {k} \in SUBSET places /\ Follows({k})
      BY <1>2, <2>1
    <2> HIDE DEF places
    <2> QED
      BY <1>2, <2>2
  <1> HIDE DEF Reach
  <1>3. g = step(g)
    BY <1>1, <1>2
  <1>4. \E f : f = step(f)
    BY <1>3
  <1> HIDE DEF g
  <1>5. from = CHOOSE f : f = step(f)
    BY DEF from
  <1> QED
    BY <1>4, <1>5

LEMMA FirstIs ==
  ASSUME NEW S \in SUBSET Nat, NEW m \in S, \A j \in S : m <= j
  PROVE  FirstOf(S) = m
  <1>1. \A k \in S : (\A j \in S : k <= j) => k = m
    OBVIOUS
  <1> QED
    BY <1>1 DEF FirstOf

LEMMA LastIs ==
  ASSUME NEW S \in SUBSET Nat, NEW m \in S, \A j \in S : j <= m
  PROVE  LastOf(S) = m
  <1>1. \A k \in S : (\A j \in S : j <= k) => k = m
    OBVIOUS
  <1> QED
    BY <1>1 DEF LastOf

HasFirst(S) == S # {} => \E m \in S : \A j \in S : m <= j
Carries(V)  == Specific(V) # {} \/ Another(V) # {}

(* One more descriptor, behind the others, changes what the reference      *)
(* finds just as it changes prog.                                          *)
LEMMA OneMore ==
  ASSUME NEW V \in SUBSET Nat, NEW n \in Nat, \A k \in V : k < n, HasFirst(Another(V))
  PROVE  LET sks   == SenseKeySpecific(n) /\ SKSV(n + 4)
             other == ~sks /\ AnotherProgress(n) /\ ~Carries(V)
         IN  /\ ProgressOf(V \cup {n})
                  = IF sks THEN Word(n + 5) ELSE IF other THEN Word(n + 6) ELSE ProgressOf(V)
             /\ Carries(V \cup {n}) <=> sks \/ other \/ Carries(V)
             /\ HasFirst(Another(V \cup {n}))
  <1> DEFINE sks == SenseKeySpecific(n) /\ SKSV(n + 4)
             W   == V \cup {n}
  <1>1. Specific(W) = IF sks THEN Specific(V) \cup {n} ELSE Specific(V)
    BY DEF Specific
  <1>2. Another(W) = IF AnotherProgress(n) THEN Another(V) \cup {n} ELSE Another(V)
    BY DEF Another
  <1>3. Specific(V) \subseteq V /\ Another(V) \subseteq V /\ Specific(V) \in SUBSET Nat /\ Another(V) \in SUBSET Nat
    BY DEF Specific, Another
  <1>4. \A k \in Specific(V) \cup Another(V) : k <= n
    BY <1>3
  <1> HIDE DEF sks, W
  <1>5. sks => LastOf(Specific(W)) = n
    <2>1. Specific(V) \cup {n} \in SUBSET Nat
      BY <1>3
    <2> QED
      BY <1>1, <1>4, <2>1, LastIs
  <1>6. Another(V) # {} => FirstOf(Another(W)) = FirstOf(Another(V)) /\ HasFirst(Another(W))
    <2> SUFFICES ASSUME Another(V) # {} PROVE FirstOf(Another(W)) = FirstOf(Another(V)) /\ HasFirst(Another(W))
      OBVIOUS
    <2>1. PICK m \in Another(V) : \A j \in Another(V) : m <= j
      BY DEF HasFirst
    <2>2. Another(W) \in SUBSET Nat /\ m \in Another(W) /\ \A j \in Another(W) : m <= j
      BY <1>2, <1>3, <1>4, <2>1
    <2> QED
      BY <1>3, <2>1, <2>2, FirstIs DEF HasFirst
  <1>7. Another(V) = {} /\ AnotherProgress(n) => FirstOf(Another(W)) = n
    <2>1. {n} \in SUBSET Nat /\ \A j \in {n} : n <= j
      OBVIOUS
    <2>2. FirstOf({n}) = n
      BY <2>1, FirstIs
    <2> QED
      BY <1>2, <2>2
  <1>8. Another(V) = {} => HasFirst(Another(W))
    BY <1>2 DEF HasFirst
  <1>9. Carries(W) <=> sks \/ AnotherProgress(n) \/ Carries(V)
    BY <1>1, <1>2 DEF Carries
  <1>10. ProgressOf(W) = IF sks THEN Word(n + 5)
                         ELSE IF AnotherProgress(n) /\ ~Carries(V) THEN Word(n + 6)
                         ELSE ProgressOf(V)
    BY <1>1, <1>2, <1>5, <1>6, <1>7 DEF ProgressOf, Carries
  <1> QED
    BY <1>6, <1>8, <1>9, <1>10 DEF sks, W

(* Until it is given other bytes, the reference says the same.             *)
LEMMA SameReference ==
  ASSUME sense' = sense, len' = len
  PROVE  /\ Starts' = Starts /\ from' = from /\ RefProgress' = RefProgress
         /\ \A V : /\ Specific(V)' = Specific(V) /\ Another(V)' = Another(V)
                   /\ ProgressOf(V)' = ProgressOf(V)
  <1>1. /\ Valid' = Valid /\ (Fixed' <=> Fixed)
        /\ \A k : /\ dlen(k)' = dlen(k) /\ (SenseKeySpecific(k)' <=> SenseKeySpecific(k))
                  /\ (AnotherProgress(k)' <=> AnotherProgress(k)) /\ (SKSV(k)' <=> SKSV(k))
                  /\ Word(k)' = Word(k)
    BY DEF Valid, Fixed, resp, dlen, SenseKeySpecific, AnotherProgress, SKSV, Word
  <1>2. \A k : Fits(k)' <=> Fits(k)
    BY <1>1 DEF Fits
  <1>3. from' = from
    BY <1>1, <1>2 DEF from
  <1>4. Starts' = Starts
    BY <1>3 DEF Starts
  <1>5. \A V : Specific(V)' = Specific(V) /\ Another(V)' = Another(V)
    BY <1>1 DEF Specific, Another
  <1>6. \A V : ProgressOf(V)' = ProgressOf(V)
    BY <1>1, <1>5 DEF ProgressOf
  <1>7. RefProgress' = RefProgress
    BY <1>1, <1>4, <1>6 DEF RefProgress
  <1> QED
    BY <1>3, <1>4, <1>5, <1>6, <1>7

(* In the walk: the descriptors met so far, V, are those before i; with    *)
(* the ones from i on they are all there are.                              *)
Met(V) ==
  /\ V \subseteq Nat /\ \A k \in V : k < i
  /\ Starts = V \cup from[i]
  /\ prog = ProgressOf(V) /\ (prog >= 0 <=> Carries(V)) /\ HasFirst(Another(V))

HeaderRead ==
  /\ sense_key = Key
  /\ IF Fixed THEN /\ asc = IF Valid > 12 THEN sense[12] ELSE 0
                   /\ ascq = IF Valid > 13 THEN sense[13] ELSE 0
     ELSE asc = sense[2] /\ ascq = sense[3]

RefInv ==
  /\ pc = "header" => prog = -1
  /\ pc = "walk" => ~Fixed /\ i \in 8 .. len /\ \E V : Met(V)
  /\ pc = "gate" => prog = RefProgress
  /\ pc = "done" /\ rc = 0 /\ sense_key \in {0, 2} => progress = RefProgress
  /\ pc \in {"walk", "gate"} \/ (pc = "done" /\ rc = 0) => len >= 8 /\ HeaderRead

LEMMA SameHeader ==
  ASSUME sense' = sense, len' = len, sense_key' = sense_key, asc' = asc, ascq' = ascq, HeaderRead
  PROVE  HeaderRead'
  BY DEF HeaderRead, Key, Fixed, resp, Valid

LEMMA HeaderRef ==
  ASSUME IInv, RefInv, TooShort \/ UnknownFormat \/ FixedFormat
  PROVE  RefInv'
  <1>1. CASE TooShort \/ UnknownFormat
    BY <1>1 DEF TooShort, UnknownFormat, Fail, RefInv
  <1>2. CASE FixedFormat
    <2>1. sense' = sense /\ len' = len /\ pc = "header" /\ pc' = "gate" /\ len >= 8 /\ Fixed
      BY <1>2 DEF FixedFormat, args
    <2>2. prog' = RefProgress
      BY <1>2, <2>1 DEF FixedFormat, RefProgress, RefInv
    <2>3. HeaderRead'
      BY <1>2, <2>1 DEF FixedFormat, HeaderRead, Key, KeyOf, Fixed, resp, Valid
    <2> QED
      BY <2>1, <2>2, <2>3, SameReference DEF RefInv
  <1> QED
    BY <1>1, <1>2

LEMMA DescriptorRef ==
  ASSUME IInv, RefInv, DescriptorFormat
  PROVE  RefInv'
  <1>1. /\ sense' = sense /\ len' = len /\ prog' = -1 /\ pc' = "walk" /\ i' = 8 /\ len >= 8
        /\ len \in Nat
    BY Bytes DEF DescriptorFormat, args, RefInv, IInv
  <1>2. ~Fixed /\ ~Fixed'
    BY <1>1 DEF DescriptorFormat, Fixed, Descriptor, resp
  <1>3. HeaderRead'
    BY <1>1, <1>2 DEF DescriptorFormat, HeaderRead, Key, KeyOf
  <1>4. Specific({}) = {} /\ Another({}) = {}
    BY DEF Specific, Another
  <1>5. Starts' = from'[8] /\ ProgressOf({})' = -1 /\ Specific({})' = {} /\ Another({})' = {}
    BY <1>1, <1>4, SameReference DEF Starts, ProgressOf
  <1>6. Met({})'
    BY <1>1, <1>5 DEF Met, Carries, HasFirst
  <1> QED
    BY <1>1, <1>2, <1>3, <1>6 DEF RefInv

LEMMA WalkEndsRef ==
  ASSUME IInv, RefInv, WalkEnds
  PROVE  RefInv'
  <1>1. /\ sense' = sense /\ len' = len /\ prog' = prog /\ pc' = "gate" /\ UNCHANGED outs
        /\ pc = "walk" /\ len >= 8 /\ end = Valid /\ ~Fixed /\ i \in 8 .. len /\ HeaderRead
    BY DEF WalkEnds, args, IInv, WalkInv, RefInv
  <1>2. PICK V : Met(V)
    BY <1>1 DEF RefInv
  <1>3. ~Fits(i)
    <2>1. len \in Nat /\ Valid \in Nat /\ Valid <= len /\ i \in Nat
      BY <1>1, Bytes DEF IInv, TypeOK
    <2>2. i + 1 < Valid => sense[i + 1] \in Byte
      BY <2>1, Bytes DEF IInv
    <2> QED
      BY <1>1, <2>1, <2>2 DEF WalkEnds, Fits, dlen
  <1>4. from[i] = {}
    BY <1>1, <1>3, FromUnfolds DEF IInv
  <1>5. prog = RefProgress
    BY <1>1, <1>2, <1>4 DEF Met, RefProgress
  <1> QED
    BY <1>1, <1>5, SameReference, SameHeader DEF RefInv, outs

LEMMA WalkDescriptorRef ==
  ASSUME IInv, RefInv, WalkDescriptor
  PROVE  RefInv'
  <1>1. /\ sense' = sense /\ len' = len /\ pc = "walk" /\ pc' = pc /\ UNCHANGED outs
        /\ i' = i + dlen(i) /\ end = Valid
        /\ len \in Nat /\ len >= 8 /\ ~Fixed /\ i \in 8 .. len /\ HeaderRead
    BY Bytes DEF WalkDescriptor, args, IInv, WalkInv, RefInv
  <1>2. PICK V : Met(V)
    BY <1>1 DEF RefInv
  <1>3. Fits(i)
    BY <1>1 DEF WalkDescriptor, Fits
  <1>4. i \in Nat /\ i' \in 8 .. len /\ i < i'
    BY <1>1, <1>3, NextPlace DEF IInv
  <1>5. from[i] = {i} \cup from[i']
    BY <1>1, <1>3, FromUnfolds DEF IInv
  <1> DEFINE sks == SenseKeySpecific(i) /\ SKSV(i + 4)
  <1>6. prog' = IF sks THEN Word(i + 5)
                ELSE IF AnotherProgress(i) /\ ~Carries(V) THEN Word(i + 6) ELSE prog
    <2>1. prog \in Progress
      BY DEF IInv, TypeOK
    <2> QED
      BY <1>2, <2>1 DEF WalkDescriptor, Fallback, Met
  <1>7. (sks => Word(i + 5) >= 0) /\ (AnotherProgress(i) => Word(i + 6) >= 0)
    <2>1. dlen(i) \in Nat /\ i + dlen(i) <= Valid /\ Valid <= len /\ Valid \in Nat
      BY <1>1, <1>3, <1>4, NextPlace, Bytes DEF IInv, Fits
    <2>2. /\ SenseKeySpecific(i) => i + 6 < len
          /\ AnotherProgress(i) => i + 7 < len
      BY <1>1, <1>4, <2>1 DEF SenseKeySpecific, AnotherProgress
    <2>3. ASSUME NEW k \in Nat, k + 1 < len PROVE Word(k) >= 0
      <3>1. sense[k] \in Byte /\ sense[k + 1] \in Byte
        BY <1>1, <2>3, Bytes DEF IInv
      <3> QED
        BY <3>1 DEF Word
    <2> QED
      BY <1>4, <2>2, <2>3
  <1>8. /\ V \in SUBSET Nat /\ \A k \in V : k < i
        /\ prog = ProgressOf(V) /\ (prog >= 0 <=> Carries(V)) /\ HasFirst(Another(V))
        /\ Starts = V \cup from[i]
    BY <1>2 DEF Met
  <1>9. PICK W : W = V \cup {i}
    OBVIOUS
  <1>10. /\ prog' = ProgressOf(W)
         /\ Carries(W) <=> sks \/ (AnotherProgress(i) /\ ~sks /\ ~Carries(V)) \/ Carries(V)
         /\ HasFirst(Another(W))
    BY <1>4, <1>6, <1>8, <1>9, OneMore
  <1>11. prog' >= 0 <=> Carries(W)
    BY <1>6, <1>7, <1>8, <1>10
  <1>12. Starts = W \cup from[i']
    BY <1>5, <1>8, <1>9
  <1>13. W \subseteq Nat /\ \A k \in W : k < i'
    BY <1>1, <1>4, <1>8, <1>9
  <1>14. Met(W)'
    <2>1. /\ Starts' = Starts /\ from' = from /\ Specific(W)' = Specific(W)
          /\ Another(W)' = Another(W) /\ ProgressOf(W)' = ProgressOf(W)
      BY <1>1, SameReference
    <2> QED
      BY <1>10, <1>11, <1>12, <1>13, <2>1 DEF Met, Carries
  <1> QED
    BY <1>1, <1>4, <1>14, SameHeader DEF RefInv, outs, Fixed, resp

LEMMA GateRef ==
  ASSUME IInv, RefInv, Gate
  PROVE  RefInv'
  <1>1. /\ sense' = sense /\ len' = len /\ pc = "gate" /\ pc' = "done" /\ prog = RefProgress
        /\ sense_key' = sense_key /\ asc' = asc /\ ascq' = ascq /\ HeaderRead /\ len >= 8
        /\ progress = -1 /\ prog \in Progress
    BY DEF Gate, args, RefInv, IInv, OutInv, TypeOK
  <1>2. sense_key \in {0, 2} => progress' = RefProgress
    BY <1>1 DEF Gate, ProgressKeys
  <1> QED
    BY <1>1, <1>2, SameReference, SameHeader DEF RefInv

LEMMA StutterRef ==
  ASSUME RefInv, UNCHANGED vars
  PROVE  RefInv'
  <1>1. /\ sense' = sense /\ len' = len /\ pc' = pc /\ i' = i /\ prog' = prog /\ rc' = rc
        /\ sense_key' = sense_key /\ asc' = asc /\ ascq' = ascq /\ progress' = progress
    BY DEF vars, args, outs
  <1>2. \A V : Met(V) => Met(V)'
    BY <1>1, SameReference DEF Met, Carries
  <1> QED
    BY <1>1, <1>2, SameReference, SameHeader DEF RefInv, Fixed, resp

LEMMA Reference == Spec => [](IInv /\ RefInv)
  <1>1. Init => RefInv
    BY DEF Init, RefInv
  <1>2. IInv /\ RefInv /\ [Next]_vars => RefInv'
    BY HeaderRef, DescriptorRef, WalkEndsRef, WalkDescriptorRef, GateRef, StutterRef
    DEF Next, Returned
  <1> QED
    BY <1>1, <1>2, Inductive, PTL DEF Spec

(* Whatever the drive sends and however many descriptors there are, the    *)
(* walk ends with the progress indication of the reference.                *)
THEOREM RightDescriptor == Spec => []ProgressFromTheRightDescriptor
  <1>1. RefInv => ProgressFromTheRightDescriptor
    BY DEF RefInv, ProgressFromTheRightDescriptor
  <1> QED
    BY <1>1, Reference, PTL

(* Sense data that says in any way that the drive is at work is classified *)
(* as something else than IDLE.                                            *)
THEOREM BusyIsSeen == Spec => []BusyIsNeverIdle
  <1>1. ASSUME IInv, RefInv, pc = "done", rc = 0, SaysBusy
        PROVE  classify([key |-> sense_key, asc |-> asc, ascq |-> ascq, progress |-> progress]) # "IDLE"
    <2>1. HeaderRead
      BY <1>1 DEF RefInv
    <2>2. CASE Key = 2
      BY <2>1, <2>2 DEF HeaderRead, classify
    <2>3. CASE Says0404
      <3>1. len >= 8 /\ Valid \in Nat
        BY <1>1, Bytes DEF RefInv, IInv
      <3>2. asc = 4 /\ ascq = 4
        BY <2>1, <2>3, <3>1 DEF HeaderRead, Says0404
      <3> QED
        BY <3>2 DEF classify, InFormat
    <2>4. CASE Key = 0 /\ RefProgress >= 0
      <3>1. progress >= 0
        BY <1>1, <2>1, <2>4 DEF RefInv, HeaderRead
      <3> QED
        BY <3>1 DEF classify, HasProgress
    <2> QED
      BY <1>1, <2>2, <2>3, <2>4 DEF SaysBusy
  <1>2. IInv /\ RefInv => BusyIsNeverIdle
    BY <1>1 DEF BusyIsNeverIdle
  <1> QED
    BY <1>2, Reference, PTL

(* Sense data that says nothing of work, and raises no UNIT ATTENTION, is  *)
(* classified as IDLE: what the bytes of a progress indication mean under  *)
(* other sense keys, or behind the reported length, keeps no watch going.  *)
THEOREM IdleIsSeen == Spec => []WorkIsNeverImagined
  <1>1. ASSUME IInv, RefInv, pc = "done", rc = 0, ~SaysBusy, Key # 6
        PROVE  classify([key |-> sense_key, asc |-> asc, ascq |-> ascq, progress |-> progress]) = "IDLE"
    <2>1. HeaderRead /\ sense_key = Key /\ Key # 2
      BY <1>1 DEF RefInv, HeaderRead, SaysBusy
    <2>2. ~(asc = 4 /\ ascq = 4)
      BY <1>1, <2>1 DEF HeaderRead, SaysBusy, Says0404
    <2>3. ~(progress >= 0)
      <3>1. CASE Key = 0
        BY <1>1, <2>1, <3>1 DEF RefInv, SaysBusy
      <3>2. CASE Key # 0
        BY <1>1, <2>1, <3>2 DEF IInv, ProgressGated
      <3> QED
        BY <3>1, <3>2
    <2> QED
      BY <1>1, <2>1, <2>2, <2>3 DEF classify, InFormat, HasProgress
  <1>2. IInv /\ RefInv => WorkIsNeverImagined
    BY <1>1 DEF WorkIsNeverImagined
  <1> QED
    BY <1>2, Reference, PTL
=============================================================================
