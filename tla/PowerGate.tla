------------------------------ MODULE PowerGate -----------------------------
(***************************************************************************)
(* What the reformatting procedure promises whoever holds the power switch *)
(* (README.md, "Clearing the stale cache"; mega_progress.c, "Exit status"),*)
(* without the tools, their commands and their faults: a drive is whole,   *)
(* formatting or broken, and from time to time it is cleared for a power   *)
(* cycle.  A drive's clearance is given while it does not format and is    *)
(* gone as soon as anything else is started on it; what power takes away   *)
(* from a format, it takes by accident.                                    *)
(***************************************************************************)
EXTENDS Naturals

CONSTANT Drives

VARIABLES
  stage,      \* of each drive: "whole", "formatting" or "broken"
  cleared,    \* the drives whose power may be cycled
  accidents   \* how many times power was lost by accident

gatevars == <<stage, cleared, accidents>>

GateTypeOK ==
  /\ stage \in [Drives -> {"whole", "formatting", "broken"}]
  /\ cleared \subseteq Drives
  /\ accidents \in Nat

GateInit ==
  /\ stage \in [Drives -> {"whole", "broken"}]
  /\ cleared = {} /\ accidents = 0

(* Something is started on a drive that was cleared: it is so no longer.   *)
Begin(a) ==
  /\ cleared' = cleared \ {a}
  /\ UNCHANGED <<stage, accidents>>

StartFormat(a) ==
  /\ a \notin cleared /\ stage[a] # "formatting"
  /\ stage' = [stage EXCEPT ![a] = "formatting"]
  /\ UNCHANGED <<cleared, accidents>>

(* The drive is done, or the controller aborted the command half way.      *)
EndFormat(a) ==
  /\ stage[a] = "formatting"
  /\ \E s \in {"whole", "broken"} : stage' = [stage EXCEPT ![a] = s]
  /\ UNCHANGED <<cleared, accidents>>

Clear(a) ==
  /\ stage[a] # "formatting"
  /\ cleared' = cleared \cup {a}
  /\ UNCHANGED <<stage, accidents>>

Accident(a) ==
  /\ accidents' = accidents + 1
  /\ stage' = [stage EXCEPT ![a] = IF @ = "formatting" THEN "broken" ELSE @]
  /\ UNCHANGED cleared

GateNext ==
  \E a \in Drives : Begin(a) \/ StartFormat(a) \/ EndFormat(a) \/ Clear(a) \/ Accident(a)

GateSpec == GateInit /\ [][GateNext]_gatevars

(* Every format comes to an end.                                           *)
GateFairSpec == GateSpec /\ \A a \in Drives : WF_gatevars(EndFormat(a))
=============================================================================
