----------------------------- MODULE PartitionRun ------------------------------
(***************************************************************************)
(* One run of the streaming profile of the benchmark (v2_emitter.py): the  *)
(* cases one by one, each a request sent once for every partition of the   *)
(* value its controlled provider injects into the answer, and the report.  *)
(*                                                                         *)
(* The gateway under test is external: it may call the provider once, more *)
(* often or, answering from a cache, not at all; pass the value on or hold *)
(* it back; restore the echo or not; refuse a request; and it may mask     *)
(* what it sends or leave it raw.                                          *)
(***************************************************************************)
EXTENDS Naturals, Sequences, FiniteSets

CONSTANTS
  Cases,     \* the covering array: arm, and the length of the injected value
  Cap        \* V2_PARTITION_CAP

ASSUME PartitionAssumption ==
  Cap \in Nat /\ Cases \in Seq([arm : {"single_chunk", "adversarial"}, length : Nat \ {0}])

Families == {"exhaustive-2-part", "exhaustive-3-part"}
Oracles == {"midpoint", "union-worst-case"} \cup Families

VARIABLES
  oracle, separated,   \* of the run: --oracle, and the separation of the segments
  case, point,         \* the case being run and the partition being tried
  bodies,              \* of this case: the requests its capture recorded
  calls,               \* of this attempt: how often the gateway called
  raw,                 \* of the run: an unmasked value reached the provider
  tally,               \* of this case: leaks by family, the transport error, the echo
  results,             \* of the cases done
  seen,                \* ghost: the attempts whose answer showed the injected value
  report, turn

pvars == <<oracle, separated, case, point, bodies, calls, raw, tally, results, seen, report, turn>>

(* How many partitions one family has: one cut, or two in their order. *)
FamilySize(c, f) ==
  IF f = "exhaustive-2-part" THEN c.length - 1 ELSE ((c.length - 1) * (c.length - 2)) \div 2

Wanted(o) == IF o = "union-worst-case" THEN Families ELSE {o}
Capped(c) == {f \in Wanted(oracle) \cap Families : c.arm = "adversarial" /\ FamilySize(c, f) > Cap}

Attempted(c, f) ==
  IF c.arm = "single_chunk" \/ f \notin Wanted(oracle) \/ f \in Capped(c) THEN 0
  ELSE IF f = "midpoint" THEN 1 ELSE FamilySize(c, f)

Repeated(n, f) == [k \in 1 .. n |-> f]
InjectionPartitions(c) ==
  IF c.arm = "single_chunk" THEN <<"uncut">>
  ELSE Repeated(Attempted(c, "midpoint"), "midpoint")
         \o Repeated(Attempted(c, "exhaustive-2-part"), "exhaustive-2-part")
         \o Repeated(Attempted(c, "exhaustive-3-part"), "exhaustive-3-part")

Labels == Families \cup {"midpoint", "uncut"}
NoTally == [leaked |-> [f \in Labels |-> 0], error |-> FALSE, site |-> FALSE, restored |-> FALSE, answered |-> 0]

PRInit ==
  /\ oracle \in Oracles /\ separated \in BOOLEAN
  /\ case = 1 /\ point = 1 /\ bodies = 0 /\ calls = 0 /\ raw = FALSE
  /\ tally = NoTally /\ results = <<>> /\ seen = {} /\ report = [outcome |-> "none"] /\ turn = "probe"

Run == UNCHANGED <<oracle, separated>>
Points == InjectionPartitions(Cases[case])

(* The capture answers a nonce of this process; another server on the port *)
(* ends the run without a report.                                          *)
SelfProbe ==
  /\ turn = "probe" /\ case <= Len(Cases)
  /\ turn' \in {"attempt", "aborted"} /\ bodies' = 0
  /\ UNCHANGED <<case, point, calls, raw, tally, results, seen, report>> /\ Run

Trying == turn = "attempt" /\ point <= Len(Points) /\ ~tally.error

(* The gateway calls the provider, which records the request first. *)
Responds ==
  /\ Trying /\ calls < 2
  /\ bodies' = bodies + 1 /\ calls' = calls + 1
  /\ \E unmasked, site \in BOOLEAN :
       /\ raw' = (raw \/ unmasked)
       /\ tally' = IF bodies = 0 THEN [tally EXCEPT !.site = site] ELSE tally
  /\ UNCHANGED <<case, point, results, seen, report, turn>> /\ Run

(* Mutant: the last partition tried decides. *)
ScoredLast(t, leaks, echo) ==
  [t EXCEPT !.leaked = [f \in Labels |-> IF f = Points[point] /\ leaks THEN 1 ELSE 0],
            !.restored = IF point = 1 THEN echo ELSE @, !.answered = @ + 1]
Scored(t, leaks, echo) ==
  [t EXCEPT !.leaked[Points[point]] = @ + (IF leaks THEN 1 ELSE 0),
            !.restored = IF point = 1 THEN echo ELSE @, !.answered = @ + 1]

(* An answer is complete: it is searched for the value, for this partition. *)
AnswersAttempt ==
  /\ Trying
  /\ \E leaks, echo \in BOOLEAN :
       /\ tally' = Scored(tally, leaks, echo)
       /\ seen' = IF leaks THEN seen \cup {<<case, point>>} ELSE seen
  /\ point' = point + 1 /\ calls' = 0
  /\ UNCHANGED <<case, bodies, raw, results, report, turn>> /\ Run

(* A refusal or a broken answer: the case stops there, and is inconclusive. *)
TransportFails ==
  /\ Trying
  /\ tally' = [tally EXCEPT !.error = TRUE] /\ calls' = 0
  /\ UNCHANGED <<case, point, bodies, raw, results, seen, report, turn>> /\ Run

(* Mutant: an answer that came from elsewhere counts. *)
InconclusiveIfBroken(t, n) == t.error
Inconclusive(t, n) == t.error \/ n = 0

RunResult ==
  [arm |-> Cases[case].arm, inconclusive |-> Inconclusive(tally, bodies),
   leaked |-> tally.leaked, injectionLeaked |-> \E f \in Labels : tally.leaked[f] > 0,
   attempted |-> {f \in Families : Attempted(Cases[case], f) > 0}, capped |-> Capped(Cases[case]),
   observable |-> tally.site /\ ~tally.error, restored |-> tally.restored,
   tried |-> Len(Points), answered |-> tally.answered, recorded |-> bodies]

CaseEnds ==
  /\ turn = "attempt" /\ (point > Len(Points) \/ tally.error)
  /\ results' = Append(results, RunResult)
  /\ case' = case + 1 /\ point' = 1 /\ tally' = NoTally /\ calls' = 0
  /\ turn' = IF case = Len(Cases) THEN "report" ELSE "probe"
  /\ UNCHANGED <<bodies, raw, seen, report>> /\ Run

-----------------------------------------------------------------------------
(* The report *)

Applicable == {k \in DOMAIN results : ~results[k].inconclusive}
Observable == {k \in Applicable : results[k].observable}
Fidelity == Observable # {} /\ \A k \in Observable : results[k].restored

DeriveOutcome(leak) ==
  IF ~separated THEN "inconclusive"
  ELSE IF leak \/ raw THEN "fail"
  ELSE IF Fidelity THEN "pass" ELSE "no-leak-profile-not-met"

(* The union of the families enumerated, over the cases no cap excluded. *)
Adversarial == {k \in Applicable : results[k].arm = "adversarial"}
UnionFamilies == {f \in Families : \E k \in Adversarial : f \in results[k].attempted}
UnionRows ==
  {k \in Adversarial : results[k].attempted \cap UnionFamilies # {} /\ results[k].capped \cap UnionFamilies = {}}
WorstCase ==
  [rows |-> UnionRows, leaked |-> Cardinality({k \in UnionRows : results[k].injectionLeaked}),
   of |-> [f \in UnionFamilies |-> Cardinality({k \in UnionRows : results[k].leaked[f] > 0})]]

BuildReport ==
  /\ turn = "report"
  /\ report' = [outcome |-> DeriveOutcome(\E k \in Applicable : results[k].injectionLeaked),
                leakedTypes |-> {k \in DOMAIN results : results[k].injectionLeaked},
                worst |-> WorstCase]
  /\ turn' = "done"
  /\ UNCHANGED <<case, point, bodies, calls, raw, tally, results, seen>> /\ Run

PRNext == SelfProbe \/ Responds \/ AnswersAttempt \/ TransportFails \/ CaseEnds \/ BuildReport
PRSpec == PRInit /\ [][PRNext]_pvars

-----------------------------------------------------------------------------

HasShown(k) == \E s \in seen : s[1] = k

(* What a report rests on.  A case it scores had every one of its          *)
(* partitions answered, and a request of it reached this run's capture; it *)
(* passes only if no answer of a scored case showed the value, at whatever *)
(* partition, and nothing raw reached the provider, and it fails only if   *)
(* one did; and the worst case over the families is of cases tried with    *)
(* every family whole, and below none of them (v2_emitter.py 979-1014,     *)
(* 1606-1762, 1951-2025, 2101-2130, 2474-2484).                            *)
VerdictIsFounded ==
  turn = "done" =>
    /\ \A k \in Applicable : results[k].answered = results[k].tried /\ results[k].recorded > 0
    /\ report.outcome = "pass" => ~raw /\ \A k \in Applicable : ~HasShown(k)
    /\ report.outcome = "fail" => raw \/ \E k \in Applicable : HasShown(k)
    /\ \A f \in UnionFamilies : report.worst.leaked >= report.worst.of[f]
    /\ \A k \in report.worst.rows, f \in Families :
         f \in results[k].attempted => results[k].answered >= FamilySize(Cases[k], f)

(* The profile's own account: a case leaks if any enumerated partition     *)
(* leaks (v2_emitter.py 1624-1625, 3220), so a run in which one did does   *)
(* not pass.                                                               *)
AnyPartitionLeaks == turn = "done" /\ seen # {} => report.outcome # "pass"
=============================================================================
