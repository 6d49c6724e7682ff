----------------------------- MODULE UnionQueue -----------------------------
(***************************************************************************)
(* The union evaluation of the merge queue (hugit-queue core/union.rs) and *)
(* the staged landing that uses it (hugit-cli land/mod.rs,                 *)
(* batch_land_in_context).  A batch is probed as a whole; a red batch is   *)
(* probed member by member, then pair by pair, and what is left after the  *)
(* exclusion is probed again before it may proceed.  Probes are bounded by *)
(* a budget and by one deadline, which can pass at any moment; a result    *)
(* can be revoked, and the batch can change under it.                      *)
(*                                                                         *)
(* Members are their queue positions.  The oracle is the caller's: it may  *)
(* answer anything, also differently for the same set.                     *)
(***************************************************************************)
EXTENDS Naturals, FiniteSets

CONSTANTS
  Positions,    \* queue positions a batch may fill
  Budgets       \* values of EvaluationLimits::max_probes

ASSUME UnionAssumption ==
  Positions \subseteq Nat /\ IsFiniteSet(Positions) /\ Budgets \subseteq Nat

VARIABLES
  members,   \* the batch
  input,     \* "valid", or what is wrong with the batch, context or limits
  limit,     \* max_probes
  expired,   \* Instant::now() >= deadline
  altered,   \* the batch is no longer the one evaluated
  phase,     \* begin, ask, answer, conclude, ready, staged, landed or held
  stage,     \* what is being probed: union, single, pair or remainder
  probe,     \* the set handed to the oracle
  probes,    \* oracle calls so far
  ev,        \* the UnionEvaluation under construction
  answers,   \* history: set asked, verdict, whether it came after the deadline
  landed     \* history: members whose pr.landed was committed

vars == <<members, input, limit, expired, altered, phase, stage, probe, probes,
          ev, answers, landed>>
given == <<members, input, limit>>

Verdicts == {"green", "red", "unknown", "infrastructure_failure"}
BadInputs == {"invalid_batch", "invalid_limits", "invalid_context"}
Stops == BadInputs \union
  {"none", "deadline_exceeded", "probe_budget_exhausted", "unknown",
   "infrastructure_failure", "invalidated"}

Evaluations ==
  [verdict : Verdicts, locus : SUBSET Positions, proceeding : SUBSET Positions,
   held : SUBSET Positions, excluded : SUBSET Positions, stop : Stops,
   revoked : BOOLEAN]

Init ==
  /\ members \in SUBSET Positions
  /\ input \in BadInputs \union {"valid"} /\ limit \in Budgets
  /\ expired = FALSE /\ altered = FALSE
  /\ phase = "begin" /\ stage = "union" /\ probe = {} /\ probes = 0
  /\ ev = [verdict |-> "unknown", locus |-> {}, proceeding |-> {},
           held |-> members, excluded |-> {}, stop |-> "none", revoked |-> FALSE]
  /\ answers = {} /\ landed = {}

\* The environment: time passes, callers revoke or change things.
Expire ==
  /\ ~expired /\ expired' = TRUE
  /\ UNCHANGED <<given, altered, phase, stage, probe, probes, ev, answers, landed>>

Alter ==
  /\ phase \in {"ready", "staged"} /\ ~altered /\ altered' = TRUE
  /\ UNCHANGED <<given, expired, phase, stage, probe, probes, ev, answers, landed>>

-----------------------------------------------------------------------------
(* evaluate_union_with_clock. *)

\* An inconclusive evaluation grants nothing and holds everybody.
Stopped(reason) ==
  /\ ev' = [ev EXCEPT
       !.verdict = IF @ = "unknown" /\ reason = "infrastructure_failure" THEN reason ELSE @,
       !.stop = reason, !.proceeding = {}, !.excluded = {}, !.held = members,
       !.revoked = TRUE]
  /\ phase' = "ready"
  /\ UNCHANGED <<stage, probe>>

Asking(s, what) == stage' = s /\ probe' = what /\ phase' = "ask"

\* The result is built; the deadline is looked at once more.
Concluding(result) ==
  /\ ev' = result /\ phase' = "conclude"
  /\ UNCHANGED <<stage, probe>>

Begin ==
  /\ phase = "begin"
  /\ CASE input # "valid" -> Stopped(input)
       [] input = "valid" /\ members = {} -> Concluding([ev EXCEPT !.verdict = "green"])
       [] OTHER -> Asking("union", members) /\ UNCHANGED ev
  /\ UNCHANGED <<given, expired, altered, probes, answers, landed>>

\* Mutant: an exhausted budget waits for the deadline.
AskWaiting ==
  /\ phase = "ask"
  /\ \/ expired /\ Stopped("deadline_exceeded") /\ UNCHANGED probes
     \/ /\ ~expired /\ probes < limit
        /\ probes' = probes + 1 /\ phase' = "answer" /\ UNCHANGED <<stage, probe, ev>>
  /\ UNCHANGED <<given, expired, altered, answers, landed>>

\* ProbeBudget::probe up to the call of the oracle.
Ask ==
  /\ phase = "ask"
  /\ CASE expired -> Stopped("deadline_exceeded") /\ UNCHANGED probes
       [] ~expired /\ probes >= limit ->
            Stopped("probe_budget_exhausted") /\ UNCHANGED probes
       [] OTHER -> probes' = probes + 1 /\ phase' = "answer" /\ UNCHANGED <<stage, probe, ev>>
  /\ UNCHANGED <<given, expired, altered, answers, landed>>

\* The next diagnostic probe of bisect_failure, in queue order.
First(s) == CHOOSE i \in s : \A j \in s : i <= j
Last(s) == CHOOSE i \in s : \A j \in s : j <= i
After(i) == {j \in members : j > i}
FirstPair == {First(members), First(members \ {First(members)})}

\* Pairs that come after the pair p.
LaterPair(p) ==
  IF After(Last(p)) # {} THEN {First(p), First(After(Last(p)))}
  ELSE LET i == First(After(First(p))) IN {i, First(After(i))}
LastPair(p) == Cardinality(After(First(p))) = 1

\* No single and no pair is red: the failure cannot be blamed on anyone.
Unlocalised == Concluding(ev)

\* Mutant: the rest proceeds because it is not blamed.
LocalisedUntested(s) ==
  LET remainder == members \ s
  IN  Concluding([ev EXCEPT !.locus = s, !.excluded = s,
                            !.proceeding = remainder, !.held = {}])

\* The blamed members are excluded; the others have to be probed together.
Localised(s) ==
  LET remainder == members \ s
  IN  IF remainder = {}
        THEN Concluding([ev EXCEPT !.locus = s, !.excluded = s, !.held = {}])
        ELSE Asking("remainder", remainder) /\ ev' = [ev EXCEPT !.locus = s]

\* A timely green or red answer.
UnionAnswer(v) ==
  IF v = "green"
    THEN Concluding([ev EXCEPT !.verdict = v, !.proceeding = members, !.held = {}])
    ELSE Asking("single", {First(members)}) /\ ev' = [ev EXCEPT !.verdict = v]

SingleAnswer(v) ==
  CASE v = "red" -> Localised(probe)
    [] v = "green" /\ After(First(probe)) # {} ->
         Asking("single", {First(After(First(probe)))}) /\ UNCHANGED ev
    [] v = "green" /\ After(First(probe)) = {} /\ Cardinality(members) > 1 ->
         Asking("pair", FirstPair) /\ UNCHANGED ev
    [] OTHER -> Unlocalised

PairAnswer(v) ==
  CASE v = "red" -> Localised(probe)
    [] v = "green" /\ ~LastPair(probe) -> Asking("pair", LaterPair(probe)) /\ UNCHANGED ev
    [] OTHER -> Unlocalised

RemainderAnswer(v) ==
  LET blamed == [ev EXCEPT !.excluded = ev.locus]
  IN  IF v = "green"
        THEN Concluding([blamed EXCEPT !.proceeding = probe, !.held = {}])
        ELSE Concluding([blamed EXCEPT !.held = probe])

Advance(v) ==
  CASE stage = "union" -> UnionAnswer(v)
    [] stage = "single" -> SingleAnswer(v)
    [] stage = "pair" -> PairAnswer(v)
    [] stage = "remainder" -> RemainderAnswer(v)

\* The oracle returns; what it says counts only before the deadline.
Answer(v) ==
  /\ phase = "answer"
  /\ answers' = answers \union {<<probe, v, expired>>}
  /\ CASE expired -> Stopped("deadline_exceeded")
       [] ~expired /\ v \in {"green", "red"} -> Advance(v)
       [] OTHER -> Stopped(v)
  /\ UNCHANGED <<given, expired, altered, probes, landed>>

Conclude ==
  /\ phase = "conclude"
  /\ IF members # {} /\ expired
       THEN Stopped("deadline_exceeded")
       ELSE phase' = "ready" /\ UNCHANGED <<ev, stage, probe>>
  /\ UNCHANGED <<given, expired, altered, probes, answers, landed>>

-----------------------------------------------------------------------------
(* Use of the result. *)

\* UnionEvaluation::invalidate, of this result or of a clone of it: clones
\* share the flag only.
Revoke ==
  /\ phase \in {"ready", "staged"}
  /\ \/ ev' = [ev EXCEPT !.revoked = TRUE]
     \/ ev' = [ev EXCEPT !.revoked = TRUE, !.stop = "invalidated",
                         !.proceeding = {}, !.held = members]
  /\ UNCHANGED <<given, expired, altered, phase, stage, probe, probes, answers, landed>>

\* authorize_for: live, and bound to this batch and context.
authorize_for == ~ev.revoked /\ ~expired /\ ~altered

\* The first check, before events are appended to a clone of the log.
Stage ==
  /\ phase = "ready"
  /\ phase' = IF ev.stop = "none" /\ authorize_for THEN "staged" ELSE "held"
  /\ UNCHANGED <<given, expired, altered, stage, probe, probes, ev, answers, landed>>

\* The second check, then the clone replaces the log.
Commit ==
  /\ phase = "staged"
  /\ IF authorize_for
       THEN phase' = "landed" /\ landed' = ev.proceeding
       ELSE phase' = "held" /\ UNCHANGED landed
  /\ UNCHANGED <<given, expired, altered, stage, probe, probes, ev, answers>>

Step == Begin \/ Ask \/ (\E v \in Verdicts : Answer(v)) \/ Conclude \/ Stage \/ Commit

Next == Step \/ Expire \/ Alter \/ Revoke

Spec == Init /\ [][Next]_vars

\* The calling thread runs on, and the oracle returns.
FairSpec == Spec /\ WF_vars(Step)
-----------------------------------------------------------------------------
(* Properties. *)

TypeOK ==
  /\ members \in SUBSET Positions /\ input \in BadInputs \union {"valid"} /\ limit \in Budgets
  /\ expired \in BOOLEAN /\ altered \in BOOLEAN
  /\ phase \in {"begin", "ask", "answer", "conclude", "ready", "staged", "landed", "held"}
  /\ stage \in {"union", "single", "pair", "remainder"}
  /\ probe \in SUBSET members /\ probes \in 0..limit
  /\ ev \in Evaluations
  /\ answers \in SUBSET ((SUBSET Positions) \X Verdicts \X BOOLEAN)
  /\ landed \in SUBSET Positions

Timely(s, v) == <<s, v, FALSE>> \in answers

\* What lands was green when probed together, as this very set, and the
\* answer came before the deadline: a set that is merely not blamed never
\* lands untested.
LandedWasGreen == landed # {} => Timely(landed, "green")

\* A member is excluded only on evidence against it: it is red alone, or it
\* is in a red pair both of whose members are green alone.
BlameProved ==
  ev.excluded # {} =>
    /\ Timely(members, "red") /\ Timely(ev.excluded, "red")
    /\ Cardinality(ev.excluded) \in {1, 2}
    /\ Cardinality(ev.excluded) = 2 => \A i \in ev.excluded : Timely({i}, "green")

\* A red batch without a culprit means that every single and every pair was
\* probed and green: the scan of bisect_failure leaves none out.
DiagnosisComplete ==
  phase = "conclude" /\ ev.verdict = "red" /\ ev.locus = {} =>
    \A i, j \in members : Timely({i, j}, "green")

\* Nobody is dropped: a conclusive result sends every member to exactly one
\* of proceeding, held and excluded, an inconclusive one holds all of them.
Accounted ==
  phase \in {"ready", "staged", "landed"} =>
    IF ev.stop = "none"
      THEN /\ members = ev.proceeding \union ev.held \union ev.excluded
           /\ ev.proceeding \intersect ev.held = {}
           /\ ev.excluded \intersect (ev.proceeding \union ev.held) = {}
      ELSE ev.proceeding = {} /\ ev.held = members

\* Diagnosis stays quadratic, whatever the budget: no set is probed twice.
ProbesQuadratic ==
  LET n == Cardinality(members)
  IN  2 * probes <= 4 + 2 * n + n * (n - 1)

\* A union evaluation as a whole: nothing lands untested, nobody is blamed
\* without proof, nobody is forgotten, and the probes stay bounded.
UnionSound ==
  LandedWasGreen /\ BlameProved /\ DiagnosisComplete /\ Accounted /\ ProbesQuadratic

\* Every evaluation comes to an end, with a commit or with everybody held.
Decides == <>(phase \in {"landed", "held"})
=============================================================================
