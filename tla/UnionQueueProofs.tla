-------------------------- MODULE UnionQueueProofs --------------------------
(***************************************************************************)
(* The scan of bisect_failure, for batches of any size, any oracle and any *)
(* budget: what it has probed when it asks its next question.              *)
(***************************************************************************)
EXTENDS UnionQueue, FiniteSetTheorems, WellFoundedInduction, TLAPS

\* A set of naturals that is not empty has a least member.
LEMMA Least ==
  ASSUME NEW T \in SUBSET Nat, T # {}
  PROVE  /\ First(T) \in T
         /\ \A y \in T : First(T) <= y
<1>1. PICK x \in T : \A y \in T : <<y, x>> \notin OpToRel(<, Nat)
  BY NatLessThanWellFounded, WFMin
<1>2. \A y \in T : ~(y < x)
  BY <1>1 DEF OpToRel
<1>3. \E i \in T : \A j \in T : i <= j
  BY <1>2
<1> QED BY <1>3 DEF First

LEMMA FirstLastOfPair ==
  ASSUME NEW i \in Nat, NEW j \in Nat, i < j
  PROVE  First({i}) = i /\ First({i, j}) = i /\ Last({i, j}) = j
<1>1. First({i}) = i
  BY DEF First
<1>2. First({i, j}) \in {i, j} /\ \A y \in {i, j} : First({i, j}) <= y
  BY Least
<1>3. \E k \in {i, j} : \A y \in {i, j} : y <= k
  OBVIOUS
<1>4. Last({i, j}) \in {i, j} /\ \A y \in {i, j} : y <= Last({i, j})
  BY <1>3 DEF Last
<1> QED BY <1>1, <1>2, <1>4

\* The members after a position, and after the next one: one fewer.
LEMMA AfterFirst ==
  ASSUME members \in SUBSET Positions
  PROVE  /\ IsFiniteSet(members) /\ Cardinality(members) \in Nat
         /\ members \in SUBSET Nat
         /\ \A i \in Nat :
              /\ After(i) \in SUBSET members
              /\ IsFiniteSet(After(i)) /\ Cardinality(After(i)) \in Nat
              /\ After(i) = {} <=> Cardinality(After(i)) = 0
         /\ \A i \in Nat : After(i) # {} =>
              LET k == First(After(i))
              IN  /\ k \in After(i) /\ \A y \in After(i) : k <= y
                  /\ After(k) = After(i) \ {k}
                  /\ Cardinality(After(k)) = Cardinality(After(i)) - 1
         /\ members # {} =>
              LET k == First(members)
              IN  /\ k \in members /\ \A y \in members : k <= y
                  /\ After(k) = members \ {k}
                  /\ Cardinality(After(k)) = Cardinality(members) - 1
<1>1. IsFiniteSet(members) /\ Cardinality(members) \in Nat /\ members \in SUBSET Nat
  BY UnionAssumption, FS_Subset, FS_CardinalityType
<1>2. ASSUME NEW i \in Nat
      PROVE  /\ After(i) \in SUBSET members
             /\ IsFiniteSet(After(i)) /\ Cardinality(After(i)) \in Nat
             /\ After(i) = {} <=> Cardinality(After(i)) = 0
  <2>1. After(i) \in SUBSET members
    BY DEF After
  <2>2. IsFiniteSet(After(i))
    BY <1>1, <2>1, FS_Subset
  <2> QED BY <2>1, <2>2, FS_CardinalityType, FS_EmptySet
<1>3. ASSUME NEW i \in Nat, After(i) # {}
      PROVE  LET k == First(After(i))
             IN  /\ k \in After(i) /\ \A y \in After(i) : k <= y
                 /\ After(k) = After(i) \ {k}
                 /\ Cardinality(After(k)) = Cardinality(After(i)) - 1
  <2> DEFINE k == First(After(i))
  <2>1. k \in After(i) /\ \A y \in After(i) : k <= y
    BY <1>1, <1>2, <1>3, Least
  <2> HIDE DEF k
  <2>4. \A y \in After(i) : y \in Nat /\ y \in members /\ y > i
    BY <1>1 DEF After
  <2>5. \A y \in members : y > k <=> (y \in After(i) /\ y # k)
    BY <1>1, <2>1, <2>4 DEF After
  <2>2. After(k) = After(i) \ {k}
    BY <2>4, <2>5 DEF After
  <2>3. Cardinality(After(i) \ {k}) = Cardinality(After(i)) - 1
    BY <1>2, <2>1, FS_RemoveElement
  <2> QED BY <2>1, <2>2, <2>3 DEF k
<1>4. ASSUME members # {}
      PROVE  LET k == First(members)
             IN  /\ k \in members /\ \A y \in members : k <= y
                 /\ After(k) = members \ {k}
                 /\ Cardinality(After(k)) = Cardinality(members) - 1
  <2> DEFINE k == First(members)
  <2>1. k \in members /\ \A y \in members : k <= y
    BY <1>1, <1>4, Least
  <2> HIDE DEF k
  <2>5. \A y \in members : y > k <=> y # k
    BY <1>1, <2>1
  <2>2. After(k) = members \ {k}
    BY <2>5 DEF After
  <2>3. Cardinality(members \ {k}) = Cardinality(members) - 1
    BY <1>1, <2>1, FS_RemoveElement
  <2> QED BY <2>1, <2>2, <2>3 DEF k
<1> QED BY <1>1, <1>2, <1>3, <1>4

-----------------------------------------------------------------------------
(* The invariant. *)

N == Cardinality(members)

\* Probes made before the one in hand, and how many there may be in all.
Spent == IF phase = "answer" THEN probes - 1 ELSE probes
Room == 2 * (N + 1) + N * (N - 1)

\* The probe in hand is member i alone: everybody before i is green alone.
SingleAt(i) ==
  /\ probe = {i}
  /\ \A k \in members : k < i => Timely({k}, "green")
  /\ Spent + Cardinality(After(i)) <= N

\* The probe in hand is the pair of i and j: everybody is green alone, and so
\* is every pair before this one.  The pairs still to come are the rest of
\* row i and the rows after it.
PairAt(i, j) ==
  /\ i < j /\ probe = {i, j}
  /\ \A k \in members : Timely({k}, "green")
  /\ \A k, m \in members : k < m /\ (k < i \/ (k = i /\ m < j)) => Timely({k, m}, "green")
  /\ 2 * Spent + 2 * (1 + Cardinality(After(j)))
       + Cardinality(After(i)) * (Cardinality(After(i)) - 1) <= Room

\* What it takes to be excluded.
Guilty(s) ==
  /\ s # {} /\ s \in SUBSET members
  /\ Timely(members, "red") /\ Timely(s, "red")
  /\ Cardinality(s) \in {1, 2}
  /\ Cardinality(s) = 2 => \A i \in s : Timely({i}, "green")

\* While it probes, the evaluation has decided about nobody.
Undecided ==
  ev.stop = "none" /\ ev.proceeding = {} /\ ev.excluded = {} /\ ev.held = members

ProbeInv ==
  phase \in {"ask", "answer"} =>
    /\ Undecided /\ members # {}
    /\ phase = "answer" => probes >= 1
    /\ stage = "union" => probe = members /\ ev.locus = {} /\ Spent = 0
    /\ stage # "union" => ev.verdict = "red" /\ Timely(members, "red")
    /\ stage = "single" => ev.locus = {} /\ \E i \in members : SingleAt(i)
    /\ stage = "pair" => ev.locus = {} /\ \E i, j \in members : PairAt(i, j)
    /\ stage = "remainder" => /\ probe = members \ ev.locus /\ probe # {}
                              /\ Guilty(ev.locus) /\ 2 * Spent <= Room

\* Everybody is sent to exactly one place.
Partitioned ==
  /\ members = ev.proceeding \union ev.held \union ev.excluded
  /\ ev.proceeding \intersect ev.held = {}
  /\ ev.excluded \intersect (ev.proceeding \union ev.held) = {}

ResultInv ==
  /\ phase = "begin" => Undecided /\ ev.locus = {} /\ ev.verdict = "unknown" /\ probes = 0
  /\ phase = "conclude" => ev.stop = "none" /\ Partitioned
  /\ ev.proceeding # {} => Timely(ev.proceeding, "green")
  /\ LandedWasGreen /\ BlameProved /\ DiagnosisComplete /\ Accounted
  /\ 2 * probes <= Room + 2

UnionInv == TypeOK /\ ProbeInv /\ ResultInv

LEMMA UnionInitial == Init => UnionInv
<1> SUFFICES ASSUME Init PROVE UnionInv
  OBVIOUS
<1> USE DEF Init
<1>1. TypeOK
  <2>1. probes \in 0..limit
    BY UnionAssumption
  <2>2. ev \in Evaluations
    BY DEF Evaluations, Verdicts, Stops
  <2> QED BY <2>1, <2>2 DEF TypeOK, Verdicts
<1>2. N \in Nat
  BY <1>1, AfterFirst DEF N, TypeOK
<1>3. 2 * probes <= Room + 2
  <2>1. N * (N - 1) >= 0
    BY <1>2
  <2> QED BY <1>2, <2>1 DEF Room
<1>4. ResultInv
  BY <1>3 DEF ResultInv, Undecided, LandedWasGreen, BlameProved, DiagnosisComplete, Accounted
<1> QED BY <1>1, <1>4 DEF UnionInv, ProbeInv

-----------------------------------------------------------------------------
(* The three ways an evaluation goes on: it stops, it concludes, it asks.   *)

AnswerType == SUBSET ((SUBSET Positions) \X Verdicts \X BOOLEAN)

\* What all of them leave alone; answers are never taken back.
Frame ==
  /\ UNCHANGED <<given, landed, probes>>
  /\ expired' \in BOOLEAN /\ altered' \in BOOLEAN
  /\ answers' \in AnswerType /\ answers \subseteq answers'

\* A timely answer after the step.
Told(s, v) == <<s, v, FALSE>> \in answers'

LEMMA StopKeeps ==
  ASSUME UnionInv, Frame, NEW reason \in Stops \ {"none"}, Stopped(reason)
  PROVE  UnionInv'
<1> USE DEF Frame, given, Stopped
<1>1. TypeOK'
  <2>1. ev' \in Evaluations
    BY DEF UnionInv, TypeOK, Evaluations, Stops, Verdicts, BadInputs
  <2> QED BY <2>1 DEF UnionInv, TypeOK, AnswerType
<1>2. /\ ev'.stop = reason /\ ev'.proceeding = {} /\ ev'.excluded = {}
      /\ ev'.held = members /\ phase' = "ready"
  BY DEF UnionInv, TypeOK, Evaluations
<1>3. LandedWasGreen'
  BY DEF UnionInv, ResultInv, LandedWasGreen, Timely
<1>4. BlameProved' /\ DiagnosisComplete' /\ Accounted'
  BY <1>2 DEF BlameProved, DiagnosisComplete, Accounted
<1>5. Room' = Room
  BY DEF Room, N
<1>6. ResultInv'
  BY <1>2, <1>3, <1>4, <1>5 DEF UnionInv, ResultInv
<1>7. ProbeInv'
  BY <1>2 DEF ProbeInv
<1> QED BY <1>1, <1>6, <1>7 DEF UnionInv

\* A result r that the evidence supports.
Supported(r) ==
  /\ r \in Evaluations /\ r.stop = "none"
  /\ members = r.proceeding \union r.held \union r.excluded
  /\ r.proceeding \intersect r.held = {}
  /\ r.excluded \intersect (r.proceeding \union r.held) = {}
  /\ r.proceeding # {} => Told(r.proceeding, "green")
  /\ r.excluded # {} =>
       /\ Told(members, "red") /\ Told(r.excluded, "red")
       /\ Cardinality(r.excluded) \in {1, 2}
       /\ Cardinality(r.excluded) = 2 => \A i \in r.excluded : Told({i}, "green")
  /\ r.verdict = "red" /\ r.locus = {} =>
       \A i, j \in members : Told({i, j}, "green")

LEMMA ConcludingKeeps ==
  ASSUME UnionInv, Frame, NEW r, Concluding(r), Supported(r)
  PROVE  UnionInv'
<1> USE DEF Frame, given, Concluding
<1>0. ev' = r /\ phase' = "conclude" /\ members' = members
  OBVIOUS
<1>1. TypeOK'
  BY DEF UnionInv, TypeOK, AnswerType, Supported
<1>2. Partitioned' /\ ev'.stop = "none"
  BY <1>0 DEF Partitioned, Supported
<1>3. LandedWasGreen'
  BY DEF UnionInv, ResultInv, LandedWasGreen, Timely
<1>4. BlameProved'
  BY <1>0 DEF BlameProved, Supported, Timely, Told
<1>5. DiagnosisComplete'
  BY <1>0 DEF DiagnosisComplete, Supported, Timely, Told
<1>6. Accounted'
  BY <1>0 DEF Accounted
<1>7. ev'.proceeding # {} => Timely(ev.proceeding, "green")'
  BY <1>0 DEF Supported, Timely, Told
<1>8. Room' = Room
  BY DEF Room, N
<1>9. ResultInv'
  BY <1>0, <1>2, <1>3, <1>4, <1>5, <1>6, <1>7, <1>8 DEF UnionInv, ResultInv
<1>10. ProbeInv'
  BY <1>0 DEF ProbeInv
<1> QED BY <1>1, <1>9, <1>10 DEF UnionInv

\* The next question, when its own part of the invariant is shown.
LEMMA AskingKeeps ==
  ASSUME UnionInv, Frame, NEW s \in {"union", "single", "pair", "remainder"},
         NEW what \in SUBSET members, Asking(s, what),
         ev' \in Evaluations, Undecided', ProbeInv'
  PROVE  UnionInv'
<1> USE DEF Frame, given, Asking
<1>1. TypeOK'
  BY DEF UnionInv, TypeOK, AnswerType
<1>2. LandedWasGreen'
  BY DEF UnionInv, ResultInv, LandedWasGreen, Timely
<1>3. BlameProved' /\ DiagnosisComplete' /\ Accounted'
  BY DEF BlameProved, DiagnosisComplete, Accounted, Undecided
<1>4. Room' = Room
  BY DEF Room, N
<1>5. ResultInv'
  BY <1>2, <1>3, <1>4 DEF UnionInv, ResultInv, Undecided
<1> QED BY <1>1, <1>5 DEF UnionInv

-----------------------------------------------------------------------------
(* Answers of the oracle. *)

\* What does not change with an answer; the next question has one probe more
\* behind it.
LEMMA Measures ==
  ASSUME TypeOK, Frame
  PROVE  /\ members' = members /\ N' = N /\ Room' = Room
         /\ \A i : After(i)' = After(i)
         /\ N \in Nat /\ N * (N - 1) >= 0
         /\ probes' = probes /\ probes \in Nat
<1>1. members' = members /\ probes' = probes
  BY DEF Frame, given
<1>2. N' = N /\ Room' = Room /\ \A i : After(i)' = After(i)
  BY <1>1 DEF N, Room, After
<1>3. N \in Nat
  BY AfterFirst DEF TypeOK, N
<1>4. N * (N - 1) >= 0
  BY <1>3
<1>5. probes \in Nat
  BY UnionAssumption DEF TypeOK
<1> QED BY <1>1, <1>2, <1>3, <1>4, <1>5

\* s is blamed: excluded at once, or the others are asked about first.
LEMMA LocalisedKeeps ==
  ASSUME UnionInv, Frame, phase = "answer", stage \in {"single", "pair"},
         NEW s, Localised(s), s # {}, s \in SUBSET members,
         Told(members, "red"), Told(s, "red"), Cardinality(s) \in {1, 2},
         Cardinality(s) = 2 => \A i \in s : Told({i}, "green"),
         2 * (Spent + 1) <= Room
  PROVE  UnionInv'
<1> DEFINE rest == members \ s
           r == [ev EXCEPT !.locus = s, !.excluded = s, !.held = {}]
<1>0. /\ Undecided /\ ev.verdict = "red" /\ ev \in Evaluations /\ members # {}
      /\ TypeOK /\ members \in SUBSET Positions
  BY DEF UnionInv, ProbeInv, TypeOK
<1>1. CASE rest = {}
  <2>1. Concluding(r)
    BY <1>1 DEF Localised
  <2>2. /\ r \in Evaluations /\ r.locus = s /\ r.excluded = s /\ r.held = {}
        /\ r.proceeding = {} /\ r.stop = "none"
    BY <1>0 DEF Undecided, Evaluations
  <2>3. members = s
    BY <1>1
  <2> HIDE DEF r
  <2>4. Supported(r)
    BY <2>2, <2>3 DEF Supported
  <2> QED BY <2>1, <2>4, ConcludingKeeps
<1>2. CASE rest # {}
  <2>1. Asking("remainder", rest) /\ ev' = [ev EXCEPT !.locus = s]
    BY <1>2 DEF Localised
  <2>2. /\ ev' \in Evaluations /\ ev'.locus = s /\ ev'.excluded = {}
        /\ ev'.held = members /\ ev'.proceeding = {} /\ ev'.stop = "none"
        /\ ev'.verdict = "red"
    BY <1>0, <2>1 DEF Undecided, Evaluations
  <2>3. /\ members' = members /\ Room' = Room /\ probes' = probes /\ probes \in Nat
    BY <1>0, Measures
  <2>4. phase' = "ask" /\ stage' = "remainder" /\ probe' = rest
    BY <2>1 DEF Asking
  <2>5. Spent' = Spent + 1
    BY <2>3, <2>4 DEF Spent
  <2>6. Undecided'
    BY <2>2, <2>3 DEF Undecided
  <2>7. Guilty(ev.locus)'
    BY <2>2, <2>3 DEF Guilty, Timely, Told
  <2>8. ProbeInv'
    <3>1. 2 * Spent' <= Room'
      BY <2>3, <2>5
    <3>2. Timely(members, "red")'
      BY <2>3 DEF Timely, Told
    <3> QED BY <1>0, <1>2, <2>2, <2>3, <2>4, <2>6, <2>7, <3>1, <3>2 DEF ProbeInv
  <2> QED BY <2>1, <2>2, <2>6, <2>8, AskingKeeps
<1> QED BY <1>1, <1>2

LEMMA UnionAnswerKeeps ==
  ASSUME UnionInv, Frame, phase = "answer", stage = "union",
         NEW v \in {"green", "red"}, Told(probe, v), UnionAnswer(v)
  PROVE  UnionInv'
<1>0. /\ Undecided /\ ev \in Evaluations /\ members # {} /\ TypeOK
      /\ members \in SUBSET Positions /\ probe = members /\ ev.locus = {}
      /\ Spent = 0 /\ probes >= 1
  BY DEF UnionInv, ProbeInv, TypeOK
<1>1. CASE v = "green"
  <2> DEFINE r == [ev EXCEPT !.verdict = v, !.proceeding = members, !.held = {}]
  <2>1. Concluding(r)
    BY <1>1 DEF UnionAnswer
  <2>2. /\ r \in Evaluations /\ r.excluded = {} /\ r.held = {}
        /\ r.proceeding = members /\ r.stop = "none" /\ r.verdict = "green"
    BY <1>0, <1>1 DEF Undecided, Evaluations, Verdicts
  <2> HIDE DEF r
  <2>3. Supported(r)
    BY <1>0, <1>1, <2>2 DEF Supported
  <2> QED BY <2>1, <2>3, ConcludingKeeps
<1>2. CASE v = "red"
  <2>0. PICK k : k = First(members)
    OBVIOUS
  <2>1. Asking("single", {k}) /\ ev' = [ev EXCEPT !.verdict = v]
    BY <1>2, <2>0 DEF UnionAnswer
  <2>2. /\ ev' \in Evaluations /\ ev'.locus = {} /\ ev'.excluded = {}
        /\ ev'.held = members /\ ev'.proceeding = {} /\ ev'.stop = "none"
        /\ ev'.verdict = "red"
    BY <1>0, <1>2, <2>1 DEF Undecided, Evaluations, Verdicts
  <2>3. /\ members' = members /\ N' = N /\ probes' = probes /\ probes \in Nat
        /\ N \in Nat /\ After(k)' = After(k)
    BY <1>0, Measures
  <2>4. /\ k \in members /\ members \in SUBSET Nat /\ \A y \in members : k <= y
        /\ Cardinality(After(k)) = N - 1
    BY <1>0, <2>0, AfterFirst DEF N
  <2>5. phase' = "ask" /\ stage' = "single" /\ probe' = {k}
    BY <2>1 DEF Asking
  <2>6. Spent' = 1
    BY <1>0, <2>3, <2>5 DEF Spent
  <2>7. Undecided'
    BY <2>2, <2>3 DEF Undecided
  <2>8. SingleAt(k)'
    <3>1. \A y \in members : ~(y < k)
      BY <2>4
    <3>2. Spent' + Cardinality(After(k)') <= N'
      BY <2>3, <2>4, <2>6
    <3> QED BY <2>3, <2>5, <3>1, <3>2 DEF SingleAt
  <2>9. Timely(members, "red")'
    BY <1>0, <1>2, <2>3 DEF Timely, Told
  <2>10. ProbeInv'
    BY <1>0, <2>2, <2>3, <2>4, <2>5, <2>7, <2>8, <2>9 DEF ProbeInv
  <2>11. {k} \in SUBSET members
    BY <2>4
  <2> QED BY <2>1, <2>2, <2>7, <2>10, <2>11, AskingKeeps
<1> QED BY <1>1, <1>2

LEMMA RemainderAnswerKeeps ==
  ASSUME UnionInv, Frame, phase = "answer", stage = "remainder",
         NEW v \in {"green", "red"}, Told(probe, v), RemainderAnswer(v)
  PROVE  UnionInv'
<1>0. /\ Undecided /\ ev \in Evaluations /\ ev.verdict = "red"
      /\ probe = members \ ev.locus /\ probe # {} /\ Guilty(ev.locus)
      /\ members \in SUBSET Positions
  BY DEF UnionInv, ProbeInv, TypeOK
<1>1. /\ Told(members, "red") /\ Told(ev.locus, "red")
      /\ Cardinality(ev.locus) \in {1, 2}
      /\ Cardinality(ev.locus) = 2 => \A i \in ev.locus : Told({i}, "green")
      /\ ev.locus # {} /\ ev.locus \in SUBSET members
  BY <1>0 DEF Guilty, Timely, Told, Frame
<1>2. CASE v = "green"
  <2> DEFINE r == [[ev EXCEPT !.excluded = ev.locus] EXCEPT !.proceeding = probe, !.held = {}]
  <2>1. Concluding(r)
    BY <1>2 DEF RemainderAnswer
  <2>2. /\ r \in Evaluations /\ r.excluded = ev.locus /\ r.held = {} /\ r.locus = ev.locus
        /\ r.proceeding = probe /\ r.stop = "none"
    BY <1>0, <1>1 DEF Undecided, Evaluations
  <2> HIDE DEF r
  <2>3. Supported(r)
    BY <1>0, <1>1, <1>2, <2>2 DEF Supported
  <2> QED BY <2>1, <2>3, ConcludingKeeps
<1>3. CASE v = "red"
  <2> DEFINE r == [[ev EXCEPT !.excluded = ev.locus] EXCEPT !.held = probe]
  <2>1. Concluding(r)
    BY <1>3 DEF RemainderAnswer
  <2>2. /\ r \in Evaluations /\ r.excluded = ev.locus /\ r.held = probe /\ r.locus = ev.locus
        /\ r.proceeding = {} /\ r.stop = "none"
    BY <1>0, <1>1 DEF Undecided, Evaluations
  <2> HIDE DEF r
  <2>3. Supported(r)
    BY <1>0, <1>1, <1>3, <2>2 DEF Supported
  <2> QED BY <2>1, <2>3, ConcludingKeeps
<1> QED BY <1>2, <1>3

\* The next question of the scan over single members.
LEMMA AskSingleKeeps ==
  ASSUME UnionInv, Frame, phase = "answer", stage = "single", NEW i \in members,
         Spent + Cardinality(After(i)) <= N, After(i) # {},
         \A y \in members : y <= i => Told({y}, "green"),
         Asking("single", {First(After(i))}), ev' = ev
  PROVE  UnionInv'
<1>0. /\ Undecided /\ ev \in Evaluations /\ members # {} /\ TypeOK
      /\ members \in SUBSET Positions /\ ev.locus = {} /\ probes >= 1
      /\ ev.verdict = "red" /\ Timely(members, "red")
  BY DEF UnionInv, ProbeInv, TypeOK
<1>1. PICK k : k = First(After(i))
  OBVIOUS
<1>2. /\ members' = members /\ N' = N /\ probes' = probes /\ probes \in Nat
      /\ N \in Nat /\ After(k)' = After(k)
  BY <1>0, Measures
<1>3. /\ members \in SUBSET Nat /\ i \in Nat
      /\ Cardinality(After(i)) \in Nat
      /\ k \in After(i) /\ \A y \in After(i) : k <= y
      /\ Cardinality(After(k)) = Cardinality(After(i)) - 1
  BY <1>0, <1>1, AfterFirst
<1>4. phase' = "ask" /\ stage' = "single" /\ probe' = {k}
  BY <1>1 DEF Asking
<1>5. Spent' = Spent + 1 /\ Spent \in Int
  BY <1>2, <1>4 DEF Spent
<1>6. k \in members
  BY <1>3 DEF After
<1>7. \A y \in members : y < k => Told({y}, "green")
  <2> SUFFICES ASSUME NEW y \in members, y < k PROVE y <= i
    OBVIOUS
  <2>1. y \in Nat /\ k \in Nat
    BY <1>3, <1>6
  <2>2. ~(y > i)
    BY <1>3, <2>1 DEF After
  <2> QED BY <1>3, <2>1, <2>2
<1>8. SingleAt(k)'
  <2>1. Spent' + Cardinality(After(k)') <= N'
    BY <1>2, <1>3, <1>5
  <2> QED BY <1>2, <1>4, <1>7, <2>1 DEF SingleAt, Timely, Told
<1>9. Undecided' /\ Timely(members, "red")'
  BY <1>0, <1>2 DEF Undecided, Timely, Frame
<1>10. ProbeInv'
  BY <1>0, <1>2, <1>4, <1>6, <1>8, <1>9 DEF ProbeInv
<1>11. {k} \in SUBSET members /\ Asking("single", {k})
  BY <1>1, <1>6
<1> QED BY <1>0, <1>9, <1>10, <1>11, AskingKeeps

\* The next question of the scan over pairs.
LEMMA AskPairKeeps ==
  ASSUME UnionInv, Frame, phase = "answer", stage \in {"single", "pair"},
         NEW i \in members, NEW j \in members, i < j,
         \A k \in members : Told({k}, "green"),
         \A k, m \in members :
           k < m /\ (k < i \/ (k = i /\ m < j)) => Told({k, m}, "green"),
         2 * (Spent + 1) + 2 * (1 + Cardinality(After(j)))
           + Cardinality(After(i)) * (Cardinality(After(i)) - 1) <= Room,
         Asking("pair", {i, j}), ev' = ev
  PROVE  UnionInv'
<1>0. /\ Undecided /\ ev \in Evaluations /\ members # {} /\ TypeOK
      /\ members \in SUBSET Positions /\ ev.locus = {} /\ probes >= 1
      /\ ev.verdict = "red" /\ Timely(members, "red")
  BY DEF UnionInv, ProbeInv, TypeOK
<1>1. /\ members' = members /\ Room' = Room /\ probes' = probes /\ probes \in Nat
      /\ After(i)' = After(i) /\ After(j)' = After(j)
  BY <1>0, Measures
<1>2. phase' = "ask" /\ stage' = "pair" /\ probe' = {i, j}
  BY DEF Asking
<1>3. Spent' = Spent + 1
  BY <1>1, <1>2 DEF Spent
<1>4. PairAt(i, j)'
  <2>1. 2 * Spent' + 2 * (1 + Cardinality(After(j)'))
          + Cardinality(After(i)') * (Cardinality(After(i)') - 1) <= Room'
    BY <1>1, <1>3
  <2> QED BY <1>1, <1>2, <2>1 DEF PairAt, Timely, Told
<1>5. Undecided' /\ Timely(members, "red")'
  BY <1>0, <1>1 DEF Undecided, Timely, Frame
<1>6. ProbeInv'
  BY <1>0, <1>1, <1>2, <1>4, <1>5 DEF ProbeInv
<1>7. {i, j} \in SUBSET members
  OBVIOUS
<1> QED BY <1>0, <1>5, <1>6, <1>7, AskingKeeps

LEMMA SingleAnswerKeeps ==
  ASSUME UnionInv, Frame, phase = "answer", stage = "single",
         NEW v \in {"green", "red"}, Told(probe, v), SingleAnswer(v)
  PROVE  UnionInv'
<1>0. /\ Undecided /\ ev \in Evaluations /\ members # {} /\ TypeOK
      /\ members \in SUBSET Positions /\ ev.locus = {} /\ probes >= 1
      /\ ev.verdict = "red" /\ Timely(members, "red")
  BY DEF UnionInv, ProbeInv, TypeOK
<1>1. PICK i \in members : SingleAt(i)
  BY DEF UnionInv, ProbeInv
<1>2. /\ members \in SUBSET Nat /\ i \in Nat /\ Cardinality(After(i)) \in Nat
      /\ After(i) = {} <=> Cardinality(After(i)) = 0
  BY <1>0, AfterFirst
<1>3. N \in Nat /\ N * (N - 1) >= 0 /\ probes \in Nat
  BY <1>0, Measures
<1>4. probe = {i} /\ First(probe) = i /\ Spent + Cardinality(After(i)) <= N
  BY <1>1, <1>2 DEF SingleAt, First
<1>5. Spent \in Nat
  BY <1>0, <1>3 DEF Spent
<1>6. \A y \in members : y < i => Told({y}, "green")
  BY <1>1 DEF SingleAt, Timely, Told, Frame
<1>7. Told(members, "red")
  BY <1>0 DEF Timely, Told, Frame
<1>8. CASE v = "red"
  <2>1. Localised({i})
    BY <1>4, <1>8 DEF SingleAnswer
  <2>2. Cardinality({i}) = 1
    BY FS_Singleton
  <2>3. 2 * (Spent + 1) <= Room
    BY <1>2, <1>3, <1>4, <1>5 DEF Room
  <2>4. {i} # {} /\ {i} \in SUBSET members /\ Told({i}, "red")
    BY <1>4, <1>8
  <2> HIDE DEF Room, Spent
  <2> QED BY <1>7, <2>1, <2>2, <2>3, <2>4, LocalisedKeeps
<1>9. CASE v = "green"
  <2>1. \A y \in members : y <= i => Told({y}, "green")
    BY <1>2, <1>4, <1>6, <1>9
  <2>2. CASE After(i) # {}
    <3>1. Asking("single", {First(After(i))}) /\ ev' = ev
      BY <1>4, <1>9, <2>2 DEF SingleAnswer
    <3> QED BY <1>4, <2>1, <2>2, <3>1, AskSingleKeeps
  <2>3. CASE After(i) = {} /\ N > 1
    <3>1. \A y \in members : Told({y}, "green")
      BY <1>2, <2>1, <2>3 DEF After
    <3>2. PICK f : f = First(members)
      OBVIOUS
    <3>3. /\ f \in members /\ \A y \in members : f <= y
          /\ After(f) = members \ {f} /\ Cardinality(After(f)) = N - 1
      BY <1>0, <3>2, AfterFirst DEF N
    <3>4. f \in Nat /\ After(f) # {}
      <4>1. f \in Nat
        BY <1>2, <3>3
      <4>2. After(f) = {} <=> Cardinality(After(f)) = 0
        BY <1>0, <4>1, AfterFirst
      <4> QED BY <1>3, <2>3, <3>3, <4>1, <4>2
    <3>5. PICK g : g = First(After(f))
      OBVIOUS
    <3>6. /\ g \in After(f) /\ \A y \in After(f) : g <= y
          /\ Cardinality(After(g)) = N - 2
      <4>1. /\ g \in After(f) /\ \A y \in After(f) : g <= y
            /\ Cardinality(After(g)) = Cardinality(After(f)) - 1
        BY <1>0, <3>4, <3>5, AfterFirst
      <4> QED BY <1>3, <3>3, <4>1
    <3>7. g \in members /\ f < g /\ g \in Nat
      BY <1>2, <3>3, <3>6 DEF After
    <3>8. Asking("pair", {f, g}) /\ ev' = ev
      BY <1>4, <1>9, <2>3, <3>2, <3>3, <3>5 DEF SingleAnswer, FirstPair, N
    <3>9. \A k, m \in members : k < m /\ (k < f \/ (k = f /\ m < g)) => Told({k, m}, "green")
      <4> SUFFICES ASSUME NEW k \in members, NEW m \in members, k < m,
                          k < f \/ (k = f /\ m < g)
                   PROVE  FALSE
        OBVIOUS
      <4>1. k \in Nat /\ m \in Nat /\ f <= k
        BY <1>2, <3>3
      <4>2. k = f /\ m < g
        BY <3>4, <4>1
      <4>3. m \in After(f)
        BY <4>1, <4>2 DEF After
      <4> QED BY <3>6, <3>7, <4>1, <4>2, <4>3
    <3>10. 2 * (Spent + 1) + 2 * (1 + Cardinality(After(g)))
             + Cardinality(After(f)) * (Cardinality(After(f)) - 1) <= Room
      <4>1. Spent <= N
        BY <1>2, <1>3, <1>4, <1>5
      <4>2. 2 * (N + 1) + 2 * (1 + (N - 2)) + (N - 1) * ((N - 1) - 1) = Room
        BY <1>3 DEF Room
      <4>3. PICK q : q = (N - 1) * ((N - 1) - 1)
        OBVIOUS
      <4>4. q \in Int
        BY <1>3, <4>3
      <4>5. 2 * (N + 1) + 2 * (1 + (N - 2)) + q = Room
        BY <4>2, <4>3
      <4>6. 2 * (Spent + 1) + 2 * (1 + (N - 2)) + q <= Room
        BY <1>3, <1>5, <4>1, <4>4, <4>5
      <4> QED BY <3>3, <3>6, <4>3, <4>6
    <3> HIDE DEF Room, Spent
    <3> QED BY <3>1, <3>3, <3>7, <3>8, <3>9, <3>10, AskPairKeeps
  <2>4. CASE After(i) = {} /\ ~(N > 1)
    <3>1. Concluding(ev)
      BY <1>4, <1>9, <2>4 DEF SingleAnswer, Unlocalised, N
    <3>2. members = {i}
      <4>1. IsFiniteSet(members) /\ i \in members
        BY <1>0, AfterFirst
      <4>2. Cardinality(members \ {i}) = N - 1
        BY <4>1, FS_RemoveElement DEF N
      <4>3. IsFiniteSet(members \ {i})
        BY <4>1, FS_Subset
      <4>4. Cardinality(members \ {i}) \in Nat
        BY <4>3, FS_CardinalityType
      <4>5. Cardinality(members \ {i}) = 0
        BY <1>3, <2>4, <4>2, <4>4
      <4>6. members \ {i} = {}
        BY <4>3, <4>5, FS_EmptySet
      <4> QED BY <4>1, <4>6
    <3>3. \A y, z \in members : Told({y, z}, "green")
      <4>1. Told({i}, "green")
        BY <1>4, <1>9
      <4>2. {i, i} = {i}
        OBVIOUS
      <4> QED BY <3>2, <4>1, <4>2
    <3>4. Supported(ev)
      BY <1>0, <3>3 DEF Supported, Undecided
    <3> QED BY <3>1, <3>4, ConcludingKeeps
  <2> QED BY <2>2, <2>3, <2>4
<1> QED BY <1>8, <1>9

LEMMA PairAnswerKeeps ==
  ASSUME UnionInv, Frame, phase = "answer", stage = "pair",
         NEW v \in {"green", "red"}, Told(probe, v), PairAnswer(v)
  PROVE  UnionInv'
<1>0. /\ Undecided /\ ev \in Evaluations /\ members # {} /\ TypeOK
      /\ members \in SUBSET Positions /\ ev.locus = {} /\ probes >= 1
      /\ ev.verdict = "red" /\ Timely(members, "red")
  BY DEF UnionInv, ProbeInv, TypeOK
<1>1. PICK i \in members, j \in members : PairAt(i, j)
  BY DEF UnionInv, ProbeInv
<1>2. PICK u, w : u = Cardinality(After(i)) /\ w = Cardinality(After(j))
  OBVIOUS
<1>3. /\ members \in SUBSET Nat /\ i \in Nat /\ j \in Nat /\ u \in Nat /\ w \in Nat
      /\ After(j) = {} <=> w = 0
      /\ IsFiniteSet(After(i)) /\ (After(i) = {} <=> u = 0)
  BY <1>0, <1>2, AfterFirst
<1>4. N \in Nat /\ N * (N - 1) >= 0 /\ probes \in Nat
  BY <1>0, Measures
<1>5. /\ i < j /\ probe = {i, j} /\ \A k \in members : Told({k}, "green")
      /\ \A k, m \in members :
           k < m /\ (k < i \/ (k = i /\ m < j)) => Told({k, m}, "green")
      /\ 2 * Spent + 2 * (1 + w) + u * (u - 1) <= Room
  BY <1>1, <1>2 DEF PairAt, Timely, Told, Frame
<1>6. Spent \in Nat /\ Room \in Int /\ First(probe) = i /\ Last(probe) = j
  <2>1. Spent \in Nat
    BY <1>0, <1>4 DEF Spent
  <2>2. Room \in Int
    BY <1>4 DEF Room
  <2> QED BY <1>3, <1>5, <2>1, <2>2, FirstLastOfPair
<1>7. Told(members, "red") /\ j \in After(i) /\ u >= 1
  BY <1>0, <1>3, <1>5 DEF Timely, Told, Frame, After
<1> HIDE DEF Spent, Room
<1>8. u * (u - 1) >= 0
  BY <1>3, <1>7
<1>9. CASE v = "red"
  <2>1. Localised({i, j})
    BY <1>5, <1>9 DEF PairAnswer
  <2>2. Cardinality({i, j}) = 2
    <3>1. IsFiniteSet({i}) /\ Cardinality({i}) = 1
      BY FS_Singleton
    <3>2. j \notin {i}
      BY <1>3, <1>5
    <3>3. Cardinality({i} \union {j}) = 2
      BY <3>1, <3>2, FS_AddElement
    <3>4. {i} \union {j} = {i, j}
      OBVIOUS
    <3> QED BY <3>3, <3>4
  <2>3. 2 * (Spent + 1) <= Room
    <3>1. PICK q \in Int : q = u * (u - 1) /\ q >= 0
      BY <1>3, <1>8
    <3> QED BY <1>3, <1>5, <1>6, <3>1
  <2>4. {i, j} # {} /\ {i, j} \in SUBSET members /\ Told({i, j}, "red")
    BY <1>5, <1>9
  <2> QED BY <1>5, <1>7, <2>1, <2>2, <2>3, <2>4, LocalisedKeeps
<1>10. CASE v = "green"
  <2>0. Told({i, j}, "green")
    BY <1>5, <1>10
  <2>1. LastPair(probe) <=> u = 1
    BY <1>2, <1>6 DEF LastPair
  <2>2. CASE u # 1 /\ After(j) # {}
    <3>1. PICK k : k = First(After(j))
      OBVIOUS
    <3>2. /\ k \in After(j) /\ \A y \in After(j) : k <= y
          /\ Cardinality(After(k)) = w - 1
      BY <1>0, <1>2, <1>3, <2>2, <3>1, AfterFirst
    <3>3. k \in members /\ k \in Nat /\ i < k /\ j < k
      BY <1>3, <1>5, <3>2 DEF After
    <3>4. Asking("pair", {i, k}) /\ ev' = ev
      BY <1>6, <1>10, <2>1, <2>2, <3>1 DEF PairAnswer, LaterPair
    <3>5. \A l, m \in members : l < m /\ (l < i \/ (l = i /\ m < k)) => Told({l, m}, "green")
      <4> SUFFICES ASSUME NEW l \in members, NEW m \in members, l < m,
                          l < i \/ (l = i /\ m < k)
                   PROVE  Told({l, m}, "green")
        OBVIOUS
      <4>1. l \in Nat /\ m \in Nat
        BY <1>3
      <4>2. CASE l < i
        BY <1>5, <4>2
      <4>3. CASE l = i /\ m < k
        <5>1. ~(m > j)
          BY <3>2, <3>3, <4>1, <4>3 DEF After
        <5>2. m < j \/ m = j
          BY <1>3, <4>1, <5>1
        <5> QED BY <1>5, <2>0, <4>3, <5>2
      <4> QED BY <4>2, <4>3
    <3>6. 2 * (Spent + 1) + 2 * (1 + Cardinality(After(k)))
             + Cardinality(After(i)) * (Cardinality(After(i)) - 1) <= Room
      <4>1. PICK q \in Int : q = u * (u - 1)
        BY <1>3
      <4>2. 2 * (Spent + 1) + 2 * (1 + (w - 1)) + q <= Room
        BY <1>3, <1>5, <1>6, <4>1
      <4> QED BY <1>2, <3>2, <4>1, <4>2
    <3> QED BY <1>5, <3>3, <3>4, <3>5, <3>6, AskPairKeeps
  <2>3. CASE u # 1 /\ After(j) = {}
    <3>0. After(i) # {}
      BY <1>7
    <3>1. PICK f : f = First(After(i))
      OBVIOUS
    <3>2. /\ f \in After(i) /\ \A y \in After(i) : f <= y
          /\ After(f) = After(i) \ {f} /\ Cardinality(After(f)) = u - 1
      BY <1>0, <1>2, <1>3, <3>0, <3>1, AfterFirst
    <3>3. f \in members /\ f \in Nat /\ i < f /\ u - 1 \in Nat /\ u >= 2
      BY <1>3, <1>7, <2>3, <3>2 DEF After
    <3>4. After(f) # {}
      <4>1. After(f) = {} <=> Cardinality(After(f)) = 0
        BY <1>0, <3>3, AfterFirst
      <4> QED BY <1>3, <3>2, <3>3, <4>1
    <3>5. PICK g : g = First(After(f))
      OBVIOUS
    <3>6. /\ g \in After(f) /\ \A y \in After(f) : g <= y
          /\ Cardinality(After(g)) = u - 2
      <4>1. /\ g \in After(f) /\ \A y \in After(f) : g <= y
            /\ Cardinality(After(g)) = Cardinality(After(f)) - 1
        BY <1>0, <3>3, <3>4, <3>5, AfterFirst
      <4> QED BY <1>3, <3>2, <4>1
    <3>7. g \in members /\ g \in Nat /\ f < g
      BY <1>3, <3>3, <3>6 DEF After
    <3>8. Asking("pair", {f, g}) /\ ev' = ev
      BY <1>6, <1>10, <2>1, <2>3, <3>1, <3>5 DEF PairAnswer, LaterPair
    <3>9. \A l, m \in members : l < m /\ (l < f \/ (l = f /\ m < g)) => Told({l, m}, "green")
      <4> SUFFICES ASSUME NEW l \in members, NEW m \in members, l < m,
                          l < f \/ (l = f /\ m < g)
                   PROVE  Told({l, m}, "green")
        OBVIOUS
      <4>1. l \in Nat /\ m \in Nat
        BY <1>3
      <4>2. CASE l < i
        BY <1>5, <4>2
      <4>3. CASE l = i
        <5>1. ~(m > j)
          BY <2>3 DEF After
        <5>2. m < j \/ m = j
          BY <1>3, <4>1, <5>1
        <5> QED BY <1>5, <2>0, <4>3, <5>2
      <4>4. CASE l > i
        <5>1. l \in After(i)
          BY <4>4 DEF After
        <5>2. l = f /\ m < g
          BY <3>2, <3>3, <4>1, <5>1
        <5>3. m \in After(f)
          BY <5>2 DEF After
        <5> QED BY <3>6, <3>7, <4>1, <5>2, <5>3
      <4> QED BY <1>3, <4>1, <4>2, <4>3, <4>4
    <3>10. 2 * (Spent + 1) + 2 * (1 + Cardinality(After(g)))
             + Cardinality(After(f)) * (Cardinality(After(f)) - 1) <= Room
      <4>1. 2 * (u - 1) + (u - 1) * ((u - 1) - 1) = u * (u - 1)
        BY <1>3
      <4>2. PICK q \in Int, p \in Int : q = u * (u - 1) /\ p = (u - 1) * ((u - 1) - 1)
        BY <1>3
      <4>3. 2 * (u - 1) + p = q
        BY <4>1, <4>2
      <4>4. 2 * (Spent + 1) + 2 * (1 + (u - 2)) + p <= Room
        BY <1>3, <1>5, <1>6, <4>2, <4>3
      <4> QED BY <3>2, <3>6, <4>2, <4>4
    <3> QED BY <1>5, <3>3, <3>7, <3>8, <3>9, <3>10, AskPairKeeps
  <2>4. CASE u = 1
    <3>1. Concluding(ev)
      BY <1>10, <2>1, <2>4 DEF PairAnswer, Unlocalised
    <3>2. After(i) = {j}
      <4>0. IsFiniteSet(After(i)) /\ j \in After(i)
        BY <1>3, <1>7
      <4>1. Cardinality(After(i) \ {j}) = 0
        <5>1. Cardinality(After(i) \ {j}) = Cardinality(After(i)) - 1
          BY <4>0, FS_RemoveElement
        <5> QED BY <1>2, <2>4, <5>1
      <4>2. IsFiniteSet(After(i) \ {j})
        BY <1>3, FS_Subset
      <4>3. After(i) \ {j} = {}
        BY <4>1, <4>2, FS_EmptySet
      <4> QED BY <1>7, <4>3
    <3>3. ASSUME NEW l \in members, NEW m \in members, l < m
          PROVE  Told({l, m}, "green")
      <4>1. l \in Nat /\ m \in Nat
        BY <1>3
      <4>2. CASE l < i
        BY <1>5, <3>3, <4>2
      <4>3. CASE l = i
        <5>1. m \in After(i)
          BY <3>3, <4>3 DEF After
        <5> QED BY <2>0, <3>2, <4>3, <5>1
      <4>4. CASE l > i
        <5>1. l \in After(i) /\ m > i
          BY <1>3, <3>3, <4>1, <4>4 DEF After
        <5>2. l = j /\ m = j
          BY <3>2, <5>1 DEF After
        <5> QED BY <3>3, <4>1, <5>2
      <4> QED BY <1>3, <4>1, <4>2, <4>3, <4>4
    <3>4. \A l, m \in members : Told({l, m}, "green")
      <4> SUFFICES ASSUME NEW l \in members, NEW m \in members
                   PROVE  Told({l, m}, "green")
        OBVIOUS
      <4>1. l < m \/ l = m \/ m < l
        BY <1>3
      <4>2. {l, m} = {m, l} /\ {l, l} = {l}
        OBVIOUS
      <4> QED BY <1>5, <3>3, <4>1, <4>2
    <3>5. Supported(ev)
      BY <1>0, <3>4 DEF Supported, Undecided
    <3> QED BY <3>1, <3>5, ConcludingKeeps
  <2> QED BY <2>2, <2>3, <2>4
<1> QED BY <1>9, <1>10

LEMMA AnswerStep ==
  ASSUME UnionInv, NEW v \in Verdicts, Answer(v)
  PROVE  UnionInv'
<1>0. /\ phase = "answer" /\ answers' = answers \union {<<probe, v, expired>>}
      /\ UNCHANGED <<given, expired, altered, probes, landed>>
  BY DEF Answer
<1>1. Frame
  <2>1. <<probe, v, expired>> \in (SUBSET Positions) \X Verdicts \X BOOLEAN
    BY DEF UnionInv, TypeOK
  <2>2. answers' \in AnswerType
    BY <1>0, <2>1 DEF UnionInv, TypeOK, AnswerType
  <2> QED BY <1>0, <2>2 DEF Frame, UnionInv, TypeOK
<1>2. CASE expired
  <2>1. Stopped("deadline_exceeded")
    BY <1>2 DEF Answer
  <2> QED BY <1>1, <2>1, StopKeeps DEF Stops
<1>3. CASE ~expired /\ v \in {"green", "red"}
  <2>1. expired = FALSE
    BY <1>3 DEF UnionInv, TypeOK
  <2>2. Told(probe, v)
    BY <1>0, <2>1 DEF Told
  <2>3. Advance(v)
    BY <1>3 DEF Answer
  <2>4. stage \in {"union", "single", "pair", "remainder"}
    BY DEF UnionInv, TypeOK
  <2>5. CASE stage = "union"
    BY <1>0, <1>1, <1>3, <2>2, <2>3, <2>5, UnionAnswerKeeps DEF Advance
  <2>6. CASE stage = "single"
    BY <1>0, <1>1, <1>3, <2>2, <2>3, <2>6, SingleAnswerKeeps DEF Advance
  <2>7. CASE stage = "pair"
    BY <1>0, <1>1, <1>3, <2>2, <2>3, <2>7, PairAnswerKeeps DEF Advance
  <2>8. CASE stage = "remainder"
    BY <1>0, <1>1, <1>3, <2>2, <2>3, <2>8, RemainderAnswerKeeps DEF Advance
  <2> QED BY <2>4, <2>5, <2>6, <2>7, <2>8
<1>4. CASE ~expired /\ v \notin {"green", "red"}
  <2>1. Stopped(v)
    BY <1>4 DEF Answer
  <2>2. v \in Stops \ {"none"}
    BY <1>4 DEF Verdicts, Stops
  <2> QED BY <1>1, <2>1, <2>2, StopKeeps
<1> QED BY <1>2, <1>3, <1>4

-----------------------------------------------------------------------------
(* The other steps. *)

LEMMA BeginStep ==
  ASSUME UnionInv, Begin
  PROVE  UnionInv'
<1>0. /\ phase = "begin" /\ Undecided /\ ev.locus = {} /\ ev.verdict = "unknown"
      /\ probes = 0 /\ ev \in Evaluations /\ TypeOK
      /\ UNCHANGED <<given, expired, altered, probes, answers, landed>>
  BY DEF Begin, UnionInv, ResultInv, TypeOK
<1>1. Frame
  BY <1>0 DEF Frame, TypeOK, AnswerType
<1>2. CASE input # "valid"
  <2>1. Stopped(input)
    BY <1>2 DEF Begin
  <2>2. input \in Stops \ {"none"}
    BY <1>0, <1>2 DEF TypeOK, Stops, BadInputs
  <2> QED BY <1>1, <2>1, <2>2, StopKeeps
<1>3. CASE input = "valid" /\ members = {}
  <2> DEFINE r == [ev EXCEPT !.verdict = "green"]
  <2>1. Concluding(r)
    BY <1>3 DEF Begin
  <2>2. /\ r \in Evaluations /\ r.excluded = {} /\ r.held = members
        /\ r.proceeding = {} /\ r.stop = "none" /\ r.verdict = "green"
    BY <1>0 DEF Undecided, Evaluations, Verdicts
  <2> HIDE DEF r
  <2>3. Supported(r)
    BY <2>2 DEF Supported
  <2> QED BY <1>1, <2>1, <2>3, ConcludingKeeps
<1>4. CASE input = "valid" /\ members # {}
  <2>1. Asking("union", members) /\ ev' = ev
    BY <1>4 DEF Begin
  <2>2. phase' = "ask" /\ stage' = "union" /\ probe' = members /\ members' = members
    BY <1>0, <2>1 DEF Asking, given
  <2>3. Spent' = 0
    BY <1>0, <2>2 DEF Spent
  <2>4. Undecided'
    BY <1>0, <2>1, <2>2 DEF Undecided
  <2>5. ProbeInv'
    BY <1>0, <1>4, <2>1, <2>2, <2>3, <2>4 DEF ProbeInv
  <2> QED BY <1>0, <1>1, <2>1, <2>4, <2>5, AskingKeeps
<1> QED BY <1>2, <1>3, <1>4

LEMMA AskStep ==
  ASSUME UnionInv, Ask
  PROVE  UnionInv'
<1>0. /\ phase = "ask" /\ ProbeInv /\ ResultInv /\ TypeOK /\ members # {}
      /\ UNCHANGED <<given, expired, altered, answers, landed>>
  BY DEF Ask, UnionInv, ProbeInv
<1>1. CASE expired \/ probes >= limit
  <2>1. PICK reason \in {"deadline_exceeded", "probe_budget_exhausted"} :
          Stopped(reason) /\ UNCHANGED probes
    BY <1>1 DEF Ask
  <2>2. Frame
    BY <1>0, <2>1 DEF Frame, TypeOK, AnswerType
  <2>3. reason \in Stops \ {"none"}
    BY DEF Stops
  <2> QED BY <2>1, <2>2, <2>3, StopKeeps
<1>2. CASE ~expired /\ ~(probes >= limit)
  <2>1. probes' = probes + 1 /\ phase' = "answer" /\ UNCHANGED <<stage, probe, ev>>
    BY <1>2 DEF Ask
  <2>2. probes \in Nat /\ limit \in Nat /\ probes' \in 0..limit
    BY <1>0, <1>2, <2>1, UnionAssumption DEF TypeOK
  <2>3. TypeOK'
    BY <1>0, <2>1, <2>2 DEF TypeOK, given
  <2>4. Spent' = Spent /\ Spent = probes
    BY <1>0, <2>1, <2>2 DEF Spent
  <2>5. members' = members /\ N' = N /\ Room' = Room /\ \A i : After(i)' = After(i)
    BY <1>0 DEF given, N, Room, After
  <2>6. ProbeInv'
    <3>1. Undecided' /\ members' # {} /\ probes' >= 1
      BY <1>0, <2>1, <2>2, <2>5 DEF Undecided, ProbeInv
    <3>2. ASSUME NEW i \in members, SingleAt(i)
          PROVE  SingleAt(i)'
      BY <1>0, <2>1, <2>4, <2>5, <3>2 DEF SingleAt, Timely
    <3>3. ASSUME NEW i \in members, NEW j \in members, PairAt(i, j)
          PROVE  PairAt(i, j)'
      BY <1>0, <2>1, <2>4, <2>5, <3>3 DEF PairAt, Timely
    <3>4. Guilty(ev.locus) => Guilty(ev.locus)'
      BY <1>0, <2>1, <2>5 DEF Guilty, Timely
    <3>5. stage = "single" => (\E i \in members : SingleAt(i))'
      BY <1>0, <2>5, <3>2 DEF ProbeInv
    <3>6. stage = "pair" => (\E i, j \in members : PairAt(i, j))'
      BY <1>0, <2>5, <3>3 DEF ProbeInv
    <3> QED BY <1>0, <2>1, <2>4, <2>5, <3>1, <3>4, <3>5, <3>6 DEF ProbeInv, Timely
  <2>7. 2 * Spent <= Room
    <3>1. N \in Nat /\ N * (N - 1) >= 0 /\ members \in SUBSET Positions
          /\ stage \in {"union", "single", "pair", "remainder"}
      <4>1. members \in SUBSET Positions /\ stage \in {"union", "single", "pair", "remainder"}
        BY <1>0 DEF TypeOK
      <4>2. N \in Nat
        BY <4>1, AfterFirst DEF N
      <4>3. N * (N - 1) >= 0
        BY <4>2
      <4> QED BY <4>1, <4>2, <4>3
    <3>2. CASE stage = "union"
      BY <1>0, <3>1, <3>2 DEF ProbeInv, Room
    <3>3. CASE stage = "single"
      <4>1. PICK i \in members : SingleAt(i)
        BY <1>0, <3>3 DEF ProbeInv
      <4>2. i \in Nat /\ Cardinality(After(i)) \in Nat
        BY <3>1, AfterFirst
      <4>3. Spent <= N
        BY <2>2, <2>4, <3>1, <4>1, <4>2 DEF SingleAt
      <4> QED BY <2>2, <2>4, <3>1, <4>3 DEF Room
    <3>4. CASE stage = "pair"
      <4>1. PICK i \in members, j \in members : PairAt(i, j)
        BY <1>0, <3>4 DEF ProbeInv
      <4>2. i \in Nat /\ j \in Nat
        BY <3>1, AfterFirst
      <4>3. PICK u, w : u = Cardinality(After(i)) /\ w = Cardinality(After(j))
        OBVIOUS
      <4>4. u \in Nat /\ w \in Nat
        BY <3>1, <4>2, <4>3, AfterFirst
      <4>5. PICK q \in Int : q = u * (u - 1) /\ q >= 0
        BY <4>4
      <4>6. 2 * Spent + 2 * (1 + w) + q <= Room
        BY <4>1, <4>3, <4>5 DEF PairAt
      <4>7. Room \in Int
        BY <3>1 DEF Room
      <4> HIDE DEF Room, Spent
      <4> QED BY <2>2, <2>4, <4>4, <4>5, <4>6, <4>7
    <3>5. CASE stage = "remainder"
      BY <1>0, <3>5 DEF ProbeInv
    <3> QED BY <3>1, <3>2, <3>3, <3>4, <3>5
  <2>8. ResultInv'
    <3>1. LandedWasGreen'
      BY <1>0 DEF ResultInv, LandedWasGreen, Timely
    <3>2. BlameProved' /\ DiagnosisComplete' /\ Accounted'
      BY <1>0, <2>1, <2>5 DEF ResultInv, BlameProved, Timely, DiagnosisComplete, Accounted
    <3>3. Room \in Int
      <4>1. N \in Nat
        BY <1>0, AfterFirst DEF N, TypeOK
      <4> QED BY <4>1 DEF Room
    <3>4. 2 * probes' <= Room' + 2
      BY <2>1, <2>2, <2>4, <2>5, <2>7, <3>3
    <3>5. ev'.proceeding = {}
      BY <1>0, <2>1 DEF ProbeInv, Undecided
    <3> QED BY <2>1, <3>1, <3>2, <3>4, <3>5 DEF ResultInv
  <2> QED BY <2>3, <2>6, <2>8 DEF UnionInv
<1> QED BY <1>1, <1>2

LEMMA ConcludeStep ==
  ASSUME UnionInv, Conclude
  PROVE  UnionInv'
<1>0. /\ phase = "conclude" /\ ResultInv /\ TypeOK /\ ev.stop = "none" /\ Partitioned
      /\ UNCHANGED <<given, expired, altered, probes, answers, landed>>
  BY DEF Conclude, UnionInv, ResultInv
<1>1. Frame
  BY <1>0 DEF Frame, TypeOK, AnswerType
<1>2. CASE members # {} /\ expired
  <2>1. Stopped("deadline_exceeded")
    BY <1>2 DEF Conclude
  <2> QED BY <1>1, <2>1, StopKeeps DEF Stops
<1>3. CASE ~(members # {} /\ expired)
  <2>1. phase' = "ready" /\ UNCHANGED <<ev, stage, probe>>
    BY <1>3 DEF Conclude
  <2>2. TypeOK'
    BY <1>0, <2>1 DEF TypeOK, given
  <2>3. LandedWasGreen' /\ BlameProved' /\ DiagnosisComplete' /\ Accounted'
    BY <1>0, <2>1 DEF ResultInv, LandedWasGreen, BlameProved, DiagnosisComplete,
                      Accounted, Partitioned, Timely, given
  <2>4. Room' = Room
    BY <1>0 DEF Room, N, given
  <2>5. ResultInv'
    BY <1>0, <2>1, <2>3, <2>4 DEF ResultInv, Timely
  <2> QED BY <2>1, <2>2, <2>5 DEF UnionInv, ProbeInv
<1> QED BY <1>2, <1>3

\* The deadline passes, the batch changes, or nothing happens.
LEMMA OutsideStep ==
  ASSUME UnionInv, Expire \/ Alter \/ UNCHANGED vars
  PROVE  UnionInv'
<1>0. UNCHANGED <<given, phase, stage, probe, probes, ev, answers, landed>>
  BY DEF Expire, Alter, vars, given
<1>1. expired' \in BOOLEAN /\ altered' \in BOOLEAN
  BY DEF Expire, Alter, vars, UnionInv, TypeOK
<1>2. TypeOK'
  BY <1>0, <1>1 DEF UnionInv, TypeOK, given
<1>3. /\ Spent' = Spent /\ Room' = Room /\ N' = N
      /\ \A i : After(i)' = After(i)
  BY <1>0 DEF Spent, Room, N, After, given
<1>4. ProbeInv'
  <2>1. \A i : SingleAt(i)' <=> SingleAt(i)
    BY <1>0, <1>3 DEF SingleAt, Timely, given
  <2>2. \A i, j : PairAt(i, j)' <=> PairAt(i, j)
    BY <1>0, <1>3 DEF PairAt, Timely, given
  <2> QED BY <1>0, <1>3, <2>1, <2>2 DEF UnionInv, ProbeInv, Undecided, Guilty, Timely, given
<1>5. ResultInv'
  BY <1>0, <1>3 DEF UnionInv, ResultInv, Undecided, Partitioned, Timely, LandedWasGreen,
                    BlameProved, DiagnosisComplete, Accounted, given
<1> QED BY <1>2, <1>4, <1>5 DEF UnionInv

\* The result is revoked, looked at, or landed.
LEMMA UseStep ==
  ASSUME UnionInv, Revoke \/ Stage \/ Commit
  PROVE  UnionInv'
<1>0. /\ UNCHANGED <<given, expired, altered, stage, probe, probes, answers>>
      /\ phase' \in {"ready", "staged", "landed", "held"}
      /\ phase \in {"ready", "staged"}
      /\ TypeOK /\ ResultInv /\ ev \in Evaluations
  BY DEF Revoke, Stage, Commit, UnionInv, TypeOK
<1>1. Room' = Room /\ members' = members
  BY <1>0 DEF Room, N, given
<1>2. CASE Revoke
  <2>1. /\ ev' \in Evaluations /\ ev'.excluded = ev.excluded /\ ev'.verdict = ev.verdict
        /\ \/ ev'.proceeding = ev.proceeding /\ ev'.held = ev.held /\ ev'.stop = ev.stop
           \/ ev'.proceeding = {} /\ ev'.held = members /\ ev'.stop = "invalidated"
        /\ phase' = phase /\ landed' = landed
    <3>1. \/ ev' = [ev EXCEPT !.revoked = TRUE]
          \/ ev' = [ev EXCEPT !.revoked = TRUE, !.stop = "invalidated",
                              !.proceeding = {}, !.held = members]
      BY <1>2 DEF Revoke
    <3>2. phase' = phase /\ landed' = landed
      BY <1>2 DEF Revoke
    <3> QED BY <1>0, <3>1, <3>2 DEF Evaluations, Stops, TypeOK
  <2>2. TypeOK'
    BY <1>0, <2>1 DEF TypeOK, given
  <2>3. LandedWasGreen' /\ BlameProved' /\ DiagnosisComplete' /\ Accounted'
    BY <1>0, <1>1, <2>1 DEF ResultInv, LandedWasGreen, BlameProved, DiagnosisComplete,
                            Accounted, Timely
  <2>4. ResultInv'
    BY <1>0, <1>1, <2>1, <2>3 DEF ResultInv, Timely
  <2> QED BY <1>0, <2>2, <2>4 DEF UnionInv, ProbeInv
<1>3. CASE Stage \/ Commit
  <2>1. /\ ev' = ev
        /\ landed' = landed \/ landed' = ev.proceeding
    BY <1>3 DEF Stage, Commit
  <2>2. TypeOK'
    <3>1. ev.proceeding \in SUBSET Positions
      BY <1>0 DEF Evaluations
    <3> QED BY <1>0, <2>1, <3>1 DEF TypeOK, given
  <2>3. LandedWasGreen'
    BY <1>0, <2>1 DEF ResultInv, LandedWasGreen, Timely
  <2>4. BlameProved' /\ DiagnosisComplete' /\ Accounted'
    BY <1>0, <1>1, <2>1 DEF ResultInv, BlameProved, DiagnosisComplete, Accounted, Timely
  <2>5. ResultInv'
    BY <1>0, <1>1, <2>1, <2>3, <2>4 DEF ResultInv, Timely
  <2> QED BY <1>0, <2>2, <2>5 DEF UnionInv, ProbeInv
<1> QED BY <1>2, <1>3

LEMMA UnionStep == UnionInv /\ [Next]_vars => UnionInv'
BY BeginStep, AskStep, AnswerStep, ConcludeStep, OutsideStep, UseStep DEF Next, Step

\* Every evaluation keeps its types: the probe in hand is a part of the batch
\* and ProbeBudget never lets the oracle be called beyond max_probes.
THEOREM UnionTypes == Spec => []TypeOK
<1>1. UnionInv => TypeOK
  BY DEF UnionInv
<1> QED BY <1>1, UnionInitial, UnionStep, PTL DEF Spec

\* evaluate_union and the staged landing, for batches of any size, any budget
\* and an oracle that answers anything: what lands was green together and in
\* time, whoever is excluded was proved red, a red batch is left unlocalised
\* only after every single and every pair was green, every member is sent to
\* one place, and the probes stay quadratic in the batch.
THEOREM UnionCorrect == Spec => []UnionSound
<1>1. UnionInv => UnionSound
  <2> SUFFICES ASSUME UnionInv PROVE UnionSound
    OBVIOUS
  <2>1. N \in Nat /\ 2 * probes <= Room + 2 /\ probes \in Nat
    <3>1. members \in SUBSET Positions /\ probes \in Nat
      BY UnionAssumption DEF UnionInv, TypeOK
    <3> QED BY <3>1, AfterFirst DEF N, UnionInv, ResultInv
  <2>2. PICK q : q = N * (N - 1)
    OBVIOUS
  <2>3. q \in Int
    BY <2>1, <2>2
  <2>4. 2 * probes <= 4 + 2 * N + q
    BY <2>1, <2>2, <2>3 DEF Room
  <2>5. ProbesQuadratic
    BY <2>2, <2>4 DEF ProbesQuadratic, N
  <2> QED BY <2>5 DEF UnionSound, UnionInv, ResultInv
<1> QED BY <1>1, UnionInitial, UnionStep, PTL DEF Spec
=============================================================================
