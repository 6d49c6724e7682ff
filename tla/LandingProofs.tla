---------------------------- MODULE LandingProofs ----------------------------
(***************************************************************************)
(* Landing: the attempt journal of `land queue`, the merge driver, and the *)
(* runtime store with its migration, for every number of attempts, pull    *)
(* requests, batch positions and processes, and for any number of faults.  *)
(***************************************************************************)
EXTENDS QueueLand, MergeDrive, RuntimeStore, WellFoundedInduction, TLAPS

(* The attempt journal (QueueLand). *)

Early == {"idle", "load", "inspect", "mkdir", "first", "read"}
Starting == {"invalidate", "invalidate_write", "start", "start_write", "point"}
Running == {"evaluate", "persist", "finish", "finish_write"}
Over == {"done", "dead"}

\* Whoever is at work holds the lock, so there is one such attempt at most.
HolderInv == \A a \in Attempts : pc[a] \in Holding => lock = a

\* What an attempt's own receipts and the log can say at each of its steps.
ProgressInv ==
  \A a \in Attempts :
    /\ pc[a] \in Early => prior[a] = NoPrevious
    /\ pc[a] \in Early \union {"invalidate", "invalidate_write", "start", "refused"} =>
         started[a] = Missing
    /\ pc[a] \notin Over \union {"finish_write"} => finished[a] = Missing
    /\ pc[a] = "finish_write" => finished[a] = Torn
    /\ pc[a] \notin Over \union {"finish", "finish_write"} => a \notin wrote
    /\ pc[a] = "persist" => outcome[a] = "applied"
    /\ pc[a] \in {"finish", "finish_write"} => (outcome[a] = "applied" <=> a \in wrote)
    /\ pc[a] = "point" => started[a] = "whole"

\* The pointer names an attempt that got past begin; a starting attempt has
\* read it, and a running attempt is the one it names.
PointerInv ==
  /\ current # None => pc[current] \in Running \union Over
  /\ \A a \in Attempts :
       /\ pc[a] \in Starting => prior[a].id = current
       /\ pc[a] \in Running => current = a

\* Only an attempt that is over and left no terminal receipt is invalidated.
InvalidInv ==
  \A a \in Attempts :
    /\ invalidated[a] # Missing => pc[a] \in Over /\ finished[a] = Missing
    /\ pc[a] \in {"invalidate", "invalidate_write"} =>
         /\ prior[a].id \in Attempts /\ prior[a].id # a
         /\ pc[prior[a].id] \in Over /\ finished[prior[a].id] = Missing
         /\ prior[a].disposition = "invalidated"

Settled(a) ==
  LET p == prior[a].id
  IN  \/ Whole(finished[p]) /\ prior[a].disposition = finished[p]
      \/ invalidated[p] = "whole" /\ prior[a].disposition = "invalidated"

\* An attempt gets to its start receipt only when its predecessor is settled.
SettledInv ==
  \A a \in Attempts :
    (pc[a] \in {"start", "start_write"} \/ started[a] = "whole") /\ prior[a].id # None =>
      Settled(a)

\* Until it is written, the copy of the log is not behind the log.
CopyInv ==
  \A a \in Attempts : pc[a] \in Beginning \union {"evaluate", "persist"} =>
    \A p \in PRs : log[p] <= copy[a][p]

\* No log, on disk or staged, has a second pr.landed.
OnceInv == LandedOnce /\ \A a \in Attempts, p \in PRs : copy[a][p] <= 1

JournalInv ==
  /\ TypeOK /\ HolderInv /\ ProgressInv /\ PointerInv /\ InvalidInv
  /\ SettledInv /\ ReceiptTruthful /\ WritesTraced

LEMMA TypeInit == Init => TypeOK
<1> SUFFICES ASSUME Init PROVE TypeOK
  OBVIOUS
<1>1. log \in Logs
  BY DEF Init, Logs
<1>2. copy \in [Attempts -> Logs]
  BY <1>1 DEF Init
<1>3. /\ prior \in [Attempts -> Previous] /\ outcome \in [Attempts -> Outcomes]
      /\ pc \in [Attempts -> Points]
  BY DEF Init, Previous, NoPrevious, Outcomes, Points
<1>4. /\ started \in [Attempts -> {Missing, Torn, "whole"}]
      /\ finished \in [Attempts -> Outcomes \union {Missing, Torn}]
      /\ invalidated \in [Attempts -> {Missing, Torn, "whole"}]
  BY DEF Init
<1>5. /\ lock = None /\ dir = FALSE /\ current = None /\ faults = 0 /\ wrote = {}
      /\ spoiled = FALSE
  BY DEF Init
<1>6. faults \in 0..MaxFaults
  BY <1>5, QueueLandAssumption
<1>7. /\ lock \in Attempts \union {None} /\ dir \in BOOLEAN /\ current \in Attempts \union {None}
      /\ wrote \in SUBSET Attempts /\ spoiled \in BOOLEAN
  BY <1>5
<1> QED BY <1>1, <1>2, <1>3, <1>4, <1>6, <1>7, Zenon DEF TypeOK

LEMMA LandOneType ==
  ASSUME NEW l \in Logs, NEW s \in SUBSET PRs
  PROVE  /\ land_one(l, s) \in Logs
         /\ \A p \in PRs : l[p] <= land_one(l, s)[p]
         /\ (\A p \in PRs : l[p] <= 1) => \A p \in PRs : land_one(l, s)[p] <= 1
BY DEF Logs, land_one

LEMMA TypeStep == TypeOK /\ [Next]_vars => TypeOK'
<1> SUFFICES ASSUME TypeOK, [Next]_vars PROVE TypeOK'
  OBVIOUS
<1> USE QueueLandAssumption
    DEF TypeOK, Goto, Previous, NoPrevious, Outcomes, Missing, Torn, Points, Holding,
        Beginning
<1>1. ASSUME NEW a \in Attempts, Acquire(a) PROVE TypeOK'
  BY <1>1 DEF Acquire, Reclaimable, journal, local, history
<1>2. ASSUME NEW a \in Attempts, Busy(a) PROVE TypeOK'
  BY <1>2 DEF Busy, journal, local, history
<1>3. ASSUME NEW a \in Attempts, Load(a) PROVE TypeOK'
  BY <1>3 DEF Load, journal, local, history
<1>4. ASSUME NEW a \in Attempts, Inspect(a) PROVE TypeOK'
  BY <1>4 DEF Inspect, journal, local, history
<1>5. ASSUME NEW a \in Attempts, Mkdir(a) PROVE TypeOK'
  BY <1>5 DEF Mkdir, Return, journal, local, history
<1>6. ASSUME NEW a \in Attempts, Read(a) PROVE TypeOK'
  BY <1>6 DEF Read, ReadFrame, Disposition, Interrupted, Readable, Whole, journal, local, history
<1>7. ASSUME NEW a \in Attempts, ReadFirst(a) PROVE TypeOK'
  BY <1>7 DEF ReadFirst, ReadFrame, journal, local, history
<1>8. ASSUME NEW a \in Attempts, ReadRefused(a) PROVE TypeOK'
  BY <1>8 DEF ReadRefused, ReadFrame, Return, journal, local, history
<1>9. ASSUME NEW a \in Attempts, Invalidate(a) PROVE TypeOK'
  BY <1>9 DEF Invalidate, Return, journal, local, history
<1>10. ASSUME NEW a \in Attempts, InvalidateWrite(a) PROVE TypeOK'
  BY <1>10 DEF InvalidateWrite, journal, local, history
<1>11. ASSUME NEW a \in Attempts, Start(a) PROVE TypeOK'
  BY <1>11 DEF Start, journal, local, history
<1>12. ASSUME NEW a \in Attempts, StartWrite(a) PROVE TypeOK'
  BY <1>12 DEF StartWrite, journal, local, history
<1>13. ASSUME NEW a \in Attempts, Point(a) PROVE TypeOK'
  BY <1>13 DEF Point, journal, local, history
<1>14. ASSUME NEW a \in Attempts, Evaluate(a) PROVE TypeOK'
  <2>1. copy' \in [Attempts -> Logs]
    BY <1>14, LandOneType DEF Evaluate
  <2>2. outcome' \in [Attempts -> Outcomes] /\ pc' \in [Attempts -> Points]
    BY <1>14 DEF Evaluate
  <2> QED BY <1>14, <2>1, <2>2 DEF Evaluate, journal, history
<1>15. ASSUME NEW a \in Attempts, Persist(a) PROVE TypeOK'
  BY <1>15 DEF Persist, journal, local, history
<1>16. ASSUME NEW a \in Attempts, Finish(a) PROVE TypeOK'
  BY <1>16 DEF Finish, journal, local, history
<1>17. ASSUME NEW a \in Attempts, FinishWrite(a) PROVE TypeOK'
  BY <1>17 DEF FinishWrite, Return, journal, local, history
<1>18. ASSUME NEW a \in Attempts, Crash(a) PROVE TypeOK'
  BY <1>18 DEF Crash, Fault, journal, local, history
<1>19. ASSUME NEW a \in Attempts, Fail(a) PROVE TypeOK'
  BY <1>19 DEF Fail, Fault, Return, journal, local, history
<1>20. ASSUME UNCHANGED vars PROVE TypeOK'
  BY <1>20 DEF vars, journal, local, history
<1> QED BY <1>1, <1>2, <1>3, <1>4, <1>5, <1>6, <1>7, <1>8, <1>9, <1>10, <1>11, <1>12, <1>13, <1>14, <1>15, <1>16, <1>17, <1>18, <1>19, <1>20 DEF Next

\* Types hold however slow attempts are.
THEOREM QueueLandTypes == Spec => []TypeOK
BY TypeInit, TypeStep, PTL DEF Spec

LEMMA JournalStep ==
  ASSUME MayOutlive = FALSE
  PROVE  JournalInv /\ [Next]_vars => JournalInv'
<1> SUFFICES ASSUME JournalInv, [Next]_vars PROVE JournalInv'
  OBVIOUS
<1>0. TypeOK /\ TypeOK'
  BY TypeStep DEF JournalInv
<1> DEFINE Rest == /\ HolderInv /\ ProgressInv /\ PointerInv /\ InvalidInv
                   /\ SettledInv /\ ReceiptTruthful /\ WritesTraced
<1> USE <1>0, QueueLandAssumption
    DEF JournalInv, TypeOK, HolderInv, ProgressInv, PointerInv, InvalidInv, SettledInv, Settled, Succeeds,
        ReceiptTruthful, WritesTraced,
        Whole, Missing, Torn, NoPrevious, Previous, Outcomes, Early, Starting,
        Running, Over, Holding, Beginning, Points, Goto
<1>1. ASSUME NEW a \in Attempts, Acquire(a) PROVE Rest'
  BY <1>1 DEF Acquire, Reclaimable, journal, local, history
<1>2. ASSUME NEW a \in Attempts, Busy(a) PROVE Rest'
  BY <1>2 DEF Busy, journal, local, history
<1>3. ASSUME NEW a \in Attempts, Load(a) PROVE Rest'
  BY <1>3 DEF Load, journal, local, history
<1>4. ASSUME NEW a \in Attempts, Inspect(a) PROVE Rest'
  BY <1>4 DEF Inspect, journal, local, history
<1>5. ASSUME NEW a \in Attempts, Mkdir(a) PROVE Rest'
  BY <1>5 DEF Mkdir, Return, journal, local, history
<1>6. ASSUME NEW a \in Attempts, Read(a) PROVE Rest'
  BY <1>6 DEF Read, ReadFrame, Disposition, Interrupted, Readable, Whole, journal, local, history
<1>7. ASSUME NEW a \in Attempts, ReadFirst(a) PROVE Rest'
  BY <1>7 DEF ReadFirst, ReadFrame, journal, local, history
<1>8. ASSUME NEW a \in Attempts, ReadRefused(a) PROVE Rest'
  BY <1>8 DEF ReadRefused, ReadFrame, Return, journal, local, history
<1>9. ASSUME NEW a \in Attempts, Invalidate(a) PROVE Rest'
  <2>1. HolderInv'
    BY <1>9 DEF Invalidate, Return
  <2>6. ProgressInv'
    BY <1>9 DEF Invalidate, Return, history
  <2>2. PointerInv' /\ WritesTraced'
    BY <1>9 DEF Invalidate, Return, journal, local, history
  <2>3. InvalidInv'
    BY <1>9 DEF Invalidate, Return, journal, local, history
  <2>4. SettledInv'
    BY <1>9 DEF Invalidate, Return, journal, local, history
  <2>5. ReceiptTruthful'
    BY <1>9 DEF Invalidate, Return, journal, local, history
  <2> QED BY <2>1, <2>2, <2>3, <2>4, <2>5, <2>6
<1>10. ASSUME NEW a \in Attempts, InvalidateWrite(a) PROVE Rest'
  BY <1>10 DEF InvalidateWrite, journal, local, history
<1>11. ASSUME NEW a \in Attempts, Start(a) PROVE Rest'
  BY <1>11 DEF Start, journal, local, history
<1>12. ASSUME NEW a \in Attempts, StartWrite(a) PROVE Rest'
  BY <1>12 DEF StartWrite, journal, local, history
<1>13. ASSUME NEW a \in Attempts, Point(a) PROVE Rest'
  <2>1. HolderInv' /\ ProgressInv'
    BY <1>13 DEF Point, history
  <2>2. PointerInv'
    BY <1>13 DEF Point
  <2>3. InvalidInv' /\ SettledInv' /\ ReceiptTruthful'
    BY <1>13 DEF Point, history
  <2>4. WritesTraced'
    BY <1>13 DEF Point, history
  <2> QED BY <2>1, <2>2, <2>3, <2>4
<1>14. ASSUME NEW a \in Attempts, Evaluate(a) PROVE Rest'
  BY <1>14 DEF Evaluate, land_one, journal, local, history
<1>15. ASSUME NEW a \in Attempts, Persist(a) PROVE Rest'
  BY <1>15 DEF Persist, journal, local, history
<1>16. ASSUME NEW a \in Attempts, Finish(a) PROVE Rest'
  BY <1>16 DEF Finish, journal, local, history
<1>17. ASSUME NEW a \in Attempts, FinishWrite(a) PROVE Rest'
  <2>1. HolderInv' /\ ProgressInv'
    BY <1>17 DEF FinishWrite, Return, journal, local, history
  <2>2. PointerInv' /\ WritesTraced'
    BY <1>17 DEF FinishWrite, Return, journal, local, history
  <2>3. InvalidInv'
    BY <1>17 DEF FinishWrite, Return, journal, local, history
  <2>4. SettledInv'
    <3> SUFFICES ASSUME NEW b \in Attempts, started'[b] = "whole" \/ pc'[b] \in {"start", "start_write"},
                        prior'[b].id # None
                 PROVE  Settled(b)'
      OBVIOUS
    <3>1. Settled(b) /\ prior'[b] = prior[b] /\ invalidated' = invalidated
      BY <1>17 DEF FinishWrite, Return
    <3>2. finished[a] \in {Missing, Torn}
      BY <1>17 DEF FinishWrite
    <3> QED BY <1>17, <3>1, <3>2 DEF FinishWrite
  <2>5. ReceiptTruthful'
    BY <1>17 DEF FinishWrite, Return, journal, local, history
  <2> QED BY <2>1, <2>2, <2>3, <2>4, <2>5
<1>18. ASSUME NEW a \in Attempts, Crash(a) PROVE Rest'
  BY <1>18 DEF Crash, Fault, journal, local, history
<1>19. ASSUME NEW a \in Attempts, Fail(a) PROVE Rest'
  BY <1>19 DEF Fail, Fault, Return, journal, local, history
<1>20. ASSUME UNCHANGED vars PROVE Rest'
  BY <1>20 DEF vars, journal, local, history
<1>21. Rest'
  BY <1>1, <1>2, <1>3, <1>4, <1>5, <1>6, <1>7, <1>8, <1>9, <1>10, <1>11, <1>12, <1>13, <1>14, <1>15, <1>16, <1>17, <1>18, <1>19, <1>20 DEF Next
<1> QED BY <1>21

-----------------------------------------------------------------------------
\* Only Load, Evaluate and Persist touch the log or a copy of it.
Quiet(a) ==
  \/ Acquire(a) \/ Busy(a) \/ Inspect(a) \/ Mkdir(a) \/ Read(a) \/ ReadFirst(a)
  \/ ReadRefused(a) \/ Invalidate(a) \/ InvalidateWrite(a) \/ Start(a)
  \/ StartWrite(a) \/ Point(a) \/ Finish(a) \/ FinishWrite(a) \/ Crash(a) \/ Fail(a)

LEMMA QuietStep ==
  ASSUME TypeOK, NEW a \in Attempts, Quiet(a)
  PROVE  /\ log' = log /\ copy' = copy /\ wrote' = wrote
         /\ \A b \in Attempts :
              pc'[b] \in Beginning \union {"evaluate", "persist"} =>
                pc[b] \in Beginning \union {"evaluate", "persist"}
<1> USE DEF TypeOK, Goto, Return, Beginning, Points, Holding
<1>1. CASE Acquire(a)
  BY <1>1 DEF Acquire, history
<1>2. CASE Busy(a)
  BY <1>2 DEF Busy, history
<1>3. CASE Inspect(a)
  BY <1>3 DEF Inspect, history
<1>4. CASE Mkdir(a)
  BY <1>4 DEF Mkdir, history
<1>5. CASE Read(a)
  BY <1>5 DEF Read, ReadFrame, history
<1>6. CASE ReadFirst(a)
  BY <1>6 DEF ReadFirst, ReadFrame, history
<1>7. CASE ReadRefused(a)
  BY <1>7 DEF ReadRefused, ReadFrame, history
<1>8. CASE Invalidate(a)
  BY <1>8 DEF Invalidate, history
<1>9. CASE InvalidateWrite(a)
  BY <1>9 DEF InvalidateWrite, history
<1>10. CASE Start(a)
  BY <1>10 DEF Start, history
<1>11. CASE StartWrite(a)
  BY <1>11 DEF StartWrite, history
<1>12. CASE Point(a)
  BY <1>12 DEF Point, history
<1>13. CASE Finish(a)
  BY <1>13 DEF Finish, history
<1>14. CASE FinishWrite(a)
  BY <1>14 DEF FinishWrite, history
<1>15. CASE Crash(a)
  BY <1>15 DEF Crash, Fault, history
<1>16. CASE Fail(a)
  BY <1>16 DEF Fail, Fault, history
<1> QED BY <1>1, <1>2, <1>3, <1>4, <1>5, <1>6, <1>7, <1>8, <1>9, <1>10,
           <1>11, <1>12, <1>13, <1>14, <1>15, <1>16 DEF Quiet

LEMMA StepCases ==
  ASSUME [Next]_vars
  PROVE  \/ UNCHANGED vars
         \/ \E a \in Attempts : Quiet(a) \/ Load(a) \/ Evaluate(a) \/ Persist(a)
BY Zenon DEF Next, Quiet

LEMMA CopyStep ==
  ASSUME MayOutlive = FALSE
  PROVE  JournalInv /\ CopyInv /\ [Next]_vars => CopyInv'
<1> SUFFICES ASSUME JournalInv, CopyInv, [Next]_vars PROVE CopyInv'
  OBVIOUS
<1>0. TypeOK /\ TypeOK' /\ HolderInv
  BY TypeStep DEF JournalInv
<1>1. ASSUME NEW a \in Attempts, Quiet(a) PROVE CopyInv'
  BY <1>0, <1>1, QuietStep DEF CopyInv
<1>2. ASSUME NEW a \in Attempts, Load(a) PROVE CopyInv'
  BY <1>0, <1>2 DEF Load, Goto, CopyInv, TypeOK, Logs, Beginning, Points, Holding
<1>3. ASSUME NEW a \in Attempts, Evaluate(a) PROVE CopyInv'
  <2> SUFFICES ASSUME NEW b \in Attempts,
                      pc'[b] \in Beginning \union {"evaluate", "persist"}, NEW p \in PRs
               PROVE  log'[p] <= copy'[b][p]
    BY DEF CopyInv
  <2>1. pc[b] \in Beginning \union {"evaluate", "persist"} /\ log' = log
    BY <1>0, <1>3 DEF Evaluate, Goto, TypeOK, Points, Beginning
  <2>2. log[p] <= copy[b][p]
    BY <2>1 DEF CopyInv
  <2>3. CASE copy'[b] = copy[b]
    BY <2>1, <2>2, <2>3
  <2>4. CASE \E s \in SUBSET PRs : copy'[b] = land_one(copy[b], s)
    <3>1. PICK s \in SUBSET PRs : copy'[b] = land_one(copy[b], s)
      BY <2>4
    <3>2. copy[b] \in Logs /\ log[p] \in Nat
      BY <1>0 DEF TypeOK, Logs
    <3>3. copy[b][p] <= copy'[b][p] /\ copy'[b] \in Logs
      BY <3>1, <3>2, LandOneType
    <3>4. copy[b][p] \in Nat /\ copy'[b][p] \in Nat
      BY <3>2, <3>3 DEF Logs
    <3> QED BY <2>1, <2>2, <3>2, <3>3, <3>4
  <2> QED BY <1>0, <1>3, <2>3, <2>4 DEF Evaluate, TypeOK
<1>4. ASSUME NEW a \in Attempts, Persist(a) PROVE CopyInv'
  <2> SUFFICES ASSUME NEW b \in Attempts,
                      pc'[b] \in Beginning \union {"evaluate", "persist"}
               PROVE  FALSE
    BY DEF CopyInv
  <2>1. b # a
    BY <1>0, <1>4 DEF Persist, Goto, TypeOK, Beginning
  <2>2. pc[b] \in Holding /\ pc[a] \in Holding
    BY <1>0, <1>4, <2>1 DEF Persist, Goto, TypeOK, Beginning, Holding
  <2> QED BY <1>0, <2>1, <2>2 DEF HolderInv
<1>5. ASSUME UNCHANGED vars PROVE CopyInv'
  BY <1>5 DEF vars, local, CopyInv
<1> QED BY <1>1, <1>2, <1>3, <1>4, <1>5, StepCases

LEMMA OnceStep == TypeOK /\ OnceInv /\ [Next]_vars => OnceInv'
<1> SUFFICES ASSUME TypeOK, OnceInv, [Next]_vars PROVE OnceInv'
  OBVIOUS
<1> USE DEF OnceInv, LandedOnce
<1>1. ASSUME NEW a \in Attempts, Quiet(a) PROVE OnceInv'
  BY <1>1, QuietStep
<1>2. ASSUME NEW a \in Attempts, Load(a) PROVE OnceInv'
  BY <1>2 DEF Load, TypeOK
<1>3. ASSUME NEW a \in Attempts, Evaluate(a) PROVE OnceInv'
  <2> SUFFICES ASSUME NEW b \in Attempts, NEW p \in PRs
               PROVE  log'[p] <= 1 /\ copy'[b][p] <= 1
    OBVIOUS
  <2>1. log' = log
    BY <1>3 DEF Evaluate
  <2>2. CASE copy'[b] = copy[b]
    BY <2>1, <2>2
  <2>3. CASE \E s \in SUBSET PRs : copy'[b] = land_one(copy[b], s)
    BY <2>1, <2>3, LandOneType DEF TypeOK
  <2> QED BY <1>3, <2>2, <2>3 DEF Evaluate, TypeOK
<1>4. ASSUME NEW a \in Attempts, Persist(a) PROVE OnceInv'
  BY <1>4 DEF Persist
<1>5. ASSUME UNCHANGED vars PROVE OnceInv'
  BY <1>5 DEF vars, local
<1> QED BY <1>1, <1>2, <1>3, <1>4, <1>5, StepCases

\* The receipts of an attempt and its own write of the log are its own doing:
\* no lock is needed for them.
LEMMA TruthStep == TypeOK /\ ProgressInv /\ ReceiptTruthful /\ [Next]_vars =>
                     ProgressInv' /\ ReceiptTruthful'
<1> SUFFICES ASSUME TypeOK, ProgressInv, ReceiptTruthful, [Next]_vars
             PROVE  ProgressInv' /\ ReceiptTruthful'
  OBVIOUS
<1> DEFINE Truth == ProgressInv /\ ReceiptTruthful
<1> USE DEF TypeOK, ProgressInv, ReceiptTruthful, Missing, Torn, NoPrevious, Outcomes,
            Early, Over, Holding, Beginning, Points, Goto, Return, journal, local, history
<1>1. ASSUME NEW a \in Attempts, Acquire(a) PROVE Truth'
  BY <1>1 DEF Acquire
<1>2. ASSUME NEW a \in Attempts, Busy(a) PROVE Truth'
  BY <1>2 DEF Busy
<1>3. ASSUME NEW a \in Attempts, Load(a) PROVE Truth'
  BY <1>3 DEF Load
<1>4. ASSUME NEW a \in Attempts, Inspect(a) PROVE Truth'
  BY <1>4 DEF Inspect
<1>5. ASSUME NEW a \in Attempts, Mkdir(a) PROVE Truth'
  BY <1>5 DEF Mkdir
<1>6. ASSUME NEW a \in Attempts, Read(a) PROVE Truth'
  BY <1>6 DEF Read, ReadFrame
<1>7. ASSUME NEW a \in Attempts, ReadFirst(a) PROVE Truth'
  BY <1>7 DEF ReadFirst, ReadFrame
<1>8. ASSUME NEW a \in Attempts, ReadRefused(a) PROVE Truth'
  BY <1>8 DEF ReadRefused, ReadFrame
<1>9. ASSUME NEW a \in Attempts, Invalidate(a) PROVE Truth'
  BY <1>9 DEF Invalidate
<1>10. ASSUME NEW a \in Attempts, InvalidateWrite(a) PROVE Truth'
  BY <1>10 DEF InvalidateWrite
<1>11. ASSUME NEW a \in Attempts, Start(a) PROVE Truth'
  BY <1>11 DEF Start
<1>12. ASSUME NEW a \in Attempts, StartWrite(a) PROVE Truth'
  BY <1>12 DEF StartWrite
<1>13. ASSUME NEW a \in Attempts, Point(a) PROVE Truth'
  BY <1>13 DEF Point
<1>14. ASSUME NEW a \in Attempts, Evaluate(a) PROVE Truth'
  BY <1>14 DEF Evaluate
<1>15. ASSUME NEW a \in Attempts, Persist(a) PROVE Truth'
  BY <1>15 DEF Persist
<1>16. ASSUME NEW a \in Attempts, Finish(a) PROVE Truth'
  BY <1>16 DEF Finish
<1>17. ASSUME NEW a \in Attempts, FinishWrite(a) PROVE Truth'
  BY <1>17 DEF FinishWrite
<1>18. ASSUME NEW a \in Attempts, Crash(a) PROVE Truth'
  BY <1>18 DEF Crash, Fault
<1>19. ASSUME NEW a \in Attempts, Fail(a) PROVE Truth'
  BY <1>19 DEF Fail, Fault
<1>20. ASSUME UNCHANGED vars PROVE Truth'
  BY <1>20 DEF vars
<1> QED BY <1>1, <1>2, <1>3, <1>4, <1>5, <1>6, <1>7, <1>8, <1>9, <1>10, <1>11, <1>12,
           <1>13, <1>14, <1>15, <1>16, <1>17, <1>18, <1>19, <1>20 DEF Next

LEMMA JournalInit == Init => JournalInv /\ CopyInv /\ OnceInv
<1> SUFFICES ASSUME Init PROVE JournalInv /\ CopyInv /\ OnceInv
  OBVIOUS
<1>1. TypeOK
  BY TypeInit
<1>2. /\ HolderInv /\ PointerInv /\ SettledInv
      /\ ReceiptTruthful /\ WritesTraced
  BY QueueLandAssumption
     DEF Init, HolderInv, PointerInv, SettledInv, ReceiptTruthful,
         WritesTraced, Missing, Torn, NoPrevious, Early, Starting, Running, Over, Holding,
         Beginning
<1>3. ProgressInv /\ InvalidInv
  BY DEF Init, ProgressInv, InvalidInv, Missing, NoPrevious, Early, Over
<1>4. CopyInv /\ OnceInv
  BY DEF Init, CopyInv, OnceInv, LandedOnce, Beginning
<1> QED BY <1>1, <1>2, <1>3, <1>4 DEF JournalInv

LEMMA JournalImplies == JournalInv => TerminalUnique /\ PriorSettled
BY DEF JournalInv, InvalidInv, SettledInv, Settled, TerminalUnique, PriorSettled, Succeeds,
       Whole, Missing, Torn

\* A terminal receipt tells the truth about the write of the log, even when
\* attempts hold the lock for too long and overlap.
THEOREM ReceiptsTruthful == Spec => []ReceiptTruthful
<1>1. Init => TypeOK /\ ProgressInv /\ ReceiptTruthful
  BY JournalInit DEF JournalInv
<1> QED BY <1>1, TypeStep, TruthStep, PTL DEF Spec

\* land_one lands a pull request once, even when attempts hold the lock for
\* too long and write over each other.
THEOREM LandsOnce == Spec => []LandedOnce
<1>1. OnceInv => LandedOnce
  BY DEF OnceInv
<1> QED BY <1>1, JournalInit, TypeInit, TypeStep, OnceStep, PTL DEF Spec

-----------------------------------------------------------------------------
\* The receipts of attempt_journal.rs under any interruption: one terminal
\* receipt per attempt, which tells the truth about the log, a start receipt
\* only after a settled predecessor, and a trace of every write of the log.
THEOREM JournalSafe ==
  ASSUME MayOutlive = FALSE
  PROVE  Spec => []JournalSound
<1>1. Spec => []JournalInv
  BY JournalInit, JournalStep, PTL DEF Spec
<1>2. JournalInv /\ LandedOnce => JournalSound
  BY JournalImplies DEF JournalInv, JournalSound
<1> QED BY <1>1, <1>2, LandsOnce, PTL

LEMMA WriteStep ==
  ASSUME JournalInv, CopyInv, [Next]_vars
  PROVE  /\ \A a \in wrote' \ wrote :
              current = a /\ finished[a] = Missing /\ invalidated[a] = Missing
         /\ \A p \in PRs : log'[p] >= log[p]
<1>0. TypeOK
  BY DEF JournalInv
<1>1. CASE UNCHANGED vars
  BY <1>0, <1>1 DEF vars, history, TypeOK, Logs
<1>2. ASSUME NEW a \in Attempts, Quiet(a)
      PROVE  wrote' = wrote /\ log' = log
  BY <1>0, <1>2, QuietStep
<1>3. ASSUME NEW a \in Attempts, Load(a) \/ Evaluate(a)
      PROVE  wrote' = wrote /\ log' = log
  BY <1>3 DEF Load, Evaluate, history
<1>4. ASSUME NEW a \in Attempts, Persist(a)
      PROVE  /\ wrote' \ wrote \subseteq {a}
             /\ current = a /\ finished[a] = Missing /\ invalidated[a] = Missing
             /\ \A p \in PRs : log'[p] >= log[p]
  <2>1. wrote' \ wrote \subseteq {a}
    BY <1>4 DEF Persist
  <2>2. current = a /\ finished[a] = Missing /\ invalidated[a] = Missing
    BY <1>4 DEF Persist, JournalInv, PointerInv, ProgressInv, InvalidInv, Running, Over
  <2>3. \A p \in PRs : log'[p] >= log[p]
    BY <1>0, <1>4 DEF Persist, CopyInv, TypeOK, Logs
  <2> QED BY <2>1, <2>2, <2>3
<1>5. \A p \in PRs : log[p] >= log[p]
  BY <1>0 DEF TypeOK, Logs
<1> QED BY <1>1, <1>2, <1>3, <1>4, <1>5, StepCases

\* Only the attempt that current.json names, still without any terminal
\* receipt, replaces the log, and no replacement drops a landing.
THEOREM NoStaleWrites ==
  ASSUME MayOutlive = FALSE
  PROVE  Spec => LogKept
<1>1. Spec => [](JournalInv /\ CopyInv)
  BY JournalInit, JournalStep, CopyStep, PTL DEF Spec
<1>2. JournalInv /\ CopyInv /\ [Next]_vars =>
        /\ [\A a \in wrote' \ wrote :
              /\ current = a
              /\ finished[a] = Missing /\ invalidated[a] = Missing]_vars
        /\ [\A p \in PRs : log'[p] >= log[p]]_vars
  BY WriteStep
<1> QED BY <1>1, <1>2, PTL DEF Spec, LogKept, NoStaleWrite, LandingsKept

-----------------------------------------------------------------------------
(* What begin refuses. *)

FirstBegin == {"first", "invalidate", "invalidate_write", "start", "start_write", "point"}

\* The journal an undisturbed begin finds: whoever the pointer names has its
\* start receipt, nobody creates a directory or an invalidation that is there
\* already; and unless a fault hit a fragile point, a directory without pointer
\* belongs to an attempt still in begin, and a torn receipt to one writing it.
RefusalInv ==
  /\ current # None => started[current] = "whole"
  /\ \A a \in Attempts :
       /\ pc[a] = "mkdir" => ~dir
       /\ pc[a] = "read" => dir
       /\ pc[a] = "invalidate" => invalidated[prior[a].id] = Missing
  /\ spoiled \/
       /\ \A a \in Attempts :
            /\ pc[a] # "refused"
            /\ finished[a] = Torn => pc[a] = "finish_write"
            /\ invalidated[a] = Torn =>
                 \E b \in Attempts : pc[b] = "invalidate_write" /\ prior[b].id = a
       /\ dir /\ current = None => \E a \in Attempts : pc[a] \in FirstBegin

LEMMA RefusalStep ==
  ASSUME MayOutlive = FALSE
  PROVE  JournalInv /\ RefusalInv /\ [Next]_vars => RefusalInv'
<1> SUFFICES ASSUME JournalInv, RefusalInv, [Next]_vars PROVE RefusalInv'
  OBVIOUS
<1>0. TypeOK /\ TypeOK'
  BY TypeStep DEF JournalInv
<1> USE <1>0, QueueLandAssumption
    DEF JournalInv, TypeOK, HolderInv, ProgressInv, PointerInv, InvalidInv, RefusalInv,
        FirstBegin, Whole, Missing, Torn, NoPrevious, Previous, Outcomes, Early,
        Starting, Running, Over, Holding, Beginning, Points, Goto, journal, local,
        history
<1>1. ASSUME NEW a \in Attempts, Acquire(a) PROVE RefusalInv'
  BY <1>1 DEF Acquire, Reclaimable
<1>2. ASSUME NEW a \in Attempts, Busy(a) PROVE RefusalInv'
  BY <1>2 DEF Busy
<1>3. ASSUME NEW a \in Attempts, Load(a) PROVE RefusalInv'
  BY <1>3 DEF Load
<1>4. ASSUME NEW a \in Attempts, Inspect(a) PROVE RefusalInv'
  BY <1>4 DEF Inspect
<1>5. ASSUME NEW a \in Attempts, Mkdir(a) PROVE RefusalInv'
  BY <1>5 DEF Mkdir, Return
<1>6. ASSUME NEW a \in Attempts, Read(a) PROVE RefusalInv'
  BY <1>6 DEF Read, ReadFrame, Disposition, Interrupted, Readable
<1>7. ASSUME NEW a \in Attempts, ReadFirst(a) PROVE RefusalInv'
  BY <1>7 DEF ReadFirst, ReadFrame
<1>8. ASSUME NEW a \in Attempts, ReadRefused(a) PROVE RefusalInv'
  <2>1. \A b \in Attempts : pc[b] \in Holding => b = a
    BY <1>8 DEF ReadRefused
  <2>2. CASE spoiled
    BY <1>8, <2>2 DEF ReadRefused, ReadFrame, Return
  <2>3. CASE ~spoiled
    <3>1. pc[a] \in {"first", "read"} /\ pc[a] \in Holding
      BY <1>8 DEF ReadRefused
    <3>2. current # None
      BY <1>8, <2>1, <2>3, <3>1 DEF ReadRefused
    <3>3. current # a /\ started[current] = "whole" /\ current \in Attempts
      BY <3>1, <3>2
    <3>4. finished[current] # Torn /\ invalidated[current] # Torn
      BY <2>1, <2>3, <3>1, <3>3
    <3>5. finished[current] = Missing \/ invalidated[current] = Missing
      BY <3>3
    <3>6. Readable(current)
      BY <3>3, <3>4, <3>5 DEF Readable
    <3> QED BY <1>8, <3>2, <3>6 DEF ReadRefused
  <2> QED BY <2>2, <2>3
<1>9. ASSUME NEW a \in Attempts, Invalidate(a) PROVE RefusalInv'
  BY <1>9 DEF Invalidate, Return
<1>10. ASSUME NEW a \in Attempts, InvalidateWrite(a) PROVE RefusalInv'
  BY <1>10 DEF InvalidateWrite
<1>11. ASSUME NEW a \in Attempts, Start(a) PROVE RefusalInv'
  BY <1>11 DEF Start
<1>12. ASSUME NEW a \in Attempts, StartWrite(a) PROVE RefusalInv'
  BY <1>12 DEF StartWrite
<1>13. ASSUME NEW a \in Attempts, Point(a) PROVE RefusalInv'
  BY <1>13 DEF Point
<1>14. ASSUME NEW a \in Attempts, Evaluate(a) PROVE RefusalInv'
  BY <1>14 DEF Evaluate
<1>15. ASSUME NEW a \in Attempts, Persist(a) PROVE RefusalInv'
  BY <1>15 DEF Persist
<1>16. ASSUME NEW a \in Attempts, Finish(a) PROVE RefusalInv'
  BY <1>16 DEF Finish
<1>17. ASSUME NEW a \in Attempts, FinishWrite(a) PROVE RefusalInv'
  BY <1>17 DEF FinishWrite, Return
<1>18. ASSUME NEW a \in Attempts, Crash(a) PROVE RefusalInv'
  <2>1. /\ UNCHANGED <<journal, prior>>
        /\ pc' = [pc EXCEPT ![a] = "dead"]
        /\ spoiled' = (spoiled \/ Fragile(a)) /\ pc[a] \in Holding
    BY <1>18 DEF Crash, Fault
  <2>2. CASE spoiled'
    BY <2>1, <2>2
  <2>3. CASE ~spoiled'
    <3>1. ~spoiled /\ ~Fragile(a)
      BY <2>1, <2>3, Zenon
    <3>2. \A b \in Attempts : pc[b] \in Holding => b = a
      BY <2>1
    <3>3. ~(dir /\ current = None)
      BY <2>1, <3>1, <3>2 DEF Fragile
    <3> QED BY <2>1, <3>1, <3>3 DEF Fragile
  <2> QED BY <2>2, <2>3
<1>19. ASSUME NEW a \in Attempts, Fail(a) PROVE RefusalInv'
  <2>1. /\ UNCHANGED <<journal, prior>>
        /\ pc' = [pc EXCEPT ![a] = "done"]
        /\ spoiled' = (spoiled \/ Fragile(a)) /\ pc[a] \in Holding
    BY <1>19 DEF Fail, Fault, Return
  <2>2. CASE spoiled'
    BY <2>1, <2>2
  <2>3. CASE ~spoiled'
    <3>1. ~spoiled /\ ~Fragile(a)
      BY <2>1, <2>3, Zenon
    <3>2. \A b \in Attempts : pc[b] \in Holding => b = a
      BY <2>1
    <3>3. ~(dir /\ current = None)
      BY <2>1, <3>1, <3>2 DEF Fragile
    <3> QED BY <2>1, <3>1, <3>3 DEF Fragile
  <2> QED BY <2>2, <2>3
<1>20. ASSUME UNCHANGED vars PROVE RefusalInv'
  BY <1>20 DEF vars
<1> QED BY <1>1, <1>2, <1>3, <1>4, <1>5, <1>6, <1>7, <1>8, <1>9, <1>10, <1>11, <1>12, <1>13, <1>14, <1>15, <1>16, <1>17, <1>18, <1>19, <1>20 DEF Next

\* begin refuses only a journal damaged by a fault before the first pointer or
\* inside a receipt; an attempt that died anywhere else never blocks the next
\* one, whatever the number of attempts and of faults.
THEOREM RefusesOnlySpoiled ==
  ASSUME MayOutlive = FALSE
  PROVE  Spec => []RefusedOnlyIfSpoiled
<1>1. Init => RefusalInv
  BY DEF Init, RefusalInv, Missing, Torn
<1>2. RefusalInv => RefusedOnlyIfSpoiled
  BY DEF RefusalInv, RefusedOnlyIfSpoiled
<1> QED BY <1>1, <1>2, JournalInit, JournalStep, RefusalStep, PTL DEF Spec

-----------------------------------------------------------------------------
(* The merge driver (MergeDrive). *)

\* The marks of the engine agree with the union they were made from.
EngineInv ==
  \A i \in Positions :
    /\ entry[i] = "landed" => outcomes[i] = "green"
    /\ entry[i] = "union_fail" => outcomes[i] = "failing"

\* A running driver has only green entries before it, and has passed over no
\* green entry without a merge.
TodoInv ==
  /\ mode = "idle" => todo = {} /\ mpc = "next"
  /\ \A i \in todo : outcomes[i] = "green"
  /\ mode # "idle" =>
       \A i \in Positions : outcomes[i] = "green" => i \in todo \/ i \in Merged
  /\ mpc = "mark" => First(todo) \in Merged

DriveInv == MergeTypeOK /\ EngineInv /\ TodoInv /\ MergedIsGreen /\ DurableMeansMerged

LEMMA FirstIsLeast ==
  ASSUME NEW s, s \subseteq Positions, s # {}
  PROVE  First(s) \in s /\ \A j \in s : First(s) <= j
<1>1. s \subseteq Nat
  BY MergeAssumption
<1>2. PICK x \in s : \A y \in s : ~(<<y, x>> \in OpToRel(<, Nat))
  <2>1. \A R, S, T : IsWellFoundedOn(R, S) /\ T \subseteq S /\ T # {} =>
          \E x \in T : \A y \in T : ~(<<y, x>> \in R)
    BY WFMin, Zenon
  <2> QED BY <1>1, <2>1, NatLessThanWellFounded, Zenon
<1>3. \A y \in s : x <= y
  <2> TAKE y \in s
  <2>1. <<y, x>> \in OpToRel(<, Nat) <=> y < x
    BY <1>1 DEF OpToRel
  <2>2. ~(y < x)
    BY <1>2, <2>1, Zenon
  <2>3. x \in Nat /\ y \in Nat
    BY <1>1
  <2> QED BY <2>2, <2>3
<1>4. \E i \in s : \A j \in s : i <= j
  BY <1>3
<1> QED BY <1>4, Zenon DEF First

LEMMA MergeTypeInit == MergeInit => MergeTypeOK
BY MergeAssumption DEF MergeInit, MergeTypeOK, Fresh, EntryStates

LEMMA MergeTypeStep == MergeTypeOK /\ [MergeNext]_mergeVars => MergeTypeOK'
<1> SUFFICES ASSUME MergeTypeOK, [MergeNext]_mergeVars PROVE MergeTypeOK'
  OBVIOUS
<1> USE MergeAssumption DEF MergeTypeOK, EntryStates, Fresh, Idle
<1>1. ASSUME NEW i \in Positions, ForcePush(i) PROVE MergeTypeOK'
  BY <1>1 DEF ForcePush, worker
<1>2. CASE EvaluateUnion
  BY <1>2 DEF EvaluateUnion
<1>3. ASSUME NEW m \in {"drive", "recover"}, Run(m) PROVE MergeTypeOK'
  BY <1>3 DEF Run, land_in_order, transition, is_terminal
<1>4. CASE NextEntry
  BY <1>4 DEF NextEntry
<1>5. CASE Done
  BY <1>5 DEF Done
<1>6. CASE Call
  <2>0. todo \subseteq Positions /\ todo # {}
    BY <1>6 DEF Call
  <2>1. First(todo) \in todo
    BY <2>0, FirstIsLeast
  <2>2. merged' \in Seq([item : Positions, head : 0..MaxPushes,
                         outcome : {"green", "failing", "missing"}])
    <3>1. CASE First(todo) \in Merged
      BY <1>6, <3>1 DEF Call, merge_api
    <3>2. CASE First(todo) \notin Merged
      <4> DEFINE r == [item |-> First(todo), head |-> head[First(todo)],
                       outcome |-> outcomes[First(todo)]]
      <4>1. r \in [item : Positions, head : 0..MaxPushes,
                   outcome : {"green", "failing", "missing"}]
        BY <2>0, <2>1
      <4>2. merged' = Append(merged, r)
        BY <1>6, <3>2, Zenon DEF Call, merge_api
      <4> HIDE DEF r
      <4> QED BY <4>1, <4>2
    <3> QED BY <3>1, <3>2
  <2> QED BY <1>6, <2>2 DEF Call
<1>7. CASE CallStale
  BY <1>7 DEF CallStale
<1>8. CASE CallRejected
  BY <1>8 DEF CallRejected
<1>9. CASE Mark
  <2>0. todo \subseteq Positions /\ todo # {}
    BY <1>9 DEF Mark
  <2>1. First(todo) \in Positions
    BY <2>0, FirstIsLeast
  <2> QED BY <1>9, <2>1 DEF Mark
<1>10. CASE MergeCrash
  BY <1>10 DEF MergeCrash
<1>11. CASE UNCHANGED mergeVars
  BY <1>11 DEF mergeVars, worker
<1> QED BY <1>1, <1>2, <1>3, <1>4, <1>5, <1>6, <1>7, <1>8, <1>9, <1>10, <1>11 DEF MergeNext

\* Types hold whether or not a pass builds its own batch.
THEOREM MergeTypes == MergeSpec => []MergeTypeOK
BY MergeTypeInit, MergeTypeStep, PTL DEF MergeSpec

LEMMA MergedAppend ==
  ASSUME MergeTypeOK, NEW r, merged' = Append(merged, r)
  PROVE  Merged' = Merged \union {r.item}
<1>1. Len(merged) \in Nat /\ DOMAIN merged = 1..Len(merged)
  BY DEF MergeTypeOK
<1>2. DOMAIN merged' = 1..(Len(merged) + 1)
  BY DEF MergeTypeOK
<1>3. merged'[Len(merged) + 1] = r /\ \A k \in DOMAIN merged : merged'[k] = merged[k]
  BY DEF MergeTypeOK
<1>4. \A x : x \in Merged' => x \in Merged \union {r.item}
  BY <1>1, <1>2, <1>3 DEF Merged
<1>5. \A x : x \in Merged \union {r.item} => x \in Merged'
  BY <1>1, <1>2, <1>3 DEF Merged
<1> QED BY <1>4, <1>5

\* What the API merges is green, and every green entry before it is merged.
LEMMA CallMerges ==
  ASSUME DriveInv, Call
  PROVE  /\ Merged' = Merged \union {First(todo)}
         /\ MergedIsGreen'
         /\ merged' # merged =>
              /\ merged'[Len(merged')].item = First(todo)
              /\ \A i \in Positions :
                   i < First(todo) /\ outcomes[i] = "green" => i \in Merged
<1>0. todo \subseteq Positions /\ todo # {} /\ mode # "idle"
  BY DEF Call, DriveInv, MergeTypeOK, TodoInv
<1>1. First(todo) \in todo /\ \A j \in todo : First(todo) <= j
  BY <1>0, FirstIsLeast
<1>2. \A i \in Positions : i < First(todo) /\ outcomes[i] = "green" => i \in Merged
  <2> TAKE i \in Positions
  <2> HAVE i < First(todo) /\ outcomes[i] = "green"
  <2>1. i \in Nat /\ First(todo) \in Nat
    BY <1>0, <1>1, MergeAssumption
  <2>2. i \notin todo
    BY <1>1, <2>1
  <2> QED BY <1>0, <2>2 DEF DriveInv, TodoInv
<1>3. CASE First(todo) \in Merged
  <2>1. merged' = merged
    BY <1>3 DEF Call, merge_api
  <2> QED BY <1>3, <2>1 DEF DriveInv, MergedIsGreen, Merged
<1>4. CASE First(todo) \notin Merged
  <2> DEFINE r == [item |-> First(todo), head |-> head[First(todo)],
                   outcome |-> outcomes[First(todo)]]
  <2>1. merged' = Append(merged, r)
    BY <1>4, Zenon DEF Call, merge_api
  <2>2. r.item = First(todo) /\ r.outcome = "green"
    BY <1>1 DEF DriveInv, TodoInv
  <2> HIDE DEF r
  <2>3. Merged' = Merged \union {First(todo)}
    BY <2>1, <2>2, MergedAppend DEF DriveInv
  <2>4. /\ Len(merged) \in Nat /\ DOMAIN merged = 1..Len(merged)
        /\ Len(merged') = Len(merged) + 1 /\ DOMAIN merged' = 1..(Len(merged) + 1)
        /\ merged'[Len(merged) + 1] = r
        /\ \A k \in DOMAIN merged : merged'[k] = merged[k]
    BY <2>1 DEF DriveInv, MergeTypeOK
  <2>5. MergedIsGreen'
    BY <2>2, <2>4 DEF DriveInv, MergedIsGreen
  <2> QED BY <1>2, <2>2, <2>3, <2>4, <2>5
<1> QED BY <1>3, <1>4

LEMMA DriveStep ==
  ASSUME RebuildBatch = TRUE
  PROVE  DriveInv /\ [MergeNext]_mergeVars => DriveInv'
<1> SUFFICES ASSUME DriveInv, [MergeNext]_mergeVars PROVE DriveInv'
  OBVIOUS
<1>0. MergeTypeOK'
  BY MergeTypeStep DEF DriveInv
<1> DEFINE Rest == EngineInv /\ TodoInv /\ MergedIsGreen /\ DurableMeansMerged
<1>1. ASSUME NEW i \in Positions, ForcePush(i) PROVE Rest'
  BY <1>1 DEF ForcePush, worker, DriveInv, EngineInv, TodoInv, MergedIsGreen,
              DurableMeansMerged, Merged
<1>2. ASSUME EvaluateUnion PROVE Rest'
  BY <1>2 DEF EvaluateUnion, DriveInv, EngineInv, TodoInv, MergedIsGreen,
              DurableMeansMerged, Merged, Fresh
<1>3. ASSUME NEW m \in {"drive", "recover"}, Run(m) PROVE Rest'
  <2>1. \A i \in Positions :
          /\ entry'[i] = "landed" <=> outcomes[i] = "green"
          /\ entry'[i] = "union_fail" => outcomes[i] = "failing"
    BY <1>3 DEF Run, land_in_order, transition, is_terminal, DriveInv, EngineInv, MergeTypeOK
  <2> QED BY <1>3, <2>1 DEF Run, DriveInv, EngineInv, TodoInv, MergedIsGreen,
              DurableMeansMerged, Merged
<1>4. ASSUME NextEntry PROVE Rest'
  <2>1. EngineInv' /\ MergedIsGreen' /\ DurableMeansMerged'
    BY <1>4 DEF NextEntry, DriveInv, EngineInv, MergedIsGreen, DurableMeansMerged, Merged
  <2>2. Merged' = Merged
    BY <1>4 DEF NextEntry, Merged
  <2>3. TodoInv'
    BY <1>4, <2>2 DEF NextEntry, Idle, DriveInv, TodoInv, DurableMeansMerged
  <2> QED BY <2>1, <2>3
<1>5. ASSUME Done PROVE Rest'
  BY <1>5 DEF Done, Idle, DriveInv, EngineInv, TodoInv, MergedIsGreen,
              DurableMeansMerged, Merged
<1>6. ASSUME Call PROVE Rest'
  <2>1. Merged' = Merged \union {First(todo)} /\ MergedIsGreen'
    BY <1>6, CallMerges
  <2>2. EngineInv' /\ DurableMeansMerged'
    BY <1>6, <2>1 DEF Call, DriveInv, EngineInv, DurableMeansMerged
  <2>3. TodoInv'
    BY <1>6, <2>1 DEF Call, DriveInv, TodoInv
  <2> QED BY <2>1, <2>2, <2>3
<1>7. ASSUME CallStale PROVE Rest'
  BY <1>7 DEF CallStale, Idle, DriveInv, EngineInv, TodoInv, MergedIsGreen,
              DurableMeansMerged, Merged
<1>8. ASSUME CallRejected PROVE Rest'
  BY <1>8 DEF CallRejected, Idle, DriveInv, EngineInv, TodoInv, MergedIsGreen,
              DurableMeansMerged, Merged
<1>9. ASSUME Mark PROVE Rest'
  <2>1. Merged' = Merged
    BY <1>9 DEF Mark, Merged
  <2>2. EngineInv' /\ DurableMeansMerged' /\ MergedIsGreen'
    BY <1>9, <2>1 DEF Mark, DriveInv, EngineInv, TodoInv, DurableMeansMerged, MergedIsGreen
  <2>3. TodoInv'
    BY <1>9, <2>1 DEF Mark, DriveInv, TodoInv
  <2> QED BY <2>2, <2>3
<1>10. ASSUME MergeCrash PROVE Rest'
  BY <1>10 DEF MergeCrash, Idle, Fresh, DriveInv, EngineInv, TodoInv, MergedIsGreen,
              DurableMeansMerged, Merged
<1>11. ASSUME UNCHANGED mergeVars PROVE Rest'
  BY <1>11 DEF mergeVars, worker, DriveInv, EngineInv, TodoInv, MergedIsGreen,
              DurableMeansMerged, Merged
<1>12. Rest'
  BY <1>1, <1>2, <1>3, <1>4, <1>5, <1>6, <1>7, <1>8, <1>9, <1>10, <1>11 DEF MergeNext
<1> QED BY <1>0, <1>12 DEF DriveInv

LEMMA DriveInit == MergeInit => DriveInv
BY MergeTypeInit DEF MergeInit, DriveInv, EngineInv, TodoInv, MergedIsGreen,
               DurableMeansMerged, Merged, Fresh

\* With a batch of its own for each pass, the driver merges only what the
\* last union found green, and the land log is never ahead of GitHub.
THEOREM MainStaysGreen ==
  ASSUME RebuildBatch = TRUE
  PROVE  MergeSpec => []MainGreen
<1>1. DriveInv => MainGreen
  BY DEF DriveInv, MainGreen
<1> QED BY <1>1, DriveInit, DriveStep, PTL DEF MergeSpec

\* With a batch of its own for each pass, no entry is merged before a green
\* entry that precedes it in the queue.
THEOREM MergeOrder ==
  ASSUME RebuildBatch = TRUE
  PROVE  MergeSpec => MergedInOrder
<1>1. DriveInv /\ [MergeNext]_mergeVars =>
        [\A i \in Positions :
           merged' # merged /\ i < merged'[Len(merged')].item /\ outcomes[i] = "green"
             => i \in Merged]_mergeVars
  <2> SUFFICES ASSUME DriveInv, MergeNext, merged' # merged, NEW i \in Positions,
                      i < merged'[Len(merged')].item, outcomes[i] = "green"
               PROVE  i \in Merged
    BY DEF mergeVars
  <2>1. Call
    BY DEF MergeNext, ForcePush, EvaluateUnion, Run, NextEntry, Done, CallStale, CallRejected,
           Mark, MergeCrash
  <2> QED BY <2>1, CallMerges
<1> QED BY <1>1, DriveInit, DriveStep, PTL DEF MergeSpec, MergedInOrder

-----------------------------------------------------------------------------
(* The runtime store (RuntimeStore). *)

\* Where a call holds the log's lock.
Guarded == {"handoff", "copy", "canonical", "write"}

\* Who holds a lock between two of its steps, and what it knows there.
StoreLocks ==
  \A p \in Runners :
    /\ run[p].at \in Guarded => canonLock = p
    /\ run[p].at = "idwrite" => metaLock = p

Secured(d) == copied # NoFile /\ bound(canon, d)

Aware(p) ==
  /\ run[p].at = "canonical" => (run[p].snapshot # NoFile => copied # NoFile)
  /\ run[p].at = "metadata" => (run[p].snapshot # NoFile => Secured(run[p].snapshot))
  /\ run[p].at = "publish" => /\ run[p].value.source # "no file"
                              /\ run[p].value.prefix # Null => Secured(run[p].value.prefix)
  /\ run[p].at = "write" => \E r \in Entries : run[p].log = Append(canon, r)
  /\ run[p].at = "idlock" => meta # NoMeta
  /\ run[p].at = "idwrite" => run[p].value = meta /\ meta # NoMeta

StoreInv ==
  /\ StoreTypeOK /\ StoreLocks /\ \A p \in Runners : Aware(p)
  /\ meta # NoMeta => meta.source # "no file"
  /\ Null \notin issued
  /\ StoreSafe

LEMMA NoMetaSource == NoMeta.source = "no file"
BY DEF NoMeta, Metadata

LEMMA FreshType ==
  ASSUME NEW p \in Runners, NEW n \in 0..MaxRuns
  PROVE  <<"id", p, n>> \in Ids /\ Record(p, n) \in Entries
BY DEF Ids, Entries, Record

LEMMA RestingType == Resting \in Calls /\ NoMeta \in Metas
<1>1. NoMeta \in Metas
  BY DEF NoMeta, Metas, Metadata, Ids
<1> QED BY <1>1 DEF Resting, Calls, LegacyFiles

LEMMA Appended ==
  ASSUME NEW S, NEW s \in Seq(S), NEW e \in S
  PROVE  /\ Append(s, e) # <<>> /\ Append(s, e) \in Seq(S)
         /\ Len(Append(s, e)) = Len(s) + 1 /\ Append(s, e)[Len(s) + 1] = e
         /\ Len(s) + 1 \in DOMAIN Append(s, e)
OBVIOUS

LEMMA StoreInitial == StoreInit => StoreInv
<1> SUFFICES ASSUME StoreInit PROVE StoreInv
  OBVIOUS
<1> USE DEF StoreInit
<1>1. StoreTypeOK
  BY RestingType, StoreAssumption DEF StoreTypeOK, LegacyFiles
<1>2. \A p \in Runners : run[p].at = "rest"
  BY DEF Resting
<1>3. StoreLocks /\ \A p \in Runners : Aware(p)
  BY <1>2 DEF StoreLocks, Aware, Guarded
<1>4. StoreSafe
  BY DEF StoreSafe, PrefixBound, IdentityStable, AckedInLog
<1> QED BY <1>1, <1>3, <1>4 DEF StoreInv

\* What a step of process p leaves true of the files: records and the copy
\* stay, and metadata changes only when there was none or to get its id.
Growth ==
  /\ canon' \in Seq(Entries)
  /\ \/ canon' = canon
     \/ canon = <<>>
     \/ \E r \in Entries : canon' = Append(canon, r)
  /\ copied # NoFile => copied' = copied

LEMMA GrowthKeeps ==
  ASSUME StoreTypeOK, Growth
  PROVE  /\ \A d : Secured(d) => Secured(d)'
         /\ ToSet(canon) \subseteq ToSet(canon)'
<1>1. CASE canon' = canon
  BY <1>1 DEF Growth, Secured, bound
<1>2. CASE canon = <<>>
  BY <1>2 DEF Growth, Secured, bound, ToSet
<1>3. ASSUME NEW r \in Entries, canon' = Append(canon, r)
      PROVE  /\ \A d : Secured(d) => Secured(d)'
             /\ ToSet(canon) \subseteq ToSet(canon)'
  <2>1. canon \in Seq(Entries)
    BY DEF StoreTypeOK
  <2>2. /\ Len(canon') = Len(canon) + 1 /\ canon' # <<>>
        /\ \A i \in 1..Len(canon) : canon'[i] = canon[i]
    BY <1>3, <2>1
  <2>3. canon # <<>> => canon'[1] = canon[1]
    BY <2>1, <2>2
  <2>4. DOMAIN canon = 1..Len(canon) /\ DOMAIN canon' = 1..Len(canon')
    BY <1>3, <2>1
  <2>5. ToSet(canon) \subseteq ToSet(canon)'
    BY <2>1, <2>2, <2>4 DEF ToSet
  <2> QED BY <2>2, <2>3, <2>5 DEF Growth, Secured, bound
<1> QED BY <1>1, <1>2, <1>3 DEF Growth

\* The other processes, when process p steps.
LEMMA OthersAware ==
  ASSUME StoreInv, Growth, NEW p \in Runners,
         \A q \in Runners \ {p} : run'[q] = run[q],
         canon' # canon => canonLock = p,
         meta' # meta => meta = NoMeta \/ metaLock = p,
         meta # NoMeta => meta' # NoMeta,
         \A q \in Runners \ {p} : canonLock = q => canonLock' = q,
         \A q \in Runners \ {p} : metaLock = q => metaLock' = q
  PROVE  \A q \in Runners \ {p} :
           /\ Aware(q)'
           /\ run'[q].at \in Guarded => canonLock' = q
           /\ run'[q].at = "idwrite" => metaLock' = q
<1> SUFFICES ASSUME NEW q \in Runners \ {p}
             PROVE  /\ Aware(q)'
                    /\ run'[q].at \in Guarded => canonLock' = q
                    /\ run'[q].at = "idwrite" => metaLock' = q
  OBVIOUS
<1>1. Aware(q) /\ run'[q] = run[q] /\ q # p
  BY DEF StoreInv
<1>2. /\ run[q].at \in Guarded => canonLock = q
      /\ run[q].at = "idwrite" => metaLock = q
  BY DEF StoreInv, StoreLocks
<1>3. \A d : Secured(d) => Secured(d)'
  BY GrowthKeeps DEF StoreInv
<1>4. run[q].at = "write" => canon' = canon
  BY <1>1, <1>2 DEF Guarded
<1>5. run[q].at = "idwrite" => meta' = meta
  BY <1>1, <1>2 DEF Aware
<1>6. Aware(q)'
  <2>1. run'[q].at = "canonical" => (run'[q].snapshot # NoFile => copied' # NoFile)
    BY <1>1 DEF Aware, Growth
  <2>2. run'[q].at = "metadata" => (run'[q].snapshot # NoFile => Secured(run[q].snapshot)')
    BY <1>1, <1>3 DEF Aware
  <2>3. run'[q].at = "publish" => /\ run'[q].value.source # "no file"
                                  /\ run'[q].value.prefix # Null => Secured(run[q].value.prefix)'
    BY <1>1, <1>3 DEF Aware
  <2>4. run'[q].at = "write" => \E r \in Entries : run'[q].log = Append(canon', r)
    BY <1>1, <1>4 DEF Aware
  <2>5. run'[q].at = "idlock" => meta' # NoMeta
    BY <1>1 DEF Aware
  <2>6. run'[q].at = "idwrite" => run'[q].value = meta' /\ meta' # NoMeta
    BY <1>1, <1>5 DEF Aware
  <2> QED BY <2>1, <2>2, <2>3, <2>4, <2>5, <2>6 DEF Aware
<1> QED BY <1>1, <1>2, <1>6

LEMMA Locks ==
  ASSUME StoreTypeOK, NEW p \in Runners,
         \/ DropLocks(p)
         \/ UNCHANGED <<canonLock, metaLock>>
         \/ canonLock = Free /\ canonLock' = p /\ UNCHANGED metaLock
         \/ metaLock = Free /\ metaLock' = p /\ UNCHANGED canonLock
  PROVE  /\ canonLock' \in Runners \union {Free} /\ metaLock' \in Runners \union {Free}
         /\ \A q \in Runners \ {p} : canonLock = q => canonLock' = q
         /\ \A q \in Runners \ {p} : metaLock = q => metaLock' = q
BY StoreAssumption DEF StoreTypeOK, DropLocks

LEMMA QuietKeeps ==
  ASSUME StoreInv, NEW p \in Runners, NEW r \in Calls, Go(p, r),
         UNCHANGED <<Files, issued, acked>>, runs' \in 0..MaxRuns,
         \/ DropLocks(p)
         \/ UNCHANGED <<canonLock, metaLock>>
         \/ canonLock = Free /\ canonLock' = p /\ UNCHANGED metaLock
         \/ metaLock = Free /\ metaLock' = p /\ UNCHANGED canonLock,
         r.at \in Guarded => canonLock' = p,
         r.at = "idwrite" => metaLock' = p,
         Aware(p)'
  PROVE  StoreInv'
<1>0. StoreTypeOK /\ run \in [Runners -> Calls]
  BY DEF StoreInv, StoreTypeOK
<1>1. run' \in [Runners -> Calls] /\ run'[p] = r /\ \A q \in Runners \ {p} : run'[q] = run[q]
  BY <1>0 DEF Go
<1>2. /\ canonLock' \in Runners \union {Free} /\ metaLock' \in Runners \union {Free}
      /\ \A q \in Runners \ {p} : canonLock = q => canonLock' = q
      /\ \A q \in Runners \ {p} : metaLock = q => metaLock' = q
  BY <1>0, Locks
<1>3. UNCHANGED <<legacy, copied, canon, meta, issued, acked>>
  BY DEF Files
<1>4. StoreTypeOK'
  BY <1>0, <1>1, <1>2, <1>3 DEF StoreTypeOK
<1>5. Growth
  BY <1>0, <1>3 DEF Growth, StoreTypeOK
<1>6. \A q \in Runners \ {p} :
           /\ Aware(q)'
           /\ run'[q].at \in Guarded => canonLock' = q
           /\ run'[q].at = "idwrite" => metaLock' = q
  BY <1>1, <1>2, <1>3, <1>5, OthersAware
<1>7. StoreLocks' /\ (\A q \in Runners : Aware(q))'
  <2>1. \A q \in Runners : q = p \/ q \in Runners \ {p}
    OBVIOUS
  <2> QED BY <1>1, <1>6, <2>1 DEF StoreLocks
<1>8. StoreSafe'
  BY <1>3 DEF StoreInv, StoreSafe, PrefixBound, IdentityStable, AckedInLog
<1> QED BY <1>3, <1>4, <1>7, <1>8 DEF StoreInv

\* Steps that fail, rest or move on to a point where nothing is known.
Plain == {"rest", "prepare", "read", "compare", "migrate_lock", "lock"}

LEMMA PlainAware ==
  ASSUME StoreTypeOK, NEW p \in Runners, NEW r \in Calls, Go(p, r), r.at \in Plain
  PROVE  Aware(p)' /\ r.at \notin Guarded /\ r.at # "idwrite"
<1>1. run'[p] = r
  BY DEF StoreTypeOK, Go
<1> QED BY <1>1 DEF Aware, Plain, Guarded

LEMMA FailKeeps ==
  ASSUME StoreInv, NEW p \in Runners, FailRun(p),
         UNCHANGED <<Files, issued, acked, runs>>
  PROVE  StoreInv'
<1>1. Resting \in Calls /\ Resting.at \in Plain
  BY RestingType DEF Resting, Plain
<1>2. runs' \in 0..MaxRuns /\ StoreTypeOK
  BY DEF StoreInv, StoreTypeOK
<1>3. Go(p, Resting) /\ DropLocks(p)
  BY DEF FailRun
<1> QED BY <1>1, <1>2, <1>3, QuietKeeps, PlainAware

\* A prepared store: metadata is there.
LEMMA PreparedKeeps ==
  ASSUME StoreInv, NEW p \in Runners, meta # NoMeta,
         StepTo(p, AfterPrepare(p)), DropLocks(p),
         UNCHANGED <<Files, issued, acked, runs>>
  PROVE  StoreInv'
<1>1. PICK r : r = [run[p] EXCEPT !.at = AfterPrepare(p)]
  OBVIOUS
<1>2. run[p] \in Calls /\ StoreTypeOK /\ runs' \in 0..MaxRuns
  BY DEF StoreInv, StoreTypeOK
<1>3. r \in Calls /\ r.at \in {"lock", "idlock"}
  BY <1>1, <1>2 DEF AfterPrepare, Calls
<1>4. Go(p, r)
  BY <1>1 DEF StepTo
<1>5. run'[p] = r /\ meta' = meta
  BY <1>2, <1>4 DEF Go, StoreTypeOK, Files
<1>6. Aware(p)'
  BY <1>3, <1>5 DEF Aware
<1>7. r.at \notin Guarded /\ r.at # "idwrite"
  BY <1>3 DEF Guarded
<1> QED BY <1>2, <1>3, <1>4, <1>6, <1>7, QuietKeeps

LEMMA PlainKeeps ==
  ASSUME StoreInv, NEW p \in Runners, NEW r \in Calls, Go(p, r), r.at \in Plain,
         UNCHANGED <<Files, issued, acked>>, runs' \in 0..MaxRuns,
         \/ DropLocks(p)
         \/ UNCHANGED <<canonLock, metaLock>>
  PROVE  StoreInv'
<1>1. StoreTypeOK
  BY DEF StoreInv
<1> QED BY <1>1, PlainAware, QuietKeeps

LEMMA CallType ==
  ASSUME StoreInv, NEW p \in Runners
  PROVE  /\ StoreTypeOK /\ run[p] \in Calls /\ runs \in 0..MaxRuns
         /\ meta \in Metas /\ legacy \in LegacyFiles /\ copied \in LegacyFiles
         /\ canon \in Seq(Entries)
         /\ \A x \in Calls, point \in {"rest", "prepare", "read", "compare", "migrate_lock",
              "handoff", "copy", "canonical", "metadata", "publish", "lock", "write",
              "idlock", "idwrite"} :
              [x EXCEPT !.at = point] \in Calls /\ [x EXCEPT !.at = point].at = point
BY DEF StoreInv, StoreTypeOK, Calls

\* The steps before and around the locks.
LEMMA PrepareSteps ==
  ASSUME StoreInv, NEW p \in Runners,
         \/ \E op \in {"attach", "verb", "id"} : StartVerb(p, op)
         \/ prepare_runtime_log(p) \/ migrate_read(p) \/ migrate_compare(p)
         \/ acquire_bootstrap_lock(p) \/ handoff(p) \/ CrashRun(p)
  PROVE  StoreInv'
<1>0. /\ StoreTypeOK /\ run[p] \in Calls /\ runs \in 0..MaxRuns
      /\ legacy \in LegacyFiles /\ copied \in LegacyFiles
  BY CallType
<1>1. ASSUME NEW op \in {"attach", "verb", "id"}, StartVerb(p, op)
      PROVE  StoreInv'
  <2>1. PICK r : r = [Resting EXCEPT !.at = IF op = "attach" THEN "read" ELSE "prepare", !.op = op]
    OBVIOUS
  <2>2. r \in Calls /\ r.at \in Plain
    BY <2>1, RestingType DEF Calls, Plain
  <2>3. /\ Go(p, r) /\ runs' \in 0..MaxRuns
        /\ UNCHANGED <<Files, issued, acked>> /\ UNCHANGED <<canonLock, metaLock>>
    BY <1>0, <1>1, <2>1, StoreAssumption DEF StartVerb
  <2> QED BY <2>2, <2>3, PlainKeeps
<1>2. CASE prepare_runtime_log(p)
  <2>0. UNCHANGED <<Files, issued, acked, runs>>
    BY <1>2 DEF prepare_runtime_log
  <2>1. CASE prepared_metadata_matches = "prepared"
    <3>1. StepTo(p, AfterPrepare(p)) /\ DropLocks(p) /\ meta # NoMeta
      BY <1>2, <2>1 DEF prepare_runtime_log, prepared_metadata_matches
    <3> QED BY <2>0, <3>1, PreparedKeeps
  <2>2. CASE prepared_metadata_matches = "blocked"
    BY <1>2, <2>0, <2>2, FailKeeps DEF prepare_runtime_log
  <2>3. CASE prepared_metadata_matches \notin {"prepared", "blocked"}
    <3>1. StepTo(p, "read") /\ DropLocks(p)
      BY <1>2, <2>3 DEF prepare_runtime_log
    <3>2. PICK r : r = [run[p] EXCEPT !.at = "read"]
      OBVIOUS
    <3>3. r \in Calls /\ r.at \in Plain /\ Go(p, r)
      BY <1>0, <3>1, <3>2, CallType DEF Plain, StepTo
    <3> QED BY <1>0, <2>0, <3>1, <3>3, PlainKeeps
  <2> QED BY <2>1, <2>2, <2>3
<1>3. CASE migrate_read(p)
  <2>0. UNCHANGED <<Files, issued, acked, runs>>
    BY <1>3 DEF migrate_read
  <2>1. PICK r : r = [run[p] EXCEPT !.at = "compare", !.source = legacy]
    OBVIOUS
  <2>2. r \in Calls /\ r.at \in Plain
    BY <1>0, <2>1 DEF Calls, Plain
  <2>3. FailRun(p) \/ (Go(p, r) /\ UNCHANGED <<canonLock, metaLock>>)
    BY <1>3, <2>1 DEF migrate_read
  <2> QED BY <1>0, <2>0, <2>2, <2>3, FailKeeps, PlainKeeps
<1>4. CASE migrate_compare(p)
  <2>0. UNCHANGED <<Files, issued, acked, runs>>
    BY <1>4 DEF migrate_compare
  <2>1. PICK r : r = [run[p] EXCEPT !.at = "migrate_lock",
                        !.snapshot = IF run[p].source # NoFile THEN run[p].source ELSE copied]
    OBVIOUS
  <2>2. r \in Calls /\ r.at \in Plain
    BY <1>0, <2>1 DEF Calls, Plain
  <2>3. FailRun(p) \/ (Go(p, r) /\ UNCHANGED <<canonLock, metaLock>>)
    BY <1>4, <2>1 DEF migrate_compare
  <2> QED BY <1>0, <2>0, <2>2, <2>3, FailKeeps, PlainKeeps
<1>5. CASE acquire_bootstrap_lock(p)
  <2>0. UNCHANGED <<Files, issued, acked, runs>>
    BY <1>5 DEF acquire_bootstrap_lock
  <2>1. PICK r : r = [run[p] EXCEPT !.at = IF run[p].op = "attach" THEN "copy" ELSE "handoff"]
    OBVIOUS
  <2>2. r \in Calls /\ r.at \in {"copy", "handoff"}
    BY <1>0, <2>1 DEF Calls
  <2>3. \/ FailRun(p)
        \/ Go(p, r) /\ canonLock = Free /\ canonLock' = p /\ UNCHANGED metaLock
    BY <1>5, <2>1 DEF acquire_bootstrap_lock, StepTo
  <2>4. Go(p, r) => Aware(p)'
    BY <1>0, <2>2 DEF Aware, Go, StoreTypeOK
  <2> QED BY <1>0, <2>0, <2>2, <2>3, <2>4, FailKeeps, QuietKeeps
<1>6. CASE handoff(p)
  <2>0. UNCHANGED <<Files, issued, acked, runs>>
    BY <1>6 DEF handoff
  <2>1. CASE prepared_metadata_matches = "prepared"
    <3>1. StepTo(p, AfterPrepare(p)) /\ DropLocks(p) /\ meta # NoMeta
      BY <1>6, <2>1 DEF handoff, prepared_metadata_matches
    <3> QED BY <2>0, <3>1, PreparedKeeps
  <2>2. CASE prepared_metadata_matches = "blocked"
    BY <1>6, <2>0, <2>2, FailKeeps DEF handoff
  <2>3. CASE prepared_metadata_matches \notin {"prepared", "blocked"}
    <3>1. FailRun(p) \/ (StepTo(p, "copy") /\ UNCHANGED <<canonLock, metaLock>>)
      BY <1>6, <2>3 DEF handoff
    <3>2. PICK r : r = [run[p] EXCEPT !.at = "copy"]
      OBVIOUS
    <3>3. r \in Calls /\ r.at = "copy"
      BY <1>0, <3>2, CallType
    <3>4. Go(p, r) => Aware(p)'
      BY <1>0, <3>3 DEF Aware, Go, StoreTypeOK
    <3>5. canonLock = p
      BY <1>6 DEF StoreInv, StoreLocks, Guarded, handoff, At
    <3> QED BY <1>0, <2>0, <3>1, <3>2, <3>3, <3>4, <3>5, QuietKeeps, FailKeeps DEF StepTo
  <2> QED BY <2>1, <2>2, <2>3
<1>7. CASE CrashRun(p)
  BY <1>7, FailKeeps DEF CrashRun
<1> QED BY <1>1, <1>2, <1>3, <1>4, <1>5, <1>6, <1>7

\* The steps that read what they will write.
LEMMA ReadSteps ==
  ASSUME StoreInv, NEW p \in Runners,
         migrate_metadata(p) \/ VerbLock(p) \/ IdLock(p)
  PROVE  StoreInv'
<1>0. /\ StoreTypeOK /\ run[p] \in Calls /\ runs \in 0..MaxRuns /\ meta \in Metas
      /\ canon \in Seq(Entries) /\ Resting \in Calls /\ Aware(p)
      /\ meta # NoMeta => meta.source # "no file"
  BY CallType, RestingType DEF StoreInv
<1>1. CASE migrate_metadata(p)
  <2>1. PICK d, source, id :
          /\ d = IF run[p].snapshot = NoFile THEN Null ELSE run[p].snapshot
          /\ source = IF run[p].source # NoFile THEN "legacy"
                      ELSE IF meta # NoMeta THEN meta.source ELSE "none"
          /\ id = IF meta = NoMeta THEN Null ELSE meta.id
    OBVIOUS
  <2>2. /\ d \in LegacyFiles \union {Null} /\ id \in Ids
        /\ source \in {"no file", "legacy", "none"} /\ source # "no file"
    <3>1. Null \in Ids
      BY DEF Ids
    <3> QED BY <1>0, <2>1, <3>1 DEF Calls, Metas
  <2>3. PICK r : r = [Resting EXCEPT !.at = "publish", !.op = run[p].op,
                                     !.value = Metadata(source, d, id)]
    OBVIOUS
  <2>4. Metadata(source, d, id) \in Metas
    BY <2>2 DEF Metadata, Metas
  <2>5. /\ r \in Calls /\ r.at = "publish" /\ r.value.source = source /\ r.value.prefix = d
    BY <1>0, <2>3, <2>4 DEF Calls, Metadata
  <2>6. /\ Go(p, r) /\ UNCHANGED <<Files, canonLock, metaLock, issued, acked, runs>>
        /\ run[p].at = "metadata"
    BY <1>1, <2>1, <2>3 DEF migrate_metadata, At
  <2>7. run'[p] = r /\ copied' = copied /\ canon' = canon
    BY <1>0, <2>6 DEF Go, StoreTypeOK, Files
  <2>8. d # Null => Secured(d)
    BY <1>0, <2>1, <2>6 DEF Aware
  <2>9. Aware(p)'
    BY <2>2, <2>5, <2>7, <2>8 DEF Aware, Secured
  <2>10. r.at \notin Guarded /\ r.at # "idwrite"
    BY <2>5 DEF Guarded
  <2> QED BY <1>0, <2>5, <2>6, <2>9, <2>10, QuietKeeps
<1>2. CASE VerbLock(p)
  <2>0. UNCHANGED <<Files, metaLock, issued, acked, runs>>
    BY <1>2 DEF VerbLock
  <2>1. CASE Go(p, Resting) /\ UNCHANGED canonLock
    <3>1. Resting.at \in Plain
      BY DEF Resting, Plain
    <3> QED BY <1>0, <2>0, <2>1, <3>1, PlainKeeps
  <2>2. CASE ~(Go(p, Resting) /\ UNCHANGED canonLock)
    <3>1. PICK e : e = Record(p, runs)
      OBVIOUS
    <3>2. PICK r : r = [Resting EXCEPT !.at = "write", !.op = "verb", !.log = Append(canon, e)]
      OBVIOUS
    <3>3. e \in Entries /\ Append(canon, e) \in Seq(Entries)
      <4>1. e \in Entries
        BY <1>0, <3>1, FreshType
      <4> QED BY <1>0, <4>1, Appended
    <3>4. r \in Calls /\ r.at = "write" /\ r.log = Append(canon, e)
      BY <1>0, <3>2, <3>3 DEF Calls
    <3>5. Go(p, r) /\ canonLock = Free /\ canonLock' = p
      BY <1>2, <2>2, <3>1, <3>2 DEF VerbLock
    <3>6. run'[p] = r /\ canon' = canon
      BY <1>0, <2>0, <3>5 DEF Go, StoreTypeOK, Files
    <3>7. Aware(p)'
      BY <3>3, <3>4, <3>6 DEF Aware
    <3> QED BY <1>0, <2>0, <3>4, <3>5, <3>7, QuietKeeps
  <2> QED BY <2>1, <2>2
<1>3. CASE IdLock(p)
  <2>0. UNCHANGED <<Files, issued, acked, runs>> /\ run[p].at = "idlock"
    BY <1>3 DEF IdLock, At
  <2>1. meta # NoMeta
    BY <1>0, <2>0 DEF Aware
  <2>2. PICK r : r = [Resting EXCEPT !.at = "idwrite", !.op = "id", !.value = meta]
    OBVIOUS
  <2>3. r \in Calls /\ r.at = "idwrite" /\ r.value = meta
    BY <1>0, <2>2 DEF Calls
  <2>4. \/ FailRun(p)
        \/ Go(p, r) /\ metaLock = Free /\ metaLock' = p /\ UNCHANGED canonLock
    BY <1>3, <2>1, <2>2 DEF IdLock
  <2>5. CASE FailRun(p)
    BY <2>0, <2>5, FailKeeps
  <2>6. CASE Go(p, r) /\ metaLock = Free /\ metaLock' = p /\ UNCHANGED canonLock
    <3>1. run'[p] = r /\ meta' = meta
      BY <1>0, <2>0, <2>6 DEF Go, StoreTypeOK, Files
    <3>2. Aware(p)'
      BY <2>1, <2>3, <3>1 DEF Aware
    <3>3. r.at \notin Guarded
      BY <2>3 DEF Guarded
    <3> QED BY <1>0, <2>0, <2>3, <2>6, <3>2, <3>3, QuietKeeps
  <2> QED BY <2>4, <2>5, <2>6
<1> QED BY <1>1, <1>2, <1>3

\* The steps that write a file.
LEMMA WriteKeeps ==
  ASSUME StoreInv, NEW p \in Runners, NEW r \in Calls, Go(p, r), Growth,
         DropLocks(p) \/ UNCHANGED <<canonLock, metaLock>>,
         UNCHANGED <<legacy, runs>>, copied' \in LegacyFiles, meta' \in Metas,
         issued' \in SUBSET Ids, acked' \in SUBSET Entries,
         canon' # canon => canonLock = p,
         meta' # meta => meta = NoMeta \/ metaLock = p,
         meta' # NoMeta => meta'.source # "no file",
         meta # NoMeta => meta' # NoMeta,
         Null \notin issued',
         r.at \in Guarded => canonLock' = p, r.at # "idwrite", Aware(p)', StoreSafe'
  PROVE  StoreInv'
<1>0. StoreTypeOK /\ run \in [Runners -> Calls]
  BY DEF StoreInv, StoreTypeOK
<1>1. run' \in [Runners -> Calls] /\ run'[p] = r /\ \A q \in Runners \ {p} : run'[q] = run[q]
  BY <1>0 DEF Go
<1>2. /\ canonLock' \in Runners \union {Free} /\ metaLock' \in Runners \union {Free}
      /\ \A q \in Runners \ {p} : canonLock = q => canonLock' = q
      /\ \A q \in Runners \ {p} : metaLock = q => metaLock' = q
  BY <1>0, Locks
<1>3. StoreTypeOK'
  BY <1>0, <1>1, <1>2 DEF StoreTypeOK, Growth
<1>4. \A q \in Runners \ {p} :
           /\ Aware(q)'
           /\ run'[q].at \in Guarded => canonLock' = q
           /\ run'[q].at = "idwrite" => metaLock' = q
  BY <1>1, <1>2, OthersAware
<1>5. StoreLocks' /\ (\A q \in Runners : Aware(q))'
  <2>1. \A q \in Runners : q = p \/ q \in Runners \ {p}
    OBVIOUS
  <2> QED BY <1>1, <1>4, <2>1 DEF StoreLocks
<1> QED BY <1>3, <1>5 DEF StoreInv

\* The metadata is left alone: what is bound and acknowledged stays so.
LEMMA SafeGrowth ==
  ASSUME StoreInv, Growth, UNCHANGED <<meta, issued>>,
         \A r \in acked' : r \in acked \/ r \in ToSet(canon')
  PROVE  StoreSafe'
<1>1. /\ \A d : Secured(d) => Secured(d)'
      /\ ToSet(canon) \subseteq ToSet(canon)'
  BY GrowthKeeps DEF StoreInv
<1>2. PrefixBound'
  BY <1>1 DEF StoreInv, StoreSafe, PrefixBound, Secured
<1> QED BY <1>1, <1>2 DEF StoreInv, StoreSafe, IdentityStable, AckedInLog

LEMMA LegacyCopyStep ==
  ASSUME StoreInv, NEW p \in Runners, migrate_copy(p)
  PROVE  StoreInv'
<1>0. /\ StoreTypeOK /\ run[p] \in Calls /\ copied \in LegacyFiles /\ meta \in Metas
      /\ canon \in Seq(Entries) /\ (meta # NoMeta => meta.source # "no file")
      /\ issued \in SUBSET Ids /\ acked \in SUBSET Entries /\ Null \notin issued
  BY CallType DEF StoreInv, StoreTypeOK
<1>1. PICK r : r = [run[p] EXCEPT !.at = "canonical"]
  OBVIOUS
<1>2. r \in Calls /\ r.at = "canonical" /\ r.snapshot = run[p].snapshot
  BY <1>0, <1>1 DEF Calls
<1>3. /\ Go(p, r) /\ copied' = IF copied = NoFile THEN run[p].snapshot ELSE copied
      /\ UNCHANGED <<legacy, canon, meta, canonLock, metaLock, issued, acked, runs>>
  BY <1>1 DEF migrate_copy, StepTo
<1>4. Growth /\ copied' \in LegacyFiles
  BY <1>0, <1>3 DEF Growth, Calls
<1>5. run'[p] = r
  BY <1>0, <1>3 DEF Go, StoreTypeOK
<1>6. Aware(p)'
  BY <1>2, <1>3, <1>5 DEF Aware
<1>7. StoreSafe'
  BY <1>3, <1>4, SafeGrowth
<1>8. canonLock = p
  BY DEF StoreInv, StoreLocks, Guarded, migrate_copy, At
<1> QED BY <1>0, <1>2, <1>3, <1>4, <1>6, <1>7, <1>8, WriteKeeps

LEMMA CanonicalStep ==
  ASSUME StoreInv, NEW p \in Runners, migrate_canonical(p)
  PROVE  StoreInv'
<1>0. /\ StoreTypeOK /\ run[p] \in Calls /\ copied \in LegacyFiles /\ meta \in Metas
      /\ canon \in Seq(Entries) /\ (meta # NoMeta => meta.source # "no file")
      /\ issued \in SUBSET Ids /\ acked \in SUBSET Entries /\ Null \notin issued
      /\ Aware(p) /\ run[p].at = "canonical" /\ canonLock = p
      /\ UNCHANGED <<legacy, copied, meta, issued, acked, runs>>
  BY CallType DEF StoreInv, StoreTypeOK, StoreLocks, Guarded, migrate_canonical, At
<1>1. PICK d : d = run[p].snapshot
  OBVIOUS
<1>2. CASE FailRun(p) /\ UNCHANGED canon
  BY <1>0, <1>2, FailKeeps DEF Files
<1>3. CASE ~(FailRun(p) /\ UNCHANGED canon)
  <2>1. PICK r : r = [run[p] EXCEPT !.at = "metadata"]
    OBVIOUS
  <2>2. r \in Calls /\ r.at = "metadata" /\ r.snapshot = d
    BY <1>0, <1>1, <2>1 DEF Calls
  <2>3. /\ Go(p, r) /\ UNCHANGED <<canonLock, metaLock>>
        /\ canon' = IF d # NoFile /\ canon = <<>> THEN <<Prefix(d)>> ELSE canon
        /\ ~(d # NoFile /\ canon # <<>> /\ ~bound(canon, d))
    BY <1>1, <1>3, <2>1 DEF migrate_canonical, StepTo
  <2>4. Prefix(d) \in Entries /\ <<Prefix(d)>> \in Seq(Entries)
    <3>1. d \in LegacyFiles \union {Null}
      BY <1>0, <1>1 DEF Calls
    <3>2. Prefix(d) \in Entries
      BY <3>1 DEF Entries, Prefix
    <3> QED BY <3>2
  <2>5. Growth
    BY <1>0, <2>3, <2>4 DEF Growth
  <2>6. run'[p] = r
    BY <1>0, <2>3 DEF Go, StoreTypeOK
  <2>7. d # NoFile => copied # NoFile /\ bound(canon', d)
    BY <1>0, <1>1, <2>3 DEF Aware, bound
  <2>8. Aware(p)'
    BY <1>0, <2>2, <2>6, <2>7 DEF Aware, Secured
  <2>9. StoreSafe'
    BY <1>0, <2>5, SafeGrowth
  <2> QED BY <1>0, <2>2, <2>3, <2>5, <2>8, <2>9, WriteKeeps
<1> QED BY <1>2, <1>3

LEMMA PublishStep ==
  ASSUME StoreInv, NEW p \in Runners, migrate_publish(p)
  PROVE  StoreInv'
<1>0. /\ StoreTypeOK /\ run[p] \in Calls /\ copied \in LegacyFiles /\ meta \in Metas
      /\ canon \in Seq(Entries) /\ (meta # NoMeta => meta.source # "no file")
      /\ issued \in SUBSET Ids /\ acked \in SUBSET Entries /\ Null \notin issued
      /\ Aware(p) /\ run[p].at = "publish"
      /\ UNCHANGED <<legacy, copied, canon, issued, acked, runs>>
  BY CallType DEF StoreInv, StoreTypeOK, migrate_publish, At
<1>1. CASE FailRun(p) /\ UNCHANGED meta
  BY <1>0, <1>1, FailKeeps DEF Files
<1>2. CASE ~(FailRun(p) /\ UNCHANGED meta)
  <2>1. /\ meta = NoMeta \/ meta = run[p].value
        /\ meta' = run[p].value /\ DropLocks(p)
        /\ IF run[p].op = "attach" THEN Go(p, Resting) ELSE StepTo(p, AfterPrepare(p))
    BY <1>2 DEF migrate_publish
  <2>2. PICK r : r = IF run[p].op = "attach" THEN Resting
                     ELSE [run[p] EXCEPT !.at = AfterPrepare(p)]
    OBVIOUS
  <2>3. Go(p, r)
    BY <2>1, <2>2 DEF StepTo
  <2>4. r \in Calls /\ r.at \in {"rest", "lock", "idlock"}
    BY <1>0, <2>2, RestingType DEF Calls, Resting, AfterPrepare
  <2>12. r.at \notin Guarded /\ r.at # "idwrite"
    BY <2>4 DEF Guarded
  <2>5. run'[p] = r
    BY <1>0, <2>3 DEF Go, StoreTypeOK
  <2>6. /\ meta' \in Metas /\ meta'.source # "no file"
        /\ meta'.prefix # Null => Secured(meta'.prefix)
    BY <1>0, <2>1 DEF Aware, Calls
  <2>7. meta' # NoMeta
    BY <2>6, NoMetaSource
  <2>8. Aware(p)'
    BY <2>4, <2>5, <2>7 DEF Aware
  <2>9. Growth
    BY <1>0 DEF Growth
  <2>10. StoreSafe'
    <3>1. PrefixBound'
      BY <1>0, <2>6 DEF PrefixBound, Secured
    <3>2. IdentityStable'
      BY <1>0, <2>1, <2>7 DEF IdentityStable, StoreInv, StoreSafe
    <3>3. AckedInLog'
      BY <1>0 DEF AckedInLog, StoreInv, StoreSafe
    <3> QED BY <3>1, <3>2, <3>3 DEF StoreSafe
  <2>11. meta' # meta => meta = NoMeta
    BY <2>1
  <2> QED BY <1>0, <2>1, <2>3, <2>4, <2>6, <2>7, <2>8, <2>9, <2>10, <2>11, <2>12, WriteKeeps
<1> QED BY <1>1, <1>2

LEMMA VerbStep ==
  ASSUME StoreInv, NEW p \in Runners, prepare_runtime_write(p)
  PROVE  StoreInv'
<1>0. /\ StoreTypeOK /\ run[p] \in Calls /\ copied \in LegacyFiles /\ meta \in Metas
      /\ canon \in Seq(Entries) /\ (meta # NoMeta => meta.source # "no file")
      /\ issued \in SUBSET Ids /\ acked \in SUBSET Entries /\ Null \notin issued
      /\ Aware(p) /\ run[p].at = "write" /\ canonLock = p
      /\ UNCHANGED <<legacy, copied, meta, issued, runs>>
      /\ Go(p, Resting) /\ DropLocks(p)
  BY CallType DEF StoreInv, StoreTypeOK, StoreLocks, Guarded, prepare_runtime_write, At
<1>1. CASE UNCHANGED <<canon, acked>>
  BY <1>0, <1>1, FailKeeps DEF Files, FailRun
<1>2. CASE ~UNCHANGED <<canon, acked>>
  <2>1. PICK e \in Entries : run[p].log = Append(canon, e)
    BY <1>0 DEF Aware
  <2>2. /\ Append(canon, e) # <<>> /\ Append(canon, e) \in Seq(Entries)
        /\ Len(Append(canon, e)) = Len(canon) + 1
        /\ Append(canon, e)[Len(canon) + 1] = e
        /\ Len(canon) + 1 \in DOMAIN Append(canon, e)
    BY <1>0, Appended
  <2>3. canon' = Append(canon, e) /\ acked' = acked \union {e}
    <3>1. canon' = bind_legacy_prefix(run[p].log) /\ acked' = acked \union {Last(run[p].log)}
      BY <1>2 DEF prepare_runtime_write
    <3> QED BY <2>1, <2>2, <3>1 DEF bind_legacy_prefix, Last
  <2>4. Growth /\ acked' \in SUBSET Entries
    BY <1>0, <2>2, <2>3 DEF Growth
  <2>5. Resting \in Calls /\ Resting.at \in Plain /\ Resting.at # "idwrite" /\ Resting.at \notin Guarded
    BY RestingType DEF Resting, Plain, Guarded
  <2>6. Aware(p)'
    BY <1>0, <2>5, PlainAware
  <2>7. e \in ToSet(canon')
    BY <2>2, <2>3 DEF ToSet
  <2>8. StoreSafe'
    BY <1>0, <2>3, <2>4, <2>7, SafeGrowth
  <2> QED BY <1>0, <2>4, <2>5, <2>6, <2>8, WriteKeeps
<1> QED BY <1>1, <1>2

LEMMA IdStep ==
  ASSUME StoreInv, NEW p \in Runners, repository_id(p)
  PROVE  StoreInv'
<1>0. /\ StoreTypeOK /\ run[p] \in Calls /\ copied \in LegacyFiles /\ meta \in Metas
      /\ canon \in Seq(Entries) /\ (meta # NoMeta => meta.source # "no file")
      /\ issued \in SUBSET Ids /\ acked \in SUBSET Entries /\ Null \notin issued
      /\ Aware(p) /\ run[p].at = "idwrite" /\ metaLock = p /\ runs \in 0..MaxRuns
      /\ UNCHANGED <<legacy, copied, canon, acked, runs>>
      /\ Go(p, Resting) /\ DropLocks(p)
  BY CallType DEF StoreInv, StoreTypeOK, StoreLocks, repository_id, At
<1>1. run[p].value = meta /\ meta # NoMeta
  BY <1>0 DEF Aware
<1>2. PICK fresh : fresh = <<"id", p, runs>>
  OBVIOUS
<1>3. fresh \in Ids /\ fresh # Null
  <2>2. fresh \in Ids
    BY <1>0, <1>2, FreshType
  <2>3. Len(fresh) = 3 /\ Len(Null) = 1
    BY <1>2 DEF Null
  <2> QED BY <2>2, <2>3
<1>4. PICK new : new = IF meta.id # Null THEN meta ELSE [meta EXCEPT !.id = fresh]
  OBVIOUS
<1>5. meta' = (IF new = meta THEN meta ELSE new) /\ issued' = issued \union {new.id}
  BY <1>1, <1>2, <1>4 DEF repository_id
<1>6. /\ meta' = new /\ new \in Metas /\ new.id # Null /\ new.id \in Ids
      /\ new.prefix = meta.prefix /\ new.source = meta.source
  BY <1>0, <1>3, <1>4, <1>5 DEF Metas
<1>7. meta' # NoMeta /\ meta'.source # "no file"
  BY <1>0, <1>1, <1>6, NoMetaSource
<1>8. Growth
  BY <1>0 DEF Growth
<1>9. Resting \in Calls /\ Resting.at \in Plain /\ Resting.at # "idwrite" /\ Resting.at \notin Guarded
  BY RestingType DEF Resting, Plain, Guarded
<1>10. Aware(p)'
  BY <1>0, <1>9, PlainAware
<1>11. StoreSafe'
  <2>1. PrefixBound'
    BY <1>0, <1>1, <1>6 DEF PrefixBound, StoreInv, StoreSafe
  <2>2. \A id \in issued : new.id = id
    BY <1>0, <1>1, <1>4 DEF IdentityStable, StoreInv, StoreSafe
  <2>3. IdentityStable'
    BY <1>5, <1>6, <1>7, <2>2 DEF IdentityStable
  <2>4. AckedInLog'
    BY <1>0 DEF AckedInLog, StoreInv, StoreSafe
  <2> QED BY <2>1, <2>3, <2>4 DEF StoreSafe
<1>12. issued' \in SUBSET Ids /\ Null \notin issued'
  BY <1>0, <1>5, <1>6
<1> QED BY <1>0, <1>6, <1>7, <1>8, <1>9, <1>10, <1>11, <1>12, WriteKeeps

LEMMA LegacyStep ==
  ASSUME StoreInv, LegacyWrites \/ UNCHANGED storeVars
  PROVE  StoreInv'
<1>0. UNCHANGED <<copied, canon, meta, canonLock, metaLock, run, issued, acked>>
  BY DEF LegacyWrites, storeVars
<1>1. legacy' \in LegacyFiles /\ runs' \in 0..MaxRuns
  <2>1. legacy \in LegacyFiles /\ runs \in 0..MaxRuns
    BY DEF StoreInv, StoreTypeOK
  <2>2. CASE LegacyWrites
    BY <2>1, <2>2, StoreAssumption DEF LegacyWrites, LegacyFiles
  <2>3. CASE UNCHANGED storeVars
    BY <2>1, <2>3 DEF storeVars
  <2> QED BY <2>2, <2>3
<1>2. StoreTypeOK'
  BY <1>0, <1>1 DEF StoreInv, StoreTypeOK
<1>3. StoreLocks' /\ (\A p \in Runners : Aware(p))'
  BY <1>0 DEF StoreInv, StoreLocks, Aware, Secured
<1>4. StoreSafe'
  BY <1>0 DEF StoreInv, StoreSafe, PrefixBound, IdentityStable, AckedInLog
<1> QED BY <1>0, <1>2, <1>3, <1>4 DEF StoreInv

LEMMA StoreStep == StoreInv /\ [StoreNext]_storeVars => StoreInv'
BY PrepareSteps, ReadSteps, LegacyCopyStep, CanonicalStep, PublishStep, VerbStep, IdStep,
   LegacyStep DEF StoreNext

\* The runtime store, for any number of processes migrating, writing and dying
\* in any order while an older hugit rewrites the legacy log: a published
\* prefix is backed by a copy and heads the canonical log, one repository id
\* is ever handed out although migrate writes runtime.json outside the lock of
\* repository_id, and no acknowledged record leaves the log.
THEOREM RuntimeStoreSafe == StoreSpec => []StoreSafe
<1>1. StoreInv => StoreSafe
  BY DEF StoreInv
<1> QED BY <1>1, StoreInitial, StoreStep, PTL DEF StoreSpec
==============================================================================
