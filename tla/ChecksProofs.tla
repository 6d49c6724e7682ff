---------------------------- MODULE ChecksProofs ----------------------------
(***************************************************************************)
(* The execution of checks for any processes, jobs, keys and bounds: what  *)
(* the sweep at a deadline kills and leaves, what a dispatched check       *)
(* reports of its lease and its cost, what the memo cache answers, what    *)
(* the policy, regeneration and broker gates let pass, and what bisection, *)
(* quarantine and promotion conclude; and the verbs on the log for any     *)
(* campaigns, pull requests, intents and authors.                          *)
(***************************************************************************)
EXTENDS CheckRun, ProcessRunner, RunnerLease, Gates, Diagnosis, Porcelain,
        FiniteSetTheorems, SequenceTheorems, WellFoundedInduction, TLAPS

\* A set of naturals that is not empty has a least member.
LEMMA LeastNat ==
    ASSUME NEW T \in SUBSET Nat, T # {}
    PROVE  \E x \in T : \A y \in T : x <= y
<1>1. PICK x \in T : \A y \in T : <<y, x>> \notin OpToRel(<, Nat)
  BY NatLessThanWellFounded, WFMin
<1>2. \A y \in T : ~(y < x)
  BY <1>1 DEF OpToRel
<1> QED BY <1>2

------------------------------------------------------------------------------
(* The line of a process: the least set that holds it and, with a process, *)
(* its parent.  Above climbs as many steps as there are ids, and that is   *)
(* enough: each step that is not yet the last adds an id.                  *)

\* The function Above defines, up to step m.
IsClimb(f, pr, p, m) ==
    f = [n \in 0..m |-> IF n = 0 THEN {p} ELSE f[n - 1] \cup {ppid_of(pr, q) : q \in f[n - 1] \cap Pids}]

LEMMA ClimbExists ==
    ASSUME NEW pr, NEW p, NEW m \in Nat
    PROVE  \E f : IsClimb(f, pr, p, m)
<1> DEFINE Bad == {k \in Nat : ~\E f : IsClimb(f, pr, p, k)}
<1> SUFFICES ASSUME Bad # {} PROVE FALSE
  OBVIOUS
<1> HIDE DEF Bad
<1>1. PICK k \in Bad : \A y \in Bad : k <= y
  BY LeastNat DEF Bad
<1>2. k \in Nat /\ \A f : ~IsClimb(f, pr, p, k)
  BY <1>1 DEF Bad
<1>3. k # 0
  <2> DEFINE g == [i \in 0..0 |-> {p}]
  <2>1. IsClimb(g, pr, p, 0)
    BY DEF IsClimb
  <2> QED BY <1>2, <2>1
<1>4. k - 1 \in Nat /\ k - 1 \notin Bad
  BY <1>1, <1>2, <1>3
<1>5. PICK f : IsClimb(f, pr, p, k - 1)
  BY <1>4 DEF Bad
<1> DEFINE Up(s) == s \cup {ppid_of(pr, q) : q \in s \cap Pids}
           g == [i \in 0..k |-> IF i = k THEN Up(f[k - 1]) ELSE f[i]]
<1>6. \A i \in 0..(k - 1) : f[i] = IF i = 0 THEN {p} ELSE Up(f[i - 1])
  BY <1>5 DEF IsClimb
<1> HIDE DEF Up
<1>7. \A i \in 0..k : g[i] = IF i = 0 THEN {p} ELSE Up(g[i - 1])
  <2> TAKE i \in 0..k
  <2>1. i # k => i \in 0..(k - 1) /\ (i # 0 => i - 1 \in 0..k /\ i - 1 # k)
    BY <1>2
  <2>2. k - 1 \in 0..k /\ k - 1 # k
    BY <1>2, <1>3
  <2>3. CASE i = k
    <3>1. g[i - 1] = f[k - 1] /\ g[i] = Up(f[k - 1])
      BY <2>2, <2>3
    <3> HIDE DEF g
    <3> QED BY <3>1, <2>3, <1>3
  <2>4. CASE i # k
    <3>1. g[i] = f[i] /\ (i # 0 => g[i - 1] = f[i - 1])
      BY <2>1, <2>4
    <3> HIDE DEF g
    <3> QED BY <3>1, <2>1, <2>4, <1>6
  <2> QED BY <2>3, <2>4
<1>8. g = [i \in 0..k |-> IF i = 0 THEN {p} ELSE Up(g[i - 1])]
  BY <1>7
<1>9. IsClimb(g, pr, p, k)
  BY <1>8 DEF IsClimb, Up
<1> QED BY <1>2, <1>9

Closed(pr, s) == \A q \in s : pr[q] \in Pids => pr[q] \in s

\* p and everything above it.
Line(pr, p) == Above(pr, p) \cup {p}

\* The line holds p, is closed, and is the least such set.
LEMMA LineLeast ==
    ASSUME NEW pr, NEW p \in Pids
    PROVE  /\ Line(pr, p) \subseteq Pids /\ p \in Line(pr, p)
           /\ Closed(pr, Line(pr, p))
           /\ \A s \in SUBSET Pids : p \in s /\ Closed(pr, s) => Line(pr, p) \subseteq s
<1> DEFINE N == Cardinality(Pids)
           f == CHOOSE h : IsClimb(h, pr, p, N)
           C(n) == f[n] \cap Pids
<1>0. N \in Nat
  BY PidsAssumption, FS_CardinalityType
<1>1. IsClimb(f, pr, p, N)
  BY <1>0, ClimbExists
<1>2. Above(pr, p) = (f[N] \cap Pids) \ {p}
  BY DEF Above, IsClimb
<1> HIDE DEF f, N
<1>3. C(0) = {p}
  BY <1>0, <1>1 DEF IsClimb
<1>4. \A n \in 1..N : C(n) = C(n - 1) \cup {q \in Pids : \E x \in C(n - 1) : pr[x] = q}
  <2> TAKE n \in 1..N
  <2>1. f[n] = f[n - 1] \cup {ppid_of(pr, q) : q \in f[n - 1] \cap Pids}
    BY <1>0, <1>1 DEF IsClimb
  <2> QED BY <2>1 DEF ppid_of
<1> HIDE DEF C
<1>5. \A n \in 0..N : C(n) \subseteq Pids
  BY DEF C
<1>6. \A n \in 0..N : p \in C(n)
  <2> DEFINE Bad == {n \in 0..N : p \notin C(n)}
  <2> SUFFICES ASSUME Bad # {} PROVE FALSE
    OBVIOUS
  <2>1. PICK k \in Bad : \A y \in Bad : k <= y
    <3>1. Bad \in SUBSET Nat
      OBVIOUS
    <3> HIDE DEF Bad
    <3> QED BY <3>1, LeastNat
  <2>2. k # 0 /\ k - 1 \in 0..N
    BY <1>0, <1>3, <2>1
  <2>3. k - 1 \notin Bad
    BY <1>0, <2>1, <2>2
  <2> QED BY <1>4, <2>1, <2>2, <2>3
<1>7. ASSUME NEW s \in SUBSET Pids, p \in s, Closed(pr, s) PROVE \A n \in 0..N : C(n) \subseteq s
  <2> DEFINE Bad == {n \in 0..N : ~(C(n) \subseteq s)}
  <2> SUFFICES ASSUME Bad # {} PROVE FALSE
    OBVIOUS
  <2>1. PICK k \in Bad : \A y \in Bad : k <= y
    <3>1. Bad \in SUBSET Nat
      OBVIOUS
    <3> HIDE DEF Bad
    <3> QED BY <3>1, LeastNat
  <2>2. k # 0 /\ k - 1 \in 0..N
    BY <1>0, <1>3, <1>7, <2>1
  <2>3. C(k - 1) \subseteq s
    BY <1>0, <2>1, <2>2
  <2>4. C(k) = C(k - 1) \cup {q \in Pids : \E x \in C(k - 1) : pr[x] = q}
    BY <1>4, <2>1, <2>2
  <2> QED BY <1>7, <2>1, <2>3, <2>4 DEF Closed
<1>8. Closed(pr, C(N))
  <2> SUFFICES ASSUME ~Closed(pr, C(N)) PROVE FALSE
    OBVIOUS
  \* Once closed the climb stands still, so it has never been closed.
  <2>1. \A n \in 0..N : ~Closed(pr, C(n))
    <3> DEFINE Good == {d \in 0..N : Closed(pr, C(N - d))}
    <3> SUFFICES ASSUME Good # {} PROVE FALSE
      <4> SUFFICES ASSUME NEW n \in 0..N, Closed(pr, C(n)) PROVE Good # {}
        OBVIOUS
      <4> DEFINE d == N - n
      <4>1. d \in 0..N /\ N - d = n
        BY <1>0
      <4> HIDE DEF d
      <4> QED BY <4>1
    <3>1. PICK d \in Good : \A y \in Good : d <= y
      <4>1. Good \in SUBSET Nat
        OBVIOUS
      <4> HIDE DEF Good
      <4> QED BY <4>1, LeastNat
    <3>2. d # 0
      <4>1. N - 0 = N
        BY <1>0
      <4> QED BY <3>1, <4>1
    <3> DEFINE n == N - d
               m == n + 1
    <3>3. n \in 0..N /\ m \in 1..N /\ m - 1 = n /\ d - 1 \in 0..N /\ N - (d - 1) = m
      BY <1>0, <3>1, <3>2
    <3>4. Closed(pr, C(n))
      BY <3>1
    <3> HIDE DEF n, m
    <3>5. C(m) = C(n)
      <4>1. C(m) = C(n) \cup {q \in Pids : \E x \in C(n) : pr[x] = q}
        BY <1>4, <3>3
      <4> QED BY <3>4, <4>1 DEF Closed
    <3>6. d - 1 \in Good
      BY <3>3, <3>4, <3>5
    <3> QED BY <3>1, <3>6, <1>0
  <2> DEFINE Bad == {n \in 0..N : ~(Cardinality(C(n)) >= n + 1)}
  <2>2. Bad = {}
    <3> SUFFICES ASSUME Bad # {} PROVE FALSE
      OBVIOUS
    <3>1. PICK k \in Bad : \A y \in Bad : k <= y
      <4>1. Bad \in SUBSET Nat
        OBVIOUS
      <4> HIDE DEF Bad
      <4> QED BY <4>1, LeastNat
    <3>2. k # 0
      <4>1. Cardinality(C(0)) = 1
        BY <1>3, FS_Singleton
      <4> QED BY <1>0, <3>1, <4>1
    <3> DEFINE m == k - 1
    <3>3. m \in 0..N /\ k \in 1..N /\ k = m + 1 /\ Cardinality(C(m)) >= m + 1
      BY <1>0, <3>1, <3>2
    <3> HIDE DEF m
    <3>4. PICK q \in C(m) : pr[q] \in Pids /\ pr[q] \notin C(m)
      BY <2>1, <3>3 DEF Closed
    <3>5. C(m) \cup {pr[q]} \subseteq C(k)
      <4>1. C(k) = C(k - 1) \cup {x \in Pids : \E y \in C(k - 1) : pr[y] = x}
        BY <1>4, <3>3
      <4>2. k - 1 = m
        BY <3>3, <1>0
      <4> QED BY <3>4, <4>1, <4>2
    <3>6. IsFiniteSet(C(m)) /\ IsFiniteSet(C(k)) /\ Cardinality(C(m)) \in Nat /\ Cardinality(C(k)) \in Nat
      <4>1. C(m) \in SUBSET Pids /\ C(k) \in SUBSET Pids
        BY <1>5, <3>3, <1>0
      <4> QED BY <4>1, PidsAssumption, FS_Subset, FS_CardinalityType
    <3>7. Cardinality(C(m) \cup {pr[q]}) = Cardinality(C(m)) + 1
      BY <3>4, <3>6, FS_AddElement
    <3>8. Cardinality(C(m) \cup {pr[q]}) <= Cardinality(C(k))
      <4>1. C(m) \cup {pr[q]} \in SUBSET C(k)
        BY <3>5
      <4> QED BY <4>1, <3>6, FS_Subset
    <3>9. Cardinality(C(k)) >= k + 1
      BY <3>3, <3>6, <3>7, <3>8
    <3> QED BY <3>1, <3>9
  <2>3. Cardinality(C(N)) >= N + 1
    BY <2>2, <1>0
  <2>4. Cardinality(C(N)) <= N
    <3>1. C(N) \in SUBSET Pids
      BY <1>5, <1>0
    <3> QED BY <3>1, PidsAssumption, FS_Subset DEF N
  <2>5. Cardinality(C(N)) \in Nat
    <3>1. C(N) \in SUBSET Pids
      BY <1>5, <1>0
    <3> QED BY <3>1, PidsAssumption, FS_Subset, FS_CardinalityType
  <2> QED BY <1>0, <2>3, <2>4, <2>5
<1>9. Line(pr, p) = C(N)
  <2>1. p \in C(N)
    BY <1>0, <1>6
  <2> QED BY <1>2, <2>1 DEF Line, C
<1>10. N \in 0..N
  BY <1>0
<1> QED BY <1>5, <1>6, <1>7, <1>8, <1>9, <1>10

------------------------------------------------------------------------------
(* The sweep.                                                              *)

Parents == [Pids -> Pids \cup {"init", "none"}]

ProcTypeOK ==
    /\ parent \in Parents
    /\ mine \subseteq Pids /\ descendants \subseteq Pids
    /\ phase \in {"poll", "join", "exited", "scanned", "verified", "swept", "timeout"}

\* A process of the command is alive; one that is not the command's is a child of init.
Strangers(pr, own) ==
    /\ own \subseteq Alive(pr)
    /\ \A p \in Alive(pr) \ own : pr[p] = "init"

\* Until the verification every process that is not adrift has its line to the shell.
OnLine(pr, own, off) == \A p \in own \ off : Root \in Line(pr, p)

\* What may be left of the command, and what the signals may hit.
SweepInv ==
    /\ ProcTypeOK
    /\ Strangers(parent, mine)
    /\ phase \in {"poll", "scanned"} => OnLine(parent, mine, adrift)
    /\ phase \in {"scanned", "verified"} => mine \subseteq {Root} \cup descendants \cup adrift \cup late
    /\ phase = "verified" => descendants \cap (Alive(parent) \ mine) \subseteq window
    /\ phase = "swept" => mine \subseteq {Root} \cup adrift \cup late
    /\ phase = "timeout" => mine \subseteq adrift \cup late
    /\ struck \subseteq window

LEMMA SweepStarts == ProcInit => SweepInv
<1> SUFFICES ASSUME ProcInit PROVE SweepInv
  OBVIOUS
<1> USE DEF ProcInit
<1>1. ProcTypeOK
  BY PidsAssumption DEF ProcTypeOK, Parents
<1>2. Alive(parent) = {Root}
  BY PidsAssumption DEF Alive
<1>3. OnLine(parent, mine, adrift)
  BY PidsAssumption, LineLeast DEF OnLine
<1> QED BY <1>1, <1>2, <1>3 DEF SweepInv, Strangers

\* Killing a set takes exactly that set from the living.
LEMMA WithoutKills ==
    ASSUME NEW pr \in Parents, NEW gone \in SUBSET Pids
    PROVE  /\ Without(pr, gone) \in Parents
           /\ Alive(Without(pr, gone)) = Alive(pr) \ gone
           /\ \A p \in Pids \ gone : pr[p] = "init" => Without(pr, gone)[p] = "init"
           /\ \A p \in Pids \ gone : pr[p] \notin gone => Without(pr, gone)[p] = pr[p]
<1> USE PidsAssumption DEF Parents
<1>1. Without(pr, gone) \in Parents
  BY DEF Without
<1>2. Alive(Without(pr, gone)) = Alive(pr) \ gone
  BY DEF Without, Alive
<1>3. \A p \in Pids \ gone : pr[p] = "init" => Without(pr, gone)[p] = "init"
  BY DEF Without
<1>4. \A p \in Pids \ gone : pr[p] \notin gone => Without(pr, gone)[p] = pr[p]
  BY DEF Without
<1> QED BY <1>1, <1>2, <1>3, <1>4

LEMMA WithoutStrangers ==
    ASSUME NEW pr \in Parents, NEW own, NEW gone \in SUBSET Pids, Strangers(pr, own)
    PROVE  Strangers(Without(pr, gone), own \ gone)
<1>1. Alive(Without(pr, gone)) = Alive(pr) \ gone
  BY WithoutKills
<1>2. Alive(pr) \subseteq Pids
  BY DEF Alive
<1>3. \A p \in Pids \ gone : pr[p] = "init" => Without(pr, gone)[p] = "init"
  BY WithoutKills
<1> QED BY <1>1, <1>2, <1>3 DEF Strangers

\* A line on which the parents stay is still there.
LEMMA LineKept ==
    ASSUME NEW pr, NEW pr2, NEW p \in Pids,
           \A q \in Line(pr, p) : pr[q] \in Pids => pr2[q] = pr[q]
    PROVE  Line(pr, p) \subseteq Line(pr2, p)
<1> DEFINE s == Line(pr, p) \cap Line(pr2, p)
<1>1. s \in SUBSET Pids /\ p \in s
  BY LineLeast
<1>2. Closed(pr, s)
  BY LineLeast DEF Closed
<1>3. Line(pr, p) \subseteq s
  <2> HIDE DEF s
  <2> QED BY <1>1, <1>2, LineLeast
<1> QED BY <1>3

LEMMA ForkSweep == ASSUME SweepInv, NEW p \in Pids, NEW q \in Pids, Fork(p, q) PROVE SweepInv'
<1> USE DEF SweepInv
<1>1. /\ p \in mine /\ p \in Alive(parent) /\ q \notin Alive(parent) /\ q # Root
      /\ parent' = [parent EXCEPT ![q] = p] /\ mine' = mine \cup {q}
      /\ UNCHANGED <<phase, descendants, window, struck>>
  BY DEF Fork
<1>2. parent \in Parents /\ parent' \in Parents /\ parent'[q] = p
  BY <1>1 DEF ProcTypeOK, Parents
<1>3. Alive(parent') = Alive(parent) \cup {q} /\ parent[q] = "none"
  BY <1>1, <1>2, PidsAssumption DEF Alive, Parents
<1>4. Strangers(parent', mine')
  BY <1>1, <1>2, <1>3 DEF Strangers, Parents, Alive
<1>5. ProcTypeOK'
  BY <1>1, <1>2 DEF ProcTypeOK
<1>6. ASSUME phase \in {"poll", "scanned"} PROVE OnLine(parent', mine', adrift')
  <2>1. \A x \in Pids : Line(parent, x) \subseteq Line(parent', x)
    <3> TAKE x \in Pids
    <3>1. \A y \in Line(parent, x) : parent[y] \in Pids => parent'[y] = parent[y]
      <4> TAKE y \in Line(parent, x)
      <4>1. y \in Pids
        BY LineLeast
      <4> QED BY <4>1, <1>1, <1>2, <1>3, PidsAssumption DEF Parents
    <3> QED BY <3>1, LineKept
  <2>2. OnLine(parent, mine, adrift)
    BY <1>6
  <2>3. ASSUME NEW x \in mine' \ adrift' PROVE Root \in Line(parent', x)
    <3>1. CASE x = q
      <4>1. p \notin adrift
        BY <2>3, <3>1 DEF Fork
      <4>2. Root \in Line(parent', p)
        BY <4>1, <1>1, <2>1, <2>2 DEF OnLine
      <4>3. Line(parent', q) \in SUBSET Pids /\ q \in Line(parent', q) /\ Closed(parent', Line(parent', q))
        BY LineLeast
      <4>4. p \in Line(parent', q)
        BY <4>3, <1>2 DEF Closed
      <4>5. Line(parent', p) \subseteq Line(parent', q)
        BY <4>3, <4>4, LineLeast
      <4> QED BY <3>1, <4>2, <4>5
    <3>2. CASE x # q
      <4>1. x \in mine /\ x \in Pids /\ x \notin adrift
        BY <1>1, <2>3, <3>2 DEF ProcTypeOK, Fork
      <4> QED BY <4>1, <2>1, <2>2 DEF OnLine
    <3> QED BY <3>1, <3>2
  <2> QED BY <2>3 DEF OnLine
<1>7. /\ phase # "poll" => late' = late \cup {q}
      /\ adrift \ {q} \subseteq adrift'
  BY DEF Fork
<1>8. phase' = "verified" => descendants' \cap (Alive(parent') \ mine') \subseteq window'
  BY <1>1, <1>3
<1> QED BY <1>1, <1>4, <1>5, <1>6, <1>7, <1>8

LEMMA ExitSweep == ASSUME SweepInv, NEW p \in Pids, Exit(p) PROVE SweepInv'
<1> USE DEF SweepInv
<1> DEFINE below == {q \in mine : q \in Alive(parent) /\ p \in Above(parent, q)}
<1>1. /\ parent' = Without(parent, {p}) /\ mine' = mine \ {p}
      /\ adrift' = (adrift \cup below) \ {p}
      /\ UNCHANGED <<phase, descendants, late, window, struck>>
  BY DEF Exit
<1>2. /\ parent \in Parents /\ parent' \in Parents /\ Alive(parent') = Alive(parent) \ {p}
      /\ \A x \in Pids \ {p} : parent[x] \notin {p} => parent'[x] = parent[x]
  BY <1>1, WithoutKills DEF ProcTypeOK
<1>3. Strangers(parent', mine')
  BY <1>1, <1>2, WithoutStrangers
<1>4. ProcTypeOK'
  BY <1>1, <1>2 DEF ProcTypeOK
<1>5. ASSUME phase \in {"poll", "scanned"}, NEW x \in mine' \ adrift' PROVE Root \in Line(parent', x)
  <2>1. x \in mine /\ x # p /\ x \in Pids /\ x \in Alive(parent) /\ x \notin adrift /\ x \notin below
    BY <1>1, <1>5 DEF ProcTypeOK, Strangers
  <2>2. p \notin Line(parent, x)
    BY <2>1 DEF Line
  <2>3. Line(parent, x) \subseteq Pids /\ Closed(parent, Line(parent, x))
    BY <2>1, LineLeast
  <2>4. \A y \in Line(parent, x) : parent[y] \in Pids => parent'[y] = parent[y]
    BY <1>2, <2>2, <2>3 DEF Closed
  <2>5. Line(parent, x) \subseteq Line(parent', x)
    BY <2>1, <2>4, LineKept
  <2>6. OnLine(parent, mine, adrift)
    BY <1>5
  <2> QED BY <2>1, <2>5, <2>6 DEF OnLine
<1>6. adrift \ {p} \subseteq adrift'
  BY <1>1
<1> HIDE DEF below
<1> QED BY <1>1, <1>2, <1>3, <1>4, <1>5, <1>6 DEF OnLine

LEMMA RecycleSweep == ASSUME SweepInv, NEW q \in Pids, Recycle(q) PROVE SweepInv'
<1> USE DEF SweepInv
<1>1. /\ q \notin Alive(parent) /\ parent' = [parent EXCEPT ![q] = "init"]
      /\ window' = (IF phase = "verified" THEN window \cup {q} ELSE window)
      /\ UNCHANGED <<mine, phase, descendants, late, adrift, struck>>
  BY DEF Recycle
<1>2. parent \in Parents /\ parent' \in Parents /\ parent'[q] = "init"
  BY <1>1 DEF ProcTypeOK, Parents
<1>3. Alive(parent') = Alive(parent) \cup {q} /\ parent[q] = "none"
  BY <1>1, <1>2, PidsAssumption DEF Alive, Parents
<1>4. Strangers(parent', mine')
  BY <1>1, <1>2, <1>3 DEF Strangers, Parents, Alive
<1>5. ProcTypeOK'
  BY <1>1, <1>2 DEF ProcTypeOK
<1>6. \A x \in Pids : Line(parent, x) \subseteq Line(parent', x)
  <2> TAKE x \in Pids
  <2>1. \A y \in Line(parent, x) : parent[y] \in Pids => parent'[y] = parent[y]
    <3> TAKE y \in Line(parent, x)
    <3>1. y \in Pids
      BY LineLeast
    <3> QED BY <3>1, <1>1, <1>2, <1>3, PidsAssumption DEF Parents
  <2> QED BY <2>1, LineKept
<1>7. phase \in {"poll", "scanned"} => OnLine(parent', mine', adrift')
  BY <1>1, <1>6 DEF OnLine, ProcTypeOK
<1>8. phase' = "verified" => descendants' \cap (Alive(parent') \ mine') \subseteq window'
  BY <1>1, <1>3
<1>9. struck' \subseteq window'
  BY <1>1
<1> QED BY <1>1, <1>4, <1>5, <1>7, <1>8, <1>9

LEMMA DeadlineSweep == ASSUME SweepInv, Deadline PROVE SweepInv'
<1> USE DEF SweepInv
<1>1. /\ phase = "poll" /\ phase' = "scanned" /\ descendants' = linux_descendant_pids(parent)
      /\ UNCHANGED <<parent, mine, late, adrift, window, struck>>
  BY DEF Deadline
<1>2. ProcTypeOK'
  BY <1>1 DEF ProcTypeOK, linux_descendant_pids
<1>3. mine \subseteq {Root} \cup descendants' \cup adrift
  BY <1>1 DEF OnLine, Line, linux_descendant_pids, is_descendant_of, Strangers, Alive
<1> QED BY <1>1, <1>2, <1>3

LEMMA VerifySweep == ASSUME SweepInv, Verify PROVE SweepInv'
<1> USE DEF SweepInv
<1>1. /\ phase = "scanned" /\ phase' = "verified"
      /\ descendants' = {p \in descendants : is_descendant_of(parent, p)}
      /\ UNCHANGED <<parent, mine, late, adrift, window, struck>>
  BY DEF Verify
<1>2. ProcTypeOK'
  BY <1>1 DEF ProcTypeOK
<1>3. mine \subseteq {Root} \cup descendants' \cup adrift \cup late
  BY <1>1 DEF OnLine, Line, is_descendant_of, Strangers
<1>4. descendants' \cap (Alive(parent) \ mine) = {}
  <2> SUFFICES ASSUME NEW p \in descendants', p \in Alive(parent) \ mine PROVE FALSE
    OBVIOUS
  <2>1. p \in Pids /\ p # Root /\ Root \in Line(parent, p) /\ parent[p] = "init"
    BY <1>1 DEF ProcTypeOK, is_descendant_of, Line, Strangers
  <2>2. Closed(parent, {p})
    BY <2>1, PidsAssumption DEF Closed
  <2>3. Line(parent, p) \subseteq {p}
    BY <2>1, <2>2, LineLeast
  <2> QED BY <2>1, <2>3
<1> QED BY <1>1, <1>2, <1>3, <1>4

LEMMA ReapSweep == ASSUME SweepInv, reap_pids PROVE SweepInv'
<1> USE DEF SweepInv
<1>1. /\ phase = "verified" /\ phase' = "swept"
      /\ parent' = Without(parent, descendants) /\ mine' = mine \ descendants
      /\ struck' = struck \cup (descendants \cap (Alive(parent) \ mine))
      /\ UNCHANGED <<descendants, late, adrift, window>>
  BY DEF reap_pids
<1>2. parent \in Parents /\ descendants \in SUBSET Pids /\ parent' \in Parents
  BY <1>1, WithoutKills DEF ProcTypeOK
<1>3. Strangers(parent', mine')
  BY <1>1, <1>2, WithoutStrangers
<1>4. ProcTypeOK'
  BY <1>1, <1>2 DEF ProcTypeOK
<1> QED BY <1>1, <1>3, <1>4

LEMMA KillRootSweep == ASSUME SweepInv, KillRoot PROVE SweepInv'
<1> USE DEF SweepInv
<1>1. /\ phase = "swept" /\ phase' = "timeout"
      /\ parent' = Without(parent, {Root}) /\ mine' = mine \ {Root}
      /\ UNCHANGED <<descendants, late, adrift, window, struck>>
  BY DEF KillRoot
<1>2. parent \in Parents /\ {Root} \in SUBSET Pids /\ parent' \in Parents
  BY <1>1, PidsAssumption, WithoutKills DEF ProcTypeOK
<1>3. Strangers(parent', mine')
  BY <1>1, <1>2, WithoutStrangers
<1>4. ProcTypeOK'
  BY <1>1, <1>2 DEF ProcTypeOK
<1> QED BY <1>1, <1>3, <1>4

\* For any process ids, whatever the command forks, whoever exits and whichever
\* ids are given to strangers while the sweep is under way: a stranger is hit
\* only in the window between verification and signal, and only what was forked
\* late or had lost its line to the shell outlives the deadline.
THEOREM SweepCorrect == ProcSpec => []SweepExact
<1>1. ProcInit => SweepInv
  BY SweepStarts
<1>2. SweepInv /\ [ProcNext]_procVars => SweepInv'
  <2> SUFFICES ASSUME SweepInv, [ProcNext]_procVars PROVE SweepInv'
    OBVIOUS
  <2>1. CASE UNCHANGED procVars
    BY <2>1 DEF procVars, SweepInv, ProcTypeOK
  <2>2. CASE TryWait
    BY <2>2 DEF TryWait, SweepInv, ProcTypeOK
  <2>3. CASE Join
    BY <2>3 DEF Join, SweepInv, ProcTypeOK
  <2> QED BY <2>1, <2>2, <2>3, ForkSweep, ExitSweep, RecycleSweep, DeadlineSweep, VerifySweep,
             ReapSweep, KillRootSweep DEF ProcNext
<1>3. SweepInv => SweepExact
  BY DEF SweepInv, SweepExact
<1> QED BY <1>1, <1>2, <1>3, PTL DEF ProcSpec

------------------------------------------------------------------------------
(* The lease of a dispatched check.                                        *)

JobRecords ==
    [path : {"box", "offbox"}, pc : {"start", "use", "poll", "close", "done"},
     state : {"none", "held", "queued"}, ingest : BOOLEAN,
     error : {"none", "lease", "lease_not_held", "run", "no_envelope_ingest"},
     exit : {0, 1}, measured : Metrics, metrics : Metrics \cup {NoMetrics},
     sig : SUBSET [lease : Jobs \cup {"other"}, tenant : {Tenant, "other"},
                   metrics : [tools : Nat, turns : Nat]]]

LeaseRecords ==
    [state : {"none", "held", "queued", "released"}, ingest : BOOLEAN,
     run : {"none", "running", "finished"}, exit : {0, 1},
     metrics : [tools : Nat, turns : Nat], closed : {"none", "succeeded", "failed"}]

\* The verdict a job holds without an error is the one of its path: what the box
\* ran to the end, or a trajectory the fabric has.
HasVerdict(b, f) ==
    IF b.path = "box" THEN f.run = "finished" /\ f.exit = b.exit
    ELSE f.metrics = project_intent_metrics(b.measured)

\* What job j (b), the fabric's lease (f) and the faults so far (w) agree on.
Agree(j, b, f, w) ==
    /\ b.pc # "done" => f.closed = "none" /\ b.sig = {}
    /\ b.pc \in {"start", "use", "poll"} => b.error = "none"
    /\ b.pc = "poll" => b.path = "box"
    /\ b.pc \in {"close", "done"} /\ b.error = "none" => HasVerdict(b, f)
    /\ b.pc = "done" /\ b.error = "none" => f.closed = IF b.exit = 0 THEN "succeeded" ELSE "failed"
    /\ f.closed = "succeeded" =>
        IF b.path = "box" THEN f.run = "finished" /\ f.exit = 0 ELSE b.exit = 0
    /\ b.pc = "done" /\ f.state \in {"held", "queued"} => {<<j, "acquire">>, <<j, "close">>} \cap w # {}
    /\ b.sig # {} => b.path = "offbox"
    /\ \A s \in b.sig : s.lease = j /\ s.tenant = Tenant => s.metrics = f.metrics

LeaseInv ==
    /\ job \in [Jobs -> JobRecords]
    /\ fabric \in [Jobs -> LeaseRecords]
    /\ \A j \in Jobs : Agree(j, job[j], fabric[j], wire)

\* A step of job j leaves the others alone.
LEMMA OneJob ==
    ASSUME LeaseInv, NEW j \in Jobs, NEW b \in JobRecords, NEW f \in LeaseRecords,
           job' = [job EXCEPT ![j] = b], fabric' = [fabric EXCEPT ![j] = f],
           wire \subseteq wire', Agree(j, b, f, wire')
    PROVE  LeaseInv'
<1> USE DEF LeaseInv
<1>1. job' \in [Jobs -> JobRecords] /\ fabric' \in [Jobs -> LeaseRecords]
  OBVIOUS
<1>2. ASSUME NEW k \in Jobs PROVE Agree(k, job'[k], fabric'[k], wire')
  <2>1. CASE k = j
    BY <2>1
  <2>2. CASE k # j
    <3>1. job'[k] = job[k] /\ fabric'[k] = fabric[k] /\ Agree(k, job[k], fabric[k], wire)
      BY <2>2
    <3> QED BY <3>1 DEF Agree
  <2> QED BY <2>1, <2>2
<1> QED BY <1>1, <1>2

\* A call whose answer may be lost, and what it does to the lease if it arrives.
LEMMA OneCall ==
    ASSUME LeaseInv, NEW j \in Jobs, NEW fate, NEW call, NEW b \in JobRecords, NEW s \in LeaseRecords,
           SetJob(j, b), SetLease(j, fate, s), Travel(j, call, fate),
           Agree(j, b, IF Applied(fate) THEN s ELSE fabric[j], wire')
    PROVE  LeaseInv'
<1> DEFINE f == IF Applied(fate) THEN s ELSE fabric[j]
<1>1. f \in LeaseRecords /\ fabric' = [fabric EXCEPT ![j] = f]
  BY DEF LeaseInv, SetLease
<1>2. wire \subseteq wire'
  BY DEF Travel
<1> HIDE DEF f
<1> QED BY <1>1, <1>2, OneJob DEF SetJob, f

\* The projected figures are natural, and below the cap the measured ones.
LEMMA Projected ==
    ASSUME NEW m \in Metrics
    PROVE  /\ project_intent_metrics(m) \in [tools : Nat, turns : Nat]
           /\ m.turns \in 1..MaxProjected /\ m.tools <= MaxProjected => project_intent_metrics(m) = m
<1> USE LeaseConstants
<1>1. m.tools \in Nat /\ m.turns \in Nat /\ MaxProjected \in Nat /\ m = [tools |-> m.tools, turns |-> m.turns]
  BY DEF Metrics
<1>2. \A x, y \in Nat : /\ Min({x, y}) = IF x <= y THEN x ELSE y
                        /\ Max({x, y}) = IF x <= y THEN y ELSE x
  BY DEF Min, Max
<1> DEFINE t == Min({m.tools, MaxProjected})
           u == Min({m.turns, MaxProjected})
           v == Max({1, u})
<1>3. t \in Nat /\ (m.tools <= MaxProjected => t = m.tools)
  BY <1>1, <1>2
<1>4. u \in Nat /\ (m.turns <= MaxProjected => u = m.turns)
  BY <1>1, <1>2
<1>5. v \in Nat /\ (u >= 1 => v = u)
  <2> HIDE DEF u
  <2>1. v = IF 1 <= u THEN u ELSE 1
    BY <1>2, <1>4
  <2> QED BY <2>1, <1>4
<1>6. project_intent_metrics(m) = [tools |-> t, turns |-> v]
  BY DEF project_intent_metrics
<1> HIDE DEF t, u, v
<1>7. m.turns \in 1..MaxProjected /\ m.tools <= MaxProjected => t = m.tools /\ v = m.turns
  BY <1>1, <1>3, <1>4, <1>5
<1> QED BY <1>1, <1>3, <1>5, <1>6, <1>7

LEMMA AcquireStep == ASSUME LeaseInv, NEW j \in Jobs, Acquire(j) PROVE LeaseInv'
<1>1. PICK fate \in Fates("acquire"), state \in {"held", "queued"}, taken \in BOOLEAN :
        /\ job[j].pc = "start"
        /\ SetLease(j, fate, [fabric[j] EXCEPT !.state = state, !.ingest = taken])
        /\ Travel(j, "acquire", fate)
        /\ SetJob(j, IF fate = "ok" THEN [job[j] EXCEPT !.pc = "use", !.state = state, !.ingest = taken]
                                    ELSE [job[j] EXCEPT !.pc = "done", !.error = "lease"])
  BY DEF Acquire
<1> DEFINE s == [fabric[j] EXCEPT !.state = state, !.ingest = taken]
           b == IF fate = "ok" THEN [job[j] EXCEPT !.pc = "use", !.state = state, !.ingest = taken]
                ELSE [job[j] EXCEPT !.pc = "done", !.error = "lease"]
           f == IF Applied(fate) THEN s ELSE fabric[j]
<1>2. job[j] \in JobRecords /\ fabric[j] \in LeaseRecords /\ Agree(j, job[j], fabric[j], wire)
  BY DEF LeaseInv
<1>3. s \in LeaseRecords /\ s.closed = fabric[j].closed /\ s.run = fabric[j].run /\ s.exit = fabric[j].exit
      /\ s.metrics = fabric[j].metrics
  BY <1>2 DEF LeaseRecords
<1>4. /\ b \in JobRecords /\ b.sig = job[j].sig /\ b.exit = job[j].exit /\ b.path = job[j].path
      /\ IF fate = "ok" THEN b.pc = "use" /\ b.error = job[j].error ELSE b.pc = "done" /\ b.error = "lease"
  BY <1>2 DEF JobRecords
<1>5. f \in LeaseRecords /\ f.closed = fabric[j].closed /\ f.run = fabric[j].run /\ f.exit = fabric[j].exit
      /\ f.metrics = fabric[j].metrics
  BY <1>2, <1>3
<1>6. SetLease(j, fate, s) /\ SetJob(j, b)
  BY <1>1
<1> HIDE DEF b, s
<1>7. fate # "ok" => <<j, "acquire">> \in wire'
  BY <1>1 DEF Travel
<1>8. Agree(j, b, f, wire')
  BY <1>1, <1>2, <1>4, <1>5, <1>7 DEF Agree
<1> QED BY <1>1, <1>3, <1>4, <1>6, <1>8, OneCall

LEMMA NotHeldStep == ASSUME LeaseInv, NEW j \in Jobs, NotHeld(j) PROVE LeaseInv'
<1> DEFINE b == CollectFails(j, "lease_not_held")
<1>1. job[j].pc = "use" /\ job' = [job EXCEPT ![j] = b] /\ UNCHANGED <<fabric, wire>>
  BY DEF NotHeld, SetJob
<1>2. job[j] \in JobRecords /\ fabric[j] \in LeaseRecords /\ Agree(j, job[j], fabric[j], wire)
      /\ fabric \in [Jobs -> LeaseRecords]
  BY DEF LeaseInv
<1>3. /\ b \in JobRecords /\ b.sig = job[j].sig /\ b.exit = job[j].exit /\ b.path = job[j].path
      /\ b.pc = "close" /\ b.error = "lease_not_held"
  BY <1>2 DEF JobRecords, CollectFails
<1> HIDE DEF b
<1>4. Agree(j, b, fabric[j], wire')
  BY <1>1, <1>2, <1>3 DEF Agree
<1>5. fabric' = [fabric EXCEPT ![j] = fabric[j]]
  BY <1>1, <1>2
<1> QED BY <1>1, <1>2, <1>3, <1>4, <1>5, OneJob

\* A failed collection keeps path, exit and signature of a job.
LEMMA Failing ==
    ASSUME LeaseInv, NEW j \in Jobs, NEW e \in {"lease", "run", "no_envelope_ingest"}
    PROVE  LET b == CollectFails(j, e)
           IN  /\ b \in JobRecords /\ b.sig = job[j].sig /\ b.exit = job[j].exit /\ b.path = job[j].path
               /\ b.pc = "close" /\ b.error = e
<1>1. job[j] \in JobRecords
  BY DEF LeaseInv
<1> QED BY <1>1 DEF JobRecords, CollectFails

LEMMA ExecStep == ASSUME LeaseInv, NEW j \in Jobs, Exec(j) PROVE LeaseInv'
<1>1. PICK fate \in Fates("exec"), accepted \in BOOLEAN :
        /\ job[j].pc = "use" /\ job[j].path = "box"
        /\ SetLease(j, fate, [fabric[j] EXCEPT !.run = IF accepted THEN "running" ELSE @])
        /\ Travel(j, "exec", fate)
        /\ SetJob(j, IF fate # "ok" THEN CollectFails(j, "lease")
                     ELSE IF ~accepted THEN CollectFails(j, "run")
                     ELSE [job[j] EXCEPT !.pc = "poll"])
  BY DEF Exec
<1> DEFINE s == [fabric[j] EXCEPT !.run = IF accepted THEN "running" ELSE @]
           b == IF fate # "ok" THEN CollectFails(j, "lease")
                ELSE IF ~accepted THEN CollectFails(j, "run")
                ELSE [job[j] EXCEPT !.pc = "poll"]
           f == IF Applied(fate) THEN s ELSE fabric[j]
<1>2. job[j] \in JobRecords /\ fabric[j] \in LeaseRecords /\ Agree(j, job[j], fabric[j], wire)
  BY DEF LeaseInv
<1>3. s \in LeaseRecords /\ s.closed = fabric[j].closed /\ s.state = fabric[j].state
  BY <1>2 DEF LeaseRecords
<1>4. /\ b \in JobRecords /\ b.sig = job[j].sig /\ b.path = job[j].path
      /\ (b.pc = "poll" /\ b.error = job[j].error) \/ (b.pc = "close" /\ b.error # "none")
  <2>1. LET c == [job[j] EXCEPT !.pc = "poll"]
        IN  /\ c \in JobRecords /\ c.sig = job[j].sig /\ c.path = job[j].path
            /\ c.pc = "poll" /\ c.error = job[j].error
    BY <1>2 DEF JobRecords
  <2>2. CASE fate = "ok" /\ accepted
    BY <2>1, <2>2
  <2>3. CASE ~(fate = "ok" /\ accepted)
    <3>1. PICK e \in {"lease", "run"} : b = CollectFails(j, e)
      BY <2>3
    <3> QED BY <3>1, Failing
  <2> QED BY <2>2, <2>3
<1>5. f \in LeaseRecords /\ f.closed = fabric[j].closed
  BY <1>2, <1>3
<1>6. SetLease(j, fate, s) /\ SetJob(j, b)
  BY <1>1
<1> HIDE DEF b, s
<1>7. Agree(j, b, f, wire')
  BY <1>1, <1>2, <1>4, <1>5 DEF Agree
<1> QED BY <1>1, <1>3, <1>4, <1>6, <1>7, OneCall

LEMMA BoxStep == ASSUME LeaseInv, NEW j \in Jobs, BoxFinishes(j) PROVE LeaseInv'
<1>1. PICK exit \in {0, 1} :
        /\ fabric[j].run = "running"
        /\ fabric' = [fabric EXCEPT ![j].run = "finished", ![j].exit = exit]
        /\ UNCHANGED <<job, wire>>
  BY DEF BoxFinishes
<1>2. job[j] \in JobRecords /\ fabric[j] \in LeaseRecords /\ Agree(j, job[j], fabric[j], wire)
      /\ fabric \in [Jobs -> LeaseRecords] /\ job \in [Jobs -> JobRecords]
  BY DEF LeaseInv
<1> DEFINE f == [fabric[j] EXCEPT !.run = "finished", !.exit = exit]
<1>3. /\ f \in LeaseRecords /\ f.state = fabric[j].state /\ f.closed = fabric[j].closed
      /\ f.metrics = fabric[j].metrics /\ f.run = "finished"
  BY <1>2 DEF LeaseRecords
<1>4. fabric' = [fabric EXCEPT ![j] = f] /\ job' = [job EXCEPT ![j] = job[j]]
  BY <1>1, <1>2
<1> HIDE DEF f
<1>5. Agree(j, job[j], f, wire')
  BY <1>1, <1>2, <1>3 DEF Agree, HasVerdict
<1> QED BY <1>1, <1>2, <1>3, <1>4, <1>5, OneJob

LEMMA PollStep == ASSUME LeaseInv, NEW j \in Jobs, PollMeta(j) PROVE LeaseInv'
<1>1. PICK fate \in Fates("poll") :
        /\ job[j].pc = "poll"
        /\ Travel(j, "poll", fate)
        /\ SetJob(j, IF fate # "ok" THEN CollectFails(j, "lease")
                     ELSE IF fabric[j].run # "finished" THEN CollectFails(j, "run")
                     ELSE [job[j] EXCEPT !.pc = "close", !.exit = fabric[j].exit])
        /\ UNCHANGED fabric
  BY DEF PollMeta
<1> DEFINE b == IF fate # "ok" THEN CollectFails(j, "lease")
                ELSE IF fabric[j].run # "finished" THEN CollectFails(j, "run")
                ELSE [job[j] EXCEPT !.pc = "close", !.exit = fabric[j].exit]
<1>2. job[j] \in JobRecords /\ fabric[j] \in LeaseRecords /\ Agree(j, job[j], fabric[j], wire)
      /\ fabric \in [Jobs -> LeaseRecords]
  BY DEF LeaseInv
<1>3. /\ b \in JobRecords /\ b.sig = job[j].sig /\ b.path = job[j].path /\ b.pc = "close"
      /\ b.error = "none" => fabric[j].run = "finished" /\ b.exit = fabric[j].exit
  <2>1. LET c == [job[j] EXCEPT !.pc = "close", !.exit = fabric[j].exit]
        IN  /\ c \in JobRecords /\ c.sig = job[j].sig /\ c.path = job[j].path
            /\ c.pc = "close" /\ c.exit = fabric[j].exit
    <3>1. fabric[j].exit \in {0, 1}
      BY <1>2 DEF LeaseRecords
    <3> QED BY <1>2, <3>1 DEF JobRecords
  <2> QED BY <2>1, Failing
<1>4. fabric' = [fabric EXCEPT ![j] = fabric[j]] /\ wire \subseteq wire' /\ job' = [job EXCEPT ![j] = b]
  BY <1>1, <1>2 DEF Travel, SetJob
<1> HIDE DEF b
<1>5. Agree(j, b, fabric[j], wire')
  BY <1>1, <1>2, <1>3 DEF Agree, HasVerdict
<1> QED BY <1>2, <1>3, <1>4, <1>5, OneJob

LEMMA SubmitStep == ASSUME LeaseInv, NEW j \in Jobs, SubmitEnvelope(j) PROVE LeaseInv'
<1> DEFINE p == project_intent_metrics(job[j].measured)
           s == [fabric[j] EXCEPT !.metrics = p]
<1>1. PICK fate \in Fates("submit") :
        /\ job[j].pc = "use" /\ job[j].path = "offbox"
        /\ IF job[j].ingest
           THEN /\ SetLease(j, fate, s)
                /\ Travel(j, "submit", fate)
                /\ SetJob(j, IF fate = "ok" THEN [job[j] EXCEPT !.pc = "close", !.exit = @]
                             ELSE CollectFails(j, "lease"))
           ELSE SetJob(j, CollectFails(j, "no_envelope_ingest")) /\ UNCHANGED <<fabric, wire>>
  BY DEF SubmitEnvelope
<1>2. job[j] \in JobRecords /\ fabric[j] \in LeaseRecords /\ Agree(j, job[j], fabric[j], wire)
      /\ fabric \in [Jobs -> LeaseRecords]
  BY DEF LeaseInv
<1>3. p \in [tools : Nat, turns : Nat]
  <2>1. job[j].measured \in Metrics
    BY <1>2 DEF JobRecords
  <2> QED BY <2>1, Projected
<1>4. CASE ~job[j].ingest
  <2> DEFINE b == CollectFails(j, "no_envelope_ingest")
  <2>1. /\ b \in JobRecords /\ b.sig = job[j].sig /\ b.exit = job[j].exit /\ b.path = job[j].path
        /\ b.pc = "close" /\ b.error = "no_envelope_ingest"
    BY Failing
  <2>2. job' = [job EXCEPT ![j] = b] /\ fabric' = [fabric EXCEPT ![j] = fabric[j]] /\ wire' = wire
    BY <1>1, <1>2, <1>4 DEF SetJob
  <2> HIDE DEF b
  <2>3. Agree(j, b, fabric[j], wire')
    BY <1>1, <1>2, <2>1, <2>2 DEF Agree
  <2> QED BY <1>2, <2>1, <2>2, <2>3, OneJob
<1>5. CASE job[j].ingest
  <2> DEFINE c == [job[j] EXCEPT !.pc = "close", !.exit = @]
             b == IF fate = "ok" THEN c ELSE CollectFails(j, "lease")
             f == IF Applied(fate) THEN s ELSE fabric[j]
  <2>1. /\ c \in JobRecords /\ c.sig = job[j].sig /\ c.path = job[j].path /\ c.exit = job[j].exit
        /\ c.pc = "close" /\ c.error = job[j].error /\ c.measured = job[j].measured
    BY <1>2 DEF JobRecords
  <2>2. /\ b \in JobRecords /\ b.sig = job[j].sig /\ b.path = job[j].path /\ b.exit = job[j].exit
        /\ b.pc = "close" /\ b.error = "none" => fate = "ok" /\ b.measured = job[j].measured
    <3> HIDE DEF c
    <3> QED BY <2>1, Failing
  <2>3. s \in LeaseRecords /\ s.closed = fabric[j].closed /\ s.state = fabric[j].state /\ s.metrics = p
    <3> HIDE DEF p
    <3> QED BY <1>2, <1>3 DEF LeaseRecords
  <2>4. f.closed = fabric[j].closed /\ (fate = "ok" => f.metrics = p)
    BY <2>3 DEF Applied
  <2>5. SetLease(j, fate, s) /\ SetJob(j, b) /\ Travel(j, "submit", fate)
    BY <1>1, <1>5
  <2> HIDE DEF b, c, s
  <2>6. b.pc = "close"
    BY <2>1, Failing DEF b
  <2>7. Agree(j, b, f, wire')
    BY <1>1, <1>2, <2>2, <2>4, <2>6 DEF Agree, HasVerdict
  <2> QED BY <2>2, <2>3, <2>5, <2>7, OneCall
<1> QED BY <1>4, <1>5

LEMMA CloseStep == ASSUME LeaseInv, NEW j \in Jobs, Close(j) PROVE LeaseInv'
<1>1. PICK fate \in Fates("close"), sig \in Signatures(j), metrics \in Metrics :
        /\ job[j].pc = "close"
        /\ job[j].path = "box" => sig = {}
        /\ SetLease(j, fate, [fabric[j] EXCEPT !.state = "released", !.closed = close_status(j)])
        /\ Travel(j, "close", fate)
        /\ SetJob(j, IF job[j].error # "none" THEN [job[j] EXCEPT !.pc = "done"]
                     ELSE IF fate # "ok" THEN [job[j] EXCEPT !.pc = "done", !.error = "lease"]
                     ELSE [job[j] EXCEPT !.pc = "done", !.sig = sig, !.metrics = metrics])
  BY DEF Close
<1> DEFINE s == [fabric[j] EXCEPT !.state = "released", !.closed = close_status(j)]
           b1 == [job[j] EXCEPT !.pc = "done"]
           b2 == [job[j] EXCEPT !.pc = "done", !.error = "lease"]
           b3 == [job[j] EXCEPT !.pc = "done", !.sig = sig, !.metrics = metrics]
           b == IF job[j].error # "none" THEN b1 ELSE IF fate # "ok" THEN b2 ELSE b3
           f == IF Applied(fate) THEN s ELSE fabric[j]
<1>2. job[j] \in JobRecords /\ fabric[j] \in LeaseRecords /\ Agree(j, job[j], fabric[j], wire)
  BY DEF LeaseInv
<1>3. close_status(j) \in {"succeeded", "failed"}
  BY DEF close_status
<1>4. /\ s \in LeaseRecords /\ s.closed = close_status(j) /\ s.state = "released" /\ s.metrics = fabric[j].metrics
      /\ s.run = fabric[j].run /\ s.exit = fabric[j].exit
  BY <1>2, <1>3 DEF LeaseRecords
<1>5. fabric[j].metrics \in [tools : Nat, turns : Nat] /\ Metrics \subseteq [tools : Nat, turns : Nat]
  BY <1>2, LeaseConstants DEF LeaseRecords, Metrics
<1> DEFINE Sigs == [lease : Jobs \cup {"other"}, tenant : {Tenant, "other"}, metrics : [tools : Nat, turns : Nat]]
<1>6. /\ sig \in SUBSET Sigs
      /\ \A x \in sig : x.lease = j /\ x.tenant = Tenant => x.metrics = fabric[j].metrics
  <2>1. [lease |-> j, tenant |-> Tenant, metrics |-> fabric[j].metrics] \in Sigs
    BY <1>5
  <2>2. [lease : {"other"}, tenant : {Tenant}, metrics : Metrics] \subseteq Sigs
    BY <1>5
  <2>3. [lease : {j}, tenant : {"other"}, metrics : Metrics] \subseteq Sigs
    BY <1>5
  <2>4. j # "other" /\ Tenant # "other"
    BY LeaseConstants
  <2>5. CASE sig = {}
    BY <2>5
  <2>6. CASE sig = {[lease |-> j, tenant |-> Tenant, metrics |-> fabric[j].metrics]}
    BY <2>1, <2>6
  <2>7. CASE \E x \in [lease : {"other"}, tenant : {Tenant}, metrics : Metrics] : sig = {x}
    BY <2>2, <2>4, <2>7
  <2>8. CASE \E x \in [lease : {j}, tenant : {"other"}, metrics : Metrics] : sig = {x}
    BY <2>3, <2>4, <2>8
  <2> QED BY <2>5, <2>6, <2>7, <2>8 DEF Signatures
<1>7. /\ b1 \in JobRecords /\ b1.pc = "done" /\ b1.error = job[j].error /\ b1.sig = job[j].sig
      /\ b1.path = job[j].path /\ b1.exit = job[j].exit /\ b1.measured = job[j].measured
  BY <1>2 DEF JobRecords
<1>8. /\ b2 \in JobRecords /\ b2.pc = "done" /\ b2.error = "lease" /\ b2.sig = job[j].sig
      /\ b2.path = job[j].path /\ b2.exit = job[j].exit /\ b2.measured = job[j].measured
  BY <1>2 DEF JobRecords
<1>9. /\ b3 \in JobRecords /\ b3.pc = "done" /\ b3.error = job[j].error /\ b3.sig = sig
      /\ b3.path = job[j].path /\ b3.exit = job[j].exit /\ b3.measured = job[j].measured
  BY <1>2, <1>6 DEF JobRecords
<1>10. SetLease(j, fate, s) /\ SetJob(j, b)
  BY <1>1
<1>11. f.metrics = fabric[j].metrics /\ f.run = fabric[j].run /\ f.exit = fabric[j].exit
       /\ (fate = "ok" => f.closed = close_status(j) /\ f.state = "released")
       /\ (f.closed = close_status(j) \/ f.closed = fabric[j].closed)
       /\ (f.state \in {"held", "queued"} => fate # "ok")
  BY <1>2, <1>4 DEF Applied
<1> HIDE DEF b1, b2, b3, s, f, Sigs
<1>12. fate # "ok" => <<j, "close">> \in wire'
  BY <1>1 DEF Travel
<1>13. /\ b \in JobRecords /\ b.pc = "done" /\ b.path = job[j].path /\ b.exit = job[j].exit
       /\ b.measured = job[j].measured
       /\ b.error = "none" => job[j].error = "none" /\ fate = "ok"
       /\ b.sig = job[j].sig \/ b.sig = sig
  BY <1>7, <1>8, <1>9
<1> HIDE DEF b
<1>14. job[j].error = "none" => HasVerdict(job[j], fabric[j])
  BY <1>1, <1>2 DEF Agree
<1>15. b.error = "none" => HasVerdict(b, f)
  BY <1>11, <1>13, <1>14 DEF HasVerdict
<1>16. f.closed = "succeeded" =>
         IF b.path = "box" THEN f.run = "finished" /\ f.exit = 0 ELSE b.exit = 0
  BY <1>1, <1>2, <1>11, <1>13, <1>14 DEF Agree, close_status, HasVerdict
<1>17. b.error = "none" => f.closed = IF b.exit = 0 THEN "succeeded" ELSE "failed"
  BY <1>11, <1>13 DEF close_status
<1>18. /\ b.sig # {} => b.path = "offbox"
       /\ \A x \in b.sig : x.lease = j /\ x.tenant = Tenant => x.metrics = f.metrics
  <2>1. job[j].sig = {} /\ job[j].path \in {"box", "offbox"}
    BY <1>1, <1>2 DEF Agree, JobRecords
  <2> QED BY <1>1, <1>6, <1>11, <1>13, <2>1
<1>19. Agree(j, b, f, wire')
  BY <1>11, <1>12, <1>13, <1>15, <1>16, <1>17, <1>18 DEF Agree
<1> QED BY <1>1, <1>4, <1>10, <1>13, <1>19, OneCall DEF f

LEMMA LeaseStarts == LeaseInit => LeaseInv
<1> SUFFICES ASSUME LeaseInit PROVE LeaseInv
  OBVIOUS
<1>1. fabric \in [Jobs -> LeaseRecords]
  BY DEF LeaseInit, LeaseRecords, NoMetrics
<1> DEFINE J0 == [path : {"box", "offbox"}, pc : {"start"}, state : {"none"}, ingest : {FALSE},
                  error : {"none"}, exit : {0, 1}, measured : Metrics, metrics : {NoMetrics}, sig : {{}}]
<1>2. J0 \subseteq JobRecords /\ \A b \in J0 : b.pc = "start" /\ b.error = "none" /\ b.sig = {}
  BY DEF JobRecords
<1>3. job \in [Jobs -> J0]
  BY DEF LeaseInit
<1> HIDE DEF J0
<1>4. job \in [Jobs -> JobRecords]
  BY <1>2, <1>3
<1>5. ASSUME NEW j \in Jobs PROVE Agree(j, job[j], fabric[j], wire)
  <2>1. job[j].pc = "start" /\ job[j].error = "none" /\ job[j].sig = {} /\ fabric[j].closed = "none"
    BY <1>2, <1>3 DEF LeaseInit
  <2> QED BY <2>1 DEF Agree
<1> QED BY <1>1, <1>4, <1>5 DEF LeaseInv

\* What is kept is what is claimed.
LEMMA LeaseClaims == ASSUME LeaseInv PROVE DispatchHonest
<1> SUFFICES ASSUME NEW j \in Jobs
             PROVE /\ Succeeds(j) => /\ fabric[j].closed = IF job[j].exit = 0 THEN "succeeded" ELSE "failed"
                                     /\ job[j].path = "box" => fabric[j].run = "finished" /\ fabric[j].exit = job[j].exit
                   /\ fabric[j].closed = "succeeded" =>
                       IF job[j].path = "box" THEN fabric[j].run = "finished" /\ fabric[j].exit = 0 ELSE job[j].exit = 0
                   /\ job[j].pc = "done" /\ fabric[j].state \in {"held", "queued"} =>
                       {<<j, "acquire">>, <<j, "close">>} \cap wire # {}
                   /\ dispatch_reexec(j).cost = "attested" =>
                       /\ job[j].path = "offbox"
                       /\ job[j].measured.turns \in 1..MaxProjected /\ job[j].measured.tools <= MaxProjected
                            => job[j].metrics = job[j].measured /\ fabric[j].metrics = job[j].measured
  BY DEF DispatchHonest, LeaseHonest, CostHonest
<1>1. job[j] \in JobRecords /\ Agree(j, job[j], fabric[j], wire)
  BY DEF LeaseInv
<1>2. Succeeds(j) => /\ HasVerdict(job[j], fabric[j])
                     /\ fabric[j].closed = IF job[j].exit = 0 THEN "succeeded" ELSE "failed"
  BY <1>1 DEF Agree, Succeeds
<1>3. ASSUME dispatch_reexec(j).cost = "attested"
      PROVE  /\ job[j].path = "offbox" /\ job[j].metrics = project_intent_metrics(job[j].measured)
             /\ fabric[j].metrics = project_intent_metrics(job[j].measured)
  <2>1. Succeeds(j) /\ \E sig \in job[j].sig : verify_intent_metrics_sig(j, sig)
    BY <1>3 DEF dispatch_reexec, cost_attestation_verdict
  <2>2. PICK sig \in job[j].sig : sig.lease = j /\ sig.tenant = Tenant /\ sig.metrics = job[j].metrics
    BY <2>1 DEF verify_intent_metrics_sig
  <2>3. job[j].path = "offbox" /\ job[j].metrics = fabric[j].metrics
    BY <1>1, <2>2 DEF Agree
  <2> QED BY <1>2, <2>1, <2>3 DEF HasVerdict
<1>4. job[j].measured \in Metrics
  BY <1>1 DEF JobRecords
<1>5. Succeeds(j) /\ job[j].path = "box" => fabric[j].run = "finished" /\ fabric[j].exit = job[j].exit
  BY <1>2 DEF HasVerdict
<1>6. dispatch_reexec(j).cost = "attested" =>
        /\ job[j].path = "offbox"
        /\ job[j].measured.turns \in 1..MaxProjected /\ job[j].measured.tools <= MaxProjected
             => job[j].metrics = job[j].measured /\ fabric[j].metrics = job[j].measured
  BY <1>3, <1>4, Projected
<1> QED BY <1>1, <1>2, <1>5, <1>6 DEF Agree

\* For any jobs, figures, cap and number of lost, refused or garbled calls: what
\* a dispatched check reports is what the box produced and what its lease was
\* closed with, a lease left open was cut off by a lost call, and an attested
\* cost is that of the trajectory the fabric holds for this lease.
THEOREM DispatchCorrect == LeaseSpec => []DispatchHonest
<1>1. LeaseInit => LeaseInv
  BY LeaseStarts
<1>2. LeaseInv /\ [LeaseNext]_leaseVars => LeaseInv'
  <2> SUFFICES ASSUME LeaseInv, [LeaseNext]_leaseVars PROVE LeaseInv'
    OBVIOUS
  <2>1. CASE UNCHANGED leaseVars
    BY <2>1 DEF leaseVars, LeaseInv
  <2>2. CASE LeaseNext
    BY <2>2, AcquireStep, NotHeldStep, ExecStep, PollStep, SubmitStep, CloseStep, BoxStep
       DEF LeaseNext, DispatchCheck
  <2> QED BY <2>1, <2>2
<1>3. LeaseInv => DispatchHonest
  BY LeaseClaims
<1> QED BY <1>1, <1>2, <1>3, PTL DEF LeaseSpec

------------------------------------------------------------------------------
(* The memo cache.  A genuine result is the command's verdict on what it   *)
(* saw, under the definition of its key.  The cache file may be damaged in *)
(* every other respect, but the hash of an entry is that of a genuine one. *)

Genuine(r) == r.axes = r.memo_key /\ r.exit = command(r.memo_key[2].def, r.seen)

Keyed(s) == s.def \in Defs /\ s.store \in BOOLEAN /\ s.key = derive_memo_key(s.def, s.snap)

Told(s) == Keyed(s) /\ Genuine(s.result) /\ s.result.memo_key = s.key /\ s.from_cache \in BOOLEAN

CheckOK(s) ==
    /\ s.pc = "resolved" =>
        /\ s.def \in Defs /\ s.store \in BOOLEAN
        /\ s.def_digest = compute_def_digest(s.def, captured_hermetic_env(s.def, s.snap),
                                             ancestor_config_digest(s.def, s.snap))
        /\ s.toolchain = s.snap["rustc"]
        /\ DOMAIN s.snap = Inputs
    /\ s.pc \in {"keyed", "run"} => Keyed(s)
    /\ s.pc \in {"store", "record"} => Told(s)

EntryOK(e) == e = [result |-> e.result, self_hash |-> e.self_hash] /\ Genuine(e.self_hash)

\* The keys reported as stored, as hits or as executed.
KeysOf(set, hit) == {o.result.memo_key : o \in {x \in set : x.store /\ x.from_cache = hit}}

\* One row for every key and kind that was reported.
RowsOK(tbl, set) ==
    /\ \E S : tbl \in Seq(S)
    /\ \A i \in 1..Len(tbl) : tbl[i].cache_hit \in BOOLEAN
    /\ \A i, j \in 1..Len(tbl) :
        tbl[i].memo_key = tbl[j].memo_key /\ tbl[i].cache_hit = tbl[j].cache_hit => i = j
    /\ \A hit \in BOOLEAN : \A k :
        k \in KeysOf(set, hit) <=> \E i \in 1..Len(tbl) : tbl[i].cache_hit = hit /\ tbl[i].memo_key = k

CheckInv ==
    /\ DOMAIN world = Inputs
    /\ DOMAIN check = CheckProcs
    /\ \A p \in CheckProcs : CheckOK(check[p])
    /\ \A k \in DOMAIN cache : EntryOK(cache[k])
    /\ \A o \in served : Told(o)
    /\ RowsOK(rows, served)

\* A step of p leaves the other processes alone.
LEMMA OneCheck ==
    ASSUME CheckInv, NEW p \in CheckProcs, NEW s, SetCheck(p, s), CheckOK(s)
    PROVE  DOMAIN check' = CheckProcs /\ \A q \in CheckProcs : CheckOK(check'[q])
<1>1. check' = [check EXCEPT ![p] = s] /\ DOMAIN check = CheckProcs
  BY DEF SetCheck, CheckInv
<1>2. \A q \in CheckProcs : check'[q] = IF q = p THEN s ELSE check[q]
  BY <1>1
<1> QED BY <1>1, <1>2 DEF CheckInv

\* Two sets of contents with one key are the same to the command.
LEMMA KeyTells ==
    ASSUME NEW d \in Defs, NEW v, NEW w, derive_memo_key(d, v) = derive_memo_key(d, w)
    PROVE  command(d, v) = command(d, w)
<1> USE DEF derive_memo_key, compute_memo_key, compute_def_digest, scoped_tree_root,
            captured_hermetic_env, ancestor_config_digest, Restrict
<1>1. /\ [i \in Globbed[d] |-> v[i]] = [i \in Globbed[d] |-> w[i]]
      /\ [i \in Allowed[d] |-> v[i]] = [i \in Allowed[d] |-> w[i]]
      /\ [i \in AncestorFiles[d] |-> v[i]] = [i \in AncestorFiles[d] |-> w[i]]
      /\ v["rustc"] = w["rustc"]
  OBVIOUS
<1>2. \A i \in Globbed[d] \cup Allowed[d] \cup AncestorFiles[d] \cup {"rustc"} : v[i] = w[i]
  BY <1>1
<1>3. \A i \in Reads[d] : v[i] = w[i]
  BY <1>2, ReadsAssumption
<1> QED BY <1>3 DEF command

LEMMA KeyDef == ASSUME NEW d, NEW w PROVE derive_memo_key(d, w)[2].def = d
BY DEF derive_memo_key, compute_memo_key, compute_def_digest

LEMMA ResolveStep ==
    ASSUME CheckInv, NEW p \in CheckProcs, NEW d \in Defs, NEW saved \in BOOLEAN, ResolveDef(p, d, saved)
    PROVE  CheckInv'
<1> DEFINE s == [pc |-> "resolved", def |-> d, store |-> saved, env |-> captured_hermetic_env(d, world),
                 def_digest |-> compute_def_digest(d, captured_hermetic_env(d, world), ancestor_config_digest(d, world)),
                 toolchain |-> world["rustc"], snap |-> world]
<1>1. SetCheck(p, s) /\ UNCHANGED <<world, cache, rows, served>>
  BY DEF ResolveDef
<1>2. CheckOK(s)
  BY DEF CheckOK, CheckInv
<1> HIDE DEF s
<1>3. DOMAIN check' = CheckProcs /\ \A q \in CheckProcs : CheckOK(check'[q])
  BY <1>1, <1>2, OneCheck
<1> QED BY <1>1, <1>3 DEF CheckInv

LEMMA SnapshotTreeStep == ASSUME CheckInv, NEW p \in CheckProcs, SnapshotTree(p) PROVE CheckInv'
<1> DEFINE c == check[p]
           tree == scoped_tree_root(c.def, world)
           s == [pc |-> "keyed", def |-> c.def, store |-> c.store, env |-> c.env, snap |-> Over(tree, c.snap),
                 key |-> compute_memo_key(tree, c.def_digest, c.toolchain)]
<1>1. c.pc = "resolved" /\ SetCheck(p, s) /\ UNCHANGED <<world, cache, rows, served>>
  BY DEF SnapshotTree
<1>2. /\ c.def \in Defs /\ c.store \in BOOLEAN /\ DOMAIN c.snap = Inputs
      /\ c.def_digest = compute_def_digest(c.def, captured_hermetic_env(c.def, c.snap),
                                           ancestor_config_digest(c.def, c.snap))
      /\ c.toolchain = c.snap["rustc"]
  BY <1>1 DEF CheckInv, CheckOK
<1> DEFINE new == Over(tree, c.snap)
           d == c.def
<1>3. /\ scoped_tree_root(d, new) = tree
      /\ captured_hermetic_env(d, new) = captured_hermetic_env(d, c.snap)
      /\ ancestor_config_digest(d, new) = ancestor_config_digest(d, c.snap)
      /\ new["rustc"] = c.snap["rustc"]
  <2>1. DOMAIN tree = Globbed[d] /\ \A i \in Globbed[d] : tree[i] = world[i]
    BY DEF scoped_tree_root, Restrict
  <2>2. \A i \in Globbed[d] : new[i] = world[i]
    BY <2>1 DEF Over
  <2>3. \A i \in Inputs \ Globbed[d] : new[i] = c.snap[i]
    BY <1>2, <2>1 DEF Over
  <2>4. Globbed[d] \cap (AncestorFiles[d] \cup Allowed[d] \cup {"rustc"}) = {} /\ "rustc" \in Inputs
        /\ AncestorFiles[d] \subseteq Inputs
    BY <1>2, GlobAssumption DEF Inputs
  <2>5. Allowed[d] \subseteq Inputs
    BY <1>2, GlobAssumption DEF Inputs
  <2> HIDE DEF new, tree
  <2>6. scoped_tree_root(d, new) = [i \in Globbed[d] |-> world[i]]
    BY <2>2 DEF scoped_tree_root, Restrict
  <2>7. captured_hermetic_env(d, new) = captured_hermetic_env(d, c.snap)
    BY <2>3, <2>4, <2>5 DEF captured_hermetic_env, Restrict
  <2>8. ancestor_config_digest(d, new) = ancestor_config_digest(d, c.snap)
    BY <2>3, <2>4 DEF ancestor_config_digest, Restrict
  <2> QED BY <2>3, <2>4, <2>6, <2>7, <2>8 DEF tree, scoped_tree_root, Restrict
<1>4. s.key = derive_memo_key(d, new)
  <2> HIDE DEF new, tree
  <2> QED BY <1>2, <1>3 DEF derive_memo_key
<1>5. CheckOK(s)
  BY <1>2, <1>4 DEF CheckOK, Keyed
<1> HIDE DEF s
<1>6. DOMAIN check' = CheckProcs /\ \A q \in CheckProcs : CheckOK(check'[q])
  BY <1>1, <1>5, OneCheck
<1> QED BY <1>1, <1>6 DEF CheckInv

\* Whatever happened to the file, a hit is genuine and is for the key asked.
LEMMA HitGenuine ==
    ASSUME CheckInv, NEW key, NEW r \in FileAcLookup(key)
    PROVE  Genuine(r) /\ r.memo_key = key
<1>1. /\ key \in DOMAIN cache /\ r = cache[key].result /\ r = cache[key].self_hash /\ r.memo_key = key
  BY DEF FileAcLookup, read_map, entry_self_hash, verify_hit
<1> QED BY <1>1 DEF CheckInv, EntryOK

LEMMA HitStep == ASSUME CheckInv, NEW p \in CheckProcs, LookupHit(p) PROVE CheckInv'
<1>1. /\ check[p].pc = "keyed" /\ UNCHANGED <<world, cache, rows, served>>
      /\ \E r \in FileAcLookup(check[p].key) : SetCheck(p, Outcome(check[p], "record", r, TRUE))
  BY DEF LookupHit
<1>2. PICK r \in FileAcLookup(check[p].key) : SetCheck(p, Outcome(check[p], "record", r, TRUE))
  BY <1>1
<1>3. Keyed(check[p])
  BY <1>1 DEF CheckInv, CheckOK
<1>4. CheckOK(Outcome(check[p], "record", r, TRUE))
  BY <1>3, HitGenuine DEF CheckOK, Outcome, Told, Keyed
<1>5. DOMAIN check' = CheckProcs /\ \A q \in CheckProcs : CheckOK(check'[q])
  BY <1>2, <1>4, OneCheck
<1> QED BY <1>1, <1>5 DEF CheckInv

LEMMA MissStep == ASSUME CheckInv, NEW p \in CheckProcs, LookupMiss(p) PROVE CheckInv'
<1> DEFINE s == [check[p] EXCEPT !.pc = "run"]
<1>1. /\ check[p].pc = "keyed" /\ UNCHANGED <<world, cache, rows, served>> /\ SetCheck(p, s)
  BY DEF LookupMiss
<1>2. Keyed(check[p])
  BY <1>1 DEF CheckInv, CheckOK
<1>3. CheckOK(s)
  BY <1>2 DEF CheckOK, Keyed
<1>4. DOMAIN check' = CheckProcs /\ \A q \in CheckProcs : CheckOK(check'[q])
  BY <1>1, <1>3, OneCheck
<1> QED BY <1>1, <1>4 DEF CheckInv

LEMMA ExecuteStep == ASSUME CheckInv, NEW p \in CheckProcs, Execute(p) PROVE CheckInv'
<1> DEFINE c == check[p]
           seen == Over(c.env, world)
           r == [axes |-> c.key, memo_key |-> c.key, exit |-> command(c.def, seen), seen |-> seen]
<1>1. c.pc = "run" /\ UNCHANGED <<world, cache, rows, served>> /\ SetCheck(p, Outcome(c, "store", r, FALSE))
  BY DEF Execute
<1>2. Keyed(c)
  BY <1>1 DEF CheckInv, CheckOK
<1>3. c.key[2].def = c.def
  BY <1>2, KeyDef DEF Keyed
<1>4. CheckOK(Outcome(c, "store", r, FALSE))
  BY <1>2, <1>3 DEF CheckOK, Outcome, Told, Keyed, Genuine
<1>5. DOMAIN check' = CheckProcs /\ \A q \in CheckProcs : CheckOK(check'[q])
  BY <1>1, <1>4, OneCheck
<1> QED BY <1>1, <1>5 DEF CheckInv

LEMMA StoreResultStep == ASSUME CheckInv, NEW p \in CheckProcs, StoreResult(p) PROVE CheckInv'
<1> DEFINE r == check[p].result
           s == [check[p] EXCEPT !.pc = "record"]
<1>1. /\ check[p].pc = "store" /\ cache' = FileAcStore(r) /\ SetCheck(p, s)
      /\ UNCHANGED <<world, rows, served>>
  BY DEF StoreResult
<1>2. Told(check[p])
  BY <1>1 DEF CheckInv, CheckOK
<1>3. CheckOK(s)
  BY <1>2 DEF CheckOK, Told, Keyed
<1>4. DOMAIN check' = CheckProcs /\ \A q \in CheckProcs : CheckOK(check'[q])
  BY <1>1, <1>3, OneCheck
<1> HIDE DEF s
<1>5. ASSUME NEW k \in DOMAIN cache' PROVE EntryOK(cache'[k])
  <2>1. CASE k = r.memo_key
    <3>1. cache'[k] = [result |-> r, self_hash |-> r]
      BY <1>1, <2>1, <1>5 DEF FileAcStore, entry_self_hash
    <3> QED BY <3>1, <1>2 DEF EntryOK, Told
  <2>2. CASE k # r.memo_key
    <3>1. k \in DOMAIN cache /\ cache'[k] = cache[k]
      BY <1>1, <2>2, <1>5 DEF FileAcStore
    <3> QED BY <3>1 DEF CheckInv
  <2> QED BY <2>1, <2>2
<1> QED BY <1>1, <1>4, <1>5 DEF CheckInv

LEMMA FailsStep == ASSUME CheckInv, NEW p \in CheckProcs, CheckFails(p) PROVE CheckInv'
<1>1. SetCheck(p, NoCheck) /\ UNCHANGED <<world, cache, rows, served>>
  BY DEF CheckFails
<1>2. CheckOK(NoCheck)
  BY DEF CheckOK, NoCheck
<1>3. DOMAIN check' = CheckProcs /\ \A q \in CheckProcs : CheckOK(check'[q])
  BY <1>1, <1>2, OneCheck
<1> QED BY <1>1, <1>3 DEF CheckInv

RowOf(o) == [memo_key |-> o.result.memo_key, exit |-> o.result.exit, cache_hit |-> o.from_cache]

Noted(tbl, o) ==
    \E i \in 1..Len(tbl) : tbl[i].memo_key = o.result.memo_key /\ tbl[i].cache_hit = o.from_cache

Stored(o) == o.store

\* A row that is new to its key and kind keeps the rows one per report.
LEMMA RowAdded ==
    ASSUME NEW tbl, NEW set, NEW o, RowsOK(tbl, set), Told(o), Stored(o), ~Noted(tbl, o)
    PROVE  RowsOK(Append(tbl, RowOf(o)), set \cup {o})
<1> DEFINE e == RowOf(o)
           log2 == Append(tbl, e)
           n == Len(tbl)
<1>0. /\ o.from_cache \in BOOLEAN /\ o.store
      /\ ~\E i \in 1..Len(tbl) : tbl[i].memo_key = e.memo_key /\ tbl[i].cache_hit = e.cache_hit
  BY DEF Told, Stored, Noted, RowOf
<1>1. PICK S : tbl \in Seq(S)
  BY DEF RowsOK
<1>2. n \in Nat /\ Len(log2) = n + 1 /\ log2[n + 1] = e /\ \A i \in 1..n : log2[i] = tbl[i]
  <2>1. tbl \in Seq(S \cup {e}) /\ e \in S \cup {e}
    BY <1>1
  <2> QED BY <2>1
<1>3. log2 \in Seq(S \cup {e})
  <2>1. tbl \in Seq(S \cup {e}) /\ e \in S \cup {e}
    BY <1>1
  <2> QED BY <2>1
<1>4. e.memo_key = o.result.memo_key /\ e.cache_hit = o.from_cache
  BY DEF RowOf
<1> HIDE DEF log2, n, e
<1>5. \A i \in 1..Len(log2) : i \in 1..n \/ i = n + 1
  BY <1>2
<1>6. \A i \in 1..Len(log2) : log2[i].cache_hit \in BOOLEAN
  BY <1>0, <1>2, <1>4, <1>5 DEF RowsOK, n
<1>7. \A i, j \in 1..Len(log2) :
        log2[i].memo_key = log2[j].memo_key /\ log2[i].cache_hit = log2[j].cache_hit => i = j
  BY <1>0, <1>2, <1>5 DEF RowsOK, n
<1>8. ASSUME NEW hit \in BOOLEAN, NEW k
      PROVE  k \in KeysOf(set \cup {o}, hit) <=> \E i \in 1..Len(log2) : log2[i].cache_hit = hit /\ log2[i].memo_key = k
  <2>1. k \in KeysOf(set \cup {o}, hit) <=> k \in KeysOf(set, hit) \/ (hit = o.from_cache /\ k = o.result.memo_key)
    BY <1>0 DEF KeysOf
  <2>2. k \in KeysOf(set, hit) <=> \E i \in 1..n : tbl[i].cache_hit = hit /\ tbl[i].memo_key = k
    BY DEF RowsOK, n
  <2>3. (\E i \in 1..Len(log2) : log2[i].cache_hit = hit /\ log2[i].memo_key = k)
          <=> (\E i \in 1..n : tbl[i].cache_hit = hit /\ tbl[i].memo_key = k) \/ (e.cache_hit = hit /\ e.memo_key = k)
    <3>1. 1..n \subseteq 1..Len(log2) /\ n + 1 \in 1..Len(log2)
      BY <1>2
    <3> QED BY <1>2, <1>5, <3>1
  <2> QED BY <1>4, <2>1, <2>2, <2>3
<1> QED BY <1>3, <1>6, <1>7, <1>8 DEF RowsOK, log2, e

\* A report that has its row, or stores none, adds no key.
LEMMA RowKnown ==
    ASSUME NEW tbl, NEW set, NEW o, RowsOK(tbl, set), Told(o), Stored(o) => Noted(tbl, o)
    PROVE  RowsOK(tbl, set \cup {o})
<1>0. o.from_cache \in BOOLEAN /\ (o.store => Noted(tbl, o))
  BY DEF Told, Stored
<1>1. ASSUME NEW hit \in BOOLEAN, NEW k
      PROVE  k \in KeysOf(set \cup {o}, hit) <=> \E i \in 1..Len(tbl) : tbl[i].cache_hit = hit /\ tbl[i].memo_key = k
  <2>1. k \in KeysOf(set \cup {o}, hit)
          <=> k \in KeysOf(set, hit) \/ (o.store /\ hit = o.from_cache /\ k = o.result.memo_key)
    BY DEF KeysOf
  <2>2. k \in KeysOf(set, hit) <=> \E i \in 1..Len(tbl) : tbl[i].cache_hit = hit /\ tbl[i].memo_key = k
    BY DEF RowsOK
  <2>3. o.store /\ hit = o.from_cache /\ k = o.result.memo_key
          => \E i \in 1..Len(tbl) : tbl[i].cache_hit = hit /\ tbl[i].memo_key = k
    BY <1>0 DEF Noted
  <2> QED BY <2>1, <2>2, <2>3
<1>2. /\ \E S : tbl \in Seq(S)
      /\ \A i \in 1..Len(tbl) : tbl[i].cache_hit \in BOOLEAN
      /\ \A i, j \in 1..Len(tbl) :
           tbl[i].memo_key = tbl[j].memo_key /\ tbl[i].cache_hit = tbl[j].cache_hit => i = j
  BY DEF RowsOK
<1> QED BY <1>1, <1>2 DEF RowsOK

LEMMA RecordStep == ASSUME CheckInv, NEW p \in CheckProcs, RecordOnLog(p) PROVE CheckInv'
<1> DEFINE s == check[p]
           o == [def |-> s.def, key |-> s.key, snap |-> s.snap, result |-> s.result,
                 from_cache |-> s.from_cache, store |-> s.store]
           e == [memo_key |-> s.result.memo_key, exit |-> s.result.exit, cache_hit |-> s.from_cache]
<1>1. /\ s.pc = "record" /\ SetCheck(p, NoCheck) /\ UNCHANGED <<world, cache>>
      /\ served' = served \cup {o}
      /\ rows' = IF s.store /\ ~check_already_recorded(s.result.memo_key, s.from_cache)
                 THEN Append(rows, e) ELSE rows
  BY DEF RecordOnLog
<1>2. Told(s)
  BY <1>1 DEF CheckInv, CheckOK
<1>3. CheckOK(NoCheck)
  BY DEF CheckOK, NoCheck
<1>4. DOMAIN check' = CheckProcs /\ \A q \in CheckProcs : CheckOK(check'[q])
  BY <1>1, <1>3, OneCheck
<1>5. Told(o)
  BY <1>2 DEF Told, Keyed
<1>6. e = RowOf(o) /\ (Stored(o) <=> s.store) /\ (Noted(rows, o) <=> check_already_recorded(s.result.memo_key, s.from_cache))
  BY DEF RowOf, Stored, Noted, check_already_recorded
<1> HIDE DEF o, e
<1>7. RowsOK(rows, served)
  BY DEF CheckInv
<1>8. RowsOK(rows', served')
  <2>1. CASE s.store /\ ~check_already_recorded(s.result.memo_key, s.from_cache)
    <3>1. Stored(o) /\ ~Noted(rows, o)
      BY <1>6, <2>1
    <3>2. RowsOK(Append(rows, RowOf(o)), served \cup {o})
      BY ONLY <1>5, <1>7, <3>1, RowAdded
    <3> QED BY <1>1, <1>6, <2>1, <3>2
  <2>2. CASE ~(s.store /\ ~check_already_recorded(s.result.memo_key, s.from_cache))
    <3>1. Stored(o) => Noted(rows, o)
      BY <1>6, <2>2
    <3>2. RowsOK(rows, served \cup {o})
      BY ONLY <1>5, <1>7, <3>1, RowKnown
    <3> QED BY <1>1, <2>2, <3>2
  <2> QED BY <2>1, <2>2
<1>9. \A x \in served' : Told(x)
  BY <1>1, <1>5 DEF CheckInv
<1> QED BY <1>1, <1>4, <1>8, <1>9 DEF CheckInv

LEMMA EditInputStep == ASSUME CheckInv, NEW i \in Inputs, Edit(i) PROVE CheckInv'
<1>1. DOMAIN world' = DOMAIN world /\ UNCHANGED <<check, cache, rows, served>>
  BY DEF Edit
<1> QED BY <1>1 DEF CheckInv

\* Damage changes what an entry holds or where it is, never the hash it carries.
LEMMA DamageStep == ASSUME CheckInv, DamageCache PROVE CheckInv'
<1>1. cache' \in FileAcDamage /\ UNCHANGED <<world, check, rows, served>>
  BY DEF DamageCache
<1>2. ASSUME NEW k \in DOMAIN cache' PROVE EntryOK(cache'[k])
  <2>1. CASE cache' = <<>>
    BY <1>2, <2>1
  <2>2. ASSUME NEW m \in DOMAIN cache, cache' = [cache EXCEPT ![m].result.exit = 1 - @] PROVE EntryOK(cache'[k])
    <3>1. k \in DOMAIN cache /\ EntryOK(cache[k]) /\ EntryOK(cache[m])
      BY <1>2, <2>2 DEF CheckInv
    <3> DEFINE r == [cache[m].result EXCEPT !.exit = 1 - @]
    <3>2. cache' = [cache EXCEPT ![m] = [cache[m] EXCEPT !.result = r]]
      BY <2>2
    <3> HIDE DEF r
    <3>3. [cache[m] EXCEPT !.result = r] = [result |-> r, self_hash |-> cache[m].self_hash]
      BY <3>1 DEF EntryOK
    <3>4. EntryOK([result |-> r, self_hash |-> cache[m].self_hash])
      BY <3>1 DEF EntryOK
    <3> QED BY <3>1, <3>2, <3>3, <3>4
  <2>3. ASSUME NEW m \in (DOMAIN cache) \X (DOMAIN cache), cache' = [cache EXCEPT ![m[1]] = cache[m[2]]]
        PROVE  EntryOK(cache'[k])
    BY <1>2, <2>3 DEF CheckInv
  <2> QED BY <1>1, <2>1, <2>2, <2>3 DEF FileAcDamage
<1> QED BY <1>1, <1>2 DEF CheckInv

LEMMA CheckStarts == CheckInit => CheckInv
<1> SUFFICES ASSUME CheckInit PROVE CheckInv
  OBVIOUS
<1> USE DEF CheckInit
<1>1. DOMAIN world = Inputs /\ DOMAIN check = CheckProcs /\ \A p \in CheckProcs : CheckOK(check[p])
  BY DEF CheckOK, NoCheck
<1>2. (\A k \in DOMAIN cache : EntryOK(cache[k])) /\ (\A o \in served : Told(o))
  OBVIOUS
<1>3. RowsOK(rows, served)
  <2>1. rows \in Seq({}) /\ Len(rows) = 0 /\ 1..Len(rows) = {}
    OBVIOUS
  <2> QED BY <2>1 DEF RowsOK, KeysOf
<1> QED BY <1>1, <1>2, <1>3 DEF CheckInv

\* One row for every key of a kind: the rows are as many as the keys.
LEMMA RowsCounted ==
    ASSUME NEW tbl, NEW set, RowsOK(tbl, set), NEW hit \in BOOLEAN
    PROVE  Cardinality({j \in 1..Len(tbl) : tbl[j].cache_hit = hit}) = Cardinality(KeysOf(set, hit))
<1> DEFINE J == {j \in 1..Len(tbl) : tbl[j].cache_hit = hit}
           K == KeysOf(set, hit)
           g == [j \in J |-> tbl[j].memo_key]
<1>1. IsFiniteSet(J)
  <2>1. PICK S : tbl \in Seq(S)
    BY DEF RowsOK
  <2>2. Len(tbl) \in Int /\ 1 \in Int /\ J \in SUBSET (1..Len(tbl))
    BY <2>1
  <2> HIDE DEF J
  <2>3. IsFiniteSet(1..Len(tbl))
    BY <2>2, FS_Interval
  <2> QED BY <2>2, <2>3, FS_Subset
<1>2. \A j \in J : tbl[j].memo_key \in K
  BY DEF RowsOK
<1>3. \A k \in K : \E j \in J : tbl[j].memo_key = k
  BY DEF RowsOK
<1>4. \A i, j \in J : tbl[i].memo_key = tbl[j].memo_key => i = j
  BY DEF RowsOK
<1> HIDE DEF J, K
<1>5. g \in Bijection(J, K)
  BY <1>2, <1>3, <1>4 DEF Bijection, Injection, Surjection, IsInjective
<1>6. ExistsBijection(J, K)
  BY <1>5 DEF ExistsBijection
<1> QED BY <1>1, <1>6, FS_Bijection DEF J, K

LEMMA CheckClaims == ASSUME CheckInv PROVE VerdictsHonest
<1>1. VerdictOfInputs
  <2> SUFFICES ASSUME NEW o \in served, derive_memo_key(o.def, o.result.seen) = o.key
               PROVE  o.result.exit = command(o.def, o.snap)
    BY DEF VerdictOfInputs
  <2>1. o.def \in Defs /\ o.key = derive_memo_key(o.def, o.snap) /\ o.result.memo_key = o.key
        /\ o.result.exit = command(o.result.memo_key[2].def, o.result.seen)
    BY DEF CheckInv, Told, Keyed, Genuine
  <2>2. o.key[2].def = o.def
    BY <2>1, KeyDef
  <2>3. command(o.def, o.result.seen) = command(o.def, o.snap)
    BY <2>1, KeyTells
  <2> QED BY <2>1, <2>2, <2>3
<1>2. KpisStable
  <2>1. RowsOK(rows, served)
    BY DEF CheckInv
  <2>2. \A j \in 1..Len(rows) : rows[j].cache_hit \in BOOLEAN
    BY <2>1 DEF RowsOK
  <2>3. /\ {j \in 1..Len(rows) : rows[j].cache_hit} = {j \in 1..Len(rows) : rows[j].cache_hit = TRUE}
        /\ {j \in 1..Len(rows) : ~rows[j].cache_hit} = {j \in 1..Len(rows) : rows[j].cache_hit = FALSE}
    BY <2>2
  <2>4. /\ Cardinality({j \in 1..Len(rows) : rows[j].cache_hit = TRUE}) = Cardinality(KeysOf(served, TRUE))
        /\ Cardinality({j \in 1..Len(rows) : rows[j].cache_hit = FALSE}) = Cardinality(KeysOf(served, FALSE))
    BY <2>1, RowsCounted
  <2> QED BY <2>3, <2>4 DEF KpisStable, aggregate_kpis, KeysOf
<1> QED BY <1>1, <1>2 DEF VerdictsHonest

\* For any processes, definitions, inputs and faults, whoever edits the workspace
\* and however the cache file is damaged in between: a reported outcome is the
\* command's verdict on the keyed inputs if they stood still while it was
\* executed, and every reported key counts once as executed and once as hit.
THEOREM VerdictsCorrect == CheckSpec => []VerdictsHonest
<1>1. CheckInit => CheckInv
  BY CheckStarts
<1>2. CheckInv /\ [CheckNext]_checkVars => CheckInv'
  <2> SUFFICES ASSUME CheckInv, [CheckNext]_checkVars PROVE CheckInv'
    OBVIOUS
  <2>1. CASE UNCHANGED checkVars
    BY <2>1 DEF checkVars, CheckInv
  <2>2. CASE CheckNext
    BY <2>2, ResolveStep, SnapshotTreeStep, HitStep, MissStep, ExecuteStep, StoreResultStep, FailsStep,
       RecordStep, EditInputStep, DamageStep DEF CheckNext, CheckVerb
  <2> QED BY <2>1, <2>2
<1>3. CheckInv => VerdictsHonest
  BY CheckClaims
<1> QED BY <1>1, <1>2, <1>3, PTL DEF CheckSpec

------------------------------------------------------------------------------
(* The gates.  Their three parts share no state, so each has an invariant  *)
(* of its own.  For the policy: whoever is about to append holds the lock  *)
(* and what it loaded is the log as it stands.                             *)

GateSets == [GateIds -> BOOLEAN]
PolicyRecord == [old : GateSets, new : GateSets, by : Editors, gate : GateIds, principal : {"user"}]

Chained(tbl) == \A i \in DOMAIN tbl :
    /\ tbl[i].old = IF i = 1 THEN house_gates ELSE tbl[i - 1].new
    /\ \A g \in GateIds : (tbl[i].new[g] # tbl[i].old[g]) <=> (g = tbl[i].gate)

PolicyInv ==
    /\ policyLog \in Seq(PolicyRecord)
    /\ Chained(policyLog)
    /\ policyLock \in Editors \cup {"free"}
    /\ editor \in [Editors -> [pc : {"idle", "lock", "append"}, gate : GateIds, enable : BOOLEAN,
                               principal : {"user"}, log : Seq(PolicyRecord)]]
    /\ \A e \in Editors : editor[e].pc = "append" => policyLock = e /\ editor[e].log = policyLog

DecisionInv ==
    \/ decision = NoDecision
    \/ \E up \in BOOLEAN, ctx \in EvalContext :
        decision = [up |-> up, ctx |-> ctx, blocks |-> any_blocks(landing_gate_check(up, house_gates, ctx))]

LEMMA FoldedGates ==
    ASSUME NEW tbl \in Seq(PolicyRecord)
    PROVE  /\ fold_gates(tbl) \in GateSets
           /\ fold_gates(tbl) = IF Len(tbl) = 0 THEN house_gates ELSE tbl[Len(tbl)].new
<1>1. CASE tbl = <<>>
  BY <1>1 DEF fold_gates, house_gates, GateSets
<1>2. CASE tbl # <<>>
  <2>1. Len(tbl) \in Nat /\ Len(tbl) # 0 /\ Len(tbl) \in DOMAIN tbl
    BY <1>2
  <2>2. tbl[Len(tbl)] \in PolicyRecord
    BY <2>1
  <2> QED BY <1>2, <2>1, <2>2 DEF fold_gates, Last, PolicyRecord
<1> QED BY <1>1, <1>2

\* A record that switches one gate of the gates in force continues the chain.
LEMMA ChainGrows ==
    ASSUME NEW tbl \in Seq(PolicyRecord), Chained(tbl), NEW e \in Editors, NEW g \in GateIds,
           NEW enable \in BOOLEAN, NEW current, current = fold_gates(tbl), current[g] # enable,
           NEW new, new = [current EXCEPT ![g] = enable],
           NEW grown,
           grown = Append(tbl, [old |-> current, new |-> new, by |-> e, gate |-> g, principal |-> "user"])
    PROVE  grown \in Seq(PolicyRecord) /\ Chained(grown)
<1> DEFINE r == [old |-> current, new |-> new, by |-> e, gate |-> g, principal |-> "user"]
<1>1. current \in GateSets /\ current = IF Len(tbl) = 0 THEN house_gates ELSE tbl[Len(tbl)].new
  BY FoldedGates
<1>2. new \in GateSets /\ \A h \in GateIds : (new[h] # current[h]) <=> (h = g)
  BY <1>1 DEF GateSets
<1>3. r \in PolicyRecord
  BY <1>1, <1>2 DEF PolicyRecord
<1>4. r.old = current /\ r.new = new /\ r.gate = g
  OBVIOUS
<1> HIDE DEF r
<1>5. /\ grown \in Seq(PolicyRecord)
      /\ Len(grown) = Len(tbl) + 1
      /\ \A i \in 1..Len(tbl) : grown[i] = tbl[i]
      /\ grown[Len(tbl) + 1] = r
  BY <1>3 DEF r
<1>6. Chained(grown)
  <2> SUFFICES ASSUME NEW i \in 1..(Len(tbl) + 1)
               PROVE  /\ grown[i].old = IF i = 1 THEN house_gates ELSE grown[i - 1].new
                      /\ \A h \in GateIds : (grown[i].new[h] # grown[i].old[h]) <=> (h = grown[i].gate)
    BY <1>5 DEF Chained
  <2>1. CASE i = Len(tbl) + 1
    <3>1. grown[i] = r /\ (i = 1 <=> Len(tbl) = 0)
      BY <2>1, <1>5
    <3>2. i # 1 => i - 1 = Len(tbl) /\ i - 1 \in 1..Len(tbl) /\ grown[i - 1] = tbl[i - 1]
      BY <2>1, <1>5
    <3> QED BY <3>1, <3>2, <1>1, <1>2, <1>4
  <2>2. CASE i # Len(tbl) + 1
    <3>1. i \in 1..Len(tbl) /\ grown[i] = tbl[i]
      BY <2>2, <1>5
    <3>2. i # 1 => i - 1 \in 1..Len(tbl) /\ grown[i - 1] = tbl[i - 1]
      BY <3>1, <1>5
    <3> QED BY <3>1, <3>2 DEF Chained
  <2> QED BY <2>1, <2>2
<1> QED BY <1>5, <1>6

LEMMA EditStartStep ==
    ASSUME PolicyInv, NEW e \in Editors, NEW g \in GateIds, NEW enable \in BOOLEAN, NEW p \in Principals,
           edit_start(e, g, enable, p)
    PROVE  PolicyInv'
<1>1. <<>> \in Seq(PolicyRecord)
  OBVIOUS
<1> QED BY <1>1 DEF PolicyInv, edit_start, IdleEditor, GateIds

LEMMA LockAndLoadStep ==
    ASSUME PolicyInv, NEW e \in Editors, lock_and_load(e)
    PROVE  PolicyInv'
<1>1. /\ editor' = [editor EXCEPT ![e].pc = "append", ![e].log = policyLog]
      /\ policyLog' = policyLog /\ policyLock' = e /\ policyLock = "free"
  BY DEF lock_and_load
<1>2. \A f \in Editors : editor[f].pc # "append"
  BY <1>1, EditorsAssumption DEF PolicyInv
<1>3. policyLog \in Seq(PolicyRecord)
  BY DEF PolicyInv
<1>4. editor' = [editor EXCEPT ![e] = [editor[e] EXCEPT !.pc = "append", !.log = policyLog]]
  BY <1>1 DEF PolicyInv
<1>5. [editor[e] EXCEPT !.pc = "append", !.log = policyLog]
        \in [pc : {"idle", "lock", "append"}, gate : GateIds, enable : BOOLEAN,
             principal : {"user"}, log : Seq(PolicyRecord)]
  BY <1>3 DEF PolicyInv
<1>6. editor' \in [Editors -> [pc : {"idle", "lock", "append"}, gate : GateIds, enable : BOOLEAN,
                               principal : {"user"}, log : Seq(PolicyRecord)]]
  BY <1>4, <1>5 DEF PolicyInv
<1>7. \A f \in Editors : editor'[f].pc = "append" => f = e /\ editor'[f].log = policyLog
  BY <1>2, <1>4 DEF PolicyInv
<1> QED BY <1>1, <1>6, <1>7 DEF PolicyInv

LEMMA EditAppendStep ==
    ASSUME PolicyInv, NEW e \in Editors, edit_append(e)
    PROVE  PolicyInv'
<1> DEFINE s == editor[e]
           current == fold_gates(s.log)
<1>1. /\ s.pc = "append" /\ s.gate \in GateIds /\ s.enable \in BOOLEAN /\ s.principal = "user"
      /\ policyLock = e /\ s.log = policyLog
  BY DEF PolicyInv, edit_append
<1>2. policyLog' \in Seq(PolicyRecord) /\ Chained(policyLog')
  <2>1. CASE current[s.gate] = s.enable
    BY <2>1 DEF edit_append, PolicyInv
  <2>2. CASE current[s.gate] # s.enable
    <3>1. policyLog' = Append(s.log, [old |-> current, new |-> [current EXCEPT ![s.gate] = s.enable],
                                      by |-> e, gate |-> s.gate, principal |-> "user"])
      BY <2>2, <1>1 DEF edit_append
    <3>2. policyLog \in Seq(PolicyRecord) /\ Chained(policyLog)
      BY DEF PolicyInv
    <3> HIDE DEF s
    <3> QED BY <3>1, <3>2, <2>2, <1>1, ChainGrows
  <2> QED BY <2>1, <2>2
<1>3. <<>> \in Seq(PolicyRecord)
  OBVIOUS
<1>4. editor' = [editor EXCEPT ![e] = IdleEditor] /\ policyLock' = "free"
  BY DEF edit_append
<1>5. \A f \in Editors : f # e => editor[f].pc # "append"
  BY <1>1 DEF PolicyInv
<1>6. editor' \in [Editors -> [pc : {"idle", "lock", "append"}, gate : GateIds, enable : BOOLEAN,
                               principal : {"user"}, log : Seq(PolicyRecord)]]
  BY <1>3, <1>4 DEF PolicyInv, IdleEditor, GateIds
<1>7. \A f \in Editors : editor'[f].pc # "append"
  BY <1>4, <1>5 DEF PolicyInv, IdleEditor
<1> QED BY <1>2, <1>4, <1>6, <1>7 DEF PolicyInv

\* A change passes only if each house gate passed it, and each gate's pass means what it should.
LEMMA DecisionClaims ==
    ASSUME DecisionInv, ~decision.blocks
    PROVE  /\ decision.up
           /\ \A i \in DOMAIN decision.ctx.commits : LET c == decision.ctx.commits[i] IN
               /\ c.signed \/ (c.counted /\ c.parents = 2)
               /\ c.feat => decision.ctx.changelog = "entries"
           /\ decision.ctx.file = "clean" /\ decision.ctx.changelog # "no content"
<1>1. PICK up \in BOOLEAN, ctx \in EvalContext :
        decision = [up |-> up, ctx |-> ctx, blocks |-> any_blocks(landing_gate_check(up, house_gates, ctx))]
  BY DEF DecisionInv, NoDecision
<1>2. decision.up = up /\ decision.ctx = ctx /\ ~any_blocks(landing_gate_check(up, house_gates, ctx))
  BY <1>1
<1>3. up
  BY <1>2 DEF any_blocks, landing_gate_check, eval_closed, GateIds
<1>4. {id \in GateIds : house_gates[id]} = GateIds
  BY DEF house_gates
<1>5. \A g \in GateIds : registry(g, ctx) = "Pass"
  BY <1>2, <1>3, <1>4 DEF any_blocks, landing_gate_check, eval
<1>6. dco_eval(ctx) = "Pass" /\ changelog_eval(ctx) = "Pass" /\ secrets_eval(ctx) = "Pass"
  BY <1>5 DEF registry, GateIds
<1>t. ctx \in EvalContext
  BY <1>1
<1>7. ctx.file = "clean" /\ ctx.changelog # "no content"
  BY <1>6, <1>t DEF secrets_eval, EvalContext
<1>8. ASSUME NEW i \in DOMAIN ctx.commits
      PROVE  /\ ctx.commits[i].signed \/ (ctx.commits[i].counted /\ ctx.commits[i].parents = 2)
             /\ ctx.commits[i].feat => ctx.changelog = "entries"
  <2>1. ctx.commits[i] \in Commit
    <3>1. ctx.commits \in CommitRange
      BY <1>t DEF EvalContext
    <3>2. CASE \E a \in Commit : ctx.commits = <<a>>
      BY <3>2, <1>8
    <3>3. CASE \E a, b \in Commit : ctx.commits = <<a, b>>
      BY <3>3, <1>8
    <3> QED BY <3>1, <3>2, <3>3 DEF CommitRange
  <2>2. ctx.commits[i].parents \in {1, 2}
    BY <2>1 DEF Commit
  <2>3. parent_count(ctx.commits[i]) >= 2 \/ ctx.commits[i].signed
    BY <1>6, <1>8 DEF dco_eval
  <2>4. parent_count(ctx.commits[i]) >= 2 => ctx.commits[i].counted /\ ctx.commits[i].parents = 2
    BY <2>2 DEF parent_count
  <2>5. ctx.commits[i].feat => ctx.changelog = "entries"
    BY <1>6, <1>8 DEF changelog_eval
  <2> QED BY <2>3, <2>4, <2>5
<1> QED BY <1>2, <1>3, <1>7, <1>8

LEMMA PolicyClaims == ASSUME PolicyInv, DecisionInv PROVE PolicySound
<1>1. \A i \in DOMAIN policyLog : policyLog[i].principal = "user"
  <2> TAKE i \in DOMAIN policyLog
  <2>1. policyLog[i] \in PolicyRecord
    BY DEF PolicyInv
  <2> QED BY <2>1 DEF PolicyRecord
<1>2. Cardinality({e \in Editors : editor[e].pc = "append"}) <= 1
  <2>1. {e \in Editors : editor[e].pc = "append"} \subseteq {policyLock}
    BY DEF PolicyInv
  <2>2. IsFiniteSet({policyLock}) /\ Cardinality({policyLock}) = 1
    BY FS_Singleton
  <2>3. Cardinality({e \in Editors : editor[e].pc = "append"}) <= Cardinality({policyLock})
    BY <2>1, <2>2, FS_Subset
  <2> QED BY <2>2, <2>3
<1>3. Chained(policyLog)
  BY DEF PolicyInv
<1> QED BY <1>1, <1>2, <1>3, DecisionClaims DEF PolicySound, Chained


\* A tree exists only once a driver made it, and what lands is that tree with the
\* reviews it had; the audit tells of a landing.
RegenInv ==
    /\ regen.tree \in Nat
    /\ regen.tree > 0 => driver_for(regen.path) # "none"
    /\ \A r \in landed :
        /\ driver_for(r.path) # "none"
        /\ \E v \in r.reviews : v.tree = r.tree /\ v.model # r.model /\ v.verdict = "Approve"
    /\ regenAudit \in Seq({"landed", "blocked"})
    /\ landed # {} => \E i \in DOMAIN regenAudit : regenAudit[i] = "landed"
    /\ regen = [tree |-> regen.tree, path |-> regen.path, model |-> regen.model,
                reviews |-> regen.reviews, error |-> regen.error]

LEMMA RegenerateStep ==
    ASSUME RegenInv, NEW path \in Paths, NEW model \in Models, NEW end, regenerate(path, model, end)
    PROVE  RegenInv'
<1>1. landed' = landed /\ regenAudit' = regenAudit
  BY DEF regenerate
<1>2. CASE driver_for(path) # "none" /\ run_driver(end) = "ok"
  <2>1. regen' = [tree |-> regen.tree + 1, path |-> path, model |-> model,
                  reviews |-> regen.reviews, error |-> "none"]
    BY <1>2 DEF regenerate, RegenInv
  <2> QED BY <1>1, <1>2, <2>1 DEF RegenInv
<1>3. CASE ~(driver_for(path) # "none" /\ run_driver(end) = "ok")
  <2>1. regen' = [tree |-> regen.tree, path |-> regen.path, model |-> regen.model,
                  reviews |-> regen.reviews, error |-> fail_closed_boundary(run_driver(end))]
    BY <1>3 DEF regenerate, RegenInv
  <2> QED BY <1>1, <2>1 DEF RegenInv
<1> QED BY <1>2, <1>3

LEMMA ReviewStep ==
    ASSUME RegenInv, NEW model \in Models, NEW verdict, Review(model, verdict)
    PROVE  RegenInv'
<1>1. landed' = landed /\ regenAudit' = regenAudit
  BY DEF Review
<1>2. regen' = [tree |-> regen.tree, path |-> regen.path, model |-> regen.model, error |-> regen.error,
                reviews |-> regen.reviews \cup {[model |-> model, tree |-> regen.tree, verdict |-> verdict]}]
  BY DEF Review, RegenInv
<1> QED BY <1>1, <1>2 DEF RegenInv

\* With no reason to block, one review was given and it is an independent approval of this tree.
LEMMA NoReason ==
    ASSUME NEW scope, NEW reproduced \in BOOLEAN, NEW repass \in BOOLEAN, NEW given, NEW ref,
           given = {} \/ \E v \in regen.reviews : given = {v},
           BlockReason(scope, reproduced, repass, given, ref) = "none"
    PROVE  \E v \in regen.reviews : v.tree = regen.tree /\ v.model # regen.model /\ v.verdict = "Approve"
<1> DEFINE w == CHOOSE x \in given : TRUE
<1>1. given # {}
  BY DEF BlockReason
<1>2. PICK v \in regen.reviews : given = {v}
  BY <1>1
<1>3. w = v
  BY <1>2
<1>4. ~independence_defect(w, ref) /\ w.verdict = "Approve"
  BY DEF BlockReason
<1> QED BY <1>2, <1>3, <1>4 DEF independence_defect

LEMMA DecideStep ==
    ASSUME RegenInv, NEW scope, NEW reproduced \in BOOLEAN, NEW repass \in BOOLEAN, NEW ref,
           NEW given \in {{}} \cup {{v} : v \in regen.reviews},
           decide(scope, reproduced, repass, given, ref)
    PROVE  RegenInv'
<1> DEFINE reason == BlockReason(scope, reproduced, repass, given, ref)
<1>1. regen' = regen /\ regen.tree > 0 /\ Decided(reason)
  BY DEF decide
<1>2. given = {} \/ \E v \in regen.reviews : given = {v}
  OBVIOUS
<1>3. reason = "none" =>
        \E v \in regen.reviews : v.tree = regen.tree /\ v.model # regen.model /\ v.verdict = "Approve"
  BY <1>2, NoReason
<1> HIDE DEF reason
<1> DEFINE r == [regen EXCEPT !.error = "none"]
<1>4. r.path = regen.path /\ r.tree = regen.tree /\ r.model = regen.model /\ r.reviews = regen.reviews
  BY DEF RegenInv
<1>5. CASE reason = "none"
  <2>1. landed' = landed \cup {r} /\ regenAudit' = Append(regenAudit, "landed")
    BY <1>1, <1>5 DEF Decided
  <2> HIDE DEF r
  <2>2. /\ regenAudit' \in Seq({"landed", "blocked"})
        /\ \E i \in DOMAIN regenAudit' : regenAudit'[i] = "landed"
    BY <2>1 DEF RegenInv
  <2>3. \A x \in landed' :
          /\ driver_for(x.path) # "none"
          /\ \E v \in x.reviews : v.tree = x.tree /\ v.model # x.model /\ v.verdict = "Approve"
    BY <1>1, <1>3, <1>4, <1>5, <2>1 DEF RegenInv
  <2> QED BY <1>1, <2>2, <2>3 DEF RegenInv
<1>6. CASE reason # "none"
  <2>1. landed' = landed /\ regenAudit' = Append(regenAudit, "blocked")
    BY <1>1, <1>6 DEF Decided
  <2>2. /\ regenAudit' \in Seq({"landed", "blocked"})
        /\ \A i \in DOMAIN regenAudit : i \in DOMAIN regenAudit' /\ regenAudit'[i] = regenAudit[i]
    BY <2>1 DEF RegenInv
  <2> QED BY <1>1, <2>1, <2>2 DEF RegenInv
<1> QED BY <1>5, <1>6

LEMMA RegenClaims == ASSUME RegenInv PROVE RegenSound
BY DEF RegenInv, RegenSound

\* Past the check of the result path it stays inside; the secret is used only past
\* the checks of the lease and of the store, and the result is written only past that.
Ended(o) ==
    /\ o.used => o.seen = "held" /\ o.path = "inside" /\ o.secret = "known"
    /\ o.delivered => o.used
    /\ o.error \in BrokerError \cup {"none"}
    /\ o.audit = "Completed" => o.used /\ o.delivered

BrokerStates == [pc : {"idle", "execute", "deliver"}, seen : LeaseStates, path : ResultPaths,
                 secret : Secrets, used : BOOLEAN, delivered : BOOLEAN]

BrokerInv ==
    /\ broker \in BrokerStates
    /\ lease \in LeaseStates
    /\ ops \in Seq([path : ResultPaths, secret : Secrets, used : BOOLEAN, seen : LeaseStates,
                    delivered : BOOLEAN, error : BrokerError \cup {"none"},
                    audit : {"Completed", "FailedClosed"}])
    /\ \A i \in DOMAIN ops : Ended(ops[i])
    /\ ~broker.delivered
    /\ broker.pc # "deliver" => ~broker.used
    /\ broker.pc # "idle" => broker.path = "inside"
    /\ broker.pc = "deliver" => broker.used /\ broker.seen = "held" /\ broker.secret = "known"

\* An operation ends in a record that tells how far it got.
LEMMA EndOpStep ==
    ASSUME BrokerInv, NEW s \in BrokerStates, NEW error \in BrokerError \cup {"none"}, EndOp(s, error),
           s.used => s.seen = "held" /\ s.path = "inside" /\ s.secret = "known",
           s.delivered => s.used,
           error = "none" => s.delivered,
           lease' = lease
    PROVE  BrokerInv'
<1> DEFINE Records == [path : ResultPaths, secret : Secrets, used : BOOLEAN, seen : LeaseStates,
                       delivered : BOOLEAN, error : BrokerError \cup {"none"},
                       audit : {"Completed", "FailedClosed"}]
           o == [path |-> s.path, secret |-> s.secret, used |-> s.used, error |-> error,
                 seen |-> s.seen, delivered |-> s.delivered,
                 audit |-> IF error = "none" THEN "Completed" ELSE "FailedClosed"]
<1>1. ops' = Append(ops, o) /\ broker' = IdleBroker
  BY DEF EndOp
<1>2. o \in Records
  BY DEF BrokerStates
<1>3. Ended(o)
  BY DEF Ended
<1>4. ops \in Seq(Records) /\ \A i \in DOMAIN ops : Ended(ops[i])
  BY DEF BrokerInv
<1> HIDE DEF o, Records
<1>5. /\ ops' \in Seq(Records)
      /\ DOMAIN ops' = 1..(Len(ops) + 1)
      /\ \A i \in 1..Len(ops) : ops'[i] = ops[i]
      /\ ops'[Len(ops) + 1] = o
  BY <1>1, <1>2, <1>4
<1>6. \A i \in DOMAIN ops' : Ended(ops'[i])
  BY <1>3, <1>4, <1>5
<1>7. broker' \in BrokerStates /\ broker'.pc = "idle" /\ ~broker'.used /\ ~broker'.delivered
  BY <1>1 DEF IdleBroker, BrokerStates, LeaseStates, ResultPaths, Secrets
<1> QED BY <1>5, <1>6, <1>7 DEF BrokerInv, Records

LEMMA AskStep ==
    ASSUME BrokerInv, NEW path \in ResultPaths, NEW secret \in Secrets, execute_into_container(path, secret)
    PROVE  BrokerInv'
<1> DEFINE s == [IdleBroker EXCEPT !.seen = lease, !.path = path, !.secret = secret]
<1>1. /\ s.pc = "idle" /\ s.seen = lease /\ s.path = path /\ s.secret = secret /\ s.used = FALSE
      /\ s.delivered = FALSE
  BY DEF IdleBroker
<1>2. s \in BrokerStates
  <2>1. IdleBroker \in BrokerStates
    BY DEF IdleBroker, BrokerStates, LeaseStates, ResultPaths, Secrets
  <2> QED BY <2>1 DEF BrokerInv, BrokerStates
<1>3. lease' = lease
  BY DEF execute_into_container
<1>4. CASE result_path_escapes(path) \/ path = "empty"
  <2>1. EndOp(s, "ResultPathEscapes")
    BY <1>4 DEF execute_into_container
  <2>2. "ResultPathEscapes" \in BrokerError \cup {"none"}
    BY DEF BrokerError
  <2> HIDE DEF s
  <2> QED BY <1>1, <1>2, <1>3, <2>1, <2>2, EndOpStep
<1>5. CASE ~(result_path_escapes(path) \/ path = "empty")
  <2>1. path = "inside"
    BY <1>5 DEF result_path_escapes, ResultPaths
  <2>2. broker' = [s EXCEPT !.pc = "execute"] /\ ops' = ops
    BY <1>5 DEF execute_into_container
  <2> HIDE DEF s
  <2>3. broker' = [pc |-> "execute", seen |-> lease, path |-> path, secret |-> secret,
                   used |-> FALSE, delivered |-> FALSE]
    BY <1>1, <1>2, <2>2 DEF BrokerStates
  <2>4. broker' \in BrokerStates
    BY <2>3 DEF BrokerInv, BrokerStates
  <2> QED BY <1>3, <2>1, <2>2, <2>3, <2>4 DEF BrokerInv
<1> QED BY <1>4, <1>5

LEMMA BrokerExecuteStep ==
    ASSUME BrokerInv, NEW up \in BOOLEAN, execute(up)
    PROVE  BrokerInv'
<1>1. /\ broker \in BrokerStates /\ broker.pc = "execute" /\ ~broker.used /\ ~broker.delivered
      /\ broker.path = "inside" /\ lease' = lease
  BY DEF BrokerInv, execute
<1>2. ASSUME NEW error \in {"LeaseNotHeld", "BrokerDown", "UnknownSecret"}, EndOp(broker, error)
      PROVE  BrokerInv'
  <2>1. error \in BrokerError \cup {"none"} /\ error # "none"
    BY DEF BrokerError
  <2> QED BY <1>1, <1>2, <2>1, EndOpStep
<1>3. CASE broker' = [broker EXCEPT !.pc = "deliver", !.used = TRUE] /\ ops' = ops
           /\ broker.seen = "held" /\ broker.secret # "unknown"
  <2>1. broker.secret = "known"
    BY <1>1, <1>3 DEF BrokerStates, Secrets
  <2>2. broker' \in BrokerStates
    BY <1>1, <1>3 DEF BrokerStates
  <2>3. /\ broker'.pc = "deliver" /\ broker'.used /\ ~broker'.delivered /\ broker'.seen = "held"
        /\ broker'.path = "inside" /\ broker'.secret = "known"
    BY <1>1, <1>3, <2>1 DEF BrokerStates
  <2> QED BY <1>1, <1>3, <2>2, <2>3 DEF BrokerInv
<1> QED BY <1>2, <1>3 DEF execute

LEMMA DeliverStep ==
    ASSUME BrokerInv, NEW wrote \in BOOLEAN, NEW ok \in BOOLEAN, Deliver(wrote, ok)
    PROVE  BrokerInv'
<1> DEFINE s == [broker EXCEPT !.delivered = wrote]
           error == IF ok THEN "none" ELSE "Box"
<1>1. /\ broker \in BrokerStates /\ broker.used /\ broker.path = "inside"
      /\ broker.seen = "held" /\ broker.secret = "known" /\ lease' = lease
      /\ EndOp(s, error) /\ (ok => wrote)
  BY DEF BrokerInv, Deliver
<1>2. s \in BrokerStates
  BY <1>1 DEF BrokerStates
<1>3. s.used /\ s.path = "inside" /\ s.seen = "held" /\ s.secret = "known" /\ s.delivered = wrote
  BY <1>1 DEF BrokerStates
<1>4. error \in BrokerError \cup {"none"} /\ (error = "none" => wrote)
  BY <1>1 DEF BrokerError
<1> HIDE DEF s, error
<1> QED BY <1>1, <1>2, <1>3, <1>4, EndOpStep

\* The report names each place once exactly if three tokens cover the three clean ones.
LEMMA CleanReports ==
    ASSUME NEW tokens
    PROVE  report_is_clean(tokens) <=> Len(tokens) = 3 /\ ToSet(tokens) = Keys
BY DEF report_is_clean, ToSet

LEMMA BrokerClaims == ASSUME BrokerInv PROVE BrokerSound
<1>1. \A i \in DOMAIN ops : Ended(ops[i])
  BY DEF BrokerInv
<1> QED BY <1>1, CleanReports DEF BrokerSound, Ended

GatesInv == PolicyInv /\ DecisionInv /\ RegenInv /\ BrokerInv

LEMMA GatesStart == ASSUME GatesInit PROVE GatesInv
<1>1. PolicyInv /\ DecisionInv
  <2>1. <<>> \in Seq(PolicyRecord) /\ Chained(<<>>)
    BY DEF Chained
  <2> QED BY <2>1 DEF GatesInit, PolicyInit, PolicyInv, DecisionInv, IdleEditor, GateIds
<1>2. RegenInv
  BY DEF GatesInit, RegenInit, RegenInv
<1>3. BrokerInv
  BY DEF GatesInit, BrokerInit, BrokerInv, IdleBroker, BrokerStates, LeaseStates, ResultPaths, Secrets
<1> QED BY <1>1, <1>2, <1>3 DEF GatesInv

LEMMA GatesSteps == ASSUME GatesInv, [GatesStep]_gateVars PROVE GatesInv'
<1> USE DEF GatesInv
<1>1. ASSUME UNCHANGED policyVars PROVE PolicyInv' /\ DecisionInv'
  BY <1>1 DEF policyVars, PolicyInv, DecisionInv
<1>2. ASSUME UNCHANGED regenVars PROVE RegenInv'
  BY <1>2 DEF regenVars, RegenInv
<1>3. ASSUME UNCHANGED brokerVars PROVE BrokerInv'
  BY <1>3 DEF brokerVars, BrokerInv
<1>4. CASE JudgeNext /\ UNCHANGED <<regenVars, brokerVars>>
  <2>1. PolicyInv'
    BY <1>4 DEF JudgeNext, Judge, PolicyInv
  <2>2. DecisionInv'
    BY <1>4, Zenon DEF JudgeNext, Judge, DecisionInv
  <2> QED BY <1>4, <2>1, <2>2, <1>2, <1>3
<1>5. CASE EditNext /\ UNCHANGED <<regenVars, brokerVars>>
  <2>1. PolicyInv'
    BY <1>5, EditStartStep, LockAndLoadStep, EditAppendStep DEF EditNext
  <2>2. decision' = decision
    BY <1>5 DEF EditNext, edit_start, lock_and_load, edit_append
  <2>3. DecisionInv'
    BY <2>2 DEF DecisionInv
  <2> QED BY <1>5, <2>1, <2>3, <1>2, <1>3
<1>6. CASE RegenNext /\ UNCHANGED <<policyVars, brokerVars>>
  <2>1. RegenInv'
    BY <1>6, RegenerateStep, ReviewStep, DecideStep DEF RegenNext
  <2> QED BY <1>6, <2>1, <1>1, <1>3
<1>7. CASE BrokerNext /\ UNCHANGED <<policyVars, regenVars>>
  <2>1. CASE LeaseChanges
    BY <2>1, <1>7, <1>1, <1>2 DEF LeaseChanges, BrokerInv
  <2>2. CASE ~LeaseChanges
    <3>1. BrokerInv'
      BY <1>7, <2>2, AskStep, BrokerExecuteStep, DeliverStep DEF BrokerNext
    <3> QED BY <1>7, <3>1, <1>1, <1>2
  <2> QED BY <2>1, <2>2
<1> QED BY <1>1, <1>2, <1>3, <1>4, <1>5, <1>6, <1>7 DEF GatesStep, gateVars

\* For any editors and bounds: no two edits of the policy lose each other, a change
\* passes only a whole engine and every gate, what lands was reviewed as it lands,
\* and a secret is used and its result written only past every refusal.
THEOREM GatesCorrect == GatesSpec => []GatesSound
<1>1. GatesInit => GatesInv
  BY GatesStart
<1>2. GatesInv /\ [GatesStep]_gateVars => GatesInv'
  BY GatesSteps
<1>3. GatesInv => GatesSound
  BY PolicyClaims, RegenClaims, BrokerClaims DEF GatesInv, GatesSound
<1> QED BY <1>1, <1>2, <1>3, PTL DEF GatesSpec



------------------------------------------------------------------------------
(* Diagnosis.  The window of a bisection always has a green tree below it  *)
(* and, unless it is the end of the history, a tree that was read red      *)
(* above it; its width halves with every probe.                            *)

\* The function Power2 defines, up to m.
IsPower2(f, m) == f = [k \in 0..m |-> IF k = 0 THEN 1 ELSE 2 * f[k - 1]]

LEMMA Power2Exists == ASSUME NEW m \in Nat PROVE \E f : IsPower2(f, m) /\ \A i \in 0..m : f[i] \in Nat
<1> DEFINE Good(k) == \E f : IsPower2(f, k) /\ \A i \in 0..k : f[i] \in Nat
           Bad == {k \in Nat : ~Good(k)}
<1> SUFFICES ASSUME Bad # {} PROVE FALSE
  OBVIOUS
<1> HIDE DEF Bad
<1>1. PICK k \in Bad : \A y \in Bad : k <= y
  BY LeastNat DEF Bad
<1>2. k \in Nat /\ ~Good(k)
  BY <1>1 DEF Bad
<1>3. k # 0
  <2> DEFINE g == [i \in 0..0 |-> 1]
  <2>1. IsPower2(g, 0) /\ \A i \in 0..0 : g[i] \in Nat
    BY DEF IsPower2
  <2> QED BY <1>2, <2>1
<1>4. k - 1 \in Nat /\ k - 1 \notin Bad
  BY <1>1, <1>2, <1>3
<1>5. PICK f : IsPower2(f, k - 1) /\ \A i \in 0..(k - 1) : f[i] \in Nat
  BY <1>4 DEF Bad
<1> DEFINE g == [i \in 0..k |-> IF i = k THEN 2 * f[k - 1] ELSE f[i]]
<1>6. \A i \in 0..(k - 1) : f[i] = IF i = 0 THEN 1 ELSE 2 * f[i - 1]
  BY <1>5 DEF IsPower2
<1>7. \A i \in 0..k : g[i] = IF i = 0 THEN 1 ELSE 2 * g[i - 1]
  BY <1>2, <1>3, <1>6
<1>8. g = [i \in 0..k |-> IF i = 0 THEN 1 ELSE 2 * g[i - 1]]
  BY <1>7
<1>9. IsPower2(g, k)
  BY <1>8 DEF IsPower2
<1>10. \A i \in 0..k : g[i] \in Nat
  BY <1>2, <1>3, <1>5
<1> QED BY <1>2, <1>9, <1>10

LEMMA Power2Doubles ==
    /\ Power2[0] = 1
    /\ \A k \in Nat : Power2[k] \in Nat /\ Power2[k + 1] = 2 * Power2[k]
<1> DEFINE At(k) == CHOOSE f : IsPower2(f, k) /\ \A i \in 0..k : f[i] \in Nat
           g == [k \in Nat |-> At(k)[k]]
<1>1. \A k \in Nat : IsPower2(At(k), k) /\ \A i \in 0..k : At(k)[i] \in Nat
  BY Power2Exists
<1> HIDE DEF At
<1>2. \A k \in Nat : \A i \in 0..k : At(k)[i] = IF i = 0 THEN 1 ELSE 2 * At(k)[i - 1]
  BY <1>1 DEF IsPower2
<1>3. ASSUME NEW k \in Nat, k # 0 PROVE \A i \in 0..(k - 1) : At(k)[i] = At(k - 1)[i]
  <2> DEFINE Bad == {i \in Nat : i < k /\ At(k)[i] # At(k - 1)[i]}
  <2> SUFFICES ASSUME Bad # {} PROVE FALSE
    OBVIOUS
  <2> HIDE DEF Bad
  <2>1. PICK i \in Bad : \A y \in Bad : i <= y
    BY LeastNat DEF Bad
  <2>2. i \in Nat /\ i < k /\ At(k)[i] # At(k - 1)[i]
    BY <2>1 DEF Bad
  <2>3. i # 0
    BY <1>2, <1>3, <2>2
  <2>4. At(k)[i - 1] = At(k - 1)[i - 1]
    BY <2>1, <2>2, <2>3 DEF Bad
  <2>5. At(k)[i] = 2 * At(k)[i - 1] /\ At(k - 1)[i] = 2 * At(k - 1)[i - 1]
    BY <1>2, <1>3, <2>2, <2>3
  <2> QED BY <2>2, <2>4, <2>5
<1>4. \A k \in Nat : g[k] = IF k = 0 THEN 1 ELSE 2 * g[k - 1]
  <2> TAKE k \in Nat
  <2>1. CASE k = 0
    BY <2>1, <1>2
  <2>2. CASE k # 0
    <3>1. k - 1 \in Nat /\ k - 1 \in 0..(k - 1) /\ k \in 0..k
      BY <2>2
    <3>2. At(k)[k] = 2 * At(k)[k - 1]
      BY <1>2, <2>2, <3>1
    <3>3. At(k)[k - 1] = At(k - 1)[k - 1]
      BY <1>3, <2>2, <3>1
    <3> QED BY <2>2, <3>1, <3>2, <3>3
  <2> QED BY <2>1, <2>2
<1>5. g = [k \in Nat |-> IF k = 0 THEN 1 ELSE 2 * g[k - 1]]
  BY <1>4
<1>6. Power2 = [k \in Nat |-> IF k = 0 THEN 1 ELSE 2 * Power2[k - 1]]
  BY <1>5 DEF Power2
<1> HIDE DEF g
<1>7. \A k \in Nat : Power2[k] = IF k = 0 THEN 1 ELSE 2 * Power2[k - 1]
  BY <1>6
<1>8. \A k \in Nat : Power2[k] \in Nat
  <2> DEFINE Bad == {i \in Nat : Power2[i] \notin Nat}
  <2> SUFFICES ASSUME Bad # {} PROVE FALSE
    OBVIOUS
  <2> HIDE DEF Bad
  <2>1. PICK i \in Bad : \A y \in Bad : i <= y
    BY LeastNat DEF Bad
  <2>2. i \in Nat /\ Power2[i] \notin Nat
    BY <2>1 DEF Bad
  <2>3. i # 0
    BY <1>7, <2>2
  <2>4. i - 1 \in Nat /\ Power2[i - 1] \in Nat
    BY <2>1, <2>2, <2>3 DEF Bad
  <2> QED BY <1>7, <2>2, <2>3, <2>4
<1>9. Power2[0] = 1
  BY <1>7
<1>10. ASSUME NEW k \in Nat PROVE Power2[k + 1] = 2 * Power2[k]
  <2>1. k + 1 \in Nat /\ k + 1 # 0 /\ (k + 1) - 1 = k
    OBVIOUS
  <2> QED BY <1>7, <2>1
<1> QED BY <1>8, <1>9, <1>10

LEMMA DigitsStep ==
    ASSUME NEW x \in Nat, NEW y \in Nat, x <= y
    PROVE  /\ Digits(x) \in 1..5 /\ Digits(x) <= Digits(y)
           /\ y <= x + 4 => Digits(y) <= Digits(x) + 1
BY DEF Digits

\* The iteration of exact_serialized_size ends in a fixed point.
LEMMA SizeExact ==
    ASSUME NEW base \in Nat
    PROVE  LET size == exact_serialized_size(base)
           IN  size \in Nat /\ size = base + Digits(size)
<1> DEFINE IsStamped(f) == f = [i \in 0..MAX_ITERS |-> IF i = 0 THEN 0 ELSE base + Digits(f[i - 1])]
           N(x) == base + Digits(x)
           g == [i \in 0..8 |-> IF i = 0 THEN 0 ELSE IF i = 1 THEN N(0) ELSE IF i = 2 THEN N(N(0))
                  ELSE IF i = 3 THEN N(N(N(0))) ELSE IF i = 4 THEN N(N(N(N(0))))
                  ELSE IF i = 5 THEN N(N(N(N(N(0))))) ELSE IF i = 6 THEN N(N(N(N(N(N(0))))))
                  ELSE IF i = 7 THEN N(N(N(N(N(N(N(0))))))) ELSE N(N(N(N(N(N(N(N(0))))))))]
<1> HIDE DEF N
<1>1. \A i \in 0..8 : g[i] = IF i = 0 THEN 0 ELSE N(g[i - 1])
  OBVIOUS
<1>2. IsStamped(g)
  <2>1. g = [i \in 0..8 |-> IF i = 0 THEN 0 ELSE N(g[i - 1])]
    BY <1>1
  <2> HIDE DEF g
  <2> QED BY <2>1 DEF MAX_ITERS, N
<1> DEFINE f == CHOOSE h : IsStamped(h)
<1>3. IsStamped(f)
  BY <1>2
<1>4. exact_serialized_size(base) = f[8]
  BY DEF exact_serialized_size, MAX_ITERS
<1> HIDE DEF f
<1>5. /\ f[0] = 0 /\ f[1] = base + Digits(f[0]) /\ f[2] = base + Digits(f[1])
      /\ f[3] = base + Digits(f[2]) /\ f[4] = base + Digits(f[3]) /\ f[5] = base + Digits(f[4])
      /\ f[6] = base + Digits(f[5]) /\ f[7] = base + Digits(f[6]) /\ f[8] = base + Digits(f[7])
  BY <1>3 DEF MAX_ITERS
<1>6. f[1] = base + 1 /\ f[1] \in Nat
  <2>1. Digits(0) = 1
    BY DEF Digits
  <2>2. f[1] = base + Digits(0)
    BY <1>5
  <2> QED BY <2>1, <2>2
<1>7. f[2] \in Nat /\ f[1] <= f[2] /\ f[2] <= base + 5
  BY <1>5, <1>6, DigitsStep
<1>8. f[3] \in Nat /\ f[2] <= f[3] /\ f[3] <= base + 5
  <2>1. Digits(f[1]) <= Digits(f[2]) /\ Digits(f[2]) \in 1..5 /\ Digits(f[1]) \in 1..5
    BY <1>6, <1>7, DigitsStep
  <2> QED BY <1>5, <2>1
<1>9. f[4] = f[3]
  <2>1. Digits(f[2]) <= Digits(f[3]) /\ Digits(f[3]) \in 1..5 /\ Digits(f[2]) \in 1..5
    BY <1>7, <1>8, DigitsStep
  <2>2. Digits(f[1]) <= Digits(f[2]) /\ Digits(f[1]) \in 1..5 /\ Digits(f[3]) <= Digits(f[1]) + 1
    BY <1>6, <1>7, <1>8, DigitsStep
  <2>3. CASE Digits(f[1]) = Digits(f[2])
    BY <1>5, <2>3
  <2>4. CASE Digits(f[1]) # Digits(f[2])
    <3>1. Digits(f[2]) = Digits(f[3])
      BY <2>1, <2>2, <2>4
    <3> QED BY <1>5, <3>1
  <2> QED BY <2>3, <2>4
<1>10. f[8] = f[3] /\ f[7] = f[3]
  BY <1>5, <1>9
<1> QED BY <1>4, <1>5, <1>8, <1>10

Answers == [verdict : {"green", "red"}, real : BOOLEAN]
ProbePaths == Seq(Nat \X Answers)
Histories == [n : Nat, first : Nat]
Searches ==
    [state : {"idle", "search", "found", "done"}, history : Histories, lo : Nat, hi : Nat,
     path : ProbePaths, culprit : Nat, error : BisectError \cup {""}, size : Nat]

\* The tree was read red, and if it is not then because its verdict was missing.
ReadRed(b, c) ==
    \E k \in DOMAIN b.path :
        /\ b.path[k][1] = c /\ b.path[k][2].verdict = "red"
        /\ c < b.history.first => b.path[k][2].real

Window(b) ==
    /\ b.history.n \in Nat \ {0} /\ b.history.first <= b.history.n
    /\ 1 <= b.lo /\ b.lo <= b.hi /\ b.hi <= b.history.n /\ b.lo <= b.history.first
    /\ b.hi < b.history.n => ReadRed(b, b.hi)
    /\ Power2[Len(b.path)] * (b.hi - b.lo) <= b.history.n - 1

Probes(b) == Len(b.path) > 0 => Power2[Len(b.path) - 1] < b.history.n

Blamed(b) == /\ b.culprit \in 1..(b.history.n - 1) /\ b.culprit <= b.history.first
             /\ ReadRed(b, b.culprit)

VerdictsOK(v, h) ==
    /\ v \in [0..(MaxTrees - 1) -> {"none", "green", "red"}] /\ h.n <= MaxTrees
    /\ \A i \in DOMAIN v : v[i] # "none" => i < h.n /\ v[i] = Truth(h, i)

Ending(b) ==
    \/ b.error = "NoRedTip" /\ (b.history.n <= 1 \/ b.history.first = b.history.n)
    \/ b.error = "DiagnosisTooLarge" /\ Blamed(b)
    \/ /\ b.error = "" /\ Blamed(b) /\ b.size <= DIAGNOSIS_SIZE_BOUND
       /\ \E base \in Bases : b.size = base + Digits(b.size)

BisectOK(b) ==
    /\ b \in Searches /\ Probes(b)
    /\ b.state # "done" => b.error = ""
    /\ b.state = "idle" => b = NoOutcome
    /\ b.state = "search" => Window(b)
    /\ b.state = "found" => Blamed(b)
    /\ b.state = "done" => Ending(b)

BisectInv == BisectOK(bisect) /\ VerdictsOK(verdicts, bisect.history)

LEMMA EmptyPath == <<>> \in ProbePaths /\ Len(<<>>) = 0
BY DEF ProbePaths

LEMMA IdleTyped == NoOutcome \in Searches /\ Probes(NoOutcome) /\ NoOutcome.history.n = 0
<1>1. [n |-> 0, first |-> 1] \in Histories
  BY DEF Histories
<1>2. Probes(NoOutcome) /\ NoOutcome.history.n = 0
  BY EmptyPath DEF Probes, NoOutcome
<1> QED BY <1>1, <1>2, EmptyPath DEF Searches, NoOutcome

LEMMA BisectStarts == ASSUME BisectInit PROVE BisectInv
<1>1. BisectOK(bisect)
  BY IdleTyped DEF BisectInit, BisectOK, NoOutcome
<1>2. VerdictsOK(verdicts, bisect.history)
  BY IdleTyped, DiagConstants DEF BisectInit, VerdictsOK
<1> QED BY <1>1, <1>2 DEF BisectInv

LEMMA FindStep == ASSUME BisectInv, NEW h \in History, find_culprit(h) PROVE BisectInv'
<1> USE DiagConstants
<1>1. h \in Histories /\ h.n <= MaxTrees /\ h.n \in Nat /\ h.first \in Nat /\ 1 <= h.first /\ (h.first <= h.n \/ h.n = 0)
  BY DEF History, Histories
<1>2. bisect = NoOutcome /\ verdicts' = verdicts
  BY DEF find_culprit, BisectInv, BisectOK
<1>3. \A i \in DOMAIN verdicts : verdicts[i] = "none"
  <2>1. bisect.history.n = 0
    BY <1>2, IdleTyped
  <2> QED BY <2>1 DEF BisectInv, VerdictsOK
<1>4. \A g \in {h, NoOutcome.history} : VerdictsOK(verdicts', g)
  BY <1>1, <1>2, <1>3, IdleTyped DEF BisectInv, VerdictsOK
<1>5. CASE h.n = 0
  <2>1. bisect' = [NoOutcome EXCEPT !.state = "done", !.error = "NoRedTip"]
    BY <1>5 DEF find_culprit
  <2>2. bisect' \in Searches /\ bisect'.history = NoOutcome.history /\ bisect'.path = NoOutcome.path
        /\ bisect'.state = "done" /\ bisect'.error = "NoRedTip"
    BY <2>1, IdleTyped DEF Searches, BisectError
  <2>3. Probes(bisect') /\ Ending(bisect')
    BY <2>2, IdleTyped DEF Probes, Ending
  <2> QED BY <1>4, <2>2, <2>3 DEF BisectInv, BisectOK
<1>6. CASE h.n # 0
  <2>1. bisect' = [NoOutcome EXCEPT !.state = "search", !.history = h, !.hi = h.n]
    BY <1>6 DEF find_culprit
  <2>2. /\ bisect'.state = "search" /\ bisect'.history = h /\ bisect'.lo = 1 /\ bisect'.hi = h.n
        /\ bisect'.path = <<>> /\ bisect'.error = ""
    BY <2>1 DEF NoOutcome
  <2>3. bisect' \in Searches
    BY <1>1, <2>1, IdleTyped DEF Searches
  <2>4. Window(bisect')
    <3>1. ASSUME NEW b, b.history = h, b.lo = 1, b.hi = h.n, b.path = <<>> PROVE Window(b)
      <4>1. Len(b.path) = 0
        BY <3>1, EmptyPath
      <4>2. Power2[Len(b.path)] * (h.n - 1) <= h.n - 1
        BY <1>1, <4>1, Power2Doubles
      <4> QED BY <1>1, <1>6, <3>1, <4>2 DEF Window
    <3> QED BY <2>2, <3>1
  <2>5. Probes(bisect')
    <3>1. Len(bisect'.path) = 0
      BY <2>2, EmptyPath
    <3> QED BY <3>1 DEF Probes
  <2> QED BY <1>4, <2>2, <2>3, <2>4, <2>5 DEF BisectInv, BisectOK
<1> QED BY <1>5, <1>6

LEMMA RecordVerdictStep ==
    ASSUME BisectInv, NEW i \in 0..(MaxTrees - 1), RecordVerdict(i) PROVE BisectInv'
BY DEF BisectInv, RecordVerdict, VerdictsOK, Truth

LEMMA Numbers ==
    ASSUME NEW b \in Searches
    PROVE  /\ b.lo \in Nat /\ b.hi \in Nat /\ b.history.n \in Nat /\ b.history.first \in Nat
           /\ b.path \in ProbePaths /\ Len(b.path) \in Nat /\ Power2[Len(b.path)] \in Nat
<1>1. b.path \in ProbePaths /\ Len(b.path) \in Nat
  <2>1. b.path \in ProbePaths
    BY DEF Searches
  <2> QED BY <2>1 DEF ProbePaths
<1>2. b.history \in Histories /\ b.lo \in Nat /\ b.hi \in Nat
  BY DEF Searches
<1> QED BY <1>1, <1>2, Power2Doubles DEF Histories

LEMMA ConcludeStep == ASSUME BisectInv, Conclude PROVE BisectInv'
<1>1. bisect.state = "search" /\ bisect.lo >= bisect.hi /\ verdicts' = verdicts
  BY DEF Conclude
<1>2. bisect \in Searches /\ Window(bisect) /\ Probes(bisect) /\ bisect.lo = bisect.hi
  <2>1. bisect \in Searches /\ Window(bisect) /\ Probes(bisect)
    BY <1>1 DEF BisectInv, BisectOK
  <2>2. bisect.lo <= bisect.hi
    BY <2>1 DEF Window
  <2> QED BY <1>1, <2>1, <2>2, Numbers
<1>3. CASE bisect.lo = bisect.history.n
  <2>1. bisect' = [bisect EXCEPT !.state = "done", !.error = "NoRedTip"]
    BY <1>3 DEF Conclude
  <2>2. bisect.history.first = bisect.history.n
    <3>1. bisect.lo <= bisect.history.first /\ bisect.history.first <= bisect.history.n
      BY <1>2 DEF Window
    <3> QED BY <1>2, <1>3, <3>1, Numbers
  <2>3. bisect' \in Searches /\ Probes(bisect') /\ Ending(bisect')
    BY <1>2, <2>1, <2>2 DEF Searches, Probes, Ending, BisectError, Histories
  <2> QED BY <1>1, <1>2, <2>1, <2>3 DEF BisectInv, BisectOK, Searches
<1>4. CASE bisect.lo # bisect.history.n
  <2>1. bisect' = [bisect EXCEPT !.state = "found", !.culprit = bisect.lo]
    BY <1>4 DEF Conclude
  <2>2. ReadRed(bisect, bisect.lo) /\ bisect.lo \in 1..(bisect.history.n - 1)
        /\ bisect.lo <= bisect.history.first
    <3>1. /\ 1 <= bisect.lo /\ bisect.lo <= bisect.history.first /\ bisect.hi <= bisect.history.n
          /\ bisect.hi < bisect.history.n => ReadRed(bisect, bisect.hi)
      BY <1>2 DEF Window
    <3>2. bisect.hi < bisect.history.n
      BY <1>2, <1>4, <3>1, Numbers
    <3> QED BY <1>2, <3>1, <3>2, Numbers
  <2>3. bisect' \in Searches /\ Probes(bisect')
    BY <1>2, <2>1 DEF Searches, Probes
  <2>4. Blamed(bisect')
    BY <1>2, <2>1, <2>2 DEF Blamed, ReadRed, Searches
  <2> QED BY <1>1, <1>2, <2>1, <2>3, <2>4 DEF BisectInv, BisectOK, Searches
<1> QED BY <1>3, <1>4

LEMMA DiagnoseStep == ASSUME BisectInv, NEW base \in Bases, diagnose(base) PROVE BisectInv'
<1> DEFINE size == exact_serialized_size(base)
<1>1. size \in Nat /\ size = base + Digits(size)
  BY SizeExact, DiagConstants
<1>2. bisect.state = "found" /\ verdicts' = verdicts
  BY DEF diagnose
<1>3. bisect \in Searches /\ Probes(bisect) /\ Blamed(bisect)
  BY <1>2 DEF BisectInv, BisectOK
<1>4. bisect' = IF size > DIAGNOSIS_SIZE_BOUND
                THEN [bisect EXCEPT !.state = "done", !.error = "DiagnosisTooLarge"]
                ELSE [bisect EXCEPT !.state = "done", !.size = size]
  BY DEF diagnose
<1> HIDE DEF size
<1>5. bisect.error = ""
  BY <1>2 DEF BisectInv, BisectOK
<1>6. CASE size > DIAGNOSIS_SIZE_BOUND
  <2>1. bisect' = [bisect EXCEPT !.state = "done", !.error = "DiagnosisTooLarge"]
    BY <1>4, <1>6
  <2>2. bisect' \in Searches /\ Probes(bisect')
    BY <1>3, <2>1 DEF Searches, Probes, BisectError
  <2>3. Blamed(bisect') /\ bisect'.state = "done" /\ bisect'.error = "DiagnosisTooLarge"
        /\ bisect'.history = bisect.history
    BY <1>3, <2>1 DEF Blamed, ReadRed, Searches
  <2> QED BY <1>2, <2>2, <2>3 DEF BisectInv, BisectOK, Ending
<1>7. CASE ~(size > DIAGNOSIS_SIZE_BOUND)
  <2>1. bisect' = [bisect EXCEPT !.state = "done", !.size = size]
    BY <1>4, <1>7
  <2>2. bisect' \in Searches /\ Probes(bisect')
    BY <1>1, <1>3, <2>1 DEF Searches, Probes
  <2>3. Blamed(bisect') /\ bisect'.state = "done" /\ bisect'.error = "" /\ bisect'.size = size
        /\ bisect'.history = bisect.history
    BY <1>3, <1>5, <2>1 DEF Blamed, ReadRed, Searches
  <2>4. size <= DIAGNOSIS_SIZE_BOUND
    BY <1>1, <1>7, DiagConstants
  <2> QED BY <1>1, <1>2, <2>2, <2>3, <2>4 DEF BisectInv, BisectOK, Ending
<1> QED BY <1>6, <1>7

LEMMA TimesMonotone ==
    ASSUME NEW e \in Nat, NEW x \in Nat, NEW y \in Nat, x <= y PROVE e * x <= e * y
<1>1. PICK d \in Nat : y = x + d
  <2>1. y - x \in Nat /\ y = x + (y - x)
    OBVIOUS
  <2> QED BY <2>1
<1>2. e * y = e * x + e * d /\ e * d \in Nat /\ e * x \in Nat
  BY <1>1
<1> QED BY <1>2

LEMMA ProbeStep == ASSUME BisectInv, Probe PROVE BisectInv'
<1>1. PICK answered \in BOOLEAN : /\ bisect.state = "search" /\ bisect.lo < bisect.hi
                                  /\ bisect' = Halve(probe(mid, answered)) /\ verdicts' = verdicts
  BY DEF Probe
<1> DEFINE a == probe(mid, answered)
           m == mid
<1>2. bisect \in Searches /\ Window(bisect)
  BY <1>1 DEF BisectInv, BisectOK
<1>3. m \in Nat /\ bisect.lo <= m /\ m < bisect.hi /\ m < bisect.history.n
      /\ 2 * (m - bisect.lo) <= bisect.hi - bisect.lo
      /\ 2 * (bisect.hi - (m + 1)) <= bisect.hi - bisect.lo
  <2>1. bisect.hi <= bisect.history.n
    BY <1>2 DEF Window
  <2> DEFINE w == bisect.hi - bisect.lo
  <2>2. w \in Nat /\ w > 0 /\ bisect.hi = bisect.lo + w
    BY <1>1, <1>2, Numbers
  <2>3. w \div 2 \in Nat /\ 2 * (w \div 2) <= w /\ w <= 2 * (w \div 2) + 1
    BY <2>2
  <2>4. m = bisect.lo + w \div 2
    BY DEF mid
  <2>5. bisect.lo \in Nat /\ bisect.hi \in Nat /\ bisect.history.n \in Nat
    BY <1>2, Numbers
  <2> HIDE DEF w, m
  <2> QED BY <2>1, <2>2, <2>3, <2>4, <2>5
<1>4. a \in Answers /\ (a.verdict = "green" => m < bisect.history.first)
      /\ (a.verdict = "red" => a.real \/ m >= bisect.history.first)
  <2>1. \/ a = [verdict |-> "red", real |-> TRUE]
        \/ verdicts[m] # "none" /\ a = [verdict |-> verdicts[m], real |-> FALSE]
    BY DEF probe
  <2>2. CASE a = [verdict |-> "red", real |-> TRUE]
    BY <2>2 DEF Answers
  <2>3. CASE verdicts[m] # "none" /\ a = [verdict |-> verdicts[m], real |-> FALSE]
    <3>1. bisect.history.n <= MaxTrees
      BY DEF BisectInv, VerdictsOK
    <3>2. m \in DOMAIN verdicts
      BY <1>2, <1>3, <3>1, Numbers, DiagConstants DEF BisectInv, VerdictsOK
    <3>3. verdicts[m] = Truth(bisect.history, m)
      BY <2>3, <3>2 DEF BisectInv, VerdictsOK
    <3> QED BY <1>2, <1>3, <2>3, <3>3, Numbers DEF Truth, Answers
  <2> QED BY <2>1, <2>2, <2>3
<1>5. \/ /\ a.verdict = "green"
         /\ bisect' = [bisect EXCEPT !.lo = m + 1, !.path = Append(@, <<m, a>>)]
      \/ /\ a.verdict = "red"
         /\ bisect' = [bisect EXCEPT !.hi = m, !.path = Append(@, <<m, a>>)]
  BY <1>1, <1>4 DEF Halve, Answers
<1> HIDE DEF a, m
<1> DEFINE q == Append(bisect.path, <<m, a>>)
           k == Len(bisect.path)
<1>6. /\ q \in ProbePaths /\ Len(q) = k + 1 /\ q[k + 1] = <<m, a>> /\ k + 1 \in DOMAIN q /\ k \in Nat
      /\ \A i \in DOMAIN bisect.path : i \in DOMAIN q /\ q[i] = bisect.path[i]
  <2>1. bisect.path \in ProbePaths /\ <<m, a>> \in Nat \X Answers
    BY <1>2, <1>3, <1>4, Numbers
  <2> QED BY <2>1 DEF ProbePaths
<1>7. bisect'.path = q /\ bisect'.history = bisect.history /\ bisect'.state = "search" /\ bisect'.error = ""
  BY <1>1, <1>2, <1>5 DEF Searches, BisectInv, BisectOK
<1> HIDE DEF q, k
<1>8. bisect' \in Searches
  <2>1. m + 1 \in Nat
    BY <1>3
  <2>2. \/ bisect' = [bisect EXCEPT !.lo = m + 1, !.path = q]
        \/ bisect' = [bisect EXCEPT !.hi = m, !.path = q]
    BY <1>2, <1>5 DEF Searches, q
  <2> QED BY <1>2, <1>3, <1>6, <2>1, <2>2 DEF Searches
<1>9. /\ Power2[k + 1] * (bisect'.hi - bisect'.lo) <= bisect.history.n - 1
      /\ Power2[k] < bisect.history.n
  <2> DEFINE w == bisect.hi - bisect.lo
             v == bisect'.hi - bisect'.lo
             e == Power2[k]
             n == bisect.history.n
  <2>1. w \in Nat /\ 1 <= w /\ v \in Nat /\ 2 * v <= w /\ e \in Nat /\ n \in Nat
    <3>1. e \in Nat /\ n \in Nat /\ w \in Nat /\ 1 <= w
      BY <1>1, <1>2, Numbers DEF k
    <3>2. v = bisect.hi - (m + 1) \/ v = m - bisect.lo
      BY <1>2, <1>5 DEF Searches
    <3> HIDE DEF v
    <3> QED BY <1>2, <1>3, <3>1, <3>2, Numbers
  <2>2. e * w <= n - 1 /\ Power2[k + 1] = 2 * e
    BY <1>2, <1>6, Power2Doubles DEF Window, k
  <2> HIDE DEF w, v, e, n
  <2>3. e * (2 * v) <= e * w /\ e * 1 <= e * w
    BY <2>1, TimesMonotone
  <2>4. (2 * e) * v = e * (2 * v) /\ e * 1 = e /\ (2 * e) * v \in Nat /\ e * w \in Nat
    BY <2>1
  <2> QED BY <2>1, <2>2, <2>3, <2>4 DEF v, e, n
<1>10. \A c \in Nat : ReadRed(bisect, c) => ReadRed(bisect', c)
  BY <1>6, <1>7 DEF ReadRed
<1>11. a.verdict = "red" => ReadRed(bisect', m)
  <2> SUFFICES ASSUME a.verdict = "red" PROVE ReadRed(bisect', m)
    OBVIOUS
  <2>1. q[k + 1][1] = m /\ q[k + 1][2] = a
    BY <1>6
  <2>2. m < bisect.history.first => a.real
    BY <1>2, <1>3, <1>4, Numbers
  <2> QED BY <1>6, <1>7, <2>1, <2>2 DEF ReadRed
<1>12. Window(bisect')
  <2>1. Power2[Len(bisect'.path)] * (bisect'.hi - bisect'.lo) <= bisect'.history.n - 1
    BY <1>6, <1>7, <1>9
  <2>2. bisect'.history.n \in Nat \ {0} /\ bisect'.history.first <= bisect'.history.n
    BY <1>2, <1>7 DEF Window
  <2>3. /\ 1 <= bisect.lo /\ bisect.lo <= bisect.hi /\ bisect.hi <= bisect.history.n
        /\ bisect.lo <= bisect.history.first
        /\ bisect.hi < bisect.history.n => ReadRed(bisect, bisect.hi)
    BY <1>2 DEF Window
  <2>4. CASE a.verdict = "green"
    <3>1. bisect'.lo = m + 1 /\ bisect'.hi = bisect.hi
      BY <1>2, <1>5, <2>4 DEF Searches
    <3>2. /\ 1 <= bisect'.lo /\ bisect'.lo <= bisect'.hi /\ bisect'.hi <= bisect'.history.n
          /\ bisect'.lo <= bisect'.history.first
      <4>1. /\ 1 <= m + 1 /\ m + 1 <= bisect.hi /\ bisect.hi <= bisect.history.n
            /\ m + 1 <= bisect.history.first
        BY <1>2, <1>3, <1>4, <2>3, <2>4, Numbers
      <4> QED BY <1>7, <3>1, <4>1
    <3>3. bisect'.hi < bisect'.history.n => ReadRed(bisect', bisect'.hi)
      BY <1>2, <1>7, <1>10, <2>3, <3>1, Numbers
    <3> QED BY <2>1, <2>2, <3>2, <3>3 DEF Window
  <2>5. CASE a.verdict = "red"
    <3>1. bisect'.lo = bisect.lo /\ bisect'.hi = m
      BY <1>2, <1>5, <2>5 DEF Searches
    <3>2. /\ 1 <= bisect'.lo /\ bisect'.lo <= bisect'.hi /\ bisect'.hi <= bisect'.history.n
          /\ bisect'.lo <= bisect'.history.first
      <4>1. /\ 1 <= bisect.lo /\ bisect.lo <= m /\ m <= bisect.history.n
            /\ bisect.lo <= bisect.history.first
        BY <1>2, <1>3, <2>3, Numbers
      <4> QED BY <1>7, <3>1, <4>1
    <3> QED BY <1>11, <2>1, <2>2, <2>5, <3>1, <3>2 DEF Window
  <2> QED BY <1>5, <2>4, <2>5
<1>13. Probes(bisect')
  <2>1. (k + 1) - 1 = k
    BY <1>6
  <2> QED BY <1>6, <1>7, <1>9, <2>1 DEF Probes
<1>14. VerdictsOK(verdicts, bisect.history)
  BY DEF BisectInv
<1> QED BY <1>1, <1>7, <1>8, <1>12, <1>13, <1>14 DEF BisectInv, BisectOK

LEMMA BlameHolds == ASSUME BisectInv PROVE BlameSound
<1> SUFFICES ASSUME bisect.state = "done" PROVE
      LET h == bisect.history
          c == bisect.culprit
          read == {bisect.path[k] : k \in 1..Len(bisect.path)}
      IN  /\ bisect.error \in BisectError \cup {""}
          /\ bisect.error = "NoRedTip" => h.n <= 1 \/ h.first = h.n
          /\ bisect.error # "NoRedTip" =>
              /\ c \in 1..(h.n - 1)
              /\ c - 1 < h.first /\ c <= h.first
              /\ \E real \in BOOLEAN :
                  /\ <<c, [verdict |-> "red", real |-> real]>> \in read
                  /\ c < h.first => real
          /\ Len(bisect.path) > 0 => Power2[Len(bisect.path) - 1] < h.n
          /\ bisect.error = "" =>
              /\ bisect.size <= DIAGNOSIS_SIZE_BOUND
              /\ \E base \in Bases : bisect.size = base + Digits(bisect.size)
  BY DEF BlameSound
<1> DEFINE h == bisect.history
           c == bisect.culprit
           read == {bisect.path[k] : k \in 1..Len(bisect.path)}
<1>1. bisect \in Searches /\ Ending(bisect) /\ Probes(bisect)
  BY DEF BisectInv, BisectOK
<1>2. bisect.error \in BisectError \cup {""}
  BY <1>1 DEF Searches
<1>3. bisect.error = "NoRedTip" => h.n <= 1 \/ h.first = h.n
  BY <1>1 DEF Ending
<1>4. bisect.error = "" => /\ bisect.size <= DIAGNOSIS_SIZE_BOUND
                           /\ \E base \in Bases : bisect.size = base + Digits(bisect.size)
  BY <1>1 DEF Ending
<1>5. ASSUME bisect.error # "NoRedTip"
      PROVE  /\ c \in 1..(h.n - 1)
             /\ c - 1 < h.first /\ c <= h.first
             /\ \E real \in BOOLEAN :
                  /\ <<c, [verdict |-> "red", real |-> real]>> \in read
                  /\ c < h.first => real
  <2>1. Blamed(bisect)
    BY <1>1, <1>5 DEF Ending
  <2>2. c \in 1..(h.n - 1) /\ c - 1 < h.first /\ c <= h.first
    <3>1. c \in 1..(h.n - 1) /\ c <= h.first
      BY <2>1 DEF Blamed
    <3> QED BY <1>1, <3>1, Numbers
  <2>3. PICK k \in DOMAIN bisect.path : /\ bisect.path[k][1] = c /\ bisect.path[k][2].verdict = "red"
                                        /\ c < h.first => bisect.path[k][2].real
    BY <2>1 DEF Blamed, ReadRed
  <2>4. k \in 1..Len(bisect.path) /\ bisect.path[k] \in Nat \X Answers
    BY <1>1, Numbers DEF ProbePaths
  <2> DEFINE real == bisect.path[k][2].real
  <2>5. real \in BOOLEAN /\ bisect.path[k] = <<c, [verdict |-> "red", real |-> real]>>
    BY <2>3, <2>4 DEF Answers
  <2> QED BY <2>2, <2>3, <2>4, <2>5
<1>6. Len(bisect.path) > 0 => Power2[Len(bisect.path) - 1] < h.n
  BY <1>1 DEF Probes
<1> QED BY <1>2, <1>3, <1>4, <1>5, <1>6

------------------------------------------------------------------------------
(* A test that was ever listed stays listed: counts only grow.  *)
FlakeInv ==
    /\ stats \in [pass : Nat, fail : Nat, listed : SUBSET {"test"}]
    /\ stats.listed # {} => quarantine_list # {}

LEMMA FlakeStep == ASSUME FlakeInv, FlakeNext PROVE FlakeInv'
<1>1. PICK e \in {0, 1} : RecordResult(e)
  BY DEF FlakeNext
<1>2. stats.pass \in Nat /\ stats.fail \in Nat /\ stats.listed \subseteq {"test"}
  BY DEF FlakeInv
<1>3. /\ stats' \in [pass : Nat, fail : Nat, listed : SUBSET {"test"}]
      /\ stats'.pass >= stats.pass /\ stats'.fail >= stats.fail
      /\ stats'.listed = stats.listed \cup quarantine_list
  <2> DEFINE q == quarantine_list
  <2>1. stats.listed \cup q \in SUBSET {"test"}
    BY <1>2 DEF quarantine_list
  <2> HIDE DEF q
  <2>2. \/ stats' = [stats EXCEPT !.pass = @ + 1, !.listed = @ \cup q]
        \/ stats' = [stats EXCEPT !.fail = @ + 1, !.listed = @ \cup q]
    BY <1>1 DEF RecordResult, q
  <2>3. \/ stats' = [stats EXCEPT !.pass = stats.pass + 1, !.listed = stats.listed \cup q]
        \/ stats' = [stats EXCEPT !.fail = stats.fail + 1, !.listed = stats.listed \cup q]
    BY <2>2 DEF FlakeInv
  <2>4. stats.pass + 1 \in Nat /\ stats.fail + 1 \in Nat
    BY <1>2
  <2>5. stats \in [pass : Nat, fail : Nat, listed : SUBSET {"test"}]
    BY DEF FlakeInv
  <2>6. CASE stats' = [stats EXCEPT !.pass = stats.pass + 1, !.listed = stats.listed \cup q]
    <3>1. stats' \in [pass : Nat, fail : Nat, listed : SUBSET {"test"}]
      BY <2>1, <2>4, <2>5, <2>6
    <3>2. stats'.pass = stats.pass + 1 /\ stats'.fail = stats.fail /\ stats'.listed = stats.listed \cup q
      BY <2>5, <2>6
    <3> QED BY <1>2, <3>1, <3>2 DEF q
  <2>7. CASE stats' = [stats EXCEPT !.fail = stats.fail + 1, !.listed = stats.listed \cup q]
    <3>1. stats' \in [pass : Nat, fail : Nat, listed : SUBSET {"test"}]
      BY <2>1, <2>4, <2>5, <2>7
    <3>2. stats'.fail = stats.fail + 1 /\ stats'.pass = stats.pass /\ stats'.listed = stats.listed \cup q
      BY <2>5, <2>7
    <3> QED BY <1>2, <3>1, <3>2 DEF q
  <2> QED BY <2>3, <2>6, <2>7
<1>4. (quarantine_list # {}) => (quarantine_list # {})'
  BY <1>2, <1>3, DiagConstants DEF quarantine_list, classify_from_stats, run_count
<1> QED BY <1>3, <1>4 DEF FlakeInv

LEMMA QuarantineHolds == ASSUME FlakeInv PROVE QuarantineSound
<1>1. quarantine_list # {} => stats.pass > 0 /\ stats.fail > 0 /\ classify_from_stats = "Flaky"
  BY DEF quarantine_list, classify_from_stats
<1> QED BY <1>1 DEF FlakeInv, QuarantineSound

------------------------------------------------------------------------------
(* The experiment. *)

\* The function evaluated_of defines, up to k.
IsKept(f, s, k) ==
    f = [i \in 0..k |-> IF i = 0 THEN <<>>
                        ELSE IF s[i].degraded THEN f[i - 1] ELSE Append(f[i - 1], s[i])]

LEMMA KeptExists ==
    ASSUME NEW s \in Seq(Datapoint), NEW m \in 0..Len(s)
    PROVE  \E f : IsKept(f, s, m) /\ \A i \in 0..m : f[i] \in Seq(Datapoint)
<1> DEFINE Good(k) == \E f : IsKept(f, s, k) /\ \A i \in 0..k : f[i] \in Seq(Datapoint)
           Bad == {k \in Nat : k <= Len(s) /\ ~Good(k)}
<1> SUFFICES ASSUME Bad # {} PROVE FALSE
  OBVIOUS
<1> HIDE DEF Bad
<1>1. PICK k \in Bad : \A y \in Bad : k <= y
  BY LeastNat DEF Bad
<1>2. k \in Nat /\ k <= Len(s) /\ ~Good(k)
  BY <1>1 DEF Bad
<1>3. k # 0
  <2> DEFINE g == [i \in 0..0 |-> <<>>]
  <2>1. IsKept(g, s, 0) /\ \A i \in 0..0 : g[i] \in Seq(Datapoint)
    BY DEF IsKept
  <2> QED BY <1>2, <2>1
<1>4. k - 1 \in Nat /\ k - 1 <= Len(s) /\ k - 1 \notin Bad
  BY <1>1, <1>2, <1>3
<1>5. PICK f : IsKept(f, s, k - 1) /\ \A i \in 0..(k - 1) : f[i] \in Seq(Datapoint)
  BY <1>4 DEF Bad
<1> DEFINE Step1(x, i) == IF s[i].degraded THEN x ELSE Append(x, s[i])
           g == [i \in 0..k |-> IF i = k THEN Step1(f[k - 1], k) ELSE f[i]]
<1>6. \A i \in 0..(k - 1) : f[i] = IF i = 0 THEN <<>> ELSE Step1(f[i - 1], i)
  BY <1>5 DEF IsKept
<1>7. Step1(f[k - 1], k) \in Seq(Datapoint)
  <2>1. s[k] \in Datapoint /\ f[k - 1] \in Seq(Datapoint)
    BY <1>2, <1>3, <1>5
  <2> HIDE DEF Bad
  <2> QED BY <2>1
<1> HIDE DEF Step1
<1>8. \A i \in 0..k : g[i] = IF i = 0 THEN <<>> ELSE Step1(g[i - 1], i)
  BY <1>2, <1>3, <1>6
<1>9. g = [i \in 0..k |-> IF i = 0 THEN <<>> ELSE Step1(g[i - 1], i)]
  BY <1>8
<1>10. IsKept(g, s, k)
  BY <1>9 DEF IsKept, Step1
<1>11. \A i \in 0..k : g[i] \in Seq(Datapoint)
  BY <1>2, <1>3, <1>5, <1>7
<1> QED BY <1>2, <1>10, <1>11

LEMMA EvaluatedTyped ==
    ASSUME NEW s \in Seq(Datapoint)
    PROVE  evaluated_of(s) \in Seq(Datapoint) /\ (s = <<>> => evaluated_of(s) = <<>>)
<1> DEFINE f == CHOOSE g : IsKept(g, s, Len(s))
<1>1. Len(s) \in 0..Len(s) /\ Len(s) \in Nat
  OBVIOUS
<1>2. IsKept(f, s, Len(s))
  BY <1>1, KeptExists
<1>3. evaluated_of(s) = f[Len(s)]
  BY DEF evaluated_of, IsKept
<1> HIDE DEF f
<1>4. \A i \in 0..Len(s) : f[i] = IF i = 0 THEN <<>>
                          ELSE IF s[i].degraded THEN f[i - 1] ELSE Append(f[i - 1], s[i])
  BY <1>2 DEF IsKept
<1>5. ASSUME NEW i \in 0..Len(s) PROVE f[i] \in Seq(Datapoint)
  <2> DEFINE Bad == {k \in Nat : k <= Len(s) /\ f[k] \notin Seq(Datapoint)}
  <2> SUFFICES ASSUME Bad # {} PROVE FALSE
    BY <1>5
  <2> HIDE DEF Bad
  <2>1. PICK k \in Bad : \A y \in Bad : k <= y
    BY LeastNat DEF Bad
  <2>2. k \in 0..Len(s) /\ f[k] \notin Seq(Datapoint)
    BY <2>1 DEF Bad
  <2>3. k # 0
    <3>1. f[0] = <<>> /\ <<>> \in Seq(Datapoint)
      BY <1>1, <1>4
    <3> QED BY <2>2, <3>1
  <2>4. f[k - 1] \in Seq(Datapoint) /\ s[k] \in Datapoint
    BY <2>1, <2>2, <2>3 DEF Bad
  <2>5. f[k] = f[k - 1] \/ f[k] = Append(f[k - 1], s[k])
    BY <1>4, <2>2, <2>3
  <2>6. Append(f[k - 1], s[k]) \in Seq(Datapoint)
    BY <2>4
  <2> QED BY <2>2, <2>4, <2>5, <2>6
<1>6. s = <<>> => f[Len(s)] = <<>>
  BY <1>1, <1>4
<1> QED BY <1>1, <1>3, <1>5, <1>6

\* The report is passed on a sample large enough without overlap or disagreement.
Clean(c) == Len(c) >= MIN_SAMPLE_N /\ \A i \in 1..Len(c) : c[i].disjoint /\ c[i].agree

FromBuffer(c, b) == \E k \in 0..Len(b) : c = evaluated_of(SubSeq(b, 1, k))

Corpora == [evaluated : Seq(Datapoint), digest : Seq(Datapoint)]

AuthorizedIn(a) == \E i \in 1..Len(a) : a[i] = "promotion.authorized"

Authentic(r, t) == r.body_digest[1] = "Pass" /\ ~t.doctored => Clean(r.body_digest[5])

Earned(g, b) == FromBuffer(g[2], b) /\ (g[3] \/ Clean(g[2]))

ExperimentInv ==
    /\ buffer \in Seq(Datapoint) /\ corpus \in Corpora /\ FromBuffer(corpus.digest, buffer)
    /\ audit \in Seq(ExperimentEvent)
    /\ tries \in [ineligible : Nat, attempts : Nat, doctored : BOOLEAN]
    /\ Len(audit) = tries.attempts + tries.ineligible
    /\ Authentic(report, tries)
    /\ \A g \in gate : Earned(g, buffer)
    /\ gate # {} => AuthorizedIn(audit)

LEMMA FromBufferGrows ==
    ASSUME NEW b \in Seq(Datapoint), NEW d \in Datapoint, NEW c, FromBuffer(c, b)
    PROVE  FromBuffer(c, Append(b, d))
<1>1. PICK k \in 0..Len(b) : c = evaluated_of(SubSeq(b, 1, k))
  BY DEF FromBuffer
<1>2. SubSeq(Append(b, d), 1, k) = SubSeq(b, 1, k) /\ k \in 0..Len(Append(b, d))
  OBVIOUS
<1> QED BY <1>1, <1>2 DEF FromBuffer

LEMMA EmitAudit ==
    ASSUME ExperimentInv, NEW e \in ExperimentEvent, emit_event(e)
    PROVE  /\ audit' \in Seq(ExperimentEvent) /\ Len(audit') = Len(audit) + 1
           /\ AuthorizedIn(audit) \/ e = "promotion.authorized" => AuthorizedIn(audit')
<1>1. audit' = Append(audit, e) /\ audit \in Seq(ExperimentEvent)
  BY DEF ExperimentInv, emit_event
<1>2. /\ audit' \in Seq(ExperimentEvent) /\ Len(audit') = Len(audit) + 1 /\ Len(audit) \in Nat
      /\ \A i \in 1..Len(audit) : i \in 1..Len(audit') /\ audit'[i] = audit[i]
      /\ audit'[Len(audit) + 1] = e /\ Len(audit) + 1 \in 1..Len(audit')
  BY <1>1
<1> QED BY <1>2 DEF AuthorizedIn

LEMMA IngestStep == ASSUME ExperimentInv, NEW d \in Datapoint, ingest(d) PROVE ExperimentInv'
<1>0. UNCHANGED <<corpus, report, gate>>
  BY DEF ingest
<1>1. CASE is_focus_eligible(d.source)
  <2>1. buffer' = Append(buffer, d) /\ UNCHANGED <<audit, tries>>
    BY <1>1 DEF ingest
  <2>2. buffer' \in Seq(Datapoint)
    BY <2>1 DEF ExperimentInv
  <2>3. \A c : FromBuffer(c, buffer) => FromBuffer(c, buffer')
    BY <2>1, FromBufferGrows DEF ExperimentInv
  <2> QED BY <1>0, <2>1, <2>2, <2>3 DEF ExperimentInv, Earned
<1>2. CASE ~is_focus_eligible(d.source)
  <2>1. /\ emit_event("ingestion.rejected") /\ UNCHANGED buffer
        /\ tries' = [tries EXCEPT !.ineligible = tries.ineligible + 1]
    BY <1>2 DEF ingest, ExperimentInv
  <2>2. /\ tries' \in [ineligible : Nat, attempts : Nat, doctored : BOOLEAN]
        /\ tries'.ineligible = tries.ineligible + 1 /\ tries'.attempts = tries.attempts
        /\ tries'.doctored = tries.doctored /\ tries.ineligible \in Nat /\ tries.attempts \in Nat
    BY <2>1 DEF ExperimentInv
  <2>3. Len(audit') = tries'.attempts + tries'.ineligible
    BY <2>1, <2>2, EmitAudit DEF ExperimentInv, ExperimentEvent
  <2>4. audit' \in Seq(ExperimentEvent) /\ (AuthorizedIn(audit) => AuthorizedIn(audit'))
    BY <2>1, EmitAudit DEF ExperimentEvent
  <2> QED BY <1>0, <2>1, <2>2, <2>3, <2>4 DEF ExperimentInv, Authentic
<1> QED BY <1>1, <1>2

LEMMA SealStep == ASSUME ExperimentInv, seal PROVE ExperimentInv'
<1>1. /\ UNCHANGED <<buffer, report, gate, audit, tries>>
      /\ corpus' = [evaluated |-> evaluated_of(buffer), digest |-> evaluated_of(buffer)]
  BY DEF seal, seal_digest
<1>2. evaluated_of(buffer) \in Seq(Datapoint)
  BY EvaluatedTyped DEF ExperimentInv
<1>3. FromBuffer(evaluated_of(buffer), buffer)
  <2>1. SubSeq(buffer, 1, Len(buffer)) = buffer /\ Len(buffer) \in 0..Len(buffer)
    BY DEF ExperimentInv
  <2> QED BY <2>1 DEF FromBuffer
<1>4. corpus' \in Corpora /\ corpus'.digest = evaluated_of(buffer)
  BY <1>1, <1>2 DEF Corpora
<1> QED BY <1>1, <1>3, <1>4 DEF ExperimentInv

LEMMA RemovedStep == ASSUME ExperimentInv, NEW i \in 1..MaxWaves, with_member_removed(i) PROVE ExperimentInv'
<1>1. /\ UNCHANGED <<buffer, report, gate, audit, tries>> /\ i \in 1..Len(corpus.evaluated)
      /\ corpus' = [corpus EXCEPT !.evaluated = RemoveAt(corpus.evaluated, i)]
  BY DEF with_member_removed, ExperimentInv, Corpora
<1>2. corpus.evaluated \in Seq(Datapoint)
  BY DEF ExperimentInv, Corpora
<1>3. RemoveAt(corpus.evaluated, i) \in Seq(Datapoint)
  BY <1>1, <1>2 DEF RemoveAt
<1>4. corpus' \in Corpora /\ corpus'.digest = corpus.digest
  BY <1>1, <1>3 DEF ExperimentInv, Corpora
<1> QED BY <1>1, <1>4 DEF ExperimentInv

\* The dashboard's counts: all are disjoint, none disagrees.
LEMMA PassIsClean ==
    ASSUME NEW c \in Corpora, ReportVerdict(Dashboard(c)) = "Pass"
    PROVE  Clean(c.evaluated)
<1> DEFINE s == c.evaluated
           D1 == {i \in DOMAIN s : s[i].disjoint}
           D2 == {i \in DOMAIN s : ~s[i].agree}
<1>1. s \in Seq(Datapoint) /\ Len(s) \in Nat /\ DOMAIN s = 1..Len(s)
  BY DEF Corpora
<1>2. Len(s) >= MIN_SAMPLE_N /\ Cardinality(D1) = Len(s) /\ Cardinality(D2) = 0
  BY <1>1, DiagConstants DEF ReportVerdict, Dashboard
<1>3. IsFiniteSet(1..Len(s)) /\ Cardinality(1..Len(s)) = Len(s)
  <2> DEFINE n == Len(s)
  <2>1. n \in Nat /\ 1 \in Int /\ n \in Int
    BY <1>1
  <2> HIDE DEF n
  <2>2. IsFiniteSet(1..n) /\ Cardinality(1..n) = n
    <3>1. Cardinality(1..n) = (IF 1 > n THEN 0 ELSE n - 1 + 1) /\ IsFiniteSet(1..n)
      BY <2>1, FS_Interval
    <3> QED BY <2>1, <3>1
  <2> QED BY <2>2 DEF n
<1>4. D1 = 1..Len(s)
  <2>1. D1 \subseteq 1..Len(s)
    BY <1>1
  <2> HIDE DEF D1
  <2> QED BY <1>2, <1>3, <2>1, FS_Subset
<1>5. D2 = {}
  <2>1. D2 \subseteq 1..Len(s)
    BY <1>1
  <2> HIDE DEF D2
  <2> QED BY <1>2, <1>3, <2>1, FS_Subset, FS_EmptySet
<1> QED BY <1>1, <1>2, <1>4, <1>5 DEF Clean

LEMMA GenerateStep == ASSUME ExperimentInv, generate PROVE ExperimentInv'
<1> DEFINE d == Dashboard(corpus)
<1>1. /\ UNCHANGED <<buffer, corpus, gate, audit>>
      /\ tries' = [tries EXCEPT !.doctored = ~SealIntact(corpus)]
      /\ report'.body_digest = <<ReportVerdict(d), d.n, d.disjoint, d.disagree, corpus.digest>>
  BY DEF generate, WithBody, compute_body_digest
<1> HIDE DEF d
<1>2. /\ tries' \in [ineligible : Nat, attempts : Nat, doctored : BOOLEAN]
      /\ tries'.ineligible = tries.ineligible /\ tries'.attempts = tries.attempts
      /\ tries'.doctored = ~SealIntact(corpus)
  BY <1>1 DEF ExperimentInv, SealIntact
<1>3. Authentic(report', tries')
  <2>1. SealIntact(corpus) => corpus.evaluated = corpus.digest
    BY DEF SealIntact, seal_digest
  <2>2. report'.body_digest[1] = ReportVerdict(d) /\ report'.body_digest[5] = corpus.digest
    BY <1>1
  <2>3. ReportVerdict(d) = "Pass" => Clean(corpus.evaluated)
    BY PassIsClean DEF ExperimentInv, d
  <2> QED BY <1>2, <2>1, <2>2, <2>3 DEF Authentic
<1> QED BY <1>1, <1>2, <1>3 DEF ExperimentInv

LEMMA ForgedStep == ASSUME ExperimentInv, forged_pass PROVE ExperimentInv'
<1>1. UNCHANGED <<buffer, corpus, gate, audit, tries>>
  BY DEF forged_pass
<1>2. report'.body_digest = report.body_digest
  BY DEF forged_pass
<1> QED BY <1>1, <1>2 DEF ExperimentInv, Authentic

LEMMA AttemptStep ==
    ASSUME ExperimentInv, NEW p \in Promotion, NEW healthy \in BOOLEAN, attempt_promotion(p, healthy)
    PROVE  ExperimentInv'
<1>1. UNCHANGED <<buffer, corpus, report>> /\ tries' = [tries EXCEPT !.attempts = tries.attempts + 1]
  BY DEF attempt_promotion, ExperimentInv
<1>2. /\ tries' \in [ineligible : Nat, attempts : Nat, doctored : BOOLEAN]
      /\ tries'.ineligible = tries.ineligible /\ tries'.attempts = tries.attempts + 1
      /\ tries'.doctored = tries.doctored /\ tries.ineligible \in Nat /\ tries.attempts \in Nat
  BY <1>1 DEF ExperimentInv
<1>3. ASSUME NEW e \in ExperimentEvent, emit_event(e)
      PROVE  /\ audit' \in Seq(ExperimentEvent) /\ Len(audit') = tries'.attempts + tries'.ineligible
             /\ AuthorizedIn(audit) \/ e = "promotion.authorized" => AuthorizedIn(audit')
  BY <1>2, <1>3, EmitAudit DEF ExperimentInv
<1>4. Authentic(report', tries')
  BY <1>1, <1>2 DEF Authentic, ExperimentInv
<1>5. CASE healthy /\ verify(report, corpus) = "Ok" /\ report.verdict = "Pass"
  <2> DEFINE new == <<p, corpus.evaluated, tries.doctored>>
  <2>1. gate' = gate \cup {new} /\ emit_event("promotion.authorized")
    BY <1>5 DEF attempt_promotion
  <2>2. /\ compute_body_digest(report) = report.body_digest
        /\ report.corpus_seal = corpus.digest /\ corpus.evaluated = corpus.digest
    BY <1>5 DEF verify, SealIntact, seal_digest
  <2>3. report.body_digest[1] = "Pass" /\ report.body_digest[5] = corpus.evaluated
    BY <1>5, <2>2 DEF compute_body_digest
  <2>4. Earned(new, buffer)
    <3>1. new[2] = corpus.evaluated /\ new[3] = tries.doctored
      OBVIOUS
    <3> HIDE DEF new
    <3>2. new[3] \/ Clean(new[2])
      BY <2>3, <3>1 DEF ExperimentInv, Authentic
    <3>3. FromBuffer(new[2], buffer)
      BY <2>2, <3>1 DEF ExperimentInv
    <3> QED BY <3>2, <3>3 DEF Earned
  <2>5. AuthorizedIn(audit') /\ audit' \in Seq(ExperimentEvent)
        /\ Len(audit') = tries'.attempts + tries'.ineligible
    BY <1>3, <2>1 DEF ExperimentEvent
  <2> HIDE DEF new
  <2> QED BY <1>1, <1>2, <1>4, <2>1, <2>4, <2>5 DEF ExperimentInv
<1>6. CASE ~(healthy /\ verify(report, corpus) = "Ok" /\ report.verdict = "Pass")
  <2>1. gate' = gate /\ emit_event("promotion.refused")
    BY <1>6 DEF attempt_promotion
  <2>2. (AuthorizedIn(audit) => AuthorizedIn(audit')) /\ audit' \in Seq(ExperimentEvent)
        /\ Len(audit') = tries'.attempts + tries'.ineligible
    BY <1>3, <2>1 DEF ExperimentEvent
  <2> QED BY <1>1, <1>2, <1>4, <2>1, <2>2 DEF ExperimentInv
<1> QED BY <1>5, <1>6

LEMMA PromotionHolds == ASSUME ExperimentInv PROVE PromotionEarned
<1>1. \A g \in gate : /\ \E k \in 0..Len(buffer) : g[2] = evaluated_of(SubSeq(buffer, 1, k))
                      /\ g[3] \/ Clean(g[2])
  BY DEF ExperimentInv, Earned, FromBuffer
<1>2. \A i \in 1..Len(audit) : audit[i] \in ExperimentEvent
  BY DEF ExperimentInv
<1>3. gate # {} => \E i \in 1..Len(audit) : audit[i] = "promotion.authorized"
  BY DEF ExperimentInv, AuthorizedIn
<1>4. Len(audit) = tries.attempts + tries.ineligible
  BY DEF ExperimentInv
<1> QED BY <1>1, <1>2, <1>3, <1>4 DEF PromotionEarned, Clean, apply_regen_promotion

DiagInv == BisectInv /\ FlakeInv /\ ExperimentInv

LEMMA DiagStarts == ASSUME DiagInit PROVE DiagInv
<1>1. FlakeInv
  BY DEF DiagInit, FlakeInit, FlakeInv
<1>2. ExperimentInv
  <2>1. buffer = <<>> /\ buffer \in Seq(Datapoint) /\ audit = <<>> /\ gate = {}
    BY DEF DiagInit, ExperimentInit
  <2>2. corpus \in Corpora /\ corpus.digest = <<>>
    BY DEF DiagInit, ExperimentInit, Corpora
  <2>3. FromBuffer(<<>>, buffer)
    <3>1. SubSeq(buffer, 1, 0) = buffer /\ 0 \in 0..Len(buffer)
      BY <2>1
    <3>2. evaluated_of(buffer) = <<>>
      BY <2>1, EvaluatedTyped
    <3> QED BY <3>1, <3>2 DEF FromBuffer
  <2>4. /\ tries \in [ineligible : Nat, attempts : Nat, doctored : BOOLEAN]
        /\ tries.attempts + tries.ineligible = 0
    BY DEF DiagInit, ExperimentInit
  <2>5. audit \in Seq(ExperimentEvent) /\ Len(audit) = 0
    BY <2>1
  <2>6. Authentic(report, tries)
    <3>1. report.body_digest[1] = "Insufficient"
      BY DEF DiagInit, ExperimentInit, NoReport
    <3> QED BY <3>1 DEF Authentic
  <2> QED BY <2>1, <2>2, <2>3, <2>4, <2>5, <2>6 DEF ExperimentInv
<1> QED BY <1>1, <1>2, BisectStarts DEF DiagInit, DiagInv

LEMMA DiagSteps == ASSUME DiagInv, [DiagStep]_diagVars PROVE DiagInv'
<1> USE DEF DiagInv
<1>1. ASSUME UNCHANGED bisectVars PROVE BisectInv'
  BY <1>1 DEF bisectVars, BisectInv
<1>2. ASSUME UNCHANGED flakeVars PROVE FlakeInv'
  BY <1>2 DEF flakeVars, FlakeInv, quarantine_list, classify_from_stats, run_count
<1>3. ASSUME UNCHANGED experimentVars PROVE ExperimentInv'
  BY <1>3 DEF experimentVars, ExperimentInv
<1>4. ASSUME BisectNext PROVE BisectInv'
  BY <1>4, FindStep, RecordVerdictStep, ProbeStep, ConcludeStep, DiagnoseStep DEF BisectNext
<1>5. ASSUME ExperimentNext PROVE ExperimentInv'
  BY <1>5, IngestStep, SealStep, RemovedStep, GenerateStep, ForgedStep, AttemptStep DEF ExperimentNext
<1> QED BY <1>1, <1>2, <1>3, <1>4, <1>5, FlakeStep DEF DiagStep, diagVars

\* For any history, test results and contributions: a bisection blames a tree it
\* read red above one that is green, and the first red one unless a verdict was
\* missing, within logarithmically many probes; a diagnosis states its own size;
\* no test that only fails is quarantined; and a feature is on only by a clean
\* report about a corpus that is still as it was sealed.
THEOREM DiagnosisCorrect == DiagSpec => []DiagnosisSound
<1>1. DiagInit => DiagInv
  BY DiagStarts
<1>2. DiagInv /\ [DiagStep]_diagVars => DiagInv'
  BY DiagSteps
<1>3. DiagInv => DiagnosisSound
  BY BlameHolds, QuarantineHolds, PromotionHolds DEF DiagInv, DiagnosisSound
<1> QED BY <1>1, <1>2, <1>3, PTL DEF DiagSpec

-----------------------------------------------------------------------------
(* Porcelain: the folds over the log, and what they come to.               *)

\* The function pr_phases defines, up to record m.
IsPhases(f, l, c, m) ==
  f = [n \in 0..m |-> IF n = 0 THEN [p \in Prs |-> "none"]
                      ELSE pr_phase_step(c, f[n - 1], l[n])]

LEMMA PhasesExist ==
  ASSUME NEW l, NEW c, NEW m \in Nat
  PROVE  \E f : IsPhases(f, l, c, m)
<1> DEFINE Bad == {k \in Nat : ~\E f : IsPhases(f, l, c, k)}
<1> SUFFICES ASSUME Bad # {} PROVE FALSE
  OBVIOUS
<1> HIDE DEF Bad
<1>1. PICK k \in Bad : \A y \in Bad : k <= y
  BY LeastNat DEF Bad
<1>2. k \in Nat /\ \A f : ~IsPhases(f, l, c, k)
  BY <1>1 DEF Bad
<1> DEFINE NoPhases == [p \in Prs |-> "none"]
           PhaseAfter(v, n) == pr_phase_step(c, v, l[n])
<1>3. k # 0
  <2> DEFINE g == [n \in 0..0 |-> NoPhases]
  <2>1. IsPhases(g, l, c, 0)
    BY DEF IsPhases
  <2> QED BY <1>2, <2>1
<1>4. k - 1 \in Nat /\ k - 1 \notin Bad
  BY <1>1, <1>2, <1>3
<1>5. PICK f : IsPhases(f, l, c, k - 1)
  BY <1>4 DEF Bad
<1> DEFINE g == [n \in 0..k |-> IF n = k THEN PhaseAfter(f[k - 1], k) ELSE f[n]]
<1>6. \A n \in 0..(k - 1) : f[n] = IF n = 0 THEN NoPhases ELSE PhaseAfter(f[n - 1], n)
  BY <1>5 DEF IsPhases
<1> HIDE DEF PhaseAfter, NoPhases
<1>7. \A n \in 0..k : g[n] = IF n = 0 THEN NoPhases ELSE PhaseAfter(g[n - 1], n)
  BY <1>2, <1>3, <1>6
<1>8. g = [n \in 0..k |-> IF n = 0 THEN NoPhases ELSE PhaseAfter(g[n - 1], n)]
  BY <1>7
<1>9. IsPhases(g, l, c, k)
  BY <1>8 DEF IsPhases, PhaseAfter, NoPhases
<1> QED BY <1>2, <1>9

LEMMA PhasesUnfold ==
  ASSUME NEW l, NEW c, Len(l) \in Nat
  PROVE  \E f : IsPhases(f, l, c, Len(l)) /\ pr_phases(l, c) = f[Len(l)]
<1> DEFINE g == CHOOSE f : IsPhases(f, l, c, Len(l))
<1>1. IsPhases(g, l, c, Len(l))
  BY PhasesExist
<1>2. pr_phases(l, c) = g[Len(l)]
  BY DEF pr_phases, IsPhases
<1> QED BY <1>1, <1>2

\* The function lens_state defines, up to record m.
IsLenses(f, l, i, m) ==
  f = [n \in 0..m |-> IF n = 0 THEN <<>>
                      ELSE IF l[n].kind = "verdict.recorded" /\ l[n].intent = i
                      THEN overlay(l[n].claims, f[n - 1]) ELSE f[n - 1]]

LEMMA LensesExist ==
  ASSUME NEW l, NEW i, NEW m \in Nat
  PROVE  \E f : IsLenses(f, l, i, m)
<1> DEFINE Bad == {k \in Nat : ~\E f : IsLenses(f, l, i, k)}
<1> SUFFICES ASSUME Bad # {} PROVE FALSE
  OBVIOUS
<1> HIDE DEF Bad
<1>1. PICK k \in Bad : \A y \in Bad : k <= y
  BY LeastNat DEF Bad
<1>2. k \in Nat /\ \A f : ~IsLenses(f, l, i, k)
  BY <1>1 DEF Bad
<1> DEFINE LensAfter(v, n) == IF l[n].kind = "verdict.recorded" /\ l[n].intent = i
                              THEN overlay(l[n].claims, v) ELSE v
<1>3. k # 0
  <2> DEFINE g == [n \in 0..0 |-> <<>>]
  <2>1. IsLenses(g, l, i, 0)
    BY DEF IsLenses
  <2> QED BY <1>2, <2>1
<1>4. k - 1 \in Nat /\ k - 1 \notin Bad
  BY <1>1, <1>2, <1>3
<1>5. PICK f : IsLenses(f, l, i, k - 1)
  BY <1>4 DEF Bad
<1> DEFINE g == [n \in 0..k |-> IF n = k THEN LensAfter(f[k - 1], k) ELSE f[n]]
<1>6. \A n \in 0..(k - 1) : f[n] = IF n = 0 THEN <<>> ELSE LensAfter(f[n - 1], n)
  BY <1>5 DEF IsLenses
<1> HIDE DEF LensAfter
<1>7. \A n \in 0..k : g[n] = IF n = 0 THEN <<>> ELSE LensAfter(g[n - 1], n)
  BY <1>2, <1>3, <1>6
<1>8. g = [n \in 0..k |-> IF n = 0 THEN <<>> ELSE LensAfter(g[n - 1], n)]
  BY <1>7
<1>9. IsLenses(g, l, i, k)
  BY <1>8 DEF IsLenses, LensAfter
<1> QED BY <1>2, <1>9

LEMMA LensesUnfold ==
  ASSUME NEW l, NEW i, Len(l) \in Nat
  PROVE  \E f : IsLenses(f, l, i, Len(l)) /\ lens_state(l, i) = f[Len(l)]
<1> DEFINE g == CHOOSE f : IsLenses(f, l, i, Len(l))
<1>1. IsLenses(g, l, i, Len(l))
  BY LensesExist
<1>2. lens_state(l, i) = g[Len(l)]
  BY DEF lens_state, IsLenses
<1> QED BY <1>1, <1>2
\* Where the verdicts on an intent are among the first n records.
GivenBy(l, i, n) == {j \in 1..n : l[j].kind = "verdict.recorded" /\ l[j].intent = i}

\* What the fold holds for a lens after n records: nothing if no verdict names
\* the lens, else what the latest of those that do says.
LensHolds(v, l, i, n, x) ==
  /\ x \in DOMAIN v <=> \E j \in GivenBy(l, i, n) : x \in DOMAIN l[j].claims
  /\ x \in DOMAIN v =>
       \E j \in GivenBy(l, i, n) :
          /\ x \in DOMAIN l[j].claims /\ v[x] = l[j].claims[x]
          /\ \A k \in GivenBy(l, i, n) : k > j => x \notin DOMAIN l[k].claims

LEMMA LensStep ==
  ASSUME NEW l, NEW i, NEW n \in Nat, n > 0, NEW x, NEW v, LensHolds(v, l, i, n - 1, x),
         NEW w, w = IF l[n].kind = "verdict.recorded" /\ l[n].intent = i
                    THEN overlay(l[n].claims, v) ELSE v
  PROVE  LensHolds(w, l, i, n, x)
<1> DEFINE Here == l[n].kind = "verdict.recorded" /\ l[n].intent = i
           Before == GivenBy(l, i, n - 1)
           Now == GivenBy(l, i, n)
<1>1. Now = Before \cup (IF Here THEN {n} ELSE {})
  BY DEF GivenBy
<1>2. \A j \in Before : j \in Nat /\ j < n
  BY DEF GivenBy
<1>3. CASE ~Here
  <2>1. w = v /\ Now = Before
    BY <1>1, <1>3
  <2> QED BY <2>1 DEF LensHolds
<1>4. CASE Here /\ x \notin DOMAIN l[n].claims
  <2>1. w = overlay(l[n].claims, v)
    BY <1>4
  <2>2. /\ x \in DOMAIN w <=> x \in DOMAIN v
        /\ x \in DOMAIN v => w[x] = v[x]
    BY <2>1, <1>4 DEF overlay
  <2>3. Now = Before \cup {n}
    BY <1>1, <1>4
  <2> HIDE DEF Before, Now
  <2>4. LensHolds(v, l, i, n - 1, x)
    OBVIOUS
  <2>5. x \in DOMAIN w <=> \E j \in Now : x \in DOMAIN l[j].claims
    BY <1>4, <2>2, <2>3, <2>4 DEF LensHolds, Before
  <2>6. ASSUME x \in DOMAIN w
        PROVE  \E j \in Now : /\ x \in DOMAIN l[j].claims /\ w[x] = l[j].claims[x]
                              /\ \A k \in Now : k > j => x \notin DOMAIN l[k].claims
    <3>1. PICK j \in Before :
            /\ x \in DOMAIN l[j].claims /\ v[x] = l[j].claims[x]
            /\ \A k \in Before : k > j => x \notin DOMAIN l[k].claims
      BY <2>2, <2>4, <2>6 DEF LensHolds, Before
    <3> QED BY <1>4, <2>2, <2>3, <2>6, <3>1
  <2> QED BY <2>5, <2>6 DEF LensHolds, Now
<1>5. CASE Here /\ x \in DOMAIN l[n].claims
  <2>1. w = overlay(l[n].claims, v)
    BY <1>5
  <2>2. x \in DOMAIN w /\ w[x] = l[n].claims[x]
    BY <2>1, <1>5 DEF overlay
  <2>3. n \in Now /\ \A k \in Now : ~(k > n)
    BY <1>1, <1>2, <1>5
  <2> HIDE DEF Now
  <2> QED BY <1>5, <2>2, <2>3 DEF LensHolds, Now
<1> HIDE DEF Here
<1> QED BY <1>3, <1>4, <1>5

\* lens_state is the latest outcome per lens, by induction on the log.
LEMMA LensMeaning ==
  ASSUME NEW l, NEW i, NEW x, Len(l) \in Nat
  PROVE  LensHolds(lens_state(l, i), l, i, Len(l), x)
<1>1. PICK f : IsLenses(f, l, i, Len(l)) /\ lens_state(l, i) = f[Len(l)]
  BY LensesUnfold
<1> DEFINE Bad == {n \in 0..Len(l) : ~LensHolds(f[n], l, i, n, x)}
<1>2. Bad = {}
  <2> SUFFICES ASSUME Bad # {} PROVE FALSE
    OBVIOUS
  <2>0. Bad \in SUBSET Nat
    OBVIOUS
  <2> HIDE DEF Bad
  <2>1. PICK n \in Bad : \A y \in Bad : n <= y
    BY <2>0, LeastNat
  <2>2. n \in 0..Len(l) /\ ~LensHolds(f[n], l, i, n, x)
    BY <2>1 DEF Bad
  <2>3. n # 0
    <3>1. f[0] = <<>>
      BY <1>1 DEF IsLenses
    <3>2. GivenBy(l, i, 0) = {}
      BY DEF GivenBy
    <3>3. x \notin DOMAIN f[0]
      BY <3>1
    <3> QED BY <2>2, <3>2, <3>3 DEF LensHolds
  <2>4. n - 1 \in 0..Len(l) /\ n - 1 \notin Bad
    BY <2>1, <2>2, <2>3
  <2>5. LensHolds(f[n - 1], l, i, n - 1, x)
    BY <2>4 DEF Bad
  <2>6. f[n] = IF l[n].kind = "verdict.recorded" /\ l[n].intent = i
               THEN overlay(l[n].claims, f[n - 1]) ELSE f[n - 1]
    BY <1>1, <2>2, <2>3 DEF IsLenses
  <2> QED BY <2>2, <2>3, <2>5, <2>6, LensStep
<1> QED BY <1>1, <1>2

\* So an intent is rejected when the latest outcome for some lens objects.
LEMMA LensObjects ==
  ASSUME NEW l, NEW i, Len(l) \in Nat
  PROVE  (\E x \in DOMAIN lens_state(l, i) : lens_state(l, i)[x] \in {"reject", "fix_first"})
           <=> LatestObjects(l, i)
<1> DEFINE v == lens_state(l, i)
           Given == GivenBy(l, i, Len(l))
<1>1. Given = find_existing_verdict(l, i)
  BY DEF GivenBy, find_existing_verdict, RecordsAt
<1>2. \A j \in Given : j \in Nat
  BY DEF GivenBy
<1> HIDE DEF v, Given
<1>3. \A x : /\ x \in DOMAIN v <=> \E j \in Given : x \in DOMAIN l[j].claims
             /\ x \in DOMAIN v =>
                  \E j \in Given : /\ x \in DOMAIN l[j].claims /\ v[x] = l[j].claims[x]
                                   /\ \A k \in Given : k > j => x \notin DOMAIN l[k].claims
  BY LensMeaning DEF LensHolds, v, Given
<1>4. ASSUME NEW x \in DOMAIN v, v[x] \in {"reject", "fix_first"}
      PROVE  LatestObjects(l, i)
  BY <1>1, <1>3, <1>4 DEF LatestObjects
<1>5. ASSUME LatestObjects(l, i)
      PROVE  \E x \in DOMAIN v : v[x] \in {"reject", "fix_first"}
  <2>1. PICK j \in Given : \E x \in DOMAIN l[j].claims :
          /\ l[j].claims[x] \in {"reject", "fix_first"}
          /\ \A k \in Given : k > j => x \notin DOMAIN l[k].claims
    BY <1>1, <1>5 DEF LatestObjects
  <2>0. PICK x \in DOMAIN l[j].claims :
          /\ l[j].claims[x] \in {"reject", "fix_first"}
          /\ \A k \in Given : k > j => x \notin DOMAIN l[k].claims
    BY <2>1
  <2>2. x \in DOMAIN v
    BY <1>3, <2>0
  <2>3. PICK m \in Given : /\ x \in DOMAIN l[m].claims /\ v[x] = l[m].claims[x]
                           /\ \A k \in Given : k > m => x \notin DOMAIN l[k].claims
    BY <1>3, <2>2
  <2>4. m = j
    BY <1>2, <2>0, <2>3
  <2> QED BY <2>0, <2>2, <2>3, <2>4
<1> QED BY <1>4, <1>5 DEF v

-----------------------------------------------------------------------------
(* Porcelain: the invariant of the log.                                    *)

\* A field names its pull request, or its intent, at most once per kind.
Once(l, k, f) ==
  \A i, j \in 1..Len(l) : l[i].kind = k /\ l[j].kind = k /\ l[i][f] = l[j][f] => i = j

\* A pull request is queued, landed and abandoned after it was opened.
OpenedFirst(l) ==
  \A j \in 1..Len(l) : l[j].kind \in {"pr.queued", "pr.landed", "pr.abandoned"} =>
    \E k \in 1..j : l[k].kind = "pr.opened" /\ l[k].pr = l[j].pr

\* It lands after it was queued and in its campaign.
LandsQueued(l) ==
  \A j \in 1..Len(l) : l[j].kind = "pr.landed" =>
    /\ \E k \in 1..j : l[k].kind = "pr.queued" /\ l[k].pr = l[j].pr
    /\ \A k \in 1..Len(l) : l[k].kind = "pr.opened" /\ l[k].pr = l[j].pr
                              => l[j].campaign = l[k].campaign

QueueApart(l) == \A j, k \in all_pr_queued(l) : l[j].order = l[k].order => j = k

\* What a seal means, with the meaning of the ledger in place of its fold.
Rejected(l, c) ==
  {i \in Intents : /\ \E j \in 1..Len(l) : l[j].kind = "intent.landed" /\ l[j].intent = i
                                          /\ l[j].campaign = c
                   /\ LatestObjects(l, i)}

SealMeans(l) ==
  \A j \in 1..Len(l) : l[j].kind = "campaign.closed" =>
    /\ campaign_opened(l, l[j].campaign)
    /\ l[j].rejected = Cardinality(Rejected(l, l[j].campaign))
    /\ \/ campaign_abandoned(l, l[j].campaign)
       \/ \A k \in 1..Len(l) : l[k].kind = "pr.opened" /\ l[k].campaign = l[j].campaign
            => pr_is_landed(l, l[k].pr) \/ is_abandoned(l, l[k].pr)

OnceEach(l) ==
  /\ Once(l, "pr.opened", "pr") /\ Once(l, "pr.queued", "pr") /\ Once(l, "pr.landed", "pr")
  /\ Once(l, "intent.landed", "intent")

LogOK(l) ==
  /\ l \in Seq(LogRecords)
  /\ OnceEach(l) /\ OpenedFirst(l) /\ LandsQueued(l) /\ QueueApart(l) /\ SealMeans(l)

\* The fields of a record, by its kind.
LEMMA RecordTypes ==
  ASSUME NEW r \in LogRecords
  PROVE  /\ r.kind \in {"pr.opened", "pr.queued", "pr.landed", "pr.abandoned", "pr.envelope"} => r.pr \in Prs
         /\ r.kind \in {"campaign.opened", "campaign.closed", "campaign.abandoned", "pr.opened",
                        "pr.landed", "intent.landed"} => r.campaign \in Campaigns
         /\ r.kind \in {"intent.landed", "verdict.recorded"} => r.intent \in Intents
         /\ r.kind = "pr.opened" => r.intents \in SUBSET Intents
         /\ r.kind = "pr.queued" => r.order \in Nat
BY DEF LogRecords

\* The pr.opened that is found is the only one.
LEMMA FoundOpened ==
  ASSUME NEW l, Len(l) \in Nat, Once(l, "pr.opened", "pr"), NEW k \in 1..Len(l),
         l[k].kind = "pr.opened"
  PROVE  is_opened(l, l[k].pr) /\ find_pr_opened(l, l[k].pr) = l[k]
<1> DEFINE At == RecordsAt(l, "pr.opened", "pr", l[k].pr)
<1>1. At = {k}
  BY DEF RecordsAt, Once
<1> HIDE DEF At
<1>2. (CHOOSE j \in At : \A m \in At : m <= j) = k
  BY <1>1
<1> QED BY <1>1, <1>2 DEF is_opened, HasRecord, find_pr_opened, LastRecord, At

LEMMA IsOpened ==
  ASSUME NEW l, NEW p, is_opened(l, p)
  PROVE  \E k \in 1..Len(l) : l[k].kind = "pr.opened" /\ l[k].pr = p
BY DEF is_opened, HasRecord, RecordsAt

\* The intent.landed whose campaign is taken is the only one.
LEMMA FoundIntent ==
  ASSUME NEW l, Len(l) \in Nat, Once(l, "intent.landed", "intent"), NEW k \in 1..Len(l),
         l[k].kind = "intent.landed"
  PROVE  intent_is_on_log(l, l[k].intent) /\ campaign_for_intent(l, l[k].intent) = l[k].campaign
<1> DEFINE At == RecordsAt(l, "intent.landed", "intent", l[k].intent)
<1>1. At = {k}
  BY DEF RecordsAt, Once
<1> HIDE DEF At
<1>2. (CHOOSE j \in At : \A m \in At : j <= m) = k
  BY <1>1
<1> QED BY <1>1, <1>2 DEF intent_is_on_log, HasRecord, campaign_for_intent, FirstRecord, At

LEMMA IsOnLog ==
  ASSUME NEW l, NEW i
  PROVE  intent_is_on_log(l, i) <=> \E k \in 1..Len(l) : l[k].kind = "intent.landed" /\ l[k].intent = i
BY DEF intent_is_on_log, HasRecord, RecordsAt

\* The ledger's fold says what the ledger means.
LEMMA LedgerMeaning ==
  ASSUME NEW l, Len(l) \in Nat, Once(l, "intent.landed", "intent"), NEW c
  PROVE  ledger_rejected(l, c) = Rejected(l, c)
<1>1. \A i : intent_is_on_log(l, i) /\ campaign_for_intent(l, i) = c
         <=> \E j \in 1..Len(l) : l[j].kind = "intent.landed" /\ l[j].intent = i /\ l[j].campaign = c
  BY FoundIntent, IsOnLog
<1>2. \A i : (\E x \in DOMAIN lens_state(l, i) : lens_state(l, i)[x] \in {"reject", "fix_first"})
         <=> LatestObjects(l, i)
  BY LensObjects
<1> DEFINE Objects(i) == \E x \in DOMAIN lens_state(l, i) : lens_state(l, i)[x] \in {"reject", "fix_first"}
           Landed(i) == \E j \in 1..Len(l) : l[j].kind = "intent.landed" /\ l[j].intent = i /\ l[j].campaign = c
<1>3. ledger_rejected(l, c) = {i \in Intents : /\ intent_is_on_log(l, i) /\ campaign_for_intent(l, i) = c
                                               /\ Objects(i)}
  BY DEF ledger_rejected, intents_from_log
<1>4. Rejected(l, c) = {i \in Intents : Landed(i) /\ LatestObjects(l, i)}
  BY DEF Rejected
<1>5. \A i : intent_is_on_log(l, i) /\ campaign_for_intent(l, i) = c <=> Landed(i)
  BY <1>1
<1>6. \A i : Objects(i) <=> LatestObjects(l, i)
  BY <1>2
<1> HIDE DEF Objects, Landed
<1> QED BY <1>3, <1>4, <1>5, <1>6

\* The phase of a pull request after n records of a log.
Among(l, n, k, p) == \E j \in 1..n : l[j].kind = k /\ l[j].pr = p

PhaseAt(l, n, p) ==
  IF Among(l, n, "pr.landed", p) THEN "landed"
  ELSE IF Among(l, n, "pr.abandoned", p) THEN "abandoned"
  ELSE IF Among(l, n, "pr.opened", p) THEN "in_flight" ELSE "none"

LEMMA AmongNext ==
  ASSUME NEW l, NEW n \in Nat, n > 0, NEW k, NEW p
  PROVE  Among(l, n, k, p) <=> Among(l, n - 1, k, p) \/ (l[n].kind = k /\ l[n].pr = p)
<1>1. \A j : j \in 1..n <=> j \in 1..(n - 1) \/ j = n
  OBVIOUS
<1>2. ASSUME Among(l, n, k, p) PROVE Among(l, n - 1, k, p) \/ (l[n].kind = k /\ l[n].pr = p)
  <2>1. PICK j \in 1..n : l[j].kind = k /\ l[j].pr = p
    BY <1>2 DEF Among
  <2>2. CASE j \in 1..(n - 1)
    BY <2>1, <2>2 DEF Among
  <2>3. CASE j = n
    BY <2>1, <2>3
  <2> QED BY <1>1, <2>2, <2>3
<1>3. ASSUME Among(l, n - 1, k, p) \/ (l[n].kind = k /\ l[n].pr = p) PROVE Among(l, n, k, p)
  BY <1>1, <1>3 DEF Among
<1> QED BY <1>2, <1>3

\* One record moves the phase of a pull request of campaign c as it should.
LEMMA PhaseStep ==
  ASSUME NEW l, LogOK(l), NEW k \in 1..Len(l), l[k].kind = "pr.opened",
         NEW n \in 1..Len(l), NEW v, v \in [Prs -> {"none", "in_flight", "abandoned", "landed"}],
         v[l[k].pr] = PhaseAt(l, n - 1, l[k].pr),
         NEW w, w = pr_phase_step(l[k].campaign, v, l[n])
  PROVE  /\ w \in [Prs -> {"none", "in_flight", "abandoned", "landed"}]
         /\ w[l[k].pr] = PhaseAt(l, n, l[k].pr)
<1> DEFINE p == l[k].pr
           c == l[k].campaign
           r == l[n]
<1>0. l \in Seq(LogRecords) /\ Len(l) \in Nat /\ n \in Nat /\ n > 0 /\ r \in LogRecords /\ l[k] \in LogRecords
  BY DEF LogOK
<1>1. p \in Prs
  BY <1>0, RecordTypes
<1>2. r.kind \in {"pr.opened", "pr.landed", "pr.abandoned"} => r.pr \in Prs
  BY <1>0, RecordTypes
<1>3. w \in [Prs -> {"none", "in_flight", "abandoned", "landed"}]
  BY <1>2 DEF pr_phase_step
<1>4. \A x : Among(l, n, x, p) <=> Among(l, n - 1, x, p) \/ (r.kind = x /\ r.pr = p)
  BY <1>0, AmongNext
<1>5. ASSUME r.kind \notin {"pr.opened", "pr.landed", "pr.abandoned"} \/ r.pr # p
      PROVE  w[p] = PhaseAt(l, n, p)
  <2>1. w[p] = v[p]
    BY <1>1, <1>2, <1>5 DEF pr_phase_step
  <2>2. ASSUME NEW x \in {"pr.opened", "pr.landed", "pr.abandoned"}
        PROVE  Among(l, n, x, p) <=> Among(l, n - 1, x, p)
    <3>1. ~(r.kind = x /\ r.pr = p)
      BY <1>5
    <3> QED BY <1>4, <3>1
  <2> QED BY <2>1, <2>2 DEF PhaseAt
<1>6. ASSUME r.kind = "pr.landed", r.pr = p
      PROVE  w[p] = PhaseAt(l, n, p)
  <2>1. r.campaign = c
    BY <1>6 DEF LogOK, LandsQueued
  <2>2. w[p] = "landed"
    BY <1>1, <1>6, <2>1 DEF pr_phase_step
  <2> QED BY <1>4, <1>6, <2>2 DEF PhaseAt
<1>7. ASSUME r.kind = "pr.abandoned", r.pr = p
      PROVE  w[p] = PhaseAt(l, n, p)
  <2>1. PICK j \in 1..n : l[j].kind = "pr.opened" /\ l[j].pr = p
    BY <1>7 DEF LogOK, OpenedFirst
  <2>2. j \in 1..(n - 1)
    BY <1>0, <1>7, <2>1
  <2>3. Among(l, n - 1, "pr.opened", p)
    BY <2>1, <2>2 DEF Among
  <2> QED BY <1>1, <1>4, <1>7, <2>3 DEF PhaseAt, pr_phase_step
<1>8. ASSUME r.kind = "pr.opened", r.pr = p
      PROVE  w[p] = PhaseAt(l, n, p)
  <2>1. n = k
    BY <1>8 DEF LogOK, OnceEach, Once
  <2>2. ASSUME NEW x \in {"pr.landed", "pr.abandoned", "pr.opened"} PROVE ~Among(l, n - 1, x, p)
    <3> SUFFICES ASSUME NEW j \in 1..(n - 1), l[j].kind = x, l[j].pr = p PROVE FALSE
      BY DEF Among
    <3>1. j \in 1..Len(l) /\ j < n
      BY <1>0
    <3>2. CASE x = "pr.opened"
      BY <1>8, <3>1, <3>2 DEF LogOK, OnceEach, Once
    <3>3. CASE x # "pr.opened"
      <4>1. PICK m \in 1..j : l[m].kind = "pr.opened" /\ l[m].pr = p
        BY <3>1, <3>3 DEF LogOK, OpenedFirst
      <4>2. m \in 1..Len(l) /\ m < n
        BY <1>0
      <4> QED BY <1>8, <4>1, <4>2 DEF LogOK, OnceEach, Once
    <3> QED BY <3>2, <3>3
  <2>3. v[p] = "none"
    BY <2>2 DEF PhaseAt
  <2>4. w[p] = "in_flight"
    BY <1>1, <1>8, <2>1, <2>3 DEF pr_phase_step
  <2> QED BY <1>4, <1>8, <2>2, <2>4 DEF PhaseAt
<1> QED BY <1>3, <1>5, <1>6, <1>7, <1>8

\* The campaign world's fold, by induction on the log.
LEMMA PhasesMeaning ==
  ASSUME NEW l, LogOK(l), NEW k \in 1..Len(l), l[k].kind = "pr.opened"
  PROVE  pr_phases(l, l[k].campaign)[l[k].pr] = PhaseAt(l, Len(l), l[k].pr)
<1> DEFINE p == l[k].pr
           c == l[k].campaign
           Phases == {"none", "in_flight", "abandoned", "landed"}
<1>0. Len(l) \in Nat /\ p \in Prs
  BY RecordTypes DEF LogOK
<1>1. PICK f : IsPhases(f, l, c, Len(l)) /\ pr_phases(l, c) = f[Len(l)]
  BY <1>0, PhasesUnfold
<1> DEFINE AsFolded(n) == f[n] \in [Prs -> Phases] /\ f[n][p] = PhaseAt(l, n, p)
           Bad == {n \in 0..Len(l) : ~AsFolded(n)}
<1>2. Bad = {}
  <2> SUFFICES ASSUME Bad # {} PROVE FALSE
    OBVIOUS
  <2>0. Bad \in SUBSET Nat
    BY <1>0
  <2> HIDE DEF Bad
  <2>1. PICK n \in Bad : \A y \in Bad : n <= y
    BY <2>0, LeastNat
  <2>2. n \in 0..Len(l) /\ ~AsFolded(n)
    BY <2>1 DEF Bad
  <2>3. n # 0
    <3>1. f[0] = [x \in Prs |-> "none"]
      BY <1>0, <1>1 DEF IsPhases
    <3>2. \A x : ~Among(l, 0, x, p)
      BY DEF Among
    <3>3. f[0] \in [Prs -> Phases] /\ f[0][p] = "none"
      BY <1>0, <3>1
    <3> QED BY <2>2, <3>2, <3>3 DEF PhaseAt
  <2>4. n - 1 \in 0..Len(l) /\ n - 1 \notin Bad /\ n \in 1..Len(l)
    BY <1>0, <2>1, <2>2, <2>3
  <2>5. AsFolded(n - 1)
    BY <2>4 DEF Bad
  <2>6. f[n] = pr_phase_step(c, f[n - 1], l[n])
    BY <1>0, <1>1, <2>2, <2>3 DEF IsPhases
  <2> QED BY <2>2, <2>4, <2>5, <2>6, PhaseStep
<1> QED BY <1>0, <1>1, <1>2

-----------------------------------------------------------------------------
(* Porcelain: what a verb may add to the log.                              *)

Extends(l, m) == m \in Seq(LogRecords) /\ Len(l) <= Len(m) /\ \A j \in 1..Len(l) : m[j] = l[j]

Added(l, m) == Len(l) + 1 .. Len(m)

Alone(l, m) == Len(m) = Len(l) + 1

\* The conditions under which the verbs add their records, by kind.
PrFits(l, m, j) ==
  LET r == m[j] IN
  /\ r.kind = "pr.opened" => /\ Alone(l, m) /\ ~is_opened(l, r.pr)
                             /\ ~campaign_is_sealed(l, r.campaign)
  /\ r.kind = "pr.queued" => /\ Alone(l, m) /\ is_opened(l, r.pr)
                             /\ ~HasRecord(l, "pr.queued", "pr", r.pr)
                             /\ \A k \in all_pr_queued(l) : l[k].order # r.order
  /\ r.kind = "pr.landed" => /\ is_queued(l, r.pr)
                             /\ r.campaign = find_pr_opened(l, r.pr).campaign
                             /\ \A k \in Added(l, m) : m[k].kind = "pr.landed" /\ m[k].pr = r.pr => k = j
  /\ r.kind = "pr.abandoned" => is_opened(l, r.pr)

CampaignFits(l, m, j) ==
  LET r == m[j] IN
  /\ r.kind = "intent.landed" => /\ Alone(l, m) /\ ~intent_is_on_log(l, r.intent)
                                 /\ ~campaign_is_sealed(l, r.campaign)
  /\ r.kind = "verdict.recorded" /\ intent_is_on_log(l, r.intent) =>
        ~campaign_is_sealed(l, campaign_for_intent(l, r.intent))
  /\ r.kind = "campaign.closed" =>
        /\ Alone(l, m) /\ campaign_opened(l, r.campaign)
        /\ r.rejected = Cardinality(Rejected(l, r.campaign))
        /\ in_flight_prs(l, r.campaign) = {} \/ campaign_abandoned(l, r.campaign)

Adds(l, m) == Extends(l, m) /\ \A j \in Added(l, m) : PrFits(l, m, j) /\ CampaignFits(l, m, j)

\* The positions of a log that has grown are the old and the added ones.
LEMMA Positions2 ==
  ASSUME NEW l \in Seq(LogRecords), NEW m, Extends(l, m)
  PROVE  /\ Len(l) \in Nat /\ Len(m) \in Nat
         /\ \A j : j \in 1..Len(m) <=> (j \in 1..Len(l) \/ j \in Added(l, m))
         /\ \A j \in Added(l, m) : j \in Nat /\ j > Len(l)
         /\ \A j \in 1..Len(l) : j \in Nat /\ j <= Len(l)
BY DEF Extends, Added

\* What the log has, it keeps.
LEMMA HasGrows ==
  ASSUME NEW l \in Seq(LogRecords), NEW m, Extends(l, m), NEW k, NEW f, NEW x, HasRecord(l, k, f, x)
  PROVE  HasRecord(m, k, f, x)
BY Positions2 DEF Extends, HasRecord, RecordsAt

LEMMA OnceGrows ==
  ASSUME NEW l \in Seq(LogRecords), NEW m, Extends(l, m), NEW k, NEW f, Once(l, k, f),
         \A j \in Added(l, m) : m[j].kind = k =>
            /\ ~HasRecord(l, k, f, m[j][f])
            /\ \A i \in Added(l, m) : m[i].kind = k /\ m[i][f] = m[j][f] => i = j
  PROVE  Once(m, k, f)
<1> SUFFICES ASSUME NEW i \in 1..Len(m), NEW j \in 1..Len(m),
                    m[i].kind = k, m[j].kind = k, m[i][f] = m[j][f]
             PROVE  i = j
  BY DEF Once
<1>1. (i \in 1..Len(l) \/ i \in Added(l, m)) /\ (j \in 1..Len(l) \/ j \in Added(l, m))
  BY Positions2
<1>2. CASE i \in 1..Len(l) /\ j \in 1..Len(l)
  BY <1>2 DEF Once, Extends
<1>3. CASE i \in Added(l, m) /\ j \in Added(l, m)
  BY <1>3
<1>4. CASE i \in 1..Len(l) /\ j \in Added(l, m)
  BY <1>4 DEF HasRecord, RecordsAt, Extends
<1>5. CASE i \in Added(l, m) /\ j \in 1..Len(l)
  BY <1>5 DEF HasRecord, RecordsAt, Extends
<1> QED BY <1>1, <1>2, <1>3, <1>4, <1>5

LEMMA AloneOne ==
  ASSUME NEW l \in Seq(LogRecords), NEW m, Extends(l, m), Alone(l, m)
  PROVE  \A i, j \in Added(l, m) : i = j
BY DEF Alone, Added, Extends

LEMMA OnceEachGrows ==
  ASSUME NEW l, NEW m, LogOK(l), Adds(l, m)
  PROVE  OnceEach(m)
<1>0. l \in Seq(LogRecords) /\ Extends(l, m) /\ OnceEach(l)
  BY DEF LogOK, Adds
<1>1. Once(m, "pr.opened", "pr")
  BY <1>0, OnceGrows, AloneOne DEF Adds, PrFits, OnceEach, is_opened
<1>2. Once(m, "pr.queued", "pr")
  BY <1>0, OnceGrows, AloneOne DEF Adds, PrFits, OnceEach
<1>3. Once(m, "pr.landed", "pr")
  <2>1. ASSUME NEW p, is_queued(l, p) PROVE ~HasRecord(l, "pr.landed", "pr", p)
    BY <2>1 DEF is_queued, all_pr_queued, pr_is_landed
  <2> QED BY <1>0, <2>1, OnceGrows DEF Adds, PrFits, OnceEach
<1>4. Once(m, "intent.landed", "intent")
  BY <1>0, OnceGrows, AloneOne DEF Adds, CampaignFits, OnceEach, intent_is_on_log
<1> QED BY <1>1, <1>2, <1>3, <1>4 DEF OnceEach

\* Where a queued pull request was opened.
LEMMA QueuedOpened ==
  ASSUME NEW l, LogOK(l), NEW p, is_queued(l, p)
  PROVE  \E k \in 1..Len(l) : l[k].kind = "pr.opened" /\ l[k].pr = p /\ find_pr_opened(l, p) = l[k]
<1>1. PICK j \in all_pr_queued(l) : l[j].pr = p
  BY DEF is_queued
<1>2. j \in 1..Len(l) /\ l[j].kind = "pr.queued"
  BY <1>1 DEF all_pr_queued
<1>3. PICK k \in 1..j : l[k].kind = "pr.opened" /\ l[k].pr = p
  BY <1>1, <1>2 DEF LogOK, OpenedFirst
<1>4. k \in 1..Len(l) /\ Len(l) \in Nat
  BY <1>2 DEF LogOK
<1> QED BY <1>3, <1>4, FoundOpened DEF LogOK, OnceEach

LEMMA OpenedGrows ==
  ASSUME NEW l, NEW m, LogOK(l), Adds(l, m)
  PROVE  OpenedFirst(m)
<1>0. l \in Seq(LogRecords) /\ Extends(l, m)
  BY DEF LogOK, Adds
<1> SUFFICES ASSUME NEW j \in 1..Len(m), m[j].kind \in {"pr.queued", "pr.landed", "pr.abandoned"}
             PROVE  \E k \in 1..j : m[k].kind = "pr.opened" /\ m[k].pr = m[j].pr
  BY DEF OpenedFirst
<1>1. CASE j \in 1..Len(l)
  <2>1. m[j] = l[j]
    BY <1>0, <1>1 DEF Extends
  <2>2. PICK k \in 1..j : l[k].kind = "pr.opened" /\ l[k].pr = l[j].pr
    BY <1>1, <2>1 DEF LogOK, OpenedFirst
  <2>3. k \in 1..Len(l)
    BY <1>0, <1>1
  <2> QED BY <1>0, <2>1, <2>2, <2>3 DEF Extends
<1>2. CASE j \in Added(l, m)
  <2>1. \E k \in 1..Len(l) : l[k].kind = "pr.opened" /\ l[k].pr = m[j].pr
    BY <1>2, QueuedOpened, IsOpened DEF Adds, PrFits
  <2>2. PICK k \in 1..Len(l) : l[k].kind = "pr.opened" /\ l[k].pr = m[j].pr
    BY <2>1
  <2>3. k \in 1..j /\ m[k] = l[k]
    BY <1>0, <1>2, Positions2 DEF Extends
  <2> QED BY <2>2, <2>3
<1> QED BY <1>0, <1>1, <1>2, Positions2

LEMMA LandsGrows ==
  ASSUME NEW l, NEW m, LogOK(l), Adds(l, m)
  PROVE  LandsQueued(m)
<1>0. l \in Seq(LogRecords) /\ Extends(l, m) /\ Len(l) \in Nat
  BY DEF LogOK, Adds
<1> SUFFICES ASSUME NEW j \in 1..Len(m), m[j].kind = "pr.landed"
             PROVE  /\ \E k \in 1..j : m[k].kind = "pr.queued" /\ m[k].pr = m[j].pr
                    /\ \A k \in 1..Len(m) : m[k].kind = "pr.opened" /\ m[k].pr = m[j].pr
                                              => m[j].campaign = m[k].campaign
  BY DEF LandsQueued
<1>1. CASE j \in 1..Len(l)
  <2>1. m[j] = l[j] /\ l[j].kind = "pr.landed"
    BY <1>0, <1>1 DEF Extends
  <2>2. PICK k \in 1..j : l[k].kind = "pr.queued" /\ l[k].pr = l[j].pr
    BY <1>1, <2>1 DEF LogOK, LandsQueued
  <2>3. k \in 1..Len(l) /\ m[k] = l[k]
    BY <1>0, <1>1 DEF Extends
  <2>4. PICK o \in 1..j : l[o].kind = "pr.opened" /\ l[o].pr = l[j].pr
    BY <1>1, <2>1 DEF LogOK, OpenedFirst
  <2>5. o \in 1..Len(l)
    BY <1>0, <1>1
  <2>6. is_opened(l, l[j].pr)
    BY <1>0, <2>4, <2>5, FoundOpened DEF LogOK, OnceEach
  <2>7. ASSUME NEW k2 \in 1..Len(m), m[k2].kind = "pr.opened", m[k2].pr = m[j].pr
        PROVE  k2 \in 1..Len(l) /\ m[k2] = l[k2]
    <3>1. k2 \notin Added(l, m)
      BY <2>1, <2>6, <2>7 DEF Adds, PrFits
    <3> QED BY <1>0, <3>1, Positions2 DEF Extends
  <2>8. \A k2 \in 1..Len(m) : m[k2].kind = "pr.opened" /\ m[k2].pr = m[j].pr
                                => m[j].campaign = m[k2].campaign
    BY <1>1, <2>1, <2>7 DEF LogOK, LandsQueued
  <2> QED BY <2>1, <2>2, <2>3, <2>8
<1>2. CASE j \in Added(l, m)
  <2>1. is_queued(l, m[j].pr) /\ m[j].campaign = find_pr_opened(l, m[j].pr).campaign
    BY <1>2 DEF Adds, PrFits
  <2>2. PICK o \in 1..Len(l) : /\ l[o].kind = "pr.opened" /\ l[o].pr = m[j].pr
                               /\ find_pr_opened(l, m[j].pr) = l[o]
    BY <2>1, QueuedOpened
  <2>3. PICK k \in all_pr_queued(l) : l[k].pr = m[j].pr
    BY <2>1 DEF is_queued
  <2>4. k \in 1..Len(l) /\ l[k].kind = "pr.queued"
    BY <2>3 DEF all_pr_queued
  <2>5. k \in 1..j /\ m[k] = l[k] /\ m[o] = l[o] /\ o \in 1..Len(m)
    BY <1>0, <1>2, <2>4, Positions2 DEF Extends
  <2>6. Once(m, "pr.opened", "pr")
    BY OnceEachGrows DEF OnceEach
  <2> QED BY <2>1, <2>2, <2>3, <2>4, <2>5, <2>6 DEF Once
<1> QED BY <1>0, <1>1, <1>2, Positions2

LEMMA QueueGrows ==
  ASSUME NEW l, NEW m, LogOK(l), Adds(l, m)
  PROVE  QueueApart(m)
<1>0. l \in Seq(LogRecords) /\ Extends(l, m)
  BY DEF LogOK, Adds
<1> SUFFICES ASSUME NEW j \in all_pr_queued(m), NEW k \in all_pr_queued(m), m[j].order = m[k].order
             PROVE  j = k
  BY DEF QueueApart
<1>1. \A i \in all_pr_queued(m) : i \in Added(l, m) \/ (i \in all_pr_queued(l) /\ m[i] = l[i])
  <2> SUFFICES ASSUME NEW i \in all_pr_queued(m), i \in 1..Len(l)
               PROVE  i \in all_pr_queued(l) /\ m[i] = l[i]
    BY <1>0, Positions2 DEF all_pr_queued
  <2>1. m[i] = l[i]
    BY <1>0 DEF Extends
  <2>2. ~pr_is_landed(l, l[i].pr)
    BY <1>0, <2>1, HasGrows DEF all_pr_queued, pr_is_landed
  <2> QED BY <2>1, <2>2 DEF all_pr_queued
<1>2. \A i \in all_pr_queued(m) : i \in Added(l, m) =>
         \A o \in all_pr_queued(l) : l[o].order # m[i].order
  BY DEF all_pr_queued, Adds, PrFits
<1>3. \A i \in all_pr_queued(m) : i \in Added(l, m) => Alone(l, m)
  BY DEF all_pr_queued, Adds, PrFits
<1>4. CASE j \in Added(l, m) /\ k \in Added(l, m)
  BY <1>0, <1>3, <1>4, AloneOne
<1>5. CASE j \notin Added(l, m) /\ k \notin Added(l, m)
  BY <1>1, <1>5 DEF LogOK, QueueApart
<1> QED BY <1>1, <1>2, <1>4, <1>5

\* The meaning of the ledger for a campaign only moves with its own records.
LEMMA RejectedSame ==
  ASSUME NEW l \in Seq(LogRecords), NEW m, Extends(l, m), NEW c,
         \A j \in Added(l, m) :
            /\ m[j].kind = "intent.landed" => m[j].campaign # c
            /\ m[j].kind = "verdict.recorded" =>
                 \A k \in 1..Len(l) : l[k].kind = "intent.landed" /\ l[k].intent = m[j].intent
                                        => l[k].campaign # c
  PROVE  Rejected(m, c) = Rejected(l, c)
<1> DEFINE Landed(s, i) == \E j \in 1..Len(s) : s[j].kind = "intent.landed" /\ s[j].intent = i
                                               /\ s[j].campaign = c
<1>1. \A i : Landed(m, i) <=> Landed(l, i)
  <2> SUFFICES ASSUME NEW i PROVE Landed(m, i) <=> Landed(l, i)
    OBVIOUS
  <2>1. ASSUME Landed(m, i) PROVE Landed(l, i)
    <3>1. PICK j \in 1..Len(m) : m[j].kind = "intent.landed" /\ m[j].intent = i /\ m[j].campaign = c
      BY <2>1
    <3>2. j \in 1..Len(l) /\ m[j] = l[j]
      BY <3>1, Positions2 DEF Extends
    <3> QED BY <3>1, <3>2
  <2>2. ASSUME Landed(l, i) PROVE Landed(m, i)
    <3>1. PICK j \in 1..Len(l) : l[j].kind = "intent.landed" /\ l[j].intent = i /\ l[j].campaign = c
      BY <2>2
    <3>2. j \in 1..Len(m) /\ m[j] = l[j]
      BY <3>1, Positions2 DEF Extends
    <3> QED BY <3>1, <3>2
  <2> QED BY <2>1, <2>2
<1>2. ASSUME NEW i, Landed(l, i) PROVE LatestObjects(m, i) <=> LatestObjects(l, i)
  <2>1. PICK k \in 1..Len(l) : l[k].kind = "intent.landed" /\ l[k].intent = i /\ l[k].campaign = c
    BY <1>2
  <2>2. \A j \in Added(l, m) : ~(m[j].kind = "verdict.recorded" /\ m[j].intent = i)
    BY <2>1
  <2>3. find_existing_verdict(m, i) = find_existing_verdict(l, i)
    BY <2>2, Positions2 DEF Extends, find_existing_verdict, RecordsAt
  <2>4. \A j \in find_existing_verdict(l, i) : m[j] = l[j]
    BY DEF Extends, find_existing_verdict, RecordsAt
  <2> QED BY <2>3, <2>4 DEF LatestObjects
<1>3. /\ Rejected(m, c) = {i \in Intents : Landed(m, i) /\ LatestObjects(m, i)}
      /\ Rejected(l, c) = {i \in Intents : Landed(l, i) /\ LatestObjects(l, i)}
  BY DEF Rejected
<1> HIDE DEF Landed
<1> QED BY <1>1, <1>2, <1>3

\* The verbs leave the ledger of a sealed campaign alone.
LEMMA SealedLedger ==
  ASSUME NEW l, NEW m, LogOK(l), Adds(l, m), NEW c, campaign_is_sealed(l, c)
  PROVE  Rejected(m, c) = Rejected(l, c)
<1>0. l \in Seq(LogRecords) /\ Extends(l, m) /\ Len(l) \in Nat /\ Once(l, "intent.landed", "intent")
  BY DEF LogOK, Adds, OnceEach
<1>1. ASSUME NEW j \in Added(l, m), m[j].kind = "intent.landed" PROVE m[j].campaign # c
  BY <1>1 DEF Adds, CampaignFits
<1>2. ASSUME NEW j \in Added(l, m), m[j].kind = "verdict.recorded",
             NEW k \in 1..Len(l), l[k].kind = "intent.landed", l[k].intent = m[j].intent
      PROVE  l[k].campaign # c
  <2>1. intent_is_on_log(l, m[j].intent) /\ campaign_for_intent(l, m[j].intent) = l[k].campaign
    BY <1>0, <1>2, FoundIntent
  <2> QED BY <1>2, <2>1 DEF Adds, CampaignFits
<1> QED BY <1>0, <1>1, <1>2, RejectedSame

LEMMA SealsGrow ==
  ASSUME NEW l, NEW m, LogOK(l), Adds(l, m)
  PROVE  SealMeans(m)
<1>0. l \in Seq(LogRecords) /\ Extends(l, m) /\ Len(l) \in Nat
  BY DEF LogOK, Adds
<1> SUFFICES ASSUME NEW j \in 1..Len(m), m[j].kind = "campaign.closed"
             PROVE  /\ campaign_opened(m, m[j].campaign)
                    /\ m[j].rejected = Cardinality(Rejected(m, m[j].campaign))
                    /\ \/ campaign_abandoned(m, m[j].campaign)
                       \/ \A k \in 1..Len(m) : m[k].kind = "pr.opened" /\ m[k].campaign = m[j].campaign
                            => pr_is_landed(m, m[k].pr) \/ is_abandoned(m, m[k].pr)
  BY DEF SealMeans
<1> DEFINE c == m[j].campaign
<1>1. CASE j \in 1..Len(l)
  <2>1. m[j] = l[j] /\ l[j].kind = "campaign.closed"
    BY <1>0, <1>1 DEF Extends
  <2>2. campaign_is_sealed(l, c)
    BY <1>1, <2>1 DEF campaign_is_sealed, HasRecord, RecordsAt
  <2>3. /\ campaign_opened(l, c)
        /\ l[j].rejected = Cardinality(Rejected(l, c))
        /\ \/ campaign_abandoned(l, c)
           \/ \A k \in 1..Len(l) : l[k].kind = "pr.opened" /\ l[k].campaign = c
                => pr_is_landed(l, l[k].pr) \/ is_abandoned(l, l[k].pr)
    BY <1>1, <2>1 DEF LogOK, SealMeans
  <2>4. campaign_opened(m, c) /\ (campaign_abandoned(l, c) => campaign_abandoned(m, c))
    BY <1>0, <2>3, HasGrows DEF campaign_opened, campaign_abandoned
  <2>5. Rejected(m, c) = Rejected(l, c)
    BY <2>2, SealedLedger
  <2>6. ASSUME NEW k \in 1..Len(m), m[k].kind = "pr.opened", m[k].campaign = c
        PROVE  k \in 1..Len(l) /\ m[k] = l[k]
    <3>1. k \notin Added(l, m)
      BY <2>2, <2>6 DEF Adds, PrFits
    <3> QED BY <1>0, <3>1, Positions2 DEF Extends
  <2>7. \A p : pr_is_landed(l, p) \/ is_abandoned(l, p) => pr_is_landed(m, p) \/ is_abandoned(m, p)
    BY <1>0, HasGrows DEF pr_is_landed, is_abandoned
  <2>8. ASSUME ~campaign_abandoned(m, c), NEW k \in 1..Len(m), m[k].kind = "pr.opened", m[k].campaign = c
        PROVE  pr_is_landed(m, m[k].pr) \/ is_abandoned(m, m[k].pr)
    BY <2>3, <2>4, <2>6, <2>7, <2>8
  <2> QED BY <2>1, <2>3, <2>4, <2>5, <2>8
<1>2. CASE j \in Added(l, m)
  <2>1. /\ Alone(l, m) /\ campaign_opened(l, c)
        /\ m[j].rejected = Cardinality(Rejected(l, c))
        /\ in_flight_prs(l, c) = {} \/ campaign_abandoned(l, c)
    BY <1>2 DEF Adds, CampaignFits
  <2>2. \A k \in Added(l, m) : m[k].kind = "campaign.closed"
    BY <1>0, <1>2, <2>1, AloneOne
  <2>3. Rejected(m, c) = Rejected(l, c)
    BY <1>0, <2>2, RejectedSame
  <2>4. campaign_opened(m, c) /\ (campaign_abandoned(l, c) => campaign_abandoned(m, c))
    BY <1>0, <2>1, HasGrows DEF campaign_opened, campaign_abandoned
  <2>5. ASSUME ~campaign_abandoned(m, c), NEW k \in 1..Len(m), m[k].kind = "pr.opened", m[k].campaign = c
        PROVE  pr_is_landed(m, m[k].pr) \/ is_abandoned(m, m[k].pr)
    <3>1. k \in 1..Len(l) /\ m[k] = l[k]
      BY <1>0, <2>2, <2>5, Positions2 DEF Extends
    <3>2. in_flight_prs(l, c) = {} /\ l[k].pr \in Prs
      BY <1>0, <2>1, <2>4, <2>5, <3>1, RecordTypes
    <3>3. PhaseAt(l, Len(l), l[k].pr) # "in_flight"
      BY <2>5, <3>1, <3>2, PhasesMeaning DEF in_flight_prs
    <3>4. Among(l, Len(l), "pr.opened", l[k].pr)
      BY <2>5, <3>1 DEF Among
    <3>5. Among(l, Len(l), "pr.landed", l[k].pr) \/ Among(l, Len(l), "pr.abandoned", l[k].pr)
      BY <3>3, <3>4 DEF PhaseAt
    <3>6. pr_is_landed(l, l[k].pr) \/ is_abandoned(l, l[k].pr)
      BY <3>5 DEF Among, pr_is_landed, is_abandoned, HasRecord, RecordsAt
    <3> QED BY <1>0, <3>1, <3>6, HasGrows DEF pr_is_landed, is_abandoned
  <2> QED BY <2>1, <2>3, <2>4, <2>5
<1> QED BY <1>0, <1>1, <1>2, Positions2

\* Whatever fits the log keeps its invariant.
LEMMA LogGrows ==
  ASSUME NEW l, NEW m, LogOK(l), Adds(l, m)
  PROVE  LogOK(m)
BY OnceEachGrows, OpenedGrows, LandsGrows, QueueGrows, SealsGrow DEF LogOK, Adds, Extends

-----------------------------------------------------------------------------
(* Porcelain: the views that a log with the invariant gives.               *)

LEMMA ViewOfSeals == ASSUME LogOK(log) PROVE SealedSettled
<1>0. Len(log) \in Nat /\ Once(log, "intent.landed", "intent") /\ Once(log, "pr.opened", "pr")
  BY DEF LogOK, OnceEach
<1> SUFFICES ASSUME NEW j \in 1..Len(log), log[j].kind = "campaign.closed"
             PROVE  /\ log[j].rejected = Cardinality(ledger_rejected(log, log[j].campaign))
                    /\ \/ campaign_abandoned(log, log[j].campaign)
                       \/ \A p \in Prs : is_opened(log, p)
                                /\ find_pr_opened(log, p).campaign = log[j].campaign
                             => pr_is_landed(log, p) \/ is_abandoned(log, p)
  BY DEF SealedSettled
<1>1. ledger_rejected(log, log[j].campaign) = Rejected(log, log[j].campaign)
  BY <1>0, LedgerMeaning
<1>2. ASSUME NEW p \in Prs, is_opened(log, p), find_pr_opened(log, p).campaign = log[j].campaign
      PROVE  \E k \in 1..Len(log) : log[k].kind = "pr.opened" /\ log[k].pr = p
                                      /\ log[k].campaign = log[j].campaign
  BY <1>0, <1>2, IsOpened, FoundOpened
<1> QED BY <1>1, <1>2 DEF LogOK, SealMeans

LEMMA ViewOfPhases == ASSUME LogOK(log) PROVE PhasesAgree
<1>0. Len(log) \in Nat /\ Once(log, "pr.opened", "pr")
  BY DEF LogOK, OnceEach
<1> SUFFICES ASSUME NEW p \in Prs, is_opened(log, p)
             PROVE  LET found == pr_phases(log, find_pr_opened(log, p).campaign)[p] IN
                    pr_state(log, p) = IF found \in {"landed", "abandoned"} THEN found
                                       ELSE IF is_queued(log, p) THEN "queued" ELSE "proposed"
  BY DEF PhasesAgree
<1>1. PICK k \in 1..Len(log) : log[k].kind = "pr.opened" /\ log[k].pr = p
  BY IsOpened
<1>2. find_pr_opened(log, p) = log[k]
  BY <1>0, <1>1, FoundOpened
<1> DEFINE found == pr_phases(log, find_pr_opened(log, p).campaign)[p]
<1>3. found = PhaseAt(log, Len(log), p)
  BY <1>1, <1>2, PhasesMeaning
<1>4. /\ Among(log, Len(log), "pr.landed", p) <=> pr_is_landed(log, p)
      /\ Among(log, Len(log), "pr.abandoned", p) <=> is_abandoned(log, p)
  BY DEF Among, pr_is_landed, is_abandoned, HasRecord, RecordsAt
<1>5. Among(log, Len(log), "pr.opened", p)
  BY <1>1 DEF Among
<1> HIDE DEF found
<1>6. found = IF pr_is_landed(log, p) THEN "landed"
              ELSE IF is_abandoned(log, p) THEN "abandoned" ELSE "in_flight"
  BY <1>3, <1>4, <1>5 DEF PhaseAt
<1>7. pr_state(log, p) = IF found \in {"landed", "abandoned"} THEN found
                         ELSE IF is_queued(log, p) THEN "queued" ELSE "proposed"
  BY <1>6 DEF pr_state
<1> QED BY <1>7 DEF found

LEMMA ViewOfQueue == ASSUME LogOK(log) PROVE QueueSound
<1>0. Len(log) \in Nat /\ Once(log, "pr.opened", "pr") /\ Once(log, "pr.landed", "pr")
  BY DEF LogOK, OnceEach
<1>1. ASSUME NEW j \in 1..Len(log), log[j].kind = "pr.landed"
      PROVE  /\ \E k \in 1..j : log[k].kind = "pr.queued" /\ log[k].pr = log[j].pr
             /\ log[j].campaign = find_pr_opened(log, log[j].pr).campaign
             /\ \A k \in 1..j - 1 : ~(log[k].kind = "pr.landed" /\ log[k].pr = log[j].pr)
  <2>1. PICK o \in 1..j : log[o].kind = "pr.opened" /\ log[o].pr = log[j].pr
    BY <1>1 DEF LogOK, OpenedFirst
  <2>2. o \in 1..Len(log)
    BY <1>0
  <2>3. find_pr_opened(log, log[j].pr) = log[o]
    BY <1>0, <2>1, <2>2, FoundOpened
  <2>4. \A k \in 1..j - 1 : k \in 1..Len(log) /\ k # j
    BY <1>0
  <2>5. \A k \in 1..j - 1 : ~(log[k].kind = "pr.landed" /\ log[k].pr = log[j].pr)
    BY <1>0, <1>1, <2>4 DEF Once
  <2> QED BY <1>1, <2>1, <2>2, <2>3, <2>5 DEF LogOK, LandsQueued
<1> QED BY <1>1 DEF QueueSound, LogOK, QueueApart

LEMMA ViewOfLedger == ASSUME LogOK(log) PROVE LedgerLatest
<1>0. Len(log) \in Nat /\ Once(log, "intent.landed", "intent")
  BY DEF LogOK, OnceEach
<1>1. \A c \in Campaigns : ledger_rejected(log, c) = Rejected(log, c)
  BY <1>0, LedgerMeaning
<1> QED BY <1>1 DEF LedgerLatest, Rejected

-----------------------------------------------------------------------------
(* Porcelain: every verb adds what fits.                                   *)

\* What a verb may add while a campaign is sealed.
Sealed(l, m) ==
  \A c \in Campaigns : campaign_is_sealed(l, c) =>
    \A j \in Added(l, m) : RecordOf(m, m[j], c) =>
      \/ m[j].kind = "queue.union_fail"
      \/ m[j].kind = "pr.landed" /\ is_queued(l, m[j].pr)

LEMMA Appends ==
  ASSUME log \in Seq(LogRecords), NEW r \in LogRecords, log' = Append(log, r)
  PROVE  Extends(log, log') /\ Alone(log, log') /\ \A j \in Added(log, log') : log'[j] = r
BY DEF Extends, Alone, Added

\* A pull request and an intent stay in the campaign the log has them in.
LEMMA OpenedStays ==
  ASSUME NEW l, NEW m, LogOK(l), LogOK(m), Extends(l, m), NEW p, is_opened(l, p)
  PROVE  find_pr_opened(m, p) = find_pr_opened(l, p)
<1>1. PICK k \in 1..Len(l) : l[k].kind = "pr.opened" /\ l[k].pr = p
  BY IsOpened
<1>2. k \in 1..Len(m) /\ m[k] = l[k] /\ Len(l) \in Nat /\ Len(m) \in Nat
  BY <1>1, Positions2 DEF Extends, LogOK
<1> QED BY <1>1, <1>2, FoundOpened DEF LogOK, OnceEach

LEMMA IntentStays ==
  ASSUME NEW l, NEW m, LogOK(l), LogOK(m), Extends(l, m), NEW i, intent_is_on_log(l, i)
  PROVE  campaign_for_intent(m, i) = campaign_for_intent(l, i)
<1>1. PICK k \in 1..Len(l) : l[k].kind = "intent.landed" /\ l[k].intent = i
  BY IsOnLog
<1>2. k \in 1..Len(m) /\ m[k] = l[k] /\ Len(l) \in Nat /\ Len(m) \in Nat
  BY <1>1, Positions2 DEF Extends, LogOK
<1> QED BY <1>1, <1>2, FoundIntent DEF LogOK, OnceEach

LEMMA OpenedType ==
  ASSUME NEW l, LogOK(l), NEW p, is_opened(l, p)
  PROVE  /\ find_pr_opened(l, p) \in LogRecords
         /\ find_pr_opened(l, p).kind = "pr.opened" /\ find_pr_opened(l, p).pr = p
         /\ p \in Prs /\ find_pr_opened(l, p).campaign \in Campaigns
         /\ find_pr_opened(l, p).intents \in SUBSET Intents
<1>1. PICK k \in 1..Len(l) : l[k].kind = "pr.opened" /\ l[k].pr = p
  BY IsOpened
<1>2. Len(l) \in Nat /\ l[k] \in LogRecords
  BY DEF LogOK
<1>3. find_pr_opened(l, p) = l[k]
  BY <1>1, <1>2, FoundOpened DEF LogOK, OnceEach
<1> QED BY <1>1, <1>2, <1>3, RecordTypes

LEMMA FitsCampaignOpen ==
  ASSUME LogOK(log), NEW c \in Campaigns, CampaignOpen(c)
  PROVE  Adds(log, log') /\ Sealed(log, log')
<1> DEFINE r == [kind |-> "campaign.opened", campaign |-> c]
<1>1. log \in Seq(LogRecords) /\ r \in LogRecords /\ log' = Append(log, r)
  BY DEF LogOK, LogRecords, CampaignOpen, Write
<1>0. r.kind = "campaign.opened" /\ r.campaign = c /\ "campaign" \in DOMAIN r
  OBVIOUS
<1> HIDE DEF r
<1>2. Adds(log, log')
  BY <1>0, <1>1, Appends DEF Adds, PrFits, CampaignFits
<1>3. ~campaign_is_sealed(log, c)
  <2>1. ~campaign_opened(log, c)
    BY DEF CampaignOpen
  <2> QED BY <2>1 DEF LogOK, SealMeans, campaign_is_sealed, HasRecord, RecordsAt
<1>4. Sealed(log, log')
  BY <1>0, <1>1, <1>3, Appends DEF Sealed, RecordOf
<1> QED BY <1>2, <1>4

LEMMA FitsCampaignAbandon ==
  ASSUME LogOK(log), NEW c \in Campaigns, CampaignAbandon(c)
  PROVE  Adds(log, log') /\ Sealed(log, log')
<1> DEFINE r == [kind |-> "campaign.abandoned", campaign |-> c]
<1>1. /\ log \in Seq(LogRecords) /\ r \in LogRecords /\ log' = Append(log, r)
      /\ ~campaign_is_sealed(log, c)
  BY DEF LogOK, LogRecords, CampaignAbandon, Write
<1>2. r.kind = "campaign.abandoned" /\ r.campaign = c /\ "campaign" \in DOMAIN r
  OBVIOUS
<1> HIDE DEF r
<1> QED BY <1>1, <1>2, Appends DEF Adds, PrFits, CampaignFits, Sealed, RecordOf

LEMMA FitsCampaignClose ==
  ASSUME LogOK(log), NEW c \in Campaigns, NEW b \in BOOLEAN, CampaignClose(c, b)
  PROVE  Adds(log, log') /\ Sealed(log, log')
<1> DEFINE n == Cardinality(ledger_rejected(log, c))
           r == [kind |-> "campaign.closed", campaign |-> c, rejected |-> n]
<1>1. n \in Nat /\ ledger_rejected(log, c) = Rejected(log, c)
  <2>1. ledger_rejected(log, c) \in SUBSET Intents
    BY DEF ledger_rejected, intents_from_log
  <2> QED BY <2>1, IntentsAssumption, FS_Subset, FS_CardinalityType, LedgerMeaning DEF LogOK, OnceEach
<1>2. /\ ~campaign_is_sealed(log, c) /\ campaign_opened(log, c)
      /\ in_flight_prs(log, c) = {} \/ campaign_abandoned(log, c)
      /\ log' = Append(log, r)
  BY DEF CampaignClose, Write
<1>3. log \in Seq(LogRecords) /\ r \in LogRecords
  BY <1>1 DEF LogOK, LogRecords
<1>4. r.kind = "campaign.closed" /\ r.campaign = c /\ r.rejected = Cardinality(Rejected(log, c))
  BY <1>1
<1>5. "campaign" \in DOMAIN r
  OBVIOUS
<1> HIDE DEF n, r
<1>6. Adds(log, log')
  BY <1>2, <1>3, <1>4, Appends DEF Adds, PrFits, CampaignFits
<1> QED BY <1>2, <1>3, <1>4, <1>5, <1>6, Appends DEF Sealed, RecordOf

LEMMA FitsPrOpen ==
  ASSUME LogOK(log), NEW p \in Prs, NEW c \in Campaigns, NEW is \in SUBSET Intents,
         NEW os \in SUBSET Commits, PrOpen(p, c, is, os)
  PROVE  Adds(log, log') /\ Sealed(log, log')
<1> DEFINE r == [kind |-> "pr.opened", pr |-> p, campaign |-> c, intents |-> is, commits |-> os]
<1>1. /\ log \in Seq(LogRecords) /\ r \in LogRecords /\ log' = Append(log, r)
      /\ ~campaign_is_sealed(log, c) /\ ~is_opened(log, p)
  BY DEF LogOK, LogRecords, PrOpen, Write
<1>2. r.kind = "pr.opened" /\ r.pr = p /\ r.campaign = c /\ "campaign" \in DOMAIN r
  OBVIOUS
<1> HIDE DEF r
<1> QED BY <1>1, <1>2, Appends DEF Adds, PrFits, CampaignFits, Sealed, RecordOf

\* A record of a pull request that is not in a sealed campaign.
LEMMA PrSealed ==
  ASSUME LogOK(log), NEW p, MayChange(p), NEW r \in LogRecords, log' = Append(log, r),
         LogOK(log'), r.kind \in {"pr.queued", "pr.abandoned"}, r.pr = p
  PROVE  Sealed(log, log')
<1>1. is_opened(log, p) /\ ~campaign_is_sealed(log, find_pr_opened(log, p).campaign)
  BY DEF MayChange
<1>2. log \in Seq(LogRecords) /\ Extends(log, log') /\ \A j \in Added(log, log') : log'[j] = r
  BY Appends DEF LogOK
<1>3. find_pr_opened(log', p) = find_pr_opened(log, p)
  BY <1>1, <1>2, OpenedStays
<1>4. "campaign" \notin DOMAIN r /\ "intent" \notin DOMAIN r /\ "scope" \notin DOMAIN r
  BY DEF LogRecords
<1> QED BY <1>1, <1>2, <1>3, <1>4 DEF Sealed, RecordOf

LEMMA FitsPrQueue ==
  ASSUME LogOK(log), NEW p \in Prs, PrQueue(p)
  PROVE  Adds(log, log') /\ Sealed(log, log')
<1> DEFINE n == Cardinality(all_pr_queued(log))
           r == [kind |-> "pr.queued", pr |-> p, order |-> n]
<1>1. /\ MayChange(p) /\ ~pr_is_landed(log, p) /\ ~is_queued(log, p)
      /\ n \notin Positions(log) /\ log' = Append(log, r)
  BY DEF PrQueue, Write
<1>2. n \in Nat
  <2>1. Len(log) \in Nat
    BY DEF LogOK
  <2>2. IsFiniteSet(1..Len(log))
    BY <2>1, FS_Interval
  <2>3. all_pr_queued(log) \in SUBSET (1..Len(log))
    BY DEF all_pr_queued
  <2> QED BY <2>2, <2>3, FS_Subset, FS_CardinalityType
<1>3. log \in Seq(LogRecords) /\ r \in LogRecords
  BY <1>2 DEF LogOK, LogRecords
<1>4. r.kind = "pr.queued" /\ r.pr = p /\ r.order = n
  OBVIOUS
<1> HIDE DEF n, r
<1>5. ~HasRecord(log, "pr.queued", "pr", p)
  BY <1>1 DEF HasRecord, RecordsAt, is_queued, all_pr_queued
<1>6. \A k \in all_pr_queued(log) : log[k].order # n
  BY <1>1 DEF Positions
<1>7. Adds(log, log')
  BY <1>1, <1>3, <1>4, <1>5, <1>6, Appends DEF Adds, PrFits, CampaignFits, MayChange
<1> QED BY <1>1, <1>3, <1>4, <1>7, LogGrows, PrSealed

LEMMA FitsPrAbandon ==
  ASSUME LogOK(log), NEW p \in Prs, PrAbandon(p)
  PROVE  Adds(log, log') /\ Sealed(log, log')
<1> DEFINE r == [kind |-> "pr.abandoned", pr |-> p]
<1>1. /\ MayChange(p) /\ log' = Append(log, r) /\ log \in Seq(LogRecords) /\ r \in LogRecords
      /\ r.kind = "pr.abandoned" /\ r.pr = p
  BY DEF PrAbandon, Write, LogOK, LogRecords
<1> HIDE DEF r
<1>2. Adds(log, log')
  BY <1>1, Appends DEF Adds, PrFits, CampaignFits, MayChange
<1> QED BY <1>1, <1>2, LogGrows, PrSealed

LEMMA FitsVerdict ==
  ASSUME LogOK(log), NEW i \in Intents, NEW claims \in Panels, VerdictRecord(i, claims)
  PROVE  Adds(log, log') /\ Sealed(log, log')
<1> DEFINE r == [kind |-> "verdict.recorded", intent |-> i, claims |-> claims]
<1>1. /\ log \in Seq(LogRecords) /\ r \in LogRecords /\ log' = Append(log, r)
      /\ intent_is_on_log(log, i) => ~campaign_is_sealed(log, campaign_for_intent(log, i))
      /\ r.kind = "verdict.recorded" /\ r.intent = i
      /\ "campaign" \notin DOMAIN r /\ "pr" \notin DOMAIN r /\ "scope" \notin DOMAIN r
  BY DEF LogOK, LogRecords, VerdictRecord, Write
<1> HIDE DEF r
<1>2. Adds(log, log')
  BY <1>1, Appends DEF Adds, PrFits, CampaignFits
<1>3. LogOK(log') /\ Extends(log, log') /\ \A j \in Added(log, log') : log'[j] = r
  BY <1>1, <1>2, LogGrows, Appends
<1>4. intent_is_on_log(log', i) => intent_is_on_log(log, i)
  BY <1>1, <1>3, IsOnLog, Positions2 DEF Extends
<1>5. intent_is_on_log(log', i) =>
         /\ campaign_for_intent(log', i) = campaign_for_intent(log, i)
         /\ ~campaign_is_sealed(log, campaign_for_intent(log', i))
  BY <1>1, <1>3, <1>4, IntentStays
<1>6. Sealed(log, log')
  BY <1>1, <1>3, <1>5 DEF Sealed, RecordOf
<1> QED BY <1>2, <1>6

LEMMA FitsOther ==
  ASSUME LogOK(log), (\E t \in Prs \cup Intents : CtxUsage(t)) \/ \E o \in Commits : RefUpdate(o)
  PROVE  Adds(log, log') /\ Sealed(log, log')
<1>1. PICK r \in LogRecords : /\ log' = Append(log, r) /\ r.kind \in {"ctx.usage", "ref.update"}
                              /\ "campaign" \notin DOMAIN r /\ "pr" \notin DOMAIN r
                              /\ "intent" \notin DOMAIN r /\ "scope" \notin DOMAIN r
  <2>1. CASE \E t \in Prs \cup Intents : CtxUsage(t)
    BY <2>1 DEF CtxUsage, Write, LogRecords
  <2>2. CASE \E o \in Commits : RefUpdate(o)
    BY <2>2 DEF RefUpdate, Write, LogRecords
  <2> QED BY <2>1, <2>2
<1>2. log \in Seq(LogRecords)
  BY DEF LogOK
<1> QED BY <1>1, <1>2, Appends DEF Adds, PrFits, CampaignFits, Sealed, RecordOf

\* The intents of a pull request can be listed.
LEMMA IntentsListed ==
  ASSUME NEW S \in SUBSET Intents
  PROVE  Cardinality(S) \in Nat /\ SetToSeq(S) \in [1..Cardinality(S) -> S]
<1>1. Cardinality(S) \in Nat /\ ExistsBijection(1..Cardinality(S), S)
  BY IntentsAssumption, FS_Subset, FS_CardinalityType
<1>2. PICK f \in [1..Cardinality(S) -> S] : IsInjective(f)
  BY <1>1 DEF ExistsBijection, Bijection, Injection, IsInjective
<1>3. SetToSeq(S) \in [1..Cardinality(S) -> S]
  BY <1>2 DEF SetToSeq
<1> QED BY <1>1, <1>3

LEMMA Between ==
  ASSUME NEW x \in Nat, NEW y \in Nat, NEW j \in x + 2 .. y + 1, j # y + 1
  PROVE  j \in 1..y /\ j \in (x + 1) + 1 .. y
OBVIOUS

LEMMA FitsPrSettle ==
  ASSUME LogOK(log), NEW p \in Prs, PrSettle(p)
  PROVE  Adds(log, log') /\ Sealed(log, log')
<1> DEFINE opened == find_pr_opened(log, p)
           c == opened.campaign
           r == land_one(log, p)
           n == Cardinality(opened.intents)
           F == [j \in 1..n |-> [kind |-> "intent.envelope", intent |-> SetToSeq(opened.intents)[j],
                                 campaign |-> c]]
           e == [kind |-> "pr.envelope", pr |-> opened.pr, campaign |-> c,
                 usage |-> UsageOf(Append(log, r), opened)]
<1>1. /\ is_opened(log, p) /\ ~campaign_is_sealed(log, c) /\ is_queued(log, p)
      /\ log' = capture_on_land(Append(log, r), opened)
  BY DEF PrSettle, MayChange
<1>2. log' = (Append(log, r) \o F) \o <<e>>
  BY <1>1 DEF capture_on_land
<1>3. /\ opened \in LogRecords /\ opened.pr = p /\ c \in Campaigns /\ opened.intents \in SUBSET Intents
  BY <1>1, OpenedType
<1>4. n \in Nat /\ SetToSeq(opened.intents) \in [1..n -> opened.intents]
  BY <1>3, IntentsListed
<1>5. log \in Seq(LogRecords)
  BY DEF LogOK
<1>6. r \in LogRecords /\ r.kind = "pr.landed" /\ r.pr = p /\ r.campaign = c
  BY <1>3 DEF land_one, LogRecords
<1>7. UsageOf(Append(log, r), opened) \in SUBSET Nat
  <2>1. Len(Append(log, r)) \in Nat
    BY <1>5
  <2> QED BY <2>1 DEF UsageOf
<1>8. e \in LogRecords /\ e.kind = "pr.envelope" /\ "campaign" \in DOMAIN e /\ e.campaign = c
  <2> HIDE DEF opened, c
  <2>1. opened.pr \in Prs
    BY <1>3
  <2> QED BY <1>3, <1>7, <2>1 DEF LogRecords
<1>9. \A j \in 1..n : /\ F[j] \in LogRecords /\ F[j].kind = "intent.envelope"
                      /\ "campaign" \in DOMAIN F[j] /\ F[j].campaign = c
  <2> SUFFICES ASSUME NEW j \in 1..n
               PROVE  /\ F[j] \in LogRecords /\ F[j].kind = "intent.envelope"
                      /\ "campaign" \in DOMAIN F[j] /\ F[j].campaign = c
    OBVIOUS
  <2>1. SetToSeq(opened.intents)[j] \in Intents
    BY <1>3, <1>4
  <2>2. F[j] = [kind |-> "intent.envelope", intent |-> SetToSeq(opened.intents)[j], campaign |-> c]
    OBVIOUS
  <2> HIDE DEF F, c, n, opened
  <2> QED BY <1>3, <2>1, <2>2 DEF LogRecords
<1>10. F \in Seq(LogRecords) /\ Len(F) = n
  <2>1. F \in [1..n -> LogRecords]
    BY <1>9
  <2> HIDE DEF F, n
  <2> QED BY <1>4, <2>1
<1> HIDE DEF F, e, r, n, opened, c
<1>20. PICK fs \in Seq(LogRecords) : fs = F
  BY <1>10
<1>21. /\ Len(fs) \in Nat
       /\ \A k \in 1..Len(fs) : /\ fs[k].kind = "intent.envelope"
                                /\ "campaign" \in DOMAIN fs[k] /\ fs[k].campaign = c
  BY <1>9, <1>10, <1>20
<1>22. log' = (Append(log, r) \o fs) \o <<e>>
  BY <1>2, <1>20
<1>11. /\ log' \in Seq(LogRecords) /\ Len(log') = Len(log) + Len(fs) + 2
       /\ \A j \in 1..Len(log) : log'[j] = log[j]
       /\ log'[Len(log) + 1] = r
       /\ \A j \in Len(log) + 2 .. Len(log') : log'[j] = e \/ \E k \in 1..Len(fs) : log'[j] = fs[k]
  <2>1. PICK a : a = Append(log, r)
    OBVIOUS
  <2>2. PICK b : b = a \o fs
    OBVIOUS
  <2>3. log' = b \o <<e>>
    BY <1>22, <2>1, <2>2
  <2>4. a \in Seq(LogRecords) /\ Len(log) \in Nat /\ Len(fs) \in Nat
    BY <1>5, <1>6, <1>20, <2>1
  <2>5. b \in Seq(LogRecords) /\ Len(a) \in Nat
    BY <1>20, <2>2, <2>4
  <2>6. log' \in Seq(LogRecords) /\ Len(b) \in Nat /\ Len(log') \in Nat
    BY <1>8, <2>3, <2>5
  <2>7. /\ Len(a) = Len(log) + 1 /\ a[Len(log) + 1] = r
        /\ \A j \in 1..Len(log) : a[j] = log[j]
    BY <1>5, <1>6, <2>1, <2>4
  <2>8. /\ Len(b) = Len(a) + Len(fs) /\ \A j \in 1..Len(a) : b[j] = a[j]
        /\ \A j \in Len(a) + 1 .. Len(b) : j - Len(a) \in 1..Len(fs) /\ b[j] = fs[j - Len(a)]
    <3>1. Len(b) = Len(a) + Len(fs)
      BY <1>20, <2>2, <2>4
    <3>2. \A j \in 1..Len(a) : b[j] = a[j]
      BY <1>20, <2>2, <2>4
    <3>3. \A j \in Len(a) + 1 .. Len(b) : b[j] = fs[j - Len(a)]
      BY <1>20, <2>2, <2>4, <3>1
    <3>4. \A j \in Len(a) + 1 .. Len(b) : j - Len(a) \in 1..Len(fs)
      BY <2>4, <2>5, <3>1
    <3> QED BY <3>1, <3>2, <3>3, <3>4
  <2>9. /\ Len(log') = Len(b) + 1 /\ log'[Len(log')] = e
        /\ \A j \in 1..Len(b) : log'[j] = b[j]
    BY <1>8, <2>3, <2>5, <2>6
  <2>10. /\ Len(log') = Len(log) + Len(fs) + 2
         /\ \A j \in 1..Len(log) : log'[j] = log[j]
         /\ log'[Len(log) + 1] = r
    <3>1. Len(log') = Len(log) + Len(fs) + 2
      BY <2>4, <2>5, <2>6, <2>7, <2>8, <2>9
    <3>2. \A j \in 1..Len(log) + 1 : j \in 1..Len(a) /\ j \in 1..Len(b)
      BY <2>4, <2>7, <2>8
    <3>3. \A j \in 1..Len(log) + 1 : log'[j] = a[j]
      BY <2>8, <2>9, <3>2
    <3>4. \A j \in 1..Len(log) : j \in 1..Len(log) + 1
      BY <2>4
    <3>5. Len(log) + 1 \in 1..Len(log) + 1
      BY <2>4
    <3> QED BY <2>7, <3>1, <3>3, <3>4, <3>5
  <2>11. ASSUME NEW j \in Len(log) + 2 .. Len(log')
        PROVE  log'[j] = e \/ \E k \in 1..Len(fs) : log'[j] = fs[k]
    <3>1. CASE j = Len(log')
      BY <2>9, <3>1
    <3>2. CASE j # Len(log')
      <4>1. j \in 1..Len(b) /\ j \in Len(a) + 1 .. Len(b)
        BY <2>4, <2>6, <2>7, <2>9, <3>2, Between, Zenon
      <4>2. b[j] = fs[j - Len(a)] /\ j - Len(a) \in 1..Len(fs) /\ log'[j] = b[j]
        BY <2>8, <2>9, <4>1
      <4> QED BY <4>2
    <3> QED BY <3>1, <3>2
  <2>12. \A j \in Len(log) + 2 .. Len(log') : log'[j] = e \/ \E k \in 1..Len(fs) : log'[j] = fs[k]
    BY <2>11, Zenon
  <2> QED BY <2>6, <2>10, <2>12
<1>12. Extends(log, log')
  BY <1>5, <1>11, <1>21 DEF Extends
<1>13. ASSUME NEW j \in Added(log, log')
       PROVE  \/ j = Len(log) + 1 /\ log'[j] = r
              \/ /\ log'[j].kind \in {"pr.envelope", "intent.envelope"}
                 /\ "campaign" \in DOMAIN log'[j] /\ log'[j].campaign = c
  <2>1. j = Len(log) + 1 \/ j \in Len(log) + 2 .. Len(log')
    BY <1>5, <1>21, <1>11 DEF Added
  <2> QED BY <1>8, <1>21, <1>11, <2>1
<1>14. ASSUME NEW j \in Added(log, log') PROVE PrFits(log, log', j) /\ CampaignFits(log, log', j)
  <2>1. CASE log'[j].kind \in {"pr.envelope", "intent.envelope"}
    BY <2>1 DEF PrFits, CampaignFits
  <2>2. CASE j = Len(log) + 1 /\ log'[j] = r
    <3>1. \A k \in Added(log, log') : log'[k].kind = "pr.landed" => k = j
      BY <1>13, <2>2
    <3>2. r.campaign = find_pr_opened(log, r.pr).campaign
      BY <1>6 DEF c, opened
    <3> QED BY <1>1, <1>6, <2>2, <3>1, <3>2 DEF PrFits, CampaignFits
  <2> QED BY <1>13, <2>1, <2>2
<1>15. Sealed(log, log')
  BY <1>1, <1>6, <1>13 DEF Sealed, RecordOf
<1> QED BY <1>12, <1>14, <1>15 DEF Adds

LEMMA FitsLandQueue ==
  ASSUME LogOK(log), NEW scope \in Scopes, NEW ps, NEW red \in BOOLEAN, LandQueue(scope, ps, red)
  PROVE  Adds(log, log') /\ Sealed(log, log')
<1> DEFINE landing == {j \in QueueMembers(log, scope) : log[j].pr \in ps}
           n == Cardinality(landing)
           e == record_union_fail(scope)
<1>1. PICK f \in InQueueOrder(log, landing) :
        log' = (log \o [m \in 1..n |-> land_one(log, log[f[m]].pr)]) \o (IF red THEN <<e>> ELSE <<>>)
  BY DEF LandQueue
<1> DEFINE G == [m \in 1..n |-> land_one(log, log[f[m]].pr)]
<1>2. log \in Seq(LogRecords) /\ Len(log) \in Nat
  BY DEF LogOK
<1>3. landing \in SUBSET all_pr_queued(log)
  BY DEF QueueMembers
<1>4. n \in Nat
  <2>1. IsFiniteSet(1..Len(log))
    BY <1>2, FS_Interval
  <2> HIDE DEF landing
  <2>2. landing \in SUBSET (1..Len(log))
    BY <1>3 DEF all_pr_queued
  <2> QED BY <2>1, <2>2, FS_Subset, FS_CardinalityType
<1>5. /\ f \in [1..n -> landing]
      /\ \A i, m \in 1..n : i < m => log[f[i]].order < log[f[m]].order
  BY <1>1 DEF InQueueOrder
<1> HIDE DEF landing, n
<1>6. ASSUME NEW m \in 1..n
      PROVE  /\ f[m] \in all_pr_queued(log) /\ is_queued(log, log[f[m]].pr)
             /\ f[m] \in 1..Len(log) /\ log[f[m]].kind = "pr.queued" /\ log[f[m]].order \in Nat
             /\ G[m] \in LogRecords /\ G[m].kind = "pr.landed" /\ G[m].pr = log[f[m]].pr
             /\ G[m].campaign = find_pr_opened(log, log[f[m]].pr).campaign
  <2>1. f[m] \in all_pr_queued(log)
    BY <1>3, <1>5
  <2>2. is_queued(log, log[f[m]].pr) /\ f[m] \in 1..Len(log) /\ log[f[m]].kind = "pr.queued"
    BY <2>1 DEF is_queued, all_pr_queued
  <2>3. log[f[m]].order \in Nat /\ log[f[m]].pr \in Prs
    BY <1>2, <2>2, RecordTypes
  <2>4. find_pr_opened(log, log[f[m]].pr).campaign \in Campaigns
    BY <1>2, <2>2, QueuedOpened, RecordTypes
  <2>5. G[m] = land_one(log, log[f[m]].pr)
    OBVIOUS
  <2> HIDE DEF G
  <2>6. /\ G[m] \in LogRecords /\ G[m].kind = "pr.landed" /\ G[m].pr = log[f[m]].pr
        /\ G[m].campaign = find_pr_opened(log, log[f[m]].pr).campaign
    BY <2>3, <2>4, <2>5 DEF land_one, LogRecords
  <2> QED BY <2>1, <2>2, <2>3, <2>6
<1>7. PICK gs \in Seq(LogRecords) : gs = G /\ Len(gs) = n
  <2>1. G \in [1..n -> LogRecords]
    BY <1>6
  <2> HIDE DEF G
  <2>2. G \in Seq(LogRecords) /\ Len(G) = n
    BY <1>4, <2>1
  <2> QED BY <2>2
<1>8. ASSUME NEW m \in 1..n
      PROVE  /\ gs[m].kind = "pr.landed" /\ gs[m].pr = log[f[m]].pr /\ is_queued(log, gs[m].pr)
             /\ gs[m].campaign = find_pr_opened(log, gs[m].pr).campaign
  BY <1>6, <1>7
<1>9. e \in LogRecords /\ e.kind = "queue.union_fail"
  BY DEF record_union_fail, LogRecords
<1>10. PICK hs \in Seq(LogRecords) :
         log' = (log \o gs) \o hs /\ \A k \in 1..Len(hs) : hs[k].kind = "queue.union_fail"
  <2>1. CASE red
    <3>1. <<e>> \in Seq(LogRecords) /\ \A k \in 1..Len(<<e>>) : <<e>>[k].kind = "queue.union_fail"
      BY <1>9
    <3>2. log' = (log \o gs) \o <<e>>
      BY <1>1, <1>7, <2>1
    <3> HIDE DEF e
    <3> QED BY <3>1, <3>2
  <2>2. CASE ~red
    <3>1. <<>> \in Seq(LogRecords) /\ \A k \in 1..Len(<<>>) : <<>>[k].kind = "queue.union_fail"
      OBVIOUS
    <3>2. log' = (log \o gs) \o <<>>
      BY <1>1, <1>7, <2>2
    <3> QED BY <3>1, <3>2
  <2> QED BY <2>1, <2>2
<1> HIDE DEF G, e
<1>11. PICK a \in Seq(LogRecords) : a = log \o gs
  <2>1. log \o gs \in Seq(LogRecords)
    BY <1>2
  <2> QED BY <2>1
<1>12. /\ Len(a) = Len(log) + n /\ Len(a) \in Nat
       /\ \A j \in 1..Len(log) : a[j] = log[j]
       /\ \A j \in Len(log) + 1 .. Len(a) : j - Len(log) \in 1..n /\ a[j] = gs[j - Len(log)]
  <2>1. Len(a) = Len(log) + Len(gs) /\ Len(gs) \in Nat
    BY <1>2, <1>11
  <2>2. \A j \in 1..Len(log) : a[j] = log[j]
    BY <1>2, <1>11
  <2>3. \A j \in Len(log) + 1 .. Len(a) : a[j] = gs[j - Len(log)]
    BY <1>2, <1>11, <2>1
  <2>4. \A j \in Len(log) + 1 .. Len(a) : j - Len(log) \in 1..n
    BY <1>2, <1>7, <2>1
  <2> QED BY <1>7, <2>1, <2>2, <2>3, <2>4
<1>13. log' = a \o hs
  BY <1>10, <1>11
<1>14. /\ log' \in Seq(LogRecords) /\ Len(log') = Len(a) + Len(hs) /\ Len(hs) \in Nat
       /\ \A j \in 1..Len(a) : log'[j] = a[j]
       /\ \A j \in Len(a) + 1 .. Len(log') : j - Len(a) \in 1..Len(hs) /\ log'[j] = hs[j - Len(a)]
  <2>1. log' \in Seq(LogRecords) /\ Len(log') = Len(a) + Len(hs) /\ Len(hs) \in Nat
    BY <1>13
  <2>2. \A j \in 1..Len(a) : log'[j] = a[j]
    BY <1>13
  <2>3. \A j \in Len(a) + 1 .. Len(log') : log'[j] = hs[j - Len(a)]
    BY <1>13, <2>1
  <2>4. \A j \in Len(a) + 1 .. Len(log') : j - Len(a) \in 1..Len(hs)
    BY <1>12, <2>1
  <2> QED BY <2>1, <2>2, <2>3, <2>4
<1>15. Extends(log, log')
  <2>1. Len(log) <= Len(log')
    BY <1>2, <1>4, <1>12, <1>14
  <2>2. \A j \in 1..Len(log) : j \in 1..Len(a)
    BY <1>2, <1>4, <1>12
  <2> QED BY <1>12, <1>14, <2>1, <2>2 DEF Extends
<1>16. ASSUME NEW j \in Added(log, log')
       PROVE  \/ log'[j].kind = "queue.union_fail"
              \/ j - Len(log) \in 1..n /\ log'[j] = gs[j - Len(log)]
  <2>1. j \in Len(a) + 1 .. Len(log') \/ (j \in Len(log) + 1 .. Len(a) /\ j \in 1..Len(a))
    BY <1>2, <1>4, <1>12, <1>14 DEF Added
  <2> QED BY <1>10, <1>12, <1>14, <2>1
<1>17. ASSUME NEW i \in 1..n, NEW m \in 1..n, gs[i].pr = gs[m].pr PROVE i = m
  <2>0. log[f[i]].pr = log[f[m]].pr
    BY <1>8, <1>17
  <2>1. f[i] = f[m]
    BY <1>6, <2>0 DEF LogOK, OnceEach, Once
  <2>2. ~(i < m) /\ ~(m < i)
    BY <1>5, <1>6, <2>1
  <2> QED BY <1>4, <2>2
<1>18. ASSUME NEW j \in Added(log, log'), NEW k \in Added(log, log'), log'[j].kind = "pr.landed",
              log'[k].kind = "pr.landed", log'[k].pr = log'[j].pr
       PROVE  k = j
  <2>1. k - Len(log) = j - Len(log)
    BY <1>16, <1>17, <1>18
  <2> QED BY <1>2, <2>1 DEF Added
<1>19. ASSUME NEW j \in Added(log, log'), log'[j].kind # "queue.union_fail"
       PROVE  /\ log'[j].kind = "pr.landed" /\ is_queued(log, log'[j].pr)
              /\ log'[j].campaign = find_pr_opened(log, log'[j].pr).campaign
  BY <1>8, <1>16, <1>19
<1>20. ASSUME NEW j \in Added(log, log') PROVE PrFits(log, log', j) /\ CampaignFits(log, log', j)
  <2>1. CASE log'[j].kind = "queue.union_fail"
    BY <2>1 DEF PrFits, CampaignFits
  <2>2. CASE log'[j].kind # "queue.union_fail"
    BY <1>18, <1>19, <2>2 DEF PrFits, CampaignFits
  <2> QED BY <2>1, <2>2
<1> QED BY <1>15, <1>19, <1>20 DEF Adds, Sealed

-----------------------------------------------------------------------------
(* Porcelain: the authors, their store and the log.                        *)

Stores == [ids : SUBSET Intents, sourced : SUBSET Intents]

AuthorStates ==
  {Idle}
  \cup [pc : {"checked"}, intent : Intents, campaign : Campaigns, with_log : BOOLEAN]
  \cup [pc : {"locked", "reconciled", "landed"}, intent : Intents, campaign : Campaigns,
        with_log : BOOLEAN, copy : Stores]

\* An author that holds the store lock.
HasStore(a) == author[a].pc \in {"locked", "reconciled", "landed"}

\* One author at a time holds the store, and its copy is the store; the intent
\* it has landed is on the log before the store is saved.
AuthorsOK ==
  /\ store \in Stores /\ author \in [Authors -> AuthorStates]
  /\ store.sourced \subseteq intents_from_log(log)
  /\ \A a, b \in Authors : HasStore(a) /\ HasStore(b) => a = b
  /\ \A a \in Authors : HasStore(a) => author[a].copy = store
  /\ \A a \in Authors : author[a].pc = "landed" /\ author[a].with_log
                          => author[a].intent \in intents_from_log(log)

VerbsInv == LogOK(log) /\ AuthorsOK /\ crashes \in 0..MaxCrashes /\ mix \in Mixes

\* What a step does: the log grows by what fits, and the store keeps.
StepOK ==
  /\ Adds(log, log') /\ Sealed(log, log')
  /\ store.ids \subseteq store'.ids

LEMMA OnLogGrows ==
  ASSUME LogOK(log), Adds(log, log')
  PROVE  intents_from_log(log) \subseteq intents_from_log(log')
<1>1. log \in Seq(LogRecords) /\ Extends(log, log')
  BY DEF LogOK, Adds
<1> QED BY <1>1, HasGrows DEF intents_from_log, intent_is_on_log

LEMMA NothingAdded ==
  ASSUME LogOK(log), log' = log
  PROVE  Adds(log, log') /\ Sealed(log, log')
<1>1. log \in Seq(LogRecords) /\ Len(log) \in Nat
  BY DEF LogOK
<1>2. Extends(log, log') /\ Added(log, log') = {}
  BY <1>1 DEF Extends, Added
<1> QED BY <1>2 DEF Adds, Sealed

\* Verbs other than `intent new` leave the authors and their store alone.
LEMMA OtherVerbStep ==
  ASSUME VerbsInv, Adds(log, log'), Sealed(log, log'), UNCHANGED <<store, author, crashes, mix>>
  PROVE  VerbsInv' /\ StepOK
<1>1. LogOK(log')
  BY LogGrows DEF VerbsInv
<1>2. intents_from_log(log) \subseteq intents_from_log(log')
  BY OnLogGrows DEF VerbsInv
<1>3. AuthorsOK'
  BY <1>2 DEF VerbsInv, AuthorsOK, HasStore
<1> QED BY <1>1, <1>3 DEF VerbsInv, StepOK

\* The record of an author, by its position.
LEMMA AuthorFields ==
  ASSUME AuthorsOK, NEW a \in Authors
  PROVE  /\ author[a].pc \in {"idle", "checked", "locked", "reconciled", "landed"}
         /\ author[a].pc # "idle" =>
              author[a].intent \in Intents /\ author[a].campaign \in Campaigns /\ author[a].with_log \in BOOLEAN
         /\ HasStore(a) => /\ author[a] \in [pc : {"locked", "reconciled", "landed"}, intent : Intents,
                                          campaign : Campaigns, with_log : BOOLEAN, copy : Stores]
                        /\ author[a].copy = store
<1>1. author[a] \in AuthorStates
  BY DEF AuthorsOK
<1>2. CASE author[a] = Idle
  BY <1>2 DEF Idle, HasStore
<1>3. CASE author[a] \in [pc : {"checked"}, intent : Intents, campaign : Campaigns, with_log : BOOLEAN]
  BY <1>3 DEF HasStore
<1>4. CASE author[a] \in [pc : {"locked", "reconciled", "landed"}, intent : Intents,
                          campaign : Campaigns, with_log : BOOLEAN, copy : Stores]
  BY <1>4 DEF AuthorsOK
<1> QED BY <1>1, <1>2, <1>3, <1>4 DEF AuthorStates

\* An author that lets go of the store, or never had it.
LEMMA AuthorLeaves ==
  ASSUME AuthorsOK, NEW a \in Authors, NEW s \in AuthorStates, s.pc \notin {"locked", "reconciled", "landed"},
         SetAuthor(a, s), intents_from_log(log) \subseteq intents_from_log(log'),
         store' \in Stores, store'.sourced \subseteq intents_from_log(log'),
         HasStore(a) \/ store' = store
  PROVE  AuthorsOK'
<1>1. /\ author' \in [Authors -> AuthorStates] /\ author'[a] = s
      /\ \A b \in Authors : b # a => author'[b] = author[b]
  BY DEF SetAuthor, AuthorsOK
<1>2. \A b \in Authors : HasStore(b)' => b # a /\ HasStore(b) /\ author'[b] = author[b]
  BY <1>1 DEF HasStore
<1>3. \A b \in Authors : HasStore(b)' => store' = store
  BY <1>2 DEF AuthorsOK
<1>4. \A b \in Authors : author'[b].pc = "landed" => HasStore(b)'
  BY DEF HasStore
<1>5. /\ \A b, d \in Authors : HasStore(b)' /\ HasStore(d)' => b = d
      /\ \A b \in Authors : HasStore(b)' => author'[b].copy = store'
  BY <1>2, <1>3 DEF AuthorsOK
<1>6. \A b \in Authors : author'[b].pc = "landed" /\ author'[b].with_log
                           => author'[b].intent \in intents_from_log(log')
  BY <1>2, <1>4 DEF AuthorsOK
<1> QED BY <1>1, <1>5, <1>6 DEF AuthorsOK

\* An author that holds the store after the step, alone.
LEMMA AuthorHolds ==
  ASSUME AuthorsOK, NEW a \in Authors, NEW s \in AuthorStates, s.pc \in {"locked", "reconciled", "landed"},
         SetAuthor(a, s), intents_from_log(log) \subseteq intents_from_log(log'),
         \A b \in Authors : HasStore(b) => b = a,
         store' \in Stores, store'.sourced \subseteq intents_from_log(log'), s.copy = store',
         s.pc = "landed" /\ s.with_log => s.intent \in intents_from_log(log')
  PROVE  AuthorsOK'
<1>1. /\ author' \in [Authors -> AuthorStates] /\ author'[a] = s
      /\ \A b \in Authors : b # a => author'[b] = author[b]
  BY DEF SetAuthor, AuthorsOK
<1>2. \A b \in Authors : HasStore(b)' => b = a
  BY <1>1 DEF HasStore
<1>3. \A b \in Authors : author'[b].pc = "landed" => HasStore(b)'
  BY DEF HasStore
<1> QED BY <1>1, <1>2, <1>3 DEF AuthorsOK

LEMMA StoreOf == ASSUME NEW s \in Stores PROVE s.ids \in SUBSET Intents /\ s.sourced \in SUBSET Intents
BY DEF Stores

LEMMA NewCheckStep ==
  ASSUME VerbsInv, NEW a \in Authors, NEW i \in Intents, NEW c \in Campaigns, NEW b \in BOOLEAN,
         NewCheck(a, i, c, b)
  PROVE  VerbsInv' /\ StepOK
<1> DEFINE s == [pc |-> "checked", intent |-> i, campaign |-> c, with_log |-> b]
<1>1. SetAuthor(a, s) /\ UNCHANGED <<log, store, crashes, mix>>
  BY DEF NewCheck
<1>2. s \in AuthorStates /\ s.pc \notin {"locked", "reconciled", "landed"}
  BY DEF AuthorStates
<1> HIDE DEF s
<1>3. store \in Stores /\ store.sourced \subseteq intents_from_log(log)
  BY DEF VerbsInv, AuthorsOK
<1>4. AuthorsOK'
  BY <1>1, <1>2, <1>3, AuthorLeaves DEF VerbsInv
<1> QED BY <1>1, <1>4, NothingAdded DEF VerbsInv, StepOK

LEMMA NewLockStep ==
  ASSUME VerbsInv, NEW a \in Authors, NewLock(a)
  PROVE  VerbsInv' /\ StepOK
<1> DEFINE s == [pc |-> "locked", intent |-> author[a].intent, campaign |-> author[a].campaign,
                 with_log |-> author[a].with_log, copy |-> store]
<1>1. SetAuthor(a, s) /\ author[a].pc = "checked" /\ StoreFree /\ UNCHANGED <<log, store, crashes, mix>>
  BY DEF NewLock
<1>2. AuthorsOK /\ store \in Stores /\ store.sourced \subseteq intents_from_log(log)
  BY DEF VerbsInv, AuthorsOK
<1>3. s \in AuthorStates
  BY <1>1, <1>2, AuthorFields DEF AuthorStates
<1>4. s.pc = "locked" /\ s.copy = store
  OBVIOUS
<1> HIDE DEF s
<1>5. \A b \in Authors : ~HasStore(b)
  BY <1>1 DEF StoreFree, HasStore
<1>6. AuthorsOK'
  BY <1>1, <1>2, <1>3, <1>4, <1>5, AuthorHolds
<1> QED BY <1>1, <1>6, NothingAdded DEF VerbsInv, StepOK

LEMMA NewReconcileStep ==
  ASSUME VerbsInv, NEW a \in Authors, NewReconcile(a)
  PROVE  VerbsInv' /\ StepOK
<1> DEFINE healed == IF author[a].with_log THEN reconcile_store_from_log(author[a].copy, log)
                                           ELSE author[a].copy
           s == [author[a] EXCEPT !.pc = "reconciled", !.copy = healed]
<1>1. /\ author[a].pc = "locked" /\ SetAuthor(a, s)
      /\ store' = (IF healed # author[a].copy THEN healed ELSE store)
      /\ UNCHANGED <<log, crashes, mix>>
  BY DEF NewReconcile
<1>2. AuthorsOK /\ store \in Stores /\ store.sourced \subseteq intents_from_log(log)
  BY DEF VerbsInv, AuthorsOK
<1>3. /\ HasStore(a) /\ author[a].copy = store
      /\ author[a] \in [pc : {"locked", "reconciled", "landed"}, intent : Intents,
                        campaign : Campaigns, with_log : BOOLEAN, copy : Stores]
  BY <1>1, <1>2, AuthorFields DEF HasStore
<1>4. intents_from_log(log) \in SUBSET Intents
  BY DEF intents_from_log
<1>5. healed \in Stores /\ healed.sourced \subseteq intents_from_log(log) /\ store.ids \subseteq healed.ids
  <2>1. CASE author[a].with_log
    <3>1. healed = [ids |-> store.ids \cup (intents_from_log(log) \ store.ids),
                    sourced |-> store.sourced \cup (intents_from_log(log) \ store.ids)]
      BY <1>3, <2>1 DEF reconcile_store_from_log
    <3> HIDE DEF healed
    <3> QED BY <1>2, <1>4, <3>1, StoreOf DEF Stores
  <2>2. CASE ~author[a].with_log
    BY <1>2, <1>3, <2>2, StoreOf
  <2> QED BY <2>1, <2>2
<1> HIDE DEF healed
<1>6. s \in AuthorStates /\ s.pc = "reconciled" /\ s.copy = healed
  BY <1>3, <1>5 DEF AuthorStates
<1>7. store' = healed
  BY <1>1, <1>3
<1> HIDE DEF s
<1>8. \A b \in Authors : HasStore(b) => b = a
  BY <1>2, <1>3 DEF AuthorsOK
<1>9. AuthorsOK'
  BY <1>1, <1>2, <1>5, <1>6, <1>7, <1>8, AuthorHolds
<1> QED BY <1>1, <1>5, <1>7, <1>9, NothingAdded DEF VerbsInv, StepOK

\* land_intent lands an intent once, and in a campaign that is not sealed.
LEMMA LandIntentFits ==
  ASSUME VerbsInv, NEW a \in Authors, author[a].pc = "reconciled", ~IntentRefused(a), log' = land_intent(a)
  PROVE  /\ Adds(log, log') /\ Sealed(log, log')
         /\ author[a].with_log => author[a].intent \in intents_from_log(log')
<1> DEFINE i == author[a].intent
           c == author[a].campaign
           r == [kind |-> "intent.landed", intent |-> i, campaign |-> c]
<1>0. LogOK(log) /\ log \in Seq(LogRecords) /\ i \in Intents /\ c \in Campaigns
  BY AuthorFields DEF VerbsInv, LogOK
<1>1. CASE author[a].with_log /\ ~intent_is_on_log(log, i)
  <2>1. log' = Append(log, r) /\ ~campaign_is_sealed(log, c)
    BY <1>1 DEF land_intent, IntentRefused
  <2>2. /\ r \in LogRecords /\ r.kind = "intent.landed" /\ r.intent = i /\ r.campaign = c
        /\ "campaign" \in DOMAIN r
    BY <1>0 DEF LogRecords
  <2> HIDE DEF r, i, c
  <2>3. Extends(log, log') /\ Alone(log, log') /\ \A j \in Added(log, log') : log'[j] = r
    BY <1>0, <2>1, <2>2, Appends
  <2>4. Adds(log, log') /\ Sealed(log, log')
    BY <1>1, <2>1, <2>2, <2>3 DEF Adds, PrFits, CampaignFits, Sealed, RecordOf
  <2>5. i \in intents_from_log(log')
    <3>1. Len(log) + 1 \in 1..Len(log') /\ log'[Len(log) + 1] = r
      BY <1>0, <2>1, <2>2
    <3>2. intent_is_on_log(log', i)
      BY <2>2, <3>1, IsOnLog
    <3> QED BY <1>0, <3>2 DEF intents_from_log
  <2> QED BY <2>4, <2>5 DEF i
<1>2. CASE ~(author[a].with_log /\ ~intent_is_on_log(log, i))
  <2>1. log' = log
    BY <1>2 DEF land_intent
  <2> QED BY <1>0, <1>2, <2>1, NothingAdded DEF intents_from_log
<1> QED BY <1>1, <1>2

LEMMA IdleState == Idle \in AuthorStates /\ Idle.pc \notin {"locked", "reconciled", "landed"}
BY DEF AuthorStates, Idle

LEMMA NewExistsStep ==
  ASSUME VerbsInv, NEW a \in Authors, NewExists(a)
  PROVE  VerbsInv' /\ StepOK
<1>1. /\ author[a].pc = "reconciled" /\ SetAuthor(a, Idle) /\ UNCHANGED <<store, crashes, mix>>
      /\ log' = IF IntentRefused(a) THEN log ELSE land_intent(a)
  BY DEF NewExists
<1>2. Adds(log, log') /\ Sealed(log, log')
  <2>1. CASE IntentRefused(a)
    BY <1>1, <2>1, NothingAdded DEF VerbsInv
  <2>2. CASE ~IntentRefused(a)
    BY <1>1, <2>2, LandIntentFits
  <2> QED BY <2>1, <2>2
<1>3. LogOK(log') /\ intents_from_log(log) \subseteq intents_from_log(log')
  BY <1>2, LogGrows, OnLogGrows DEF VerbsInv
<1>4. AuthorsOK /\ store \in Stores /\ store.sourced \subseteq intents_from_log(log)
  BY DEF VerbsInv, AuthorsOK
<1>5. AuthorsOK'
  <2>1. store' \in Stores /\ store'.sourced \subseteq intents_from_log(log') /\ store' = store
    BY <1>1, <1>3, <1>4
  <2> QED BY <1>1, <1>3, <1>4, <2>1, AuthorLeaves, IdleState
<1> QED BY <1>1, <1>2, <1>3, <1>5 DEF VerbsInv, StepOK

LEMMA NewLandStep ==
  ASSUME VerbsInv, NEW a \in Authors, NewLand(a)
  PROVE  VerbsInv' /\ StepOK
<1> DEFINE s == [author[a] EXCEPT !.pc = "landed"]
<1>1. /\ author[a].pc = "reconciled" /\ SetAuthor(a, s) /\ ~IntentRefused(a)
      /\ log' = land_intent(a) /\ UNCHANGED <<store, crashes, mix>>
  BY DEF NewLand
<1>2. /\ Adds(log, log') /\ Sealed(log, log')
      /\ author[a].with_log => author[a].intent \in intents_from_log(log')
  BY <1>1, LandIntentFits
<1>3. LogOK(log') /\ intents_from_log(log) \subseteq intents_from_log(log')
  BY <1>2, LogGrows, OnLogGrows DEF VerbsInv
<1>4. AuthorsOK /\ store \in Stores /\ store.sourced \subseteq intents_from_log(log)
  BY DEF VerbsInv, AuthorsOK
<1>5. /\ HasStore(a) /\ author[a].copy = store
      /\ author[a] \in [pc : {"locked", "reconciled", "landed"}, intent : Intents,
                        campaign : Campaigns, with_log : BOOLEAN, copy : Stores]
  BY <1>1, <1>4, AuthorFields DEF HasStore
<1>6. /\ s \in AuthorStates /\ s.pc = "landed" /\ s.copy = store
      /\ s.with_log = author[a].with_log /\ s.intent = author[a].intent
  BY <1>5 DEF AuthorStates
<1> HIDE DEF s
<1>7. \A b \in Authors : HasStore(b) => b = a
  BY <1>4, <1>5 DEF AuthorsOK
<1>8. store' \in Stores /\ store'.sourced \subseteq intents_from_log(log') /\ store' = store
  BY <1>1, <1>3, <1>4
<1>9. AuthorsOK'
  BY <1>1, <1>2, <1>3, <1>4, <1>6, <1>7, <1>8, AuthorHolds
<1> QED BY <1>1, <1>2, <1>3, <1>9 DEF VerbsInv, StepOK

LEMMA NewSaveStep ==
  ASSUME VerbsInv, NEW a \in Authors, NewSave(a)
  PROVE  VerbsInv' /\ StepOK
<1> DEFINE new == {author[a].intent}
<1>1. /\ author[a].pc = "landed" /\ SetAuthor(a, Idle) /\ UNCHANGED <<log, crashes, mix>>
      /\ store' = [ids |-> author[a].copy.ids \cup new,
                   sourced |-> author[a].copy.sourced \cup (IF author[a].with_log THEN new ELSE {})]
  BY DEF NewSave
<1>2. AuthorsOK /\ store \in Stores /\ store.sourced \subseteq intents_from_log(log)
  BY DEF VerbsInv, AuthorsOK
<1>3. /\ HasStore(a) /\ author[a].copy = store /\ author[a].intent \in Intents
      /\ author[a].with_log => author[a].intent \in intents_from_log(log)
  BY <1>1, <1>2, AuthorFields DEF HasStore, AuthorsOK
<1>4. /\ store' \in Stores /\ store'.sourced \subseteq intents_from_log(log')
      /\ store.ids \subseteq store'.ids
  BY <1>1, <1>2, <1>3, StoreOf DEF Stores
<1>5. AuthorsOK'
  BY <1>1, <1>2, <1>3, <1>4, AuthorLeaves, IdleState
<1> QED BY <1>1, <1>4, <1>5, NothingAdded DEF VerbsInv, StepOK

LEMMA NewCrashStep ==
  ASSUME VerbsInv, NEW a \in Authors, NewCrash(a)
  PROVE  VerbsInv' /\ StepOK
<1>1. SetAuthor(a, Idle) /\ UNCHANGED <<log, store, mix>> /\ crashes' \in 0..MaxCrashes
  BY BoundsAssumption DEF NewCrash, VerbsInv
<1>2. AuthorsOK /\ store \in Stores /\ store.sourced \subseteq intents_from_log(log)
  BY DEF VerbsInv, AuthorsOK
<1>3. AuthorsOK'
  BY <1>1, <1>2, AuthorLeaves, IdleState
<1> QED BY <1>1, <1>3, NothingAdded DEF VerbsInv, StepOK

LEMMA VerbsStart == Init => VerbsInv
<1> SUFFICES ASSUME Init PROVE VerbsInv
  OBVIOUS
<1>1. LogOK(log)
  <2>1. log = <<>> /\ log \in Seq(LogRecords) /\ Len(log) = 0
    BY DEF Init
  <2>2. 1..Len(log) = {}
    BY <2>1
  <2> QED BY <2>1, <2>2 DEF LogOK, OnceEach, Once, OpenedFirst, LandsQueued, QueueApart,
                            all_pr_queued, SealMeans
<1>2. AuthorsOK
  BY IdleState DEF Init, AuthorsOK, Stores, HasStore
<1> QED BY <1>1, <1>2, BoundsAssumption DEF VerbsInv, Init

LEMMA VerbsStep == ASSUME VerbsInv, [Next]_vars PROVE VerbsInv' /\ StepOK
<1>0. LogOK(log) /\ mix \in Mixes
  BY DEF VerbsInv
<1>1. CASE Verb
  <2>1. UNCHANGED <<store, author, crashes, mix>>
    BY <1>1 DEF Verb, CampaignVerb, PrVerb, CampaignOpen, CampaignAbandon, CampaignClose, PrOpen,
         PrQueue, PrSettle, PrAbandon, LandQueue, VerdictRecord, CtxUsage, RefUpdate, Write
  <2>2. Adds(log, log') /\ Sealed(log, log')
    <3>1. ASSUME NEW c \in Campaigns, CampaignVerb(c) PROVE Adds(log, log') /\ Sealed(log, log')
      BY <1>0, <3>1, FitsCampaignOpen, FitsCampaignAbandon, FitsCampaignClose DEF CampaignVerb
    <3>2. ASSUME NEW p \in Prs, PrVerb(p) PROVE Adds(log, log') /\ Sealed(log, log')
      BY <1>0, <3>2, FitsPrOpen, FitsPrQueue, FitsPrSettle, FitsPrAbandon DEF PrVerb
    <3> QED BY <1>0, <1>1, <3>1, <3>2, FitsLandQueue, FitsVerdict, FitsOther DEF Verb
  <2> QED BY <2>1, <2>2, OtherVerbStep
<1>2. CASE \E a \in mix.authors : IntentNew(a)
  <2>1. PICK a \in Authors : IntentNew(a)
    BY <1>0, <1>2, BoundsAssumption
  <2> QED BY <2>1, NewCheckStep, NewLockStep, NewReconcileStep, NewExistsStep, NewLandStep,
             NewSaveStep, NewCrashStep DEF IntentNew
<1>3. CASE UNCHANGED vars
  BY <1>0, <1>3, OtherVerbStep, NothingAdded DEF vars
<1> QED BY <1>1, <1>2, <1>3 DEF Next

LEMMA VerbsHold == Spec => []VerbsInv
BY VerbsStart, VerbsStep, PTL DEF Spec

\* The variables of the verbs have their types, and the log holds the records
\* its writers are declared to write.
THEOREM VerbsTyped == Spec => []TypeOK
<1>1. VerbsInv => TypeOK
  BY DEF VerbsInv, LogOK, AuthorsOK, Stores, TypeOK
<1> QED BY <1>1, VerbsHold, PTL

\* Whatever verbs run in whatever order, the views of the log agree.
THEOREM VerbsViews == Spec => []ViewsAgree
<1>1. VerbsInv => ViewsAgree
  BY ViewOfSeals, ViewOfPhases, ViewOfQueue, ViewOfLedger DEF VerbsInv, ViewsAgree
<1> QED BY <1>1, VerbsHold, PTL

\* No verb adds to a sealed campaign, and the store keeps its intents.
THEOREM VerbsSound == Spec => VerbsKeep
<1> DEFINE SealMove == \A c \in Campaigns : campaign_is_sealed(log, c) =>
                         \A r \in NewRecords : RecordOf(log', r, c) =>
                            \/ r.kind = "queue.union_fail"
                            \/ r.kind = "pr.landed" /\ is_queued(log, r.pr)
           StoreStep == /\ store.ids \subseteq store'.ids
                        /\ store'.sourced \subseteq intents_from_log(log')
<1>1. ASSUME VerbsInv, [Next]_vars PROVE [SealMove]_vars
  <2>1. Sealed(log, log')
    BY <1>1, VerbsStep DEF StepOK
  <2> QED BY <2>1 DEF Sealed, NewRecords, Added
<1>2. ASSUME VerbsInv, [Next]_vars PROVE [StoreStep]_vars
  <2>1. VerbsInv' /\ StepOK
    BY <1>2, VerbsStep
  <2> QED BY <2>1 DEF StepOK, VerbsInv, AuthorsOK
<1>3. SealHolds <=> [][SealMove]_vars
  BY DEF SealHolds
<1>4. StoreSound <=> [][StoreStep]_vars
  BY DEF StoreSound
<1> HIDE DEF SealMove, StoreStep
<1> QED BY <1>1, <1>2, <1>3, <1>4, VerbsHold, PTL DEF Spec, VerbsKeep
==============================================================================
