---------------------------- MODULE LedgerProofs ----------------------------
(***************************************************************************)
(* The stores around the log, each for itself and all of them together,    *)
(* for any clients, requests, writers, targets, charters, objects, events, *)
(* tenants and keys.                                                       *)
(***************************************************************************)
EXTENDS MCLedger, FiniteSetTheorems, SequenceTheorems, WellFoundedInduction, TLAPS

-----------------------------------------------------------------------------
(* Lock sets.  A call past its checks still has room and order in its set, *)
(* since only its own client changes the set; a call past the read of the  *)
(* writer state is admitted, and an admission keeps that state as it is.   *)

Ascending(s) == \A i, j \in DOMAIN s : i < j => s[i] < s[j]

\* What a request needs to be appended to the set.
Fits(s, r) == r \in Requests /\ Len(s) < MAX_HELD_LOCKS /\ \A i \in DOMAIN s : s[i] < r

LockTypes ==
    /\ held \in [Clients -> Seq(Requests)]
    /\ admission \in [Clients -> BOOLEAN] /\ pending \in [Clients -> BOOLEAN]
    /\ apc \in [Clients -> {"idle", "admit", "read", "lock", "dropping"}]
    /\ answer \in [Clients -> CoordinationErrors \cup {"ok"}]
    /\ want \in [Clients -> Requests \cup {0}]
    /\ wstate \in {"Active", "Disabled", "Torn"}
    /\ disabler \in Clients \cup {Nobody}

ClientInv(c) ==
    /\ held[c] # <<>> => admission[c]
    /\ apc[c] = "dropping" => admission[c]
    /\ apc[c] \in {"read", "lock"} => Admitted(c)
    /\ apc[c] = "lock" => wstate = "Active"
    /\ admission[c] => wstate = "Active"
    /\ disabler # Nobody => ~Admitted(c)
    /\ Len(held[c]) <= MAX_HELD_LOCKS /\ Ascending(held[c])
    /\ apc[c] \in {"admit", "read", "lock"} => Fits(held[c], want[c])

Apart(h) == \A c, d \in Clients : c # d => \A i \in DOMAIN h[c], j \in DOMAIN h[d] : h[c][i] # h[d][j]

LockInv ==
    /\ LockTypes
    /\ \A c \in Clients : ClientInv(c)
    /\ Apart(held)

\* The sets a step may leave behind: the old one, a part of it, or one more that fits.
LEMMA SetGrows ==
    ASSUME NEW s \in Seq(Requests), NEW r, Fits(s, r), Ascending(s), NEW t, t = Append(s, r)
    PROVE  t \in Seq(Requests) /\ Ascending(t) /\ Len(t) <= MAX_HELD_LOCKS
<1>1. /\ r \in Requests /\ Len(s) \in Nat /\ DOMAIN s = 1..Len(s) /\ Requests \subseteq Nat
      /\ MAX_HELD_LOCKS \in Nat
  BY LockSetConstants DEF Fits
<1>2. /\ t \in Seq(Requests) /\ Len(t) = Len(s) + 1 /\ DOMAIN t = 1..(Len(s) + 1)
      /\ t[Len(s) + 1] = r /\ \A i \in 1..Len(s) : t[i] = s[i]
  BY <1>1
<1>3. ASSUME NEW i \in 1..(Len(s) + 1), NEW j \in 1..(Len(s) + 1), i < j PROVE t[i] < t[j]
  <2>1. i \in 1..Len(s) /\ t[i] = s[i]
    BY <1>1, <1>2, <1>3
  <2>2. CASE j = Len(s) + 1
    BY <1>1, <1>2, <2>1, <2>2 DEF Fits
  <2>3. CASE j # Len(s) + 1
    <3>1. j \in 1..Len(s) /\ t[j] = s[j]
      BY <1>1, <1>2, <2>3
    <3> QED BY <1>1, <1>3, <2>1, <3>1 DEF Ascending
  <2> QED BY <2>2, <2>3
<1> QED BY <1>1, <1>2, <1>3 DEF Ascending, Fits

PartOf(t, s) == \A i \in DOMAIN t : \E j \in DOMAIN s : t[i] = s[j]

LEMMA SetShrinks ==
    ASSUME NEW s \in Seq(Requests), s # <<>>, Ascending(s), NEW t,
           t = SubSeq(s, 1, Len(s) - 1) \/ t = Tail(s)
    PROVE  /\ t \in Seq(Requests) /\ Ascending(t) /\ Len(t) = Len(s) - 1
           /\ PartOf(t, s)
<1>1. Len(s) \in Nat \ {0} /\ DOMAIN s = 1..Len(s)
  OBVIOUS
<1>2. CASE t = SubSeq(s, 1, Len(s) - 1)
  <2>1. /\ t \in Seq(Requests) /\ Len(t) = Len(s) - 1 /\ DOMAIN t = 1..(Len(s) - 1)
        /\ \A i \in 1..(Len(s) - 1) : t[i] = s[i] /\ i \in 1..Len(s)
    BY <1>1, <1>2
  <2>2. Ascending(t)
    <3>1. ASSUME NEW i \in 1..(Len(s) - 1), NEW j \in 1..(Len(s) - 1), i < j PROVE t[i] < t[j]
      <4>1. i \in DOMAIN s /\ j \in DOMAIN s /\ t[i] = s[i] /\ t[j] = s[j]
        BY <1>1, <2>1
      <4>2. s[i] < s[j]
        BY <3>1, <4>1 DEF Ascending
      <4> QED BY <4>1, <4>2
    <3>2. DOMAIN t = 1..(Len(s) - 1)
      BY <2>1
    <3> QED BY ONLY <3>1, <3>2 DEF Ascending
  <2>3. PartOf(t, s)
    BY <1>1, <2>1 DEF PartOf
  <2> QED BY <2>1, <2>2, <2>3
<1>3. CASE t = Tail(s)
  <2>1. /\ t \in Seq(Requests) /\ Len(t) = Len(s) - 1 /\ DOMAIN t = 1..(Len(s) - 1)
        /\ \A i \in 1..(Len(s) - 1) : t[i] = s[i + 1] /\ i + 1 \in 1..Len(s)
    BY <1>1, <1>3
  <2>2. \A i, j \in 1..(Len(s) - 1) : i < j => i + 1 < j + 1
    OBVIOUS
  <2>3. Ascending(t)
    BY <1>1, <2>1, <2>2 DEF Ascending
  <2>4. PartOf(t, s)
    BY <1>1, <2>1 DEF PartOf
  <2> QED BY <2>1, <2>3, <2>4
<1> QED BY <1>2, <1>3

\* A client whose set, calls and admissions a step leaves alone keeps its part,
\* if the step keeps the writer state and lets nobody in as disabler.
LEMMA ClientKept ==
    ASSUME NEW c \in Clients, ClientInv(c),
           held'[c] = held[c], admission'[c] = admission[c], pending'[c] = pending[c],
           apc'[c] = apc[c], want'[c] = want[c], wstate' = wstate,
           disabler' = disabler \/ disabler' = Nobody
    PROVE  ClientInv(c)'
BY DEF ClientInv, Admitted

LEMMA TryAcquireStep ==
    ASSUME LockInv, NEW c \in Clients, NEW r \in Requests, try_acquire(c, r)
    PROVE  LockInv'
<1>1. LockTypes'
  BY DEF LockInv, LockTypes, try_acquire, Answer, refused, CoordinationErrors
<1>2. Apart(held)'
  BY DEF LockInv, try_acquire, Apart
<1>3. \A d \in Clients : d # c => ClientInv(d)'
  <2> TAKE d \in Clients
  <2> HAVE d # c
  <2> QED BY ClientKept DEF LockInv, LockTypes, try_acquire, Answer
<1>4. CASE refused(c, r) # "ok"
  <2>1. ClientInv(c)'
    BY <1>4 DEF LockInv, LockTypes, try_acquire, Answer, ClientInv, Admitted
  <2> QED BY <1>1, <1>2, <1>3, <2>1 DEF LockInv
<1>5. CASE refused(c, r) = "ok"
  <2>1. /\ apc' = [apc EXCEPT ![c] = IF admission[c] THEN "read" ELSE "admit"]
        /\ want' = [want EXCEPT ![c] = r] /\ UNCHANGED <<held, admission, pending, wstate, disabler>>
    BY <1>5 DEF try_acquire
  <2>2. Fits(held[c], r)
    <3>1. held[c] \in Seq(Requests) /\ Ascending(held[c]) /\ Len(held[c]) \in Nat
      BY DEF LockInv, LockTypes, ClientInv
    <3>2. ~(Len(held[c]) >= MAX_HELD_LOCKS) /\ (held[c] = <<>> \/ ~(r <= LastLock(held[c])))
      BY <1>5 DEF refused
    <3>3. CASE held[c] = <<>>
      BY <3>1, <3>2, <3>3, LockSetConstants DEF Fits
    <3>4. CASE held[c] # <<>>
      <4> DEFINE n == Len(held[c])
      <4>1. n \in DOMAIN held[c] /\ LastLock(held[c]) = held[c][n] /\ DOMAIN held[c] = 1..n
        BY <3>1, <3>4 DEF LastLock
      <4>2. \A i \in DOMAIN held[c] : held[c][i] \in Nat
        <5> TAKE i \in DOMAIN held[c]
        <5>1. held[c][i] \in Requests
          BY <3>1
        <5> QED BY <5>1, LockSetConstants
      <4>3. \A i \in DOMAIN held[c] : held[c][i] <= held[c][n]
        <5> TAKE i \in DOMAIN held[c]
        <5>1. i = n \/ i < n
          BY <3>1, <4>1
        <5> QED BY <5>1, <3>1, <4>1, <4>2 DEF Ascending
      <4>4. held[c][n] < r
        BY <3>2, <3>4, <4>1, <4>2, LockSetConstants
      <4>5. \A i \in DOMAIN held[c] : held[c][i] < r
        BY <4>1, <4>2, <4>3, <4>4, LockSetConstants
      <4> QED BY <3>1, <3>2, <4>5, LockSetConstants DEF Fits
    <3> QED BY <3>3, <3>4
  <2>3. ClientInv(c)'
    BY <2>1, <2>2 DEF LockInv, LockTypes, ClientInv, Admitted
  <2> QED BY <1>1, <1>2, <1>3, <2>3 DEF LockInv
<1> QED BY <1>4, <1>5

LEMMA AdmitStep == ASSUME LockInv, NEW c \in Clients, Admit(c) PROVE LockInv'
<1>1. LockTypes'
  BY DEF LockInv, LockTypes, Admit, Answer, CoordinationErrors
<1>2. Apart(held)'
  BY DEF LockInv, Admit, Apart
<1>3. \A d \in Clients : d # c => ClientInv(d)'
  <2> TAKE d \in Clients
  <2> HAVE d # c
  <2> QED BY ClientKept DEF LockInv, LockTypes, Admit, Answer
<1>4. ClientInv(c)'
  BY DEF LockInv, LockTypes, Admit, Answer, ClientInv, Admitted
<1> QED BY <1>1, <1>2, <1>3, <1>4 DEF LockInv

LEMMA ReadStateStep == ASSUME LockInv, NEW c \in Clients, read_writer_state(c) PROVE LockInv'
<1>0. UNCHANGED <<held, admission, want, wstate, disabler>> /\ apc[c] = "read"
  BY DEF read_writer_state
<1>1. \/ /\ wstate = "Active" /\ apc' = [apc EXCEPT ![c] = "lock"] /\ UNCHANGED <<answer, pending>>
      \/ Answer(c, "WritersDisabled") \/ Answer(c, "InvalidWriterState")
  BY DEF read_writer_state
<1>2. LockTypes'
  BY <1>0, <1>1 DEF LockInv, LockTypes, Answer, CoordinationErrors
<1>3. Apart(held)'
  BY <1>0 DEF LockInv, Apart
<1>4. \A d \in Clients : d # c => ClientInv(d)'
  <2> TAKE d \in Clients
  <2> HAVE d # c
  <2> QED BY <1>0, <1>1, ClientKept DEF LockInv, LockTypes, Answer
<1>5. ClientInv(c)'
  BY <1>0, <1>1 DEF LockInv, LockTypes, Answer, ClientInv, Admitted
<1> QED BY <1>2, <1>3, <1>4, <1>5 DEF LockInv

LEMMA LockFileStep == ASSUME LockInv, NEW c \in Clients, LockFile(c) PROVE LockInv'
<1>0. /\ UNCHANGED <<want, wstate, disabler>> /\ apc[c] = "lock"
      /\ apc' = [apc EXCEPT ![c] = "idle"] /\ pending' = [pending EXCEPT ![c] = FALSE]
  BY DEF LockFile, Answer
<1>1. answer' \in [Clients -> CoordinationErrors \cup {"ok"}]
  BY DEF LockFile, Answer, LockInv, LockTypes, CoordinationErrors
<1>2. CASE \E d \in Clients : Holds(d, want[c])
  <2>1. UNCHANGED <<held, admission>>
    BY <1>2 DEF LockFile
  <2>a. LockTypes'
    BY <1>0, <1>1, <2>1 DEF LockInv, LockTypes
  <2>b. Apart(held)'
    BY <2>1 DEF LockInv, Apart
  <2>2. LockTypes' /\ Apart(held)'
    BY <2>a, <2>b
  <2>3. \A d \in Clients : d # c => ClientInv(d)'
    <3> TAKE d \in Clients
    <3> HAVE d # c
    <3> QED BY <1>0, <2>1, ClientKept DEF LockInv, LockTypes
  <2>4. ClientInv(c)'
    BY <1>0, <2>1 DEF LockInv, LockTypes, ClientInv, Admitted
  <2> QED BY <2>2, <2>3, <2>4 DEF LockInv
<1>3. CASE ~\E d \in Clients : Holds(d, want[c])
  <2>1. /\ held' = [held EXCEPT ![c] = Append(held[c], want[c])]
        /\ admission' = [admission EXCEPT ![c] = TRUE]
    BY <1>3 DEF LockFile
  <2>2. held[c] \in Seq(Requests) /\ Ascending(held[c]) /\ Fits(held[c], want[c])
    BY <1>0 DEF LockInv, LockTypes, ClientInv
  <2>3. held'[c] = Append(held[c], want[c]) /\ \A d \in Clients : d # c => held'[d] = held[d]
    BY <2>1 DEF LockInv, LockTypes
  <2>4. held'[c] \in Seq(Requests) /\ Ascending(held'[c]) /\ Len(held'[c]) <= MAX_HELD_LOCKS
    BY <2>2, <2>3, SetGrows
  <2>5. LockTypes'
    BY <1>0, <1>1, <2>1, <2>3, <2>4 DEF LockInv, LockTypes
  <2>6. \A d \in Clients : d # c => ClientInv(d)'
    <3> TAKE d \in Clients
    <3> HAVE d # c
    <3> QED BY <1>0, <2>1, <2>3, ClientKept DEF LockInv, LockTypes
  <2>7. wstate = "Active" /\ disabler = Nobody
    BY <1>0 DEF LockInv, ClientInv
  <2>8. ClientInv(c)'
    BY <1>0, <2>1, <2>4, <2>7 DEF LockInv, LockTypes, ClientInv, Admitted
  <2>9. Apart(held)'
    <3>1. ASSUME NEW d \in Clients, d # c, NEW i \in DOMAIN held'[c], NEW j \in DOMAIN held'[d]
          PROVE  held'[c][i] # held'[d][j]
      <4>1. held'[d] = held[d] /\ held[c] \in Seq(Requests) /\ j \in DOMAIN held[d]
        BY <2>2, <2>3, <3>1
      <4>2. i \in 1..(Len(held[c]) + 1)
        BY <2>2, <2>3
      <4>3. CASE i = Len(held[c]) + 1
        <5>1. held'[c][i] = want[c]
          BY <2>2, <2>3, <4>3
        <5> QED BY <5>1, <4>1, <1>3 DEF Holds
      <4>4. CASE i # Len(held[c]) + 1
        <5>1. i \in DOMAIN held[c] /\ held'[c][i] = held[c][i]
          BY <2>2, <2>3, <4>2, <4>4
        <5> QED BY <5>1, <4>1, <3>1 DEF LockInv, Apart
      <4> QED BY <4>3, <4>4
    <3>2. ASSUME NEW d \in Clients, NEW e \in Clients, d # e, d # c, e # c,
                 NEW i \in DOMAIN held'[d], NEW j \in DOMAIN held'[e]
          PROVE  held'[d][i] # held'[e][j]
      BY <2>3, <3>2 DEF LockInv, Apart
    <3> QED BY <3>1, <3>2 DEF Apart
  <2> QED BY <2>5, <2>6, <2>8, <2>9 DEF LockInv
<1> QED BY <1>2, <1>3

\* A step that gives one client a smaller set keeps the sets apart.
LEMMA ApartShrinks ==
    ASSUME LockInv, NEW c \in Clients, NEW t,
           PartOf(t, held[c]),
           held' = [held EXCEPT ![c] = t]
    PROVE  Apart(held)'
<1>1. held'[c] = t /\ \A d \in Clients : d # c => held'[d] = held[d]
  BY DEF LockInv, LockTypes
<1>2. ASSUME NEW d \in Clients, NEW e \in Clients, d # e, NEW i \in DOMAIN held'[d], NEW j \in DOMAIN held'[e]
      PROVE  held'[d][i] # held'[e][j]
  <2>1. PICK k \in DOMAIN held[d] : held'[d][i] = held[d][k]
    BY <1>1, <1>2 DEF PartOf
  <2>2. PICK l \in DOMAIN held[e] : held'[e][j] = held[e][l]
    BY <1>1, <1>2 DEF PartOf
  <2> QED BY <1>2, <2>1, <2>2 DEF LockInv, Apart
<1> QED BY <1>2 DEF Apart

LEMMA ReleaseStep == ASSUME LockInv, NEW c \in Clients, release_last(c) PROVE LockInv'
<1> DEFINE t == SubSeq(held[c], 1, Len(held[c]) - 1)
<1>0. t = SubSeq(held[c], 1, Len(held[c]) - 1)
  OBVIOUS
<1> HIDE DEF t
<1>1. /\ held' = [held EXCEPT ![c] = t] /\ held[c] # <<>> /\ apc[c] = "idle"
      /\ admission' = [admission EXCEPT ![c] = Len(held[c]) > 1]
      /\ UNCHANGED <<pending, want, apc, answer, wstate, disabler>>
  BY DEF release_last, t
<1>2. held[c] \in Seq(Requests) /\ Ascending(held[c]) /\ Len(held[c]) <= MAX_HELD_LOCKS /\ Len(held[c]) \in Nat
  BY DEF LockInv, LockTypes, ClientInv
<1>3. /\ t \in Seq(Requests) /\ Ascending(t) /\ Len(t) = Len(held[c]) - 1
      /\ PartOf(t, held[c])
  BY <1>0, <1>1, <1>2, SetShrinks
<1>4. Apart(held)'
  BY <1>1, <1>3, ApartShrinks
<1>5. LockTypes'
  BY <1>1, <1>3 DEF LockInv, LockTypes
<1>6. \A d \in Clients : d # c => ClientInv(d)'
  <2> TAKE d \in Clients
  <2> HAVE d # c
  <2> QED BY <1>1, ClientKept DEF LockInv, LockTypes
<1>7. t # <<>> => Len(held[c]) > 1
  BY <1>2, <1>3
<1>8. Len(t) <= MAX_HELD_LOCKS
  BY <1>2, <1>3, LockSetConstants
<1>9. admission[c]
  BY <1>1 DEF LockInv, ClientInv
<1>10. ClientInv(c)'
  BY <1>1, <1>3, <1>7, <1>8, <1>9 DEF LockInv, LockTypes, ClientInv, Admitted
<1> QED BY <1>4, <1>5, <1>6, <1>10 DEF LockInv

LEMMA DropStep == ASSUME LockInv, NEW c \in Clients, DropSet(c) PROVE LockInv'
<1>0. UNCHANGED <<pending, want, answer, wstate, disabler>> /\ apc[c] \in {"idle", "dropping"} /\ admission[c]
  BY DEF DropSet, LockInv, ClientInv
<1>1. \A d \in Clients : d # c => ClientInv(d)'
  <2> TAKE d \in Clients
  <2> HAVE d # c
  <2> QED BY ClientKept DEF LockInv, LockTypes, DropSet
<1>2. CASE held[c] # <<>>
  <2> DEFINE t == Tail(held[c])
  <2>0. t = Tail(held[c])
    OBVIOUS
  <2> HIDE DEF t
  <2>1. held' = [held EXCEPT ![c] = t] /\ apc' = [apc EXCEPT ![c] = "dropping"] /\ admission' = admission
    BY <1>2 DEF DropSet, t
  <2>2. held[c] \in Seq(Requests) /\ Ascending(held[c]) /\ Len(held[c]) <= MAX_HELD_LOCKS /\ Len(held[c]) \in Nat
    BY DEF LockInv, LockTypes, ClientInv
  <2>3. /\ t \in Seq(Requests) /\ Ascending(t) /\ Len(t) = Len(held[c]) - 1
        /\ PartOf(t, held[c])
    BY <1>2, <2>0, <2>2, SetShrinks
  <2>4. Apart(held)'
    BY <2>1, <2>3, ApartShrinks
  <2>5. LockTypes'
    BY <1>0, <2>1, <2>3 DEF LockInv, LockTypes
  <2>6. Len(t) <= MAX_HELD_LOCKS
    BY <2>2, <2>3, LockSetConstants
  <2>7. ClientInv(c)'
    BY <1>0, <2>1, <2>3, <2>6 DEF LockInv, LockTypes, ClientInv, Admitted
  <2> QED BY <1>1, <2>4, <2>5, <2>7 DEF LockInv
<1>3. CASE held[c] = <<>>
  <2>1. held' = held /\ apc' = [apc EXCEPT ![c] = "idle"] /\ admission' = [admission EXCEPT ![c] = FALSE]
    BY <1>3 DEF DropSet
  <2>2. LockTypes' /\ Apart(held)'
    BY <1>0, <2>1 DEF LockInv, LockTypes, Apart
  <2>3. ClientInv(c)'
    BY <1>0, <1>3, <2>1 DEF LockInv, LockTypes, ClientInv, Admitted
  <2> QED BY <1>1, <2>2, <2>3 DEF LockInv
<1> QED BY <1>2, <1>3

LEMMA DieStep == ASSUME LockInv, NEW c \in Clients, Die(c) PROVE LockInv'
<1>1. /\ held' = [held EXCEPT ![c] = <<>>] /\ admission' = [admission EXCEPT ![c] = FALSE]
      /\ pending' = [pending EXCEPT ![c] = FALSE] /\ apc' = [apc EXCEPT ![c] = "idle"]
      /\ want' = want /\ answer' = answer
      /\ disabler' = IF disabler = c THEN Nobody ELSE disabler
      /\ wstate' \in IF disabler = c /\ wstate = "Active" THEN {"Active", "Torn"} ELSE {wstate}
  BY DEF Die
<1>2. <<>> \in Seq(Requests) /\ Ascending(<<>>) /\ Len(<<>>) = 0 /\ PartOf(<<>>, held[c])
  BY DEF Ascending, PartOf
<1>3. LockTypes'
  BY <1>1, <1>2 DEF LockInv, LockTypes
<1>4. Apart(held)'
  BY <1>1, <1>2, ApartShrinks
<1>5. ClientInv(c)'
  BY <1>1, <1>2, LockSetConstants DEF LockInv, LockTypes, ClientInv, Admitted
<1>6. ASSUME NEW d \in Clients, d # c PROVE ClientInv(d)'
  <2>1. held'[d] = held[d] /\ admission'[d] = admission[d] /\ pending'[d] = pending[d] /\ apc'[d] = apc[d]
        /\ want'[d] = want[d] /\ (disabler' = disabler \/ disabler' = Nobody)
    BY <1>1, <1>6 DEF LockInv, LockTypes
  <2>2. CASE wstate' = wstate
    BY <2>1, <2>2, ClientKept DEF LockInv
  <2>3. CASE wstate' # wstate
    <3>1. disabler = c /\ disabler' = Nobody
      BY <1>1, <2>3
    <3>2. ~Admitted(d)
      BY <3>1, LockSetConstants DEF LockInv, ClientInv
    <3>3. ~Admitted(d)' /\ ~admission[d] /\ held[d] = <<>> /\ apc[d] \notin {"read", "lock", "dropping"}
      BY <2>1, <3>2 DEF LockInv, ClientInv, Admitted
    <3> QED BY <2>1, <3>1, <3>3 DEF LockInv, ClientInv, Admitted
  <2> QED BY <2>2, <2>3
<1> QED BY <1>3, <1>4, <1>5, <1>6 DEF LockInv

LEMMA DisableStep == ASSUME LockInv, NEW c \in Clients, try_disable(c) PROVE LockInv'
BY DEF LockInv, LockTypes, try_disable, ClientInv, Admitted, Apart

LEMMA WriteDisabledStep == ASSUME LockInv, NEW c \in Clients, WriteDisabled(c) PROVE LockInv'
<1>1. \A d \in Clients : ~Admitted(d)
  BY LockSetConstants DEF LockInv, ClientInv, WriteDisabled
<1>2. \A d \in Clients : held[d] = <<>> /\ ~admission[d] /\ apc[d] \notin {"read", "lock", "dropping"}
  BY <1>1 DEF LockInv, ClientInv, Admitted
<1> QED BY <1>1, <1>2 DEF LockInv, LockTypes, WriteDisabled, ClientInv, Admitted, Apart

\* For any clients, requests and cap, whatever calls, drops and deaths interleave:
\* no two sets hold one lock, every set is ascending and within its cap, and a lock
\* is held only while the writers are active, so try_disable leaves none behind.
THEOREM LocksQuiet == LockSpec => []DisabledMeansQuiet
<1>1. LockInit => LockInv
  <2> SUFFICES ASSUME LockInit PROVE LockInv
    OBVIOUS
  <2>1. <<>> \in Seq(Requests) /\ Ascending(<<>>) /\ Len(<<>>) = 0 /\ DOMAIN <<>> = {}
    BY DEF Ascending
  <2> QED BY <2>1, LockSetConstants DEF LockInit, LockInv, LockTypes, ClientInv, Admitted, Apart
<1>2. LockInv /\ [LockNext]_lockVars => LockInv'
  <2> SUFFICES ASSUME LockInv, [LockNext]_lockVars PROVE LockInv'
    OBVIOUS
  <2>1. CASE UNCHANGED lockVars
    BY <2>1 DEF lockVars, LockInv, LockTypes, ClientInv, Admitted, Apart
  <2>2. CASE LockNext
    BY <2>2, TryAcquireStep, AdmitStep, ReadStateStep, LockFileStep, ReleaseStep, DropStep, DieStep,
       DisableStep, WriteDisabledStep DEF LockNext
  <2> QED BY <2>1, <2>2
<1>3. LockInv => DisabledMeansQuiet
  <2> SUFFICES ASSUME LockInv PROVE DisabledMeansQuiet
    OBVIOUS
  <2>1. \A c \in Clients : /\ answer[c] \in CoordinationErrors \cup {"ok"}
                           /\ held[c] # <<>> => admission[c] /\ wstate = "Active"
                           /\ Len(held[c]) <= MAX_HELD_LOCKS
                           /\ Ascending(held[c])
    BY DEF LockInv, LockTypes, ClientInv
  <2>2. \A c \in Clients : \A d \in Clients \ {c}, r \in Requests : ~(Holds(c, r) /\ Holds(d, r))
    BY DEF LockInv, Apart, Holds
  <2>3. disabler # Nobody => \A c \in Clients : ~Admitted(c)
    BY DEF LockInv, ClientInv
  <2> QED BY <2>1, <2>2, <2>3 DEF DisabledMeansQuiet, Ascending
<1> QED BY <1>1, <1>2, <1>3, PTL DEF LockSpec

-----------------------------------------------------------------------------
(* Cold blobs.  In memory a tombstone keeps later puts out; in a directory *)
(* a file that is there does.  If every writer has a process of its own,   *)
(* nobody else touches its temporary file between the write and the        *)
(* rename, so what is published is whole.                                  *)

Contents == {"absent", "torn", "blob", "tomb"}
BlobSteps == {"blob_open", "blob_write", "blob_rename"}
TombSteps == {"tomb_open", "tomb_write", "tomb_rename"}

BlobTypes ==
    /\ backend \in {"memory", "dir"} /\ pidOf \in [BlobWriters -> BlobPids]
    /\ file \in Contents /\ tmp \in [BlobPids \X Kinds -> Contents]
    /\ mem \in [blob : BOOLEAN, tomb : BOOLEAN]
    /\ wpc \in [BlobWriters -> {"idle", "insert"} \cup BlobSteps \cup TombSteps]
    /\ fd \in [BlobWriters -> {"tmp", "path", "gone"}]
    /\ acked \in BOOLEAN /\ erased \in BOOLEAN /\ raced \in BOOLEAN

MemoryInv ==
    /\ \A w \in BlobWriters : wpc[w] \in {"idle", "insert"}
    /\ acked => mem.blob \/ mem.tomb
    /\ erased <=> mem.tomb
    /\ erased /\ ~raced => ~mem.blob /\ \A w \in BlobWriters : wpc[w] # "insert"

DirInv ==
    /\ \A w \in BlobWriters : wpc[w] # "insert"
    /\ acked => file # "absent"
    /\ erased => acked

OwnInv ==
    /\ file # "torn"
    /\ file = "tomb" => erased
    /\ \A w \in BlobWriters :
        /\ fd[w] # "path"
        /\ wpc[w] \in {"blob_write", "tomb_write"} => fd[w] = "tmp"
        /\ wpc[w] = "blob_rename" => tmp[<<pidOf[w], "blob">>] = "blob"
        /\ wpc[w] = "tomb_rename" => tmp[<<pidOf[w], "tomb">>] = "tomb"
    /\ erased /\ ~raced => file = "tomb" /\ \A w \in BlobWriters : wpc[w] \notin BlobSteps

BlobInv ==
    /\ BlobTypes
    /\ backend = "memory" => MemoryInv
    /\ backend = "dir" => DirInv /\ (OwnTmp => OwnInv)

LEMMA BlobStarts == ASSUME BlobInit PROVE BlobInv
BY DEF BlobInit, BlobInv, BlobTypes, MemoryInv, DirInv, OwnInv, Contents, BlobSteps

\* The steps of the store in memory.
LEMMA MemorySteps ==
    ASSUME BlobInv, NEW w \in BlobWriters, PutInsert(w) \/ EraseMemory(w) \/ EraseDir(w)
    PROVE  BlobInv'
<1> USE DEF BlobInv, BlobTypes
<1>1. CASE PutInsert(w)
  <2>1. /\ wpc[w] = "insert" /\ wpc' = [wpc EXCEPT ![w] = "idle"] /\ mem' = [mem EXCEPT !.blob = TRUE] /\ acked' = TRUE
        /\ UNCHANGED <<backend, pidOf, file, tmp, fd, erased, raced>>
    BY <1>1 DEF PutInsert, Step
  <2>2. backend = "memory"
    BY <2>1 DEF DirInv
  <2>3. mem'.blob = TRUE /\ mem'.tomb = mem.tomb /\ mem' \in [blob : BOOLEAN, tomb : BOOLEAN]
    BY <2>1
  <2>4. ~(erased /\ ~raced)
    BY <2>1, <2>2 DEF MemoryInv
  <2> QED BY <2>1, <2>2, <2>3, <2>4 DEF MemoryInv
<1>2. CASE EraseMemory(w)
  <2>1. /\ backend = "memory" /\ mem' = [blob |-> FALSE, tomb |-> TRUE] /\ acked' = TRUE /\ erased' = TRUE
        /\ raced' = (raced \/ \E o \in BlobWriters : wpc[o] = "insert")
        /\ UNCHANGED <<backend, pidOf, file, tmp, wpc, fd>>
    BY <1>2 DEF EraseMemory
  <2>2. mem'.blob = FALSE /\ mem'.tomb = TRUE /\ mem' \in [blob : BOOLEAN, tomb : BOOLEAN]
    BY <2>1
  <2> QED BY <2>1, <2>2 DEF MemoryInv
<1>3. CASE EraseDir(w)
  <2>1. /\ backend = "dir" /\ wpc[w] = "idle" /\ wpc' = [wpc EXCEPT ![w] = "tomb_open"]
        /\ UNCHANGED <<backend, pidOf, file, tmp, mem, fd, acked, erased, raced>>
    BY <1>3 DEF EraseDir, Step
  <2>2. DirInv' /\ (OwnTmp => OwnInv')
    BY <2>1 DEF DirInv, OwnInv, BlobSteps, TombSteps
  <2> QED BY <2>1, <2>2 DEF TombSteps, OwnTmp
<1> QED BY <1>1, <1>2, <1>3

LEMMA PutCheckStep == ASSUME BlobInv, NEW w \in BlobWriters, PutCheck(w) PROVE BlobInv'
<1> USE DEF BlobInv, BlobTypes
<1>1. /\ wpc[w] = "idle" /\ acked' = (acked \/ put_known)
      /\ wpc' = [wpc EXCEPT ![w] = IF put_known THEN "idle"
                                   ELSE IF backend = "memory" THEN "insert" ELSE "blob_open"]
      /\ UNCHANGED <<backend, pidOf, file, tmp, mem, fd, erased, raced>>
  BY DEF PutCheck, Step
<1>2. CASE backend = "memory"
  <2>1. put_known = mem.tomb
    BY <1>2 DEF put_known
  <2> QED BY <1>1, <1>2, <2>1 DEF MemoryInv
<1>3. CASE backend = "dir"
  <2>1. put_known = (file # "absent")
    BY <1>3 DEF put_known
  <2>2. DirInv'
    BY <1>1, <1>3, <2>1 DEF DirInv
  <2>3. OwnTmp => OwnInv'
    BY <1>1, <1>3, <2>1 DEF DirInv, OwnInv, BlobSteps, TombSteps
  <2> QED BY <1>1, <1>3, <2>2, <2>3 DEF BlobSteps, OwnTmp
<1> QED BY <1>2, <1>3

LEMMA TruncateStep ==
    ASSUME BlobInv, NEW w \in BlobWriters, NEW kind \in Kinds, Truncate(w, kind) PROVE BlobInv'
<1> USE DEF BlobInv, BlobTypes
<1> DEFINE name == <<pidOf[w], kind>>
<1>1. /\ wpc[w] = (IF kind = "blob" THEN "blob_open" ELSE "tomb_open")
      /\ wpc' = [wpc EXCEPT ![w] = IF kind = "blob" THEN "blob_write" ELSE "tomb_write"]
      /\ tmp' = [tmp EXCEPT ![name] = "torn"] /\ fd' = [fd EXCEPT ![w] = "tmp"]
      /\ UNCHANGED <<backend, pidOf, file, mem, acked, erased, raced>>
  BY DEF Truncate, Step, TmpName
<1>2. backend = "dir" /\ name \in BlobPids \X Kinds
  BY <1>1 DEF MemoryInv
<1>3. BlobTypes'
  BY <1>1, <1>2 DEF Contents, BlobSteps, TombSteps
<1>4. DirInv'
  BY <1>1, <1>2 DEF DirInv
<1>5. ASSUME OwnTmp PROVE OwnInv'
  <2>1. \A o \in BlobWriters : o # w => \A k \in Kinds : <<pidOf[o], k>> # name
    BY <1>5 DEF OwnTmp
  <2>2. \A o \in BlobWriters, k \in Kinds : o # w => tmp'[<<pidOf[o], k>>] = tmp[<<pidOf[o], k>>]
    BY <1>1, <1>2, <2>1
  <2> HIDE DEF name
  <2> QED BY <1>1, <1>2, <1>5, <2>2 DEF OwnInv, BlobSteps, Kinds
<1> QED BY <1>1, <1>2, <1>3, <1>4, <1>5 DEF OwnTmp

LEMMA WriteBytesStep ==
    ASSUME BlobInv, NEW w \in BlobWriters, NEW kind \in Kinds, WriteBytes(w, kind) PROVE BlobInv'
<1> USE DEF BlobInv, BlobTypes
<1> DEFINE name == <<pidOf[w], kind>>
<1>1. /\ wpc[w] = (IF kind = "blob" THEN "blob_write" ELSE "tomb_write")
      /\ wpc' = [wpc EXCEPT ![w] = IF kind = "blob" THEN "blob_rename" ELSE "tomb_rename"]
      /\ tmp' = (IF fd[w] = "tmp" THEN [tmp EXCEPT ![name] = kind] ELSE tmp)
      /\ file' = (IF fd[w] = "path" THEN kind ELSE file)
      /\ fd' = [fd EXCEPT ![w] = "gone"]
      /\ UNCHANGED <<backend, pidOf, mem, acked, erased, raced>>
  BY DEF WriteBytes, Step, TmpName
<1>2. backend = "dir" /\ name \in BlobPids \X Kinds /\ kind \in Contents /\ kind # "absent"
  BY <1>1 DEF MemoryInv, Contents, Kinds
<1>3. BlobTypes'
  BY <1>1, <1>2 DEF BlobSteps, TombSteps
<1>4. DirInv'
  BY <1>1, <1>2 DEF DirInv
<1>5. ASSUME OwnTmp PROVE OwnInv'
  <2>1. \A o \in BlobWriters : o # w => \A k \in Kinds : <<pidOf[o], k>> # name
    BY <1>5 DEF OwnTmp
  <2>2. \A o \in BlobWriters, k \in Kinds : o # w => tmp'[<<pidOf[o], k>>] = tmp[<<pidOf[o], k>>]
    BY <1>1, <1>2, <2>1
  <2>3. fd[w] = "tmp"
    BY <1>1, <1>2, <1>5 DEF OwnInv
  <2>4. tmp'[<<pidOf[w], kind>>] = kind /\ file' = file
    BY <1>1, <1>2, <2>3
  <2> HIDE DEF name
  <2>5. wpc'[w] \in {"blob_rename", "tomb_rename"} /\ (wpc'[w] = "blob_rename" <=> kind = "blob")
        /\ fd'[w] = "gone" /\ \A o \in BlobWriters : o # w => wpc'[o] = wpc[o] /\ fd'[o] = fd[o]
    BY <1>1
  <2>6. ASSUME NEW o \in BlobWriters
        PROVE  /\ fd'[o] # "path"
               /\ wpc'[o] \in {"blob_write", "tomb_write"} => fd'[o] = "tmp"
               /\ wpc'[o] = "blob_rename" => tmp'[<<pidOf'[o], "blob">>] = "blob"
               /\ wpc'[o] = "tomb_rename" => tmp'[<<pidOf'[o], "tomb">>] = "tomb"
    <3>1. CASE o = w
      <4>1. kind \in {"blob", "tomb"} /\ pidOf'[o] = pidOf[w]
        BY <1>1, <3>1 DEF Kinds
      <4> QED BY <2>4, <2>5, <3>1, <4>1
    <3>2. CASE o # w
      BY <1>1, <1>2, <1>5, <2>2, <2>5, <3>2 DEF OwnInv, Kinds
    <3> QED BY <3>1, <3>2
  <2>7. erased' /\ ~raced' => file' = "tomb" /\ \A o \in BlobWriters : wpc'[o] \notin BlobSteps
    <3>1. wpc[w] \in BlobSteps <=> wpc'[w] \in BlobSteps
      BY <1>1 DEF BlobSteps, Kinds
    <3> QED BY <1>1, <1>2, <1>5, <2>4, <2>5, <3>1 DEF OwnInv
  <2>8. file' # "torn" /\ (file' = "tomb" => erased')
    BY <1>1, <1>2, <1>5, <2>4 DEF OwnInv
  <2> QED BY <2>6, <2>7, <2>8 DEF OwnInv
<1> QED BY <1>1, <1>2, <1>3, <1>4, <1>5 DEF OwnTmp

LEMMA PublishStep ==
    ASSUME BlobInv, NEW w \in BlobWriters, NEW kind \in Kinds, Publish(w, kind) PROVE BlobInv'
<1> USE DEF BlobInv, BlobTypes
<1> DEFINE name == <<pidOf[w], kind>>
           Moves(o) == fd[o] = "tmp" /\ <<pidOf[o], kind>> = name
                       /\ wpc[o] = (IF kind = "blob" THEN "blob_write" ELSE "tomb_write")
<1>1. /\ wpc[w] = (IF kind = "blob" THEN "blob_rename" ELSE "tomb_rename")
      /\ wpc' = [wpc EXCEPT ![w] = "idle"]
      /\ UNCHANGED <<backend, pidOf, mem>>
  BY DEF Publish, Step
<1>2. backend = "dir" /\ name \in BlobPids \X Kinds
  BY <1>1 DEF MemoryInv
<1>3. CASE tmp[name] = "absent"
  <2>1. UNCHANGED <<file, tmp, fd, acked, erased, raced>>
    BY <1>3 DEF Publish, TmpName
  <2>2. BlobTypes' /\ DirInv'
    BY <1>1, <1>2, <2>1 DEF DirInv
  <2>3. OwnTmp => OwnInv'
    BY <1>1, <1>2, <2>1 DEF OwnInv, BlobSteps
  <2> QED BY <1>1, <1>2, <2>2, <2>3 DEF OwnTmp
<1>4. CASE tmp[name] # "absent"
  <2>1. /\ file' = tmp[name] /\ tmp' = [tmp EXCEPT ![name] = "absent"] /\ acked' = TRUE
        /\ erased' = (erased \/ kind = "tomb")
        /\ raced' = (raced \/ (kind = "tomb" /\ \E o \in BlobWriters : wpc[o] \in BlobSteps))
        /\ fd' = [o \in BlobWriters |-> IF Moves(o) THEN "path"
                                        ELSE IF fd[o] = "path" THEN "gone" ELSE fd[o]]
    BY <1>4 DEF Publish, TmpName, BlobSteps
  <2>2. BlobTypes'
    BY <1>1, <1>2, <2>1 DEF Contents
  <2>3. DirInv'
    BY <1>1, <1>2, <1>4, <2>1 DEF DirInv
  <2>4. ASSUME OwnTmp PROVE OwnInv'
    <3>1. \A o \in BlobWriters : ~Moves(o) /\ fd[o] # "path"
      BY <1>1, <1>2, <2>4 DEF OwnTmp, OwnInv
    <3>2. fd' = fd
      BY <2>1, <3>1
    <3>3. tmp[name] = kind
      BY <1>1, <1>2, <2>4 DEF OwnInv, Kinds
    <3>4. \A o \in BlobWriters : o # w => \A k \in Kinds : <<pidOf[o], k>> # name
      BY <2>4 DEF OwnTmp
    <3>5. \A o \in BlobWriters, k \in Kinds : o # w => tmp'[<<pidOf[o], k>>] = tmp[<<pidOf[o], k>>]
      BY <2>1, <1>2, <3>4
    <3> HIDE DEF name, Moves
    <3>6. file' = kind /\ kind \in {"blob", "tomb"}
      BY <2>1, <3>3 DEF Kinds
    <3>7. \A o \in BlobWriters :
            /\ fd'[o] # "path"
            /\ wpc'[o] \in {"blob_write", "tomb_write"} => fd'[o] = "tmp"
            /\ wpc'[o] = "blob_rename" => tmp'[<<pidOf'[o], "blob">>] = "blob"
            /\ wpc'[o] = "tomb_rename" => tmp'[<<pidOf'[o], "tomb">>] = "tomb"
      BY <1>1, <1>2, <2>4, <3>2, <3>5 DEF OwnInv, Kinds
    <3>8. erased' /\ ~raced' => file' = "tomb" /\ \A o \in BlobWriters : wpc'[o] \notin BlobSteps
      <4>1. CASE kind = "tomb"
        BY <1>1, <2>1, <3>6, <4>1 DEF BlobSteps
      <4>2. CASE kind = "blob"
        <5>1. wpc[w] \in BlobSteps
          BY <1>1, <4>2 DEF BlobSteps
        <5>2. erased => raced
          BY <1>2, <2>4, <5>1 DEF OwnInv
        <5> QED BY <2>1, <4>2, <5>2
      <4> QED BY <4>1, <4>2, <3>6
    <3>9. file' # "torn" /\ (file' = "tomb" => erased')
      BY <2>1, <3>6
    <3> QED BY <3>7, <3>8, <3>9 DEF OwnInv
  <2> QED BY <1>1, <1>2, <2>2, <2>3, <2>4 DEF OwnTmp
<1> QED BY <1>3, <1>4

LEMMA DieProcessStep == ASSUME BlobInv, DieProcess PROVE BlobInv'
<1>1. PICK p \in BlobPids :
        /\ wpc' = [w \in BlobWriters |-> IF pidOf[w] = p THEN "idle" ELSE wpc[w]]
        /\ fd' = [w \in BlobWriters |-> IF pidOf[w] = p THEN "gone" ELSE fd[w]]
  BY DEF DieProcess
<1>2. backend = "dir" /\ UNCHANGED <<backend, pidOf, file, tmp, mem, acked, erased, raced>>
  BY DEF DieProcess
<1>3. BlobTypes' /\ DirInv'
  BY <1>1, <1>2 DEF BlobInv, BlobTypes, DirInv
<1>4. OwnTmp => OwnInv'
  BY <1>1, <1>2 DEF BlobInv, BlobTypes, OwnInv, BlobSteps
<1> QED BY <1>2, <1>3, <1>4 DEF BlobInv, OwnTmp

LEMMA BlobClaims == ASSUME BlobInv PROVE AckedKept
<1> USE DEF BlobInv, BlobTypes
<1>1. CASE backend = "memory"
  <2>1. get = IF mem.blob THEN "Present" ELSE IF mem.tomb THEN "Erased" ELSE "Absent"
    BY <1>1 DEF get
  <2> QED BY <1>1, <2>1 DEF AckedKept, MemoryInv, GetOutcomes
<1>2. CASE backend = "dir"
  <2>1. /\ file = "blob" => get = "Present"
        /\ file = "tomb" => get = "Erased"
        /\ file = "absent" => get = "Absent"
        /\ file = "torn" => get = "DigestMismatch"
    BY <1>2 DEF get
  <2> QED BY <1>2, <2>1 DEF AckedKept, DirInv, OwnInv, GetOutcomes, Contents
<1> QED BY <1>1, <1>2

\* A step of the blob store keeps its invariant.
LEMMA BlobKeeps == BlobInv /\ [BlobNext]_blobVars => BlobInv'
<1> SUFFICES ASSUME BlobInv, [BlobNext]_blobVars PROVE BlobInv'
  OBVIOUS
<1>1. CASE UNCHANGED blobVars
  BY <1>1 DEF blobVars, BlobInv, BlobTypes, MemoryInv, DirInv, OwnInv, OwnTmp
<1>2. CASE BlobNext
  BY <1>2, MemorySteps, PutCheckStep, TruncateStep, WriteBytesStep, PublishStep, DieProcessStep DEF BlobNext
<1> QED BY <1>1, <1>2

\* For any writers and processes, with threads that share a process and deaths at
\* any step: what was acknowledged is never absent again, is readable unless two
\* writers share a process, and stays erased unless a put raced the erasure.
THEOREM BlobsKept == BlobSpec => []AckedKept
<1>1. BlobInit => BlobInv
  BY BlobStarts
<1>2. BlobInv => AckedKept
  BY BlobClaims
<1> QED BY <1>1, <1>2, BlobKeeps, PTL DEF BlobSpec


-----------------------------------------------------------------------------
(* Trust boundaries.  Each of the four has its own state.                  *)

\* What was admitted is what the store holds under the tenant's own key.
TenantInv ==
    /\ \A t, b, p : <<t, b, p>> \in admitted => <<t, b>> \in DOMAIN entries /\ entries[<<t, b>>] = p
    /\ \A t \in Tenants, b \in BaseKeys :
        <<t, b>> \in DOMAIN entries => <<t, b, entries[<<t, b>>]>> \in admitted
    /\ audit \in Seq([tenant : Tenants, admitted : BOOLEAN, alert : BOOLEAN])
    /\ \A i \in DOMAIN audit : audit[i].alert => ~audit[i].admitted
    /\ \A b \in DOMAIN shared : /\ shared[b].chain.runner = "platform"
                                /\ shared[b].chain.principal = "platform"
                                /\ shared[b].chain.sig = Nil

LEMMA TenantStarts == ASSUME TrustInit PROVE TenantInv
BY DEF TrustInit, TenantInv, Empty

LEMMA AuditGrows ==
    ASSUME TenantInv, NEW t \in Tenants, NEW ok \in BOOLEAN, NEW alert \in BOOLEAN, ~(ok /\ alert),
           NEW grown, grown = Append(audit, AuditEvent(t, ok, alert))
    PROVE  /\ grown \in Seq([tenant : Tenants, admitted : BOOLEAN, alert : BOOLEAN])
           /\ \A i \in DOMAIN grown : grown[i].alert => ~grown[i].admitted
<1> DEFINE e == AuditEvent(t, ok, alert)
<1>1. e \in [tenant : Tenants, admitted : BOOLEAN, alert : BOOLEAN] /\ e.admitted = ok /\ e.alert = alert
  BY DEF AuditEvent
<1> HIDE DEF e
<1>2. audit \in Seq([tenant : Tenants, admitted : BOOLEAN, alert : BOOLEAN])
  BY DEF TenantInv
<1>3. grown = Append(audit, e)
  BY DEF e
<1>4. /\ grown \in Seq([tenant : Tenants, admitted : BOOLEAN, alert : BOOLEAN])
      /\ DOMAIN grown = 1..(Len(audit) + 1) /\ Len(audit) \in Nat
      /\ grown[Len(audit) + 1] = e /\ \A i \in 1..Len(audit) : grown[i] = audit[i] /\ i \in DOMAIN audit
  BY <1>1, <1>2, <1>3
<1>5. ASSUME NEW i \in 1..(Len(audit) + 1) PROVE grown[i].alert => ~grown[i].admitted
  <2>1. CASE i = Len(audit) + 1
    BY <1>1, <1>4, <2>1
  <2>2. CASE i # Len(audit) + 1
    <3>1. i \in 1..Len(audit)
      BY <1>4, <2>2
    <3> QED BY <1>4, <3>1 DEF TenantInv
  <2> QED BY <2>1, <2>2
<1> QED BY <1>4, <1>5

LEMMA AdmitEntryStep ==
    ASSUME TenantInv, NEW t \in Tenants, NEW b \in BaseKeys, NEW claimed, NEW p \in Payloads,
           admit(t, b, claimed, p)
    PROVE  TenantInv'
<1>1. shared' = shared
  BY DEF admit
<1>2. CASE admit_refused(t, b, claimed, p) # Nil
  <2>1. audit' = Append(audit, AuditEvent(t, FALSE, TRUE)) /\ entries' = entries /\ admitted' = admitted
    BY <1>2 DEF admit
  <2>2. /\ audit' \in Seq([tenant : Tenants, admitted : BOOLEAN, alert : BOOLEAN])
        /\ \A i \in DOMAIN audit' : audit'[i].alert => ~audit'[i].admitted
    BY <2>1, AuditGrows
  <2> QED BY <1>1, <2>1, <2>2 DEF TenantInv
<1>3. CASE admit_refused(t, b, claimed, p) = Nil
  <2> DEFINE k == <<t, b>>
  <2>1. /\ entries' = Put(entries, k, p) /\ admitted' = admitted \cup {<<t, b, p>>}
        /\ audit' = Append(audit, AuditEvent(t, TRUE, FALSE))
    BY <1>3 DEF admit, namespaced_key
  <2>2. k \notin DOMAIN entries \/ entries[k] = p
    BY <1>3, TrustConstants DEF admit_refused, namespaced_key
  <2>3. /\ audit' \in Seq([tenant : Tenants, admitted : BOOLEAN, alert : BOOLEAN])
        /\ \A i \in DOMAIN audit' : audit'[i].alert => ~audit'[i].admitted
    BY <2>1, AuditGrows
  <2>4. /\ DOMAIN entries' = DOMAIN entries \cup {k} /\ entries'[k] = p
        /\ \A x \in DOMAIN entries : x # k => entries'[x] = entries[x]
    BY <2>1 DEF Put
  <2>5. ASSUME NEW u, NEW c, NEW q, <<u, c, q>> \in admitted'
        PROVE  <<u, c>> \in DOMAIN entries' /\ entries'[<<u, c>>] = q
    <3>1. CASE <<u, c, q>> \in admitted
      <4>1. <<u, c>> \in DOMAIN entries /\ entries[<<u, c>>] = q
        BY <3>1 DEF TenantInv
      <4> QED BY <2>2, <2>4, <4>1
    <3>2. CASE <<u, c, q>> = <<t, b, p>>
      BY <2>4, <3>2
    <3> QED BY <2>1, <2>5, <3>1, <3>2
  <2>6. ASSUME NEW u \in Tenants, NEW c \in BaseKeys, <<u, c>> \in DOMAIN entries'
        PROVE  <<u, c, entries'[<<u, c>>]>> \in admitted'
    <3>1. CASE <<u, c>> = k
      BY <2>1, <2>4, <3>1
    <3>2. CASE <<u, c>> # k
      BY <2>1, <2>4, <2>6, <3>2 DEF TenantInv
    <3> QED BY <3>1, <3>2
  <2> QED BY <1>1, <2>3, <2>5, <2>6 DEF TenantInv
<1> QED BY <1>2, <1>3

LEMMA LookupStep == ASSUME TenantInv, NEW t \in Tenants, NEW b \in BaseKeys, lookup(t, b) PROVE TenantInv'
<1> DEFINE hit == lookup_result(t, b) # "Miss"
<1>1. audit' = Append(audit, AuditEvent(t, hit, FALSE)) /\ UNCHANGED <<entries, admitted, shared>>
  BY DEF lookup
<1> HIDE DEF hit
<1>2. hit \in BOOLEAN
  BY DEF hit
<1>3. /\ audit' \in Seq([tenant : Tenants, admitted : BOOLEAN, alert : BOOLEAN])
      /\ \A i \in DOMAIN audit' : audit'[i].alert => ~audit'[i].admitted
  BY <1>1, <1>2, AuditGrows
<1> QED BY <1>1, <1>3 DEF TenantInv

LEMMA PublishSharedStep ==
    ASSUME TenantInv, NEW t \in Tenants, NEW b \in BaseKeys, NEW p \in Payloads, publish_shared(t, b, p)
    PROVE  TenantInv'
<1> DEFINE chain == anonymize([tree |-> p, runner |-> t, principal |-> t, sig |-> [by |-> t, over |-> p]])
           entry == [bytes |-> p, chain |-> chain]
<1>1. shared' = Put(shared, b, entry) /\ UNCHANGED <<entries, audit, admitted>>
  BY DEF publish_shared
<1>2. entry.chain.runner = "platform" /\ entry.chain.principal = "platform" /\ entry.chain.sig = Nil
  BY DEF anonymize
<1> HIDE DEF entry
<1>3. \A c \in DOMAIN shared' : shared'[c] = entry \/ (c \in DOMAIN shared /\ shared'[c] = shared[c])
  BY <1>1 DEF Put
<1>4. \A c \in DOMAIN shared' : /\ shared'[c].chain.runner = "platform"
                                /\ shared'[c].chain.principal = "platform"
                                /\ shared'[c].chain.sig = Nil
  BY <1>2, <1>3 DEF TenantInv
<1> QED BY <1>1, <1>4 DEF TenantInv

LEMMA TenantClaims ==
    ASSUME TenantInv
    PROVE  /\ \A t \in Tenants, b \in BaseKeys :
                LET got == lookup_result(t, b)
                IN  /\ got # "Miss" => <<t, b, got>> \in admitted
                    /\ \A p \in Payloads : <<t, b, p>> \in admitted => got = p
           /\ \A i \in DOMAIN audit : audit[i].alert => ~audit[i].admitted
           /\ \A b \in DOMAIN shared : /\ shared[b].chain.runner \notin Tenants
                                       /\ shared[b].chain.principal \notin Tenants
                                       /\ shared[b].chain.sig = Nil
<1>1. ASSUME NEW t \in Tenants, NEW b \in BaseKeys
      PROVE  /\ lookup_result(t, b) # "Miss" => <<t, b, lookup_result(t, b)>> \in admitted
             /\ \A p \in Payloads : <<t, b, p>> \in admitted => lookup_result(t, b) = p
  <2>1. CASE <<t, b>> \in DOMAIN entries
    <3>1. lookup_result(t, b) = entries[<<t, b>>]
      BY <2>1 DEF lookup_result, namespaced_key
    <3> QED BY <2>1, <3>1 DEF TenantInv
  <2>2. CASE <<t, b>> \notin DOMAIN entries
    <3>1. lookup_result(t, b) = "Miss"
      BY <2>2 DEF lookup_result, namespaced_key
    <3> QED BY <2>2, <3>1 DEF TenantInv
  <2> QED BY <2>1, <2>2
<1> QED BY <1>1, TrustConstants DEF TenantInv

\* The log holds what was signed, over the tree that its digest names; a boot or a
\* promotion needs the release key's signature at the time, and the log only grows.
Signed(e) == \E k \in Signers : e = sign_release(k, e.digest)
Booted(d) == \E i \in DOMAIN tlogEntries :
                 tlogEntries[i].digest = d /\ tlogEntries[i].sig = [by |-> ReleaseKey, over |-> d]

ReleaseInv ==
    /\ tlogEntries \in Seq([digest : Digests, tree : Digests, sig : [by : Signers, over : Digests]])
    /\ \A i \in DOMAIN tlogEntries : Signed(tlogEntries[i])
    /\ \A d \in boots : Booted(d)
    /\ \A p \in promotions : /\ p.gate = TRUE /\ p.chain.principal # Nil
                             /\ p.chain.sig = [by |-> ReleaseKey, over |-> p.chain.tree]

LEMMA ReleaseStarts == ASSUME TrustInit PROVE ReleaseInv
BY DEF TrustInit, ReleaseInv

LEMMA LeastPosition ==
    ASSUME NEW T \in SUBSET Nat, T # {}
    PROVE  \E x \in T : \A y \in T : x <= y
<1>1. PICK x \in T : \A y \in T : <<y, x>> \notin OpToRel(<, Nat)
  BY NatLessThanWellFounded, WFMin
<1>2. \A y \in T : ~(y < x)
  BY <1>1 DEF OpToRel
<1> QED BY <1>2

LEMMA PublishReleaseStep ==
    ASSUME ReleaseInv, NEW d \in Digests, NEW k \in Signers, publish(sign_release(k, d))
    PROVE  ReleaseInv'
<1> DEFINE e == sign_release(k, d)
           Entry == [digest : Digests, tree : Digests, sig : [by : Signers, over : Digests]]
<1>1. tlogEntries' = Append(tlogEntries, e) /\ UNCHANGED <<boots, promotions>>
  BY DEF publish
<1>2. e \in Entry /\ Signed(e)
  BY DEF sign_release, Signed
<1>3. tlogEntries \in Seq(Entry)
  BY DEF ReleaseInv
<1> HIDE DEF e, Entry
<1>4. /\ tlogEntries' \in Seq(Entry) /\ DOMAIN tlogEntries' = 1..(Len(tlogEntries) + 1)
      /\ Len(tlogEntries) \in Nat /\ DOMAIN tlogEntries = 1..Len(tlogEntries)
      /\ tlogEntries'[Len(tlogEntries) + 1] = e
      /\ \A i \in 1..Len(tlogEntries) : tlogEntries'[i] = tlogEntries[i]
  BY <1>1, <1>2, <1>3
<1>5. \A i \in DOMAIN tlogEntries' : Signed(tlogEntries'[i])
  <2> TAKE i \in DOMAIN tlogEntries'
  <2>1. i = Len(tlogEntries) + 1 \/ i \in 1..Len(tlogEntries)
    BY <1>4
  <2> QED BY <1>2, <1>4, <2>1 DEF ReleaseInv
<1>6. \A x \in boots' : Booted(x)'
  <2> TAKE x \in boots'
  <2>1. PICK i \in DOMAIN tlogEntries :
          tlogEntries[i].digest = x /\ tlogEntries[i].sig = [by |-> ReleaseKey, over |-> x]
    BY <1>1 DEF ReleaseInv, Booted
  <2>2. i \in DOMAIN tlogEntries' /\ tlogEntries'[i] = tlogEntries[i]
    BY <1>4, <2>1
  <2> QED BY <2>1, <2>2 DEF Booted
<1> QED BY <1>1, <1>4, <1>5, <1>6 DEF ReleaseInv, Entry

LEMMA BootStep == ASSUME ReleaseInv, NEW d \in Digests, boot_self_verify(d) PROVE ReleaseInv'
<1>1. /\ boots' = (IF locate_and_verify(d) THEN boots \cup {d} ELSE boots)
      /\ UNCHANGED <<tlogEntries, promotions>>
  BY DEF boot_self_verify
<1>2. ASSUME locate_and_verify(d) PROVE Booted(d)
  <2> DEFINE at == {i \in DOMAIN tlogEntries : tlogEntries[i].digest = d}
             first == CHOOSE i \in at : \A j \in at : i <= j
  <2>1. find_by_digest(d) = IF at = {} THEN Nil ELSE tlogEntries[first]
    BY DEF find_by_digest
  <2>2. at \in SUBSET Nat
    BY DEF ReleaseInv
  <2>3. at # {} /\ entry_verifies(find_by_digest(d))
    BY <1>2, <2>1 DEF locate_and_verify
  <2>4. first \in at
    BY <2>2, <2>3, LeastPosition
  <2> HIDE DEF first
  <2>5. first \in DOMAIN tlogEntries /\ tlogEntries[first].digest = d /\ Signed(tlogEntries[first])
    BY <2>4 DEF ReleaseInv
  <2>6. PICK k \in Signers : tlogEntries[first] = sign_release(k, d)
    BY <2>5 DEF Signed
  <2>7. tlogEntries[first].sig = [by |-> k, over |-> d]
    BY <2>6 DEF sign_release
  <2>8. tlogEntries[first].sig.by = ReleaseKey
    BY <2>1, <2>3 DEF entry_verifies
  <2> QED BY <2>5, <2>7, <2>8 DEF Booted
<1>3. \A x \in boots' : Booted(x)
  BY <1>1, <1>2 DEF ReleaseInv
<1>4. \A x \in boots' : Booted(x)'
  BY <1>1, <1>3 DEF Booted
<1> QED BY <1>1, <1>4 DEF ReleaseInv

LEMMA PromoteStep == ASSUME ReleaseInv, NEW c \in Chains, promote(c) PROVE ReleaseInv'
<1>1. /\ promotions' = (IF resolve_chain(c) /\ gateOk
                        THEN promotions \cup {[chain |-> c, gate |-> gateOk]} ELSE promotions)
      /\ UNCHANGED <<tlogEntries, boots>>
  BY DEF promote
<1>2. ASSUME resolve_chain(c), gateOk
      PROVE  c.principal # Nil /\ c.sig = [by |-> ReleaseKey, over |-> c.tree]
  <2>1. c.sig # Nil /\ c.sig.by = ReleaseKey /\ c.sig.over = c.tree /\ c.principal # Nil
    BY <1>2 DEF resolve_chain, verify_signature, require_links
  <2>2. c.sig \in {Nil} \cup [by : Signers, over : Digests]
    BY DEF Chains
  <2> QED BY <2>1, <2>2
<1>3. \A p \in promotions' : /\ p.gate = TRUE /\ p.chain.principal # Nil
                             /\ p.chain.sig = [by |-> ReleaseKey, over |-> p.chain.tree]
  <2>1. CASE resolve_chain(c) /\ gateOk
    <3> DEFINE q == [chain |-> c, gate |-> gateOk]
    <3>1. promotions' = promotions \cup {q} /\ q.chain = c /\ q.gate = gateOk
      BY <1>1, <2>1
    <3> HIDE DEF q
    <3> QED BY <1>2, <2>1, <3>1 DEF ReleaseInv
  <2>2. CASE ~(resolve_chain(c) /\ gateOk)
    BY <1>1, <2>2 DEF ReleaseInv
  <2> QED BY <2>1, <2>2
<1>4. \A d \in boots' : Booted(d)'
  BY <1>1 DEF ReleaseInv, Booted
<1> QED BY <1>1, <1>3, <1>4 DEF ReleaseInv

\* An id that was bound stays bound to its logical intent.
IdentityInv ==
    /\ served # Nil => served.bytes = served.memo
    /\ \A x \in bound : x[1] \in DOMAIN registry /\ registry[x[1]] = x[2]

LEMMA IdentityStep == ASSUME IdentityInv, IdentityNext PROVE IdentityInv'
<1>1. ASSUME NEW k \in MemoKeys, NEW v \in Payloads, memoize(k, v) PROVE IdentityInv'
  BY <1>1 DEF memoize, IdentityInv
<1>2. ASSUME NEW k \in MemoKeys, NEW v \in Payloads, serve_evidence(k, v) PROVE IdentityInv'
  <2>1. memo[k] = v
    BY <1>2, TrustConstants DEF serve_evidence, serve_refused
  <2>2. served'.bytes = served'.memo
    BY <1>2, <2>1 DEF serve_evidence
  <2> QED BY <1>2, <2>2 DEF serve_evidence, IdentityInv
<1>3. ASSUME NEW l \in Logicals, NEW s \in MemoKeys, NEW n \in MemoKeys, register_one_lifecycle(l, s, n)
      PROVE  IdentityInv'
  <2>1. /\ registry' = Put(registry, s, l) /\ bound' = bound \cup {<<s, l>>} /\ served' = served
        /\ (s \notin DOMAIN registry \/ registry[s] = l)
    BY <1>3, TrustConstants DEF register_one_lifecycle, register_refused
  <2>2. /\ DOMAIN registry' = DOMAIN registry \cup {s} /\ registry'[s] = l
        /\ \A x \in DOMAIN registry : x # s => registry'[x] = registry[x]
    BY <2>1 DEF Put
  <2>3. \A x \in bound' : x[1] \in DOMAIN registry' /\ registry'[x[1]] = x[2]
    <3> TAKE x \in bound'
    <3>1. CASE x = <<s, l>>
      BY <2>2, <3>1
    <3>2. CASE x \in bound
      <4>1. x[1] \in DOMAIN registry /\ registry[x[1]] = x[2]
        BY <3>2 DEF IdentityInv
      <4> QED BY <2>1, <2>2, <4>1
    <3> QED BY <2>1, <3>1, <3>2
  <2> QED BY <2>1, <2>3 DEF IdentityInv
<1> QED BY <1>1, <1>2, <1>3 DEF IdentityNext

SmartInv ==
    /\ workspace \subseteq {public_signature("m")}
    /\ window \in Seq([id : Digests, fault : BOOLEAN, provenance : {"Absent", "Present"}])
    /\ \A i \in DOMAIN window : window[i].fault => window[i].provenance = "Absent"

LEMMA SmartStep == ASSUME SmartInv, SmartNext PROVE SmartInv'
<1>1. PICK fault \in BOOLEAN : broker_op(fault) \/ \E id \in Digests : write_object(id, fault)
  BY DEF SmartNext
<1>2. CASE broker_op(fault)
  BY <1>2 DEF broker_op, SmartInv
<1>3. ASSUME NEW id \in Digests, write_object(id, fault) PROVE SmartInv'
  <2> DEFINE o == [id |-> id, fault |-> fault, provenance |-> IF fault THEN "Absent" ELSE "Present"]
             Objs == [id : Digests, fault : BOOLEAN, provenance : {"Absent", "Present"}]
  <2>1. window' = Append(window, o) /\ workspace' = workspace
    BY <1>3 DEF write_object
  <2>2. o \in Objs /\ (o.fault => o.provenance = "Absent")
    OBVIOUS
  <2>3. window \in Seq(Objs)
    BY DEF SmartInv
  <2> HIDE DEF o, Objs
  <2>4. /\ window' \in Seq(Objs) /\ DOMAIN window' = 1..(Len(window) + 1) /\ Len(window) \in Nat
        /\ DOMAIN window = 1..Len(window) /\ window'[Len(window) + 1] = o
        /\ \A i \in 1..Len(window) : window'[i] = window[i]
    BY <2>1, <2>2, <2>3
  <2>5. \A i \in DOMAIN window' : window'[i].fault => window'[i].provenance = "Absent"
    <3> TAKE i \in DOMAIN window'
    <3>1. i = Len(window) + 1 \/ i \in 1..Len(window)
      BY <2>4
    <3> QED BY <2>2, <2>4, <3>1 DEF SmartInv
  <2> QED BY <2>1, <2>4, <2>5 DEF SmartInv, Objs
<1> QED BY <1>1, <1>2, <1>3

TrustInv == TenantInv /\ ReleaseInv /\ IdentityInv /\ SmartInv

LEMMA TrustSteps == ASSUME TrustInv, [TrustNext]_trustVars PROVE TrustInv'
<1> USE DEF TrustInv
<1>1. ASSUME UNCHANGED tenantVars PROVE TenantInv'
  BY <1>1 DEF tenantVars, TenantInv
<1>2. ASSUME UNCHANGED releaseVars PROVE ReleaseInv'
  BY <1>2 DEF releaseVars, ReleaseInv, Booted
<1>3. ASSUME UNCHANGED identityVars PROVE IdentityInv'
  BY <1>3 DEF identityVars, IdentityInv
<1>4. ASSUME UNCHANGED smartVars PROVE SmartInv'
  BY <1>4 DEF smartVars, SmartInv
<1>5. ASSUME TenantNext PROVE TenantInv'
  BY <1>5, AdmitEntryStep, LookupStep, PublishSharedStep DEF TenantNext
<1>6. ASSUME ReleaseNext PROVE ReleaseInv'
  <2>1. ASSUME Regate PROVE ReleaseInv'
    BY <2>1 DEF Regate, ReleaseInv, Booted
  <2> QED BY <1>6, <2>1, PublishReleaseStep, BootStep, PromoteStep DEF ReleaseNext
<1> QED BY <1>1, <1>2, <1>3, <1>4, <1>5, <1>6, IdentityStep, SmartStep DEF TrustNext, trustVars

LEMMA TrustClaims == ASSUME TrustInv PROVE BoundariesHold
<1> USE DEF TrustInv
<1>1. /\ \A d \in boots : \E i \in DOMAIN tlogEntries :
           tlogEntries[i].digest = d /\ tlogEntries[i].sig = [by |-> ReleaseKey, over |-> d]
      /\ \A p \in promotions : /\ p.gate /\ p.chain.principal # Nil
                               /\ p.chain.sig = [by |-> ReleaseKey, over |-> p.chain.tree]
  BY DEF ReleaseInv, Booted
<1>2. served # Nil => served.bytes = served.memo
  BY DEF IdentityInv
<1>3. \A x, y \in bound : x[1] = y[1] => x[2] = y[2]
  BY DEF IdentityInv
<1>4. Credential \notin workspace
  <2>1. Credential # public_signature("m")
    BY DEF Credential, public_signature
  <2> QED BY <2>1 DEF SmartInv
<1>5. scan_degradation_window_writes.absent = scan_degradation_window_writes.objects
  <2> DEFINE during == {i \in DOMAIN window : window[i].fault}
             absent == {i \in during : window[i].provenance = "Absent"}
  <2>1. absent = during
    BY DEF SmartInv
  <2>2. scan_degradation_window_writes = [objects |-> Cardinality(during), absent |-> Cardinality(absent)]
    BY DEF scan_degradation_window_writes
  <2> HIDE DEF during, absent
  <2> QED BY <2>1, <2>2
<1> QED BY <1>1, <1>2, <1>3, <1>4, <1>5, TenantClaims DEF BoundariesHold

LEMMA TrustStarts == TrustInit => TrustInv
<1> SUFFICES ASSUME TrustInit PROVE TrustInv
  OBVIOUS
<1>1. IdentityInv /\ SmartInv
  BY DEF TrustInit, IdentityInv, SmartInv
<1> QED BY <1>1, TenantStarts, ReleaseStarts DEF TrustInv

\* For any tenants, keys, digests, signers and ids, in any order of requests: a
\* tenant reads only what it admitted itself, only the release key's signature
\* boots or promotes, evidence is the memo, an id keeps its intent, and a fault
\* window delivers no credential and claims no provenance.
THEOREM BoundariesKept == TrustSpec => []BoundariesHold
<1>1. TrustInv /\ [TrustNext]_trustVars => TrustInv'
  BY TrustSteps
<1>2. TrustInv => BoundariesHold
  BY TrustClaims
<1> QED BY <1>1, <1>2, TrustStarts, PTL DEF TrustSpec

-----------------------------------------------------------------------------
(* Envelopes.  What a close has put so far is in the store, and only what    *)
(* its level lets it put.                                                    *)

Refs == {NoRef} \union blobs

CloseOK(c) ==
    /\ DOMAIN c = {"draft", "level", "step", "raw", "task", "prompt"}
    /\ c.level \in {"off", "metrics", "task", "full"} /\ c.step \in {"raw", "task", "prompt", "seal"}
    /\ c.draft.raw_ref \in {NoRef, Earlier}
    /\ {c.raw, c.task, c.prompt} \subseteq Refs
    /\ c.level \in {"off", "metrics"} => c.raw \in {NoRef, Earlier} /\ c.task = NoRef /\ c.prompt = NoRef

EnvelopeInv ==
    /\ Earlier \in blobs
    /\ closing # NoRef => CloseOK(closing)
    /\ closed # NoRef /\ closed.error = "Store" => CloseOK(closed.of)
    /\ EnvelopeWhole

LEMMA LevelOrder ==
    /\ \A what \in {"task", "full"}: ~AtLeast("off", what) /\ ~AtLeast("metrics", what)
    /\ ~AtLeast("off", "metrics") /\ AtLeast("full", "full")
BY DEF AtLeast, CaptureLevel

LEMMA PutAllowed ==
    ASSUME NEW c, c.level \in {"off", "metrics"} PROVE ToPut(c) = NoRef
BY LevelOrder DEF ToPut

LEMMA PutIsNoEnvelope ==
    ASSUME NEW c, ToPut(c) # NoRef PROVE ToPut(c)[1] # "envelope"
BY DEF ToPut

LEMMA EnvelopeStarts == EnvelopeInit => EnvelopeInv
BY DEF EnvelopeInit, EnvelopeInv, EnvelopeWhole, Earlier

LEMMA EnvelopeSteps == EnvelopeInv /\ [RecordNext \/ RollNext]_envelopeVars => EnvelopeInv'
<1> SUFFICES ASSUME EnvelopeInv, [RecordNext \/ RollNext]_envelopeVars PROVE EnvelopeInv'
  OBVIOUS
<1>0. /\ Earlier \in blobs
      /\ closing # NoRef => CloseOK(closing)
      /\ closed # NoRef /\ closed.error = "Store" => CloseOK(closed.of)
      /\ EnvelopeWhole
  BY DEF EnvelopeInv
<1>1. ASSUME UNCHANGED <<closing, blobs, closed>> PROVE EnvelopeInv'
  BY <1>0, <1>1 DEF EnvelopeInv, EnvelopeWhole, CloseOK, Refs
<1>2. CASE BeginClose
  <2>1. PICK level \in {CaptureLevel[i] : i \in 1..4}, altitude \in {"intent", "pr"},
             session \in BOOLEAN, given \in {NoRef, Earlier}, prompt \in BOOLEAN :
          IF close_session_refused(altitude, session)
          THEN closed' = [error |-> "NotASessionAltitude", of |-> NoRef] /\ UNCHANGED closing
          ELSE /\ closing' = [draft |-> EnvelopeDraft(altitude, given, NoRef, prompt),
                              level |-> level, step |-> "raw",
                              raw |-> given, task |-> NoRef, prompt |-> NoRef]
               /\ closed' = NoRef
    BY <1>2 DEF BeginClose
  <2>2. level \in {"off", "metrics", "task", "full"}
    BY DEF CaptureLevel
  <2>3. closing = NoRef /\ closed = NoRef /\ UNCHANGED blobs
    BY <1>2 DEF BeginClose
  <2>4. CASE close_session_refused(altitude, session)
    BY <1>0, <2>1, <2>3, <2>4, EnvelopeAssumption DEF EnvelopeInv, EnvelopeWhole, EnvelopeErrors
  <2>5. CASE ~close_session_refused(altitude, session)
    <3>1. CloseOK(closing)'
      BY <1>0, <2>1, <2>2, <2>3, <2>5 DEF CloseOK, Refs, EnvelopeDraft
    <3> QED BY <1>0, <2>1, <2>3, <2>5, <3>1 DEF EnvelopeInv, EnvelopeWhole
  <2> QED BY <2>4, <2>5
<1>3. CASE RetryClose
  <2>1. CloseOK(closed.of) /\ closed' = NoRef /\ UNCHANGED blobs
    BY <1>0, <1>3 DEF RetryClose
  <2>2. closing' = [closed.of EXCEPT !.step = "raw", !.raw = closed.of.draft.raw_ref,
                                     !.task = NoRef, !.prompt = NoRef]
    BY <1>3 DEF RetryClose
  <2>3. CloseOK(closing)'
    BY <1>0, <2>1, <2>2 DEF CloseOK, Refs
  <2> QED BY <1>0, <2>1, <2>3 DEF EnvelopeInv, EnvelopeWhole
<1>4. CASE PutStep
  <2> DEFINE blob == ToPut(closing)
             moved == [closing EXCEPT !.step = NextStep[closing.step]]
  <2>1. PICK stored \in BOOLEAN :
          /\ stored \/ blob # NoRef
          /\ blobs' = IF stored /\ blob # NoRef THEN blobs \union {blob} ELSE blobs
          /\ IF ~stored
             THEN closing' = NoRef /\ closed' = [error |-> "Store", of |-> closing]
             ELSE /\ closing' = IF blob = NoRef THEN moved
                                ELSE CASE closing.step = "raw" -> [moved EXCEPT !.raw = blob]
                                       [] closing.step = "task" -> [moved EXCEPT !.task = blob]
                                       [] OTHER -> [moved EXCEPT !.prompt = blob]
                  /\ UNCHANGED closed
    BY <1>4 DEF PutStep
  <2>2. CloseOK(closing) /\ closing.step \in {"raw", "task", "prompt"}
    BY <1>0, <1>4 DEF PutStep, CloseOK
  <2>3. blobs \subseteq blobs' /\ \A b \in blobs' \ blobs: b[1] # "envelope"
    BY <2>1, PutIsNoEnvelope
  <2>5. CASE ~stored
    <3>1. closed' = [error |-> "Store", of |-> closing] /\ closing' = NoRef /\ blobs' = blobs
      BY <2>1, <2>5
    <3>2. CloseOK(closed.of)'
      BY <2>2, <3>1 DEF CloseOK, Refs
    <3> QED BY <1>0, <3>1, <3>2, EnvelopeAssumption DEF EnvelopeInv, EnvelopeWhole, EnvelopeErrors
  <2>6. CASE stored
    <3>1. closing.level \in {"off", "metrics"} => blob = NoRef
      BY PutAllowed
    <3>2. NextStep[closing.step] \in {"task", "prompt", "seal"}
      BY <2>2 DEF NextStep
    <3>3. CloseOK(closing)'
      <4>1. CASE blob = NoRef
        BY <2>1, <2>2, <2>6, <3>2, <4>1 DEF CloseOK, Refs
      <4>2. CASE blob # NoRef
        <5>1. blobs' = blobs \union {blob} /\ closing.level \notin {"off", "metrics"}
          BY <2>1, <2>6, <3>1, <4>2
        <5>2. CASE closing.step = "raw"
          <6>1. closing' = [moved EXCEPT !.raw = blob]
            BY <2>1, <2>6, <4>2, <5>2
          <6> HIDE DEF blob
          <6> QED BY <2>2, <3>2, <5>1, <6>1 DEF CloseOK, Refs
        <5>3. CASE closing.step = "task"
          <6>1. closing' = [moved EXCEPT !.task = blob]
            BY <2>1, <2>6, <4>2, <5>3
          <6> HIDE DEF blob
          <6> QED BY <2>2, <3>2, <5>1, <6>1 DEF CloseOK, Refs
        <5>4. CASE closing.step = "prompt"
          <6>1. closing' = [moved EXCEPT !.prompt = blob]
            BY <2>1, <2>6, <4>2, <5>4
          <6> HIDE DEF blob
          <6> QED BY <2>2, <3>2, <5>1, <6>1 DEF CloseOK, Refs
        <5> QED BY <2>2, <5>2, <5>3, <5>4
      <4> QED BY <4>1, <4>2
    <3>4. UNCHANGED closed
      BY <2>1, <2>6
    <3>5. (closed # NoRef /\ closed.error = "Store" => CloseOK(closed.of))'
      BY <1>0, <2>3, <3>4 DEF CloseOK, Refs
    <3>6. EnvelopeWhole'
      BY <1>0, <2>3, <3>4 DEF EnvelopeWhole
    <3> QED BY <1>0, <2>3, <3>3, <3>4, <3>5, <3>6 DEF EnvelopeInv
  <2> QED BY <2>5, <2>6
<1>5. CASE Seal
  <2>1. CloseOK(closing) /\ closing' = NoRef
    BY <1>0, <1>5 DEF Seal
  <2>2. CASE closed' = [error |-> "TwoTranscriptViolation", of |-> closing] /\ UNCHANGED blobs
    BY <1>0, <2>1, <2>2, EnvelopeAssumption DEF EnvelopeInv, EnvelopeWhole, EnvelopeErrors
  <2>3. CASE closed' = [error |-> "Store", of |-> closing] /\ UNCHANGED blobs
    <3>1. CloseOK(closed.of)'
      BY <2>1, <2>3 DEF CloseOK, Refs
    <3> QED BY <1>0, <2>1, <2>3, <3>1, EnvelopeAssumption DEF EnvelopeInv, EnvelopeWhole, EnvelopeErrors
  <2>4. CASE /\ closed' = [error |-> NoRef, level |-> closing.level, envelope |-> ContextEnvelope(closing)]
             /\ blobs' = blobs \union {<<"envelope", ContextEnvelope(closing)>>}
             /\ ~two_transcript_missing(closing)
    <3> DEFINE e == ContextEnvelope(closing)
    <3>1. /\ e.raw_ref = closing.raw /\ e.task_ref = closing.task /\ e.prompt_ref = closing.prompt
          /\ e.summary = AtLeast(closing.level, "task")
          /\ e.metrics = IF AtLeast(closing.level, "metrics") THEN closing.draft.rec.metrics ELSE ZeroMetrics
      BY DEF ContextEnvelope
    <3>2. {e.raw_ref, e.task_ref, e.prompt_ref} \subseteq blobs' \union {NoRef}
      BY <2>1, <2>4, <3>1 DEF CloseOK, Refs
    <3>3. closing.level = "full" => NoRef \notin {e.raw_ref, e.task_ref}
      BY <2>4, <3>1, LevelOrder DEF two_transcript_missing
    <3>4. closing.level \in {"off", "metrics"} =>
            e.task_ref = NoRef /\ e.prompt_ref = NoRef /\ ~e.summary /\ e.raw_ref \in {NoRef, Earlier}
      BY <2>1, <3>1, LevelOrder DEF CloseOK
    <3>5. closing.level = "off" => e.metrics = ZeroMetrics
      BY <3>1, LevelOrder
    <3> HIDE DEF e
    <3>6. closed' = [error |-> NoRef, level |-> closing.level, envelope |-> e]
          /\ blobs' = blobs \union {<<"envelope", e>>}
      BY <2>4 DEF e
    <3>7. ASSUME NEW b \in blobs', b[1] = "envelope"
          PROVE  {b[2].raw_ref, b[2].task_ref, b[2].prompt_ref} \subseteq blobs' \union {NoRef}
      BY <1>0, <3>2, <3>6, <3>7 DEF EnvelopeWhole
    <3>8. EnvelopeWhole'
      BY <3>2, <3>3, <3>4, <3>5, <3>6, <3>7 DEF EnvelopeWhole
    <3> QED BY <1>0, <2>1, <3>6, <3>8, EnvelopeAssumption DEF EnvelopeInv
  <2> QED BY <1>5, <2>2, <2>3, <2>4 DEF Seal
<1> QED BY <1>1, <1>2, <1>3, <1>4, <1>5
     DEF RecordNext, RollNext, Record, AddEnvelope, LandId, recVars, envelopeVars

(* For any level, any refs the caller brings and any puts that fail, retried *)
(* or not, an envelope that a close returns or leaves in the store refers to *)
(* what is stored, and holds what its level asks for and no more             *)
(* (envelope/mod.rs close_envelope).                                         *)
THEOREM EnvelopesResolve == EnvelopeSpec => []EnvelopeWhole
<1>1. EnvelopeInv => EnvelopeWhole
  BY DEF EnvelopeInv
<1> QED BY <1>1, EnvelopeStarts, EnvelopeSteps, PTL DEF EnvelopeSpec

-----------------------------------------------------------------------------
(* Journals.  A journal lies under the storage key of its own key; keys of    *)
(* one tenant whose parts are free of the separator have different ones.      *)

JournalKey == [tenant: Seq(STRING), workspace: Seq(STRING), intent: Seq(STRING)]

\* Whatever the keys are made of, and the separator.
Chars == STRING \union {":"}

JournalOK(j) ==
    /\ DOMAIN j = {"key", "entries"} /\ j.key \in JournalKeys
    /\ j.entries \in Seq([seq: Nat, at: Nat, of: JournalKeys])
    /\ \A i \in DOMAIN j.entries: j.entries[i].seq = i /\ j.entries[i].of = j.key

JournalInv ==
    /\ now \in Nat
    /\ \A s \in DOMAIN journals: JournalOK(journals[s]) /\ storage_key(journals[s].key) = s
    /\ ResumeSound

\* Where the parts of a key are in its storage key.
LEMMA KeyText ==
    ASSUME NEW q \in JournalKey
    PROVE  /\ Len(storage_key(q)) = Len(q.tenant) + Len(q.workspace) + Len(q.intent) + 2
           /\ \A i \in 1..Len(q.workspace): storage_key(q)[Len(q.tenant) + 1 + i] = q.workspace[i]
           /\ storage_key(q)[Len(q.tenant) + Len(q.workspace) + 2] = ":"
           /\ \A i \in 1..Len(q.intent):
                storage_key(q)[Len(q.tenant) + Len(q.workspace) + 2 + i] = q.intent[i]
<1>1. PICK t \in Seq(Chars), a \in Seq(Chars), c \in Seq(Chars):
        t = q.tenant /\ a = q.workspace /\ c = q.intent
  BY SeqMonotonic DEF JournalKey, Chars
<1>2. PICK s \in Seq(Chars): s = <<":">> /\ Len(s) = 1 /\ s[1] = ":"
  <2>1. <<":">> \in Seq(Chars) /\ Len(<<":">>) = 1 /\ <<":">>[1] = ":"
    BY DEF Chars
  <2> QED BY <2>1, Zenon
<1>3. PICK x \in Seq(Chars): x = t \o s
  <2>1. t \o s \in Seq(Chars)
    OBVIOUS
  <2> QED BY <2>1, Zenon
<1>4. PICK y \in Seq(Chars): y = x \o a
  <2>1. x \o a \in Seq(Chars)
    OBVIOUS
  <2> QED BY <2>1, Zenon
<1>5. PICK z \in Seq(Chars): z = y \o s
  <2>1. y \o s \in Seq(Chars)
    OBVIOUS
  <2> QED BY <2>1, Zenon
<1>6. storage_key(q) = z \o c
  BY <1>1, <1>2, <1>3, <1>4, <1>5 DEF storage_key
<1>7. Len(x) = Len(t) + 1
  BY <1>2, <1>3
<1>8. Len(y) = Len(x) + Len(a) /\ \A i \in 1..Len(a): y[Len(x) + i] = a[i]
  BY <1>4
<1>9. Len(y) = Len(t) + 1 + Len(a) /\ \A i \in 1..Len(a): y[Len(t) + 1 + i] = a[i]
  BY <1>7, <1>8
<1>10. /\ Len(z) = Len(y) + Len(s)
       /\ \A i \in 1..Len(y): z[i] = y[i]
       /\ \A i \in 1..Len(s): z[Len(y) + i] = s[i]
  BY <1>5
<1>11. /\ Len(storage_key(q)) = Len(z) + Len(c)
       /\ \A i \in 1..Len(z): storage_key(q)[i] = z[i]
       /\ \A i \in 1..Len(c): storage_key(q)[Len(z) + i] = c[i]
  BY <1>6
<1>12. Len(z) = Len(t) + Len(a) + 2 /\ z[Len(t) + Len(a) + 2] = ":"
  BY <1>2, <1>9, <1>10
<1>13. \A i \in 1..Len(a): z[Len(t) + 1 + i] = a[i]
  BY <1>9, <1>10
<1>14. /\ Len(storage_key(q)) = Len(t) + Len(a) + Len(c) + 2
       /\ storage_key(q)[Len(t) + Len(a) + 2] = ":"
       /\ \A i \in 1..Len(a): storage_key(q)[Len(t) + 1 + i] = a[i]
       /\ \A i \in 1..Len(c): storage_key(q)[Len(t) + Len(a) + 2 + i] = c[i]
  BY <1>11, <1>12, <1>13
<1> QED BY <1>1, <1>14

\* The tenant is compared on its own: the storage key tells the rest apart, for
\* the first separator after the tenant ends the workspace.
LEMMA PlainKeysApart ==
    ASSUME NEW j \in JournalKey, NEW k \in JournalKey, j.tenant = k.tenant,
           \A i \in DOMAIN j.workspace: j.workspace[i] # ":", \A i \in DOMAIN k.workspace: k.workspace[i] # ":",
           storage_key(j) = storage_key(k)
    PROVE  j = k
<1>1. /\ j.tenant \in Seq(STRING) /\ j.workspace \in Seq(STRING) /\ j.intent \in Seq(STRING)
      /\ k.workspace \in Seq(STRING) /\ k.intent \in Seq(STRING)
  BY DEF JournalKey
<1>2. PICK x, t, a, b, c, d:
        /\ x = storage_key(j) /\ t = j.tenant /\ a = j.workspace /\ b = k.workspace
        /\ c = j.intent /\ d = k.intent
  OBVIOUS
<1>3. /\ t \in Seq(STRING) /\ a \in Seq(STRING) /\ b \in Seq(STRING) /\ c \in Seq(STRING) /\ d \in Seq(STRING)
      /\ \A i \in 1..Len(a): a[i] # ":"
      /\ \A i \in 1..Len(b): b[i] # ":"
  BY <1>1, <1>2
<1>4. /\ Len(x) = Len(t) + Len(a) + Len(c) + 2 /\ x[Len(t) + Len(a) + 2] = ":"
      /\ \A i \in 1..Len(a): x[Len(t) + 1 + i] = a[i]
      /\ \A i \in 1..Len(c): x[Len(t) + Len(a) + 2 + i] = c[i]
  BY <1>2, KeyText
<1>5. /\ Len(x) = Len(t) + Len(b) + Len(d) + 2 /\ x[Len(t) + Len(b) + 2] = ":"
      /\ \A i \in 1..Len(b): x[Len(t) + 1 + i] = b[i]
      /\ \A i \in 1..Len(d): x[Len(t) + Len(b) + 2 + i] = d[i]
  <2>1. x = storage_key(k) /\ t = k.tenant
    BY <1>2
  <2> QED BY <1>2, <2>1, KeyText
<1>6. ~(Len(a) < Len(b)) /\ ~(Len(b) < Len(a))
  <2>1. ASSUME Len(a) < Len(b) PROVE FALSE
    <3>1. Len(a) + 1 \in 1..Len(b) /\ Len(t) + 1 + (Len(a) + 1) = Len(t) + Len(a) + 2
      BY <1>3, <2>1
    <3>2. x[Len(t) + 1 + (Len(a) + 1)] = b[Len(a) + 1] /\ b[Len(a) + 1] # ":"
      BY <1>3, <1>5, <3>1
    <3> QED BY <1>4, <3>1, <3>2
  <2>2. ASSUME Len(b) < Len(a) PROVE FALSE
    <3>1. Len(b) + 1 \in 1..Len(a) /\ Len(t) + 1 + (Len(b) + 1) = Len(t) + Len(b) + 2
      BY <1>3, <2>2
    <3> QED BY <1>3, <1>4, <1>5, <3>1
  <2> QED BY <2>1, <2>2
<1>7. Len(a) = Len(b) /\ Len(c) = Len(d)
  BY <1>3, <1>4, <1>5, <1>6
<1>8. (\A i \in 1..Len(a): a[i] = b[i]) /\ \A i \in 1..Len(c): c[i] = d[i]
  BY <1>4, <1>5, <1>7
<1>9. a = b /\ c = d
  BY <1>3, <1>7, <1>8, SeqEqual
<1>10. j.workspace = k.workspace /\ j.intent = k.intent
  BY <1>2, <1>9
<1> QED BY <1>10 DEF JournalKey

LEMMA ResumeOK ==
    ASSUME JournalInv, NEW k \in JournalKeys,
           resumed' = [asked |-> k, at |-> now, got |-> ctx_resume(journals, k, now)]
    PROVE  ResumeSound'
<1> DEFINE j == open(journals, k)
           got == ctx_resume(journals, k, now)
<1>1. SUFFICES ASSUME got.error = "none"
      PROVE  /\ got.key.tenant = k.tenant /\ got.entries # <<>>
             /\ now <= Last(got.entries).at + Horizon
             /\ \A i \in DOMAIN got.entries: got.entries[i].seq = i /\ got.entries[i].of = got.key
             /\ (\A q \in {k, got.key}: \A i \in DOMAIN q.workspace: q.workspace[i] # ":") => got.key = k
  <2>1. resumed'.got = got /\ resumed'.asked = k /\ resumed'.at = now
    OBVIOUS
  <2> HIDE DEF got
  <2> QED BY <2>1 DEF ResumeSound
<1>2. /\ j # NoTime /\ last_recorded_at(j) # NoTime
      /\ check_horizon(last_recorded_at(j), now) = "WithinHorizon"
      /\ got.key = j.key /\ got.entries = j.entries
  BY <1>1 DEF ctx_resume
<1>3. /\ storage_key(k) \in DOMAIN journals /\ j = journals[storage_key(k)]
      /\ j.key.tenant = k.tenant
  BY <1>2 DEF open
<1>4. JournalOK(j) /\ storage_key(j.key) = storage_key(k)
  BY <1>3 DEF JournalInv
<1> HIDE DEF j, got
<1>5. j.entries # <<>> /\ last_recorded_at(j) = Last(j.entries).at
  BY <1>2 DEF last_recorded_at
<1>6. Last(j.entries).at \in Nat /\ now \in Nat /\ Horizon \in Nat
  <2>1. j.entries \in Seq([seq: Nat, at: Nat, of: JournalKeys])
    BY <1>4 DEF JournalOK
  <2>2. Len(j.entries) \in 1..Len(j.entries)
    BY <1>5, <2>1, EmptySeq
  <2>3. j.entries[Len(j.entries)] \in [seq: Nat, at: Nat, of: JournalKeys]
    BY <2>1, <2>2, ElementOfSeq
  <2> QED BY <2>3, JournalAssumption DEF JournalInv, Last
<1>7. now <= Last(j.entries).at + Horizon
  BY <1>2, <1>5, <1>6 DEF check_horizon
<1>8. j.key \in JournalKey /\ k \in JournalKey
  BY <1>4, JournalAssumption DEF JournalOK, JournalKey
<1>9. (\A q \in {k, j.key}: \A i \in DOMAIN q.workspace: q.workspace[i] # ":") => j.key = k
  BY <1>3, <1>4, <1>8, PlainKeysApart
<1> QED BY <1>2, <1>3, <1>4, <1>5, <1>7, <1>9 DEF JournalOK

LEMMA PutOK ==
    ASSUME JournalInv, NEW j, JournalOK(j), journals' = put(journals, j), UNCHANGED <<now, resumed>>
    PROVE  JournalInv'
<1>1. ASSUME NEW s \in DOMAIN journals' PROVE JournalOK(journals'[s]) /\ storage_key(journals'[s].key) = s
  BY <1>1 DEF JournalInv, put
<1> QED BY <1>1 DEF JournalInv, ResumeSound, JournalOK

LEMMA JournalSteps == JournalInv /\ [Process \/ JournalNext]_<<viewVars, journalVars>> => JournalInv'
<1> SUFFICES ASSUME JournalInv, [Process \/ JournalNext]_<<viewVars, journalVars>> PROVE JournalInv'
  OBVIOUS
<1>1. CASE UNCHANGED journalVars
  BY <1>1 DEF JournalInv, journalVars, ResumeSound, JournalOK
<1>2. CASE NewJournal
  <2>1. PICK k \in JournalKeys : journals' = put(journals, [key |-> k, entries |-> <<>>])
    BY <1>2 DEF NewJournal
  <2>2. JournalOK([key |-> k, entries |-> <<>>])
    BY DEF JournalOK
  <2> QED BY <1>2, <2>1, <2>2, PutOK DEF NewJournal
<1>3. CASE AppendEntry
  <2>1. PICK k \in JournalKeys, at \in now..(now + 1) :
          LET j == open(journals, k)
          IN  /\ j # NoTime /\ j.key = k /\ Len(j.entries) < 2
              /\ journals' = put(journals, [j EXCEPT !.entries =
                               Append(@, [seq |-> Len(j.entries) + 1, at |-> at, of |-> k])])
    BY <1>3 DEF AppendEntry
  <2> DEFINE j == open(journals, k)
             e == [seq |-> Len(j.entries) + 1, at |-> at, of |-> k]
             new == [j EXCEPT !.entries = Append(@, e)]
  <2>2. JournalOK(j) /\ j.key = k /\ journals' = put(journals, new)
    BY <2>1 DEF JournalInv, open
  <2>3. at \in Nat
    BY DEF JournalInv
  <2>4. JournalOK(new)
    <3> HIDE DEF j
    <3>1. j.entries \in Seq([seq: Nat, at: Nat, of: JournalKeys]) /\ e \in [seq: Nat, at: Nat, of: JournalKeys]
      BY <2>2, <2>3 DEF JournalOK
    <3>2. DOMAIN new = {"key", "entries"} /\ new.key = k /\ new.entries = Append(j.entries, e)
      BY <2>2 DEF JournalOK
    <3>3. new.entries \in Seq([seq: Nat, at: Nat, of: JournalKeys])
      BY <3>1, <3>2
    <3>4. ASSUME NEW i \in DOMAIN new.entries PROVE new.entries[i].seq = i /\ new.entries[i].of = k
      <4>1. i \in 1..Len(j.entries) + 1
        BY <3>1, <3>2
      <4>2. CASE i = Len(j.entries) + 1
        BY <3>1, <3>2, <4>2
      <4>3. CASE i \in 1..Len(j.entries)
        <5>1. new.entries[i] = j.entries[i] /\ i \in DOMAIN j.entries
          BY <3>1, <3>2, <4>3
        <5> QED BY <2>2, <5>1 DEF JournalOK
      <4> QED BY <3>1, <4>1, <4>2, <4>3
    <3> QED BY <3>2, <3>3, <3>4 DEF JournalOK
  <2> QED BY <1>3, <2>2, <2>4, PutOK DEF AppendEntry
<1>4. CASE Tick
  <2>1. now' \in Nat /\ UNCHANGED <<journals, resumed>>
    BY <1>4 DEF Tick, JournalInv
  <2> QED BY <2>1 DEF JournalInv, ResumeSound, JournalOK
<1>5. CASE Resume
  <2>1. PICK k \in JournalKeys : resumed' = [asked |-> k, at |-> now, got |-> ctx_resume(journals, k, now)]
    BY <1>5 DEF Resume
  <2> QED BY <1>5, <2>1, ResumeOK DEF Resume, JournalInv, JournalOK
<1> QED BY <1>1, <1>2, <1>3, <1>4, <1>5 DEF Process, JournalNext, journalVars

LEMMA JournalStarts == ViewInit => JournalInv
BY DEF ViewInit, JournalInv, ResumeSound

(* For any keys, horizon and clocks: a resume hands back a journal of the     *)
(* asking tenant that is not older than the horizon, with its entries         *)
(* numbered in order, and, unless a part of a key holds the separator, the    *)
(* one of the workspace and intent asked for (journal/persist.rs,             *)
(* journal/resume.rs).                                                        *)
THEOREM ResumesSound == ViewSpec => []ResumeSound
<1>1. JournalInv => ResumeSound
  BY DEF JournalInv
<1> QED BY <1>1, JournalStarts, JournalSteps, PTL DEF ViewSpec

-----------------------------------------------------------------------------
\* Every set of naturals that is not empty has a least member: induction.
LEMMA Least ==
  ASSUME NEW T \in SUBSET Nat, T # {}
  PROVE  \E x \in T : \A y \in T : x <= y
<1>1. PICK x \in T : \A y \in T : <<y, x>> \notin OpToRel(<, Nat)
  BY NatLessThanWellFounded, WFMin
<1>2. \A y \in T : ~(y < x)
  BY <1>1 DEF OpToRel
<1> QED BY <1>2

-----------------------------------------------------------------------------
(* The cold tier.  The hash of a record commits to its clear form, so two  *)
(* records with the same hash differ at most in whether they are redacted. *)

\* A set of naturals up to n that is not empty has a greatest member.
LEMMA Greatest ==
  ASSUME NEW n \in Nat, NEW T \in SUBSET (0..n), T # {}
  PROVE  \E x \in T : \A y \in T : y <= x
<1> DEFINE U == {n - x : x \in T}
<1>0. \A x \in T : x \in 0..n /\ n - x \in Nat
  OBVIOUS
<1>1. U \in SUBSET Nat /\ U # {}
  BY <1>0
<1>2. PICK u \in U : \A y \in U : u <= y
  <2> HIDE DEF U
  <2> QED BY <1>1, Least
<1>3. PICK x \in T : u = n - x
  BY <1>2
<1>4. ASSUME NEW y \in T PROVE y <= x
  <2>1. n - y \in U
    OBVIOUS
  <2>2. n - x <= n - y
    BY <1>2, <1>3, <2>1
  <2> QED BY <1>0, <2>2
<1> QED BY <1>4

\* A log of records, whatever they hold.
IsLog(l) == Len(l) \in Nat /\ l \in Seq({l[i] : i \in 1..Len(l)})

Clear == <<"human">>
Pseudonym == <<"model">>

\* A record as append made it, redacted or not.
Genuine(r) ==
  /\ r = [seq |-> r.seq, prev |-> r.prev, this |-> r.this, kind |-> r.kind,
          chain |-> r.chain, payload |-> r.payload]
  /\ r.this = <<r.prev, r.kind, Clear, r.payload, r.seq>>
  /\ r.chain \in {Clear, Pseudonym}

IsMarker(r) == r.kind = "provenance.redaction" /\ r.payload.redacts # <<>>

\* What the marker of a redaction of r commits to.
CommitmentOf(r) == [seq |-> r.seq, original |-> r.this,
               redacted |-> <<r.prev, r.kind, Pseudonym, r.payload, r.seq>>]

Shape(l) ==
  /\ IsLog(l)
  /\ \A i \in 1..Len(l) : /\ Genuine(l[i]) /\ l[i].seq = i - 1
                          /\ l[i].prev = IF i = 1 THEN Genesis ELSE l[i - 1].this
  /\ \A m \in 1..Len(l) : IsMarker(l[m]) =>
       \E i \in 1..(m - 1) : l[m].payload.redacts = <<CommitmentOf(l[i])>>

\* The records with a marker.
Redacted(l, s) == \E m \in 1..Len(l) : IsMarker(l[m]) /\ l[m].payload.redacts[1].seq = s

\* What the verifier comes to: a record is redacted if and only if it has a
\* marker.
Faithful(l) == \A i \in 1..Len(l) : l[i].chain = Pseudonym <=> Redacted(l, i - 1)

LEMMA OneHash ==
  ASSUME NEW r, NEW q, Genuine(r), Genuine(q), r.this = q.this
  PROVE  /\ r.seq = q.seq /\ r.prev = q.prev /\ r.kind = q.kind /\ r.payload = q.payload
         /\ CommitmentOf(r) = CommitmentOf(q)
         /\ r.chain = q.chain => r = q
<1>1. <<r.prev, r.kind, Clear, r.payload, r.seq>> = <<q.prev, q.kind, Clear, q.payload, q.seq>>
  BY DEF Genuine
<1>2. r.seq = q.seq /\ r.prev = q.prev /\ r.kind = q.kind /\ r.payload = q.payload
  BY <1>1
<1>3. CommitmentOf(r) = CommitmentOf(q)
  BY <1>2 DEF CommitmentOf
<1>4. ASSUME r.chain = q.chain PROVE r = q
  BY <1>2, <1>4 DEF Genuine
<1> QED BY <1>2, <1>3, <1>4

LEMMA ChainsApart == Clear # Pseudonym
BY DEF Clear, Pseudonym

\* The last marker of a record holds its commitment, like any other.
LEMMA RedactionsMean ==
  ASSUME NEW l, Shape(l)
  PROVE  /\ \A s : s \in DOMAIN collect_redactions(l) <=> s \in 0..(Len(l) - 1) /\ Redacted(l, s)
         /\ \A i \in 1..Len(l) : Redacted(l, i - 1) => collect_redactions(l)[i - 1] = CommitmentOf(l[i])
<1> DEFINE M(s) == {m \in 1..Len(l) : /\ l[m].kind = "provenance.redaction"
                                      /\ l[m].payload.redacts # <<>>
                                      /\ l[m].payload.redacts[1].seq = s}
           V(s) == LET newest == CHOOSE i \in M(s) : \A j \in M(s) : j <= i IN l[newest].payload.redacts[1]
<1>1. collect_redactions(l) = [s \in {s \in 0..(Len(l) - 1) : M(s) # {}} |-> V(s)]
  BY DEF collect_redactions
<1>2. \A s : M(s) # {} <=> Redacted(l, s)
  BY DEF Redacted, IsMarker
<1>3. ASSUME NEW i \in 1..Len(l), Redacted(l, i - 1) PROVE V(i - 1) = CommitmentOf(l[i])
  <2>0. Len(l) \in Nat /\ M(i - 1) # {}
    BY <1>2, <1>3 DEF Shape, IsLog
  <2>1. M(i - 1) \in SUBSET (0..Len(l))
    BY <2>0
  <2> HIDE DEF M
  <2>2. \E x \in M(i - 1) : \A y \in M(i - 1) : y <= x
    BY <2>0, <2>1, Greatest
  <2> DEFINE newest == CHOOSE x \in M(i - 1) : \A y \in M(i - 1) : y <= x
  <2>3. newest \in M(i - 1)
    BY <2>2
  <2>4. V(i - 1) = l[newest].payload.redacts[1]
    OBVIOUS
  <2> HIDE DEF newest, V
  <2>5. /\ newest \in 1..Len(l) /\ IsMarker(l[newest]) /\ l[newest].payload.redacts[1].seq = i - 1
    BY <2>3 DEF M, IsMarker
  <2>6. PICK k \in 1..(newest - 1) : l[newest].payload.redacts = <<CommitmentOf(l[k])>>
    BY <2>5 DEF Shape
  <2>7. l[newest].payload.redacts[1] = CommitmentOf(l[k]) /\ CommitmentOf(l[k]).seq = l[k].seq
    BY <2>6 DEF CommitmentOf
  <2>8. k \in 1..Len(l) /\ l[k].seq = k - 1
    BY <2>0, <2>5, <2>6 DEF Shape
  <2>9. k = i
    BY <2>5, <2>7, <2>8
  <2> QED BY <2>4, <2>7, <2>9
<1>4. Len(l) \in Nat
  BY DEF Shape, IsLog
<1> HIDE DEF M, V
<1>5. DOMAIN collect_redactions(l) = {s \in 0..(Len(l) - 1) : Redacted(l, s)}
  BY <1>1, <1>2
<1>6. ASSUME NEW i \in 1..Len(l), Redacted(l, i - 1)
      PROVE  collect_redactions(l)[i - 1] = CommitmentOf(l[i])
  <2>1. i - 1 \in {s \in 0..(Len(l) - 1) : M(s) # {}}
    BY <1>2, <1>4, <1>6
  <2>2. collect_redactions(l)[i - 1] = V(i - 1)
    BY <1>1, <2>1
  <2> QED BY <1>3, <1>6, <2>2
<1> QED BY <1>5, <1>6

\* A log of genuine records verifies exactly when it is faithful to its markers.
LEMMA VerifyMeans ==
  ASSUME NEW l, Shape(l)
  PROVE  verify_chain(l) <=> Faithful(l)
<1> DEFINE R == collect_redactions(l)
<1>1. Len(l) \in Nat
  BY DEF Shape, IsLog
<1>2. ASSUME NEW i \in 1..Len(l) PROVE ContentOK(l[i], R) <=> (l[i].chain = Pseudonym <=> Redacted(l, i - 1))
  <2>1. /\ l[i].seq = i - 1 /\ l[i].this = <<l[i].prev, l[i].kind, Clear, l[i].payload, l[i].seq>>
        /\ l[i].chain \in {Clear, Pseudonym}
    BY DEF Shape, Genuine
  <2>2. recompute(l[i]) = <<l[i].prev, l[i].kind, l[i].chain, l[i].payload, l[i].seq>>
    BY DEF recompute, compute_this_hash
  <2>3. CASE Redacted(l, i - 1)
    <3>1. i - 1 \in DOMAIN R /\ R[i - 1] = CommitmentOf(l[i])
      BY <1>1, <2>3, RedactionsMean
    <3>2. R[i - 1].original = l[i].this
          /\ R[i - 1].redacted = <<l[i].prev, l[i].kind, Pseudonym, l[i].payload, l[i].seq>>
      BY <3>1 DEF CommitmentOf
    <3> HIDE DEF R
    <3> QED BY <2>1, <2>2, <2>3, <3>1, <3>2 DEF ContentOK
  <2>4. CASE ~Redacted(l, i - 1)
    <3>1. i - 1 \notin DOMAIN R
      BY <2>4, RedactionsMean
    <3> HIDE DEF R
    <3> QED BY <2>1, <2>2, <2>4, <3>1, ChainsApart DEF ContentOK
  <2> QED BY <2>3, <2>4
<1> HIDE DEF R
<1>3. verify_chain(l) <=> \A i \in 1..Len(l) : ContentOK(l[i], R)
  BY DEF verify_chain, Shape, R
<1> QED BY <1>2, <1>3 DEF Faithful

\* q holds the first records of l, each of them redacted or not.
CopyOf(q, l) ==
  /\ IsLog(q) /\ Len(q) <= Len(l)
  /\ \A i \in 1..Len(q) : Genuine(q[i]) /\ q[i].this = l[i].this

\* A copy of a log has its kinds, payloads and hashes.
LEMMA CopyShape ==
  ASSUME NEW l, NEW q, Shape(l), CopyOf(q, l)
  PROVE  /\ Shape(q)
         /\ \A i \in 1..Len(q) : q[i].kind = l[i].kind /\ q[i].payload = l[i].payload
         /\ \A s : Redacted(q, s) <=> \E m \in 1..Len(q) : IsMarker(l[m]) /\ l[m].payload.redacts[1].seq = s
<1>1. Len(q) \in Nat /\ Len(l) \in Nat /\ Len(q) <= Len(l) /\ IsLog(q)
  BY DEF CopyOf, Shape, IsLog
<1>2. \A i \in 1..Len(q) : i \in 1..Len(l) /\ Genuine(q[i]) /\ Genuine(l[i]) /\ q[i].this = l[i].this
  BY <1>1 DEF CopyOf, Shape
<1>3. \A i \in 1..Len(q) : /\ q[i].seq = l[i].seq /\ q[i].prev = l[i].prev /\ q[i].kind = l[i].kind
                           /\ q[i].payload = l[i].payload /\ CommitmentOf(q[i]) = CommitmentOf(l[i])
  BY <1>2, OneHash
<1>4. ASSUME NEW i \in 1..Len(q)
      PROVE  /\ Genuine(q[i]) /\ q[i].seq = i - 1
             /\ q[i].prev = IF i = 1 THEN Genesis ELSE q[i - 1].this
  <2>1. l[i].seq = i - 1 /\ l[i].prev = IF i = 1 THEN Genesis ELSE l[i - 1].this
    BY <1>2 DEF Shape
  <2>2. i # 1 => i - 1 \in 1..Len(q)
    BY <1>1
  <2> QED BY <1>2, <1>3, <2>1, <2>2
<1>5. \A m \in 1..Len(q) : IsMarker(q[m]) <=> IsMarker(l[m])
  BY <1>3 DEF IsMarker
<1>6. ASSUME NEW m \in 1..Len(q), IsMarker(q[m])
      PROVE  \E i \in 1..(m - 1) : q[m].payload.redacts = <<CommitmentOf(q[i])>>
  <2>1. PICK i \in 1..(m - 1) : l[m].payload.redacts = <<CommitmentOf(l[i])>>
    BY <1>2, <1>5, <1>6 DEF Shape
  <2>2. i \in 1..Len(q)
    BY <1>1, <2>1
  <2> QED BY <1>3, <2>1, <2>2
<1>7. Shape(q)
  BY <1>1, <1>4, <1>6 DEF Shape
<1>8. \A s : Redacted(q, s) <=> \E m \in 1..Len(q) : IsMarker(l[m]) /\ l[m].payload.redacts[1].seq = s
  BY <1>3, <1>5 DEF Redacted
<1> QED BY <1>3, <1>7, <1>8

\* Every cold range starts with the first record and holds a copy.
Ranges(l, c) ==
  \A r \in c : /\ r.start = 0 /\ r.end \in 1..Len(l)
               /\ \A i \in 1..r.end : Genuine(r.records[i]) /\ r.records[i].this = l[i].this

\* What is left of the hot store is a run of the log.
LEMMA TailMeans ==
  ASSUME NEW l, Shape(l), NEW tail \in HotTails(l)
  PROVE  \E k \in 1..(Len(l) + 1) :
           /\ Len(tail) = Len(l) - k + 1 /\ DOMAIN tail = 1..(Len(l) - k + 1)
           /\ \A j \in DOMAIN tail : k + j - 1 \in 1..Len(l) /\ tail[j] = l[k + j - 1] /\ tail[j].seq = k + j - 2
           /\ tail = <<>> <=> k = Len(l) + 1
<1>1. PICK k \in 1..(Len(l) + 1) : tail = SubSeq(l, k, Len(l))
  BY DEF HotTails
<1> DEFINE S == {l[i] : i \in 1..Len(l)}
<1>2. l \in Seq(S) /\ Len(l) \in Nat
  BY DEF Shape, IsLog
<1> HIDE DEF S
<1>3. Len(tail) = Len(l) - k + 1 /\ DOMAIN tail = 1..(Len(l) - k + 1)
  BY <1>1, <1>2
<1>4. \A j \in DOMAIN tail : k + j - 1 \in 1..Len(l) /\ tail[j] = l[k + j - 1]
  BY <1>1, <1>2, <1>3
<1>5. \A j \in DOMAIN tail : tail[j].seq = k + j - 2
  <2> TAKE j \in DOMAIN tail
  <2>1. l[k + j - 1].seq = (k + j - 1) - 1 /\ j \in Int
    BY <1>3, <1>4 DEF Shape
  <2> QED BY <1>4, <2>1
<1>6. tail = <<>> <=> k = Len(l) + 1
  <2>1. tail \in Seq(S)
    BY <1>1, <1>2
  <2>2. tail = <<>> <=> Len(tail) = 0
    BY <2>1
  <2> QED BY <1>2, <1>3, <2>2
<1> QED BY <1>3, <1>4, <1>5, <1>6

LEMMA BySeqMeans ==
  ASSUME NEW l, Shape(l), NEW tail \in HotTails(l), NEW s, HasSeq(tail, s)
  PROVE  s + 1 \in 1..Len(l) /\ BySeq(tail, s) = l[s + 1] /\ tail # <<>>
<1>1. PICK k \in 1..(Len(l) + 1) :
           /\ Len(tail) = Len(l) - k + 1 /\ DOMAIN tail = 1..(Len(l) - k + 1)
           /\ \A j \in DOMAIN tail : k + j - 1 \in 1..Len(l) /\ tail[j] = l[k + j - 1] /\ tail[j].seq = k + j - 2
           /\ tail = <<>> <=> k = Len(l) + 1
  BY TailMeans
<1>2. Len(l) \in Nat
  BY DEF Shape, IsLog
<1> DEFINE i == CHOOSE i \in DOMAIN tail : tail[i].seq = s
<1>3. i \in DOMAIN tail /\ tail[i].seq = s
  BY DEF HasSeq
<1>4. BySeq(tail, s) = tail[i]
  BY DEF BySeq
<1> HIDE DEF i
<1>5. k + i - 2 = s /\ tail[i] = l[k + i - 1] /\ k + i - 1 \in 1..Len(l)
  BY <1>1, <1>3
<1>6. i \in 1..(Len(l) - k + 1)
  BY <1>1, <1>3
<1>7. k + i - 1 = s + 1
  BY <1>5, <1>6
<1> QED BY <1>1, <1>2, <1>4, <1>5, <1>6, <1>7

\* The whole log is a tail, and all its numbers are there.
LEMMA WholeTail ==
  ASSUME NEW l, Shape(l)
  PROVE  l \in HotTails(l) /\ \A s \in 0..(Len(l) - 1) : HasSeq(l, s)
<1>1. Len(l) \in Nat /\ l \in Seq({l[i] : i \in 1..Len(l)}) /\ DOMAIN l = 1..Len(l)
  BY DEF Shape, IsLog
<1>2. SubSeq(l, 1, Len(l)) = l
  BY <1>1
<1>3. l \in HotTails(l)
  BY <1>1, <1>2 DEF HotTails
<1>4. \A s \in 0..(Len(l) - 1) : s + 1 \in DOMAIN l /\ l[s + 1].seq = s
  BY <1>1 DEF Shape
<1> QED BY <1>3, <1>4 DEF HasSeq

\* The span of a recovery ends with the last record that any source holds.
LEMMA SpanMeans ==
  ASSUME NEW l, Shape(l), NEW c, Ranges(l, c), NEW tail \in HotTails(l)
  PROVE  /\ max_seq(c, tail) \in 0..Len(l)
         /\ tail # <<>> => max_seq(c, tail) = Len(l)
         /\ tail = <<>> => \A s \in 0..(max_seq(c, tail) - 1) : Holding(c, s) # {}
         /\ \A r \in c : r.end <= max_seq(c, tail)
<1>1. PICK k \in 1..(Len(l) + 1) :
           /\ Len(tail) = Len(l) - k + 1 /\ DOMAIN tail = 1..(Len(l) - k + 1)
           /\ \A j \in DOMAIN tail : k + j - 1 \in 1..Len(l) /\ tail[j] = l[k + j - 1] /\ tail[j].seq = k + j - 2
           /\ tail = <<>> <=> k = Len(l) + 1
  BY TailMeans
<1>2. Len(l) \in Nat
  BY DEF Shape, IsLog
<1> DEFINE E == {r.end : r \in c} \union {tail[i].seq + 1 : i \in DOMAIN tail} \union {0}
<1>3. \A r \in c : r.end \in 1..Len(l)
  BY DEF Ranges
<1>4. \A i \in DOMAIN tail : tail[i].seq + 1 \in 1..Len(l)
  BY <1>1, <1>2
<1>5. \A x \in E : x \in 0..Len(l)
  BY <1>2, <1>3, <1>4
<1>6. E \in SUBSET (0..Len(l)) /\ E # {}
  BY <1>5
<1>7. max_seq(c, tail) = CHOOSE e \in E : \A o \in E : o <= e
  BY DEF max_seq
<1>8. max_seq(c, tail) \in E /\ \A o \in E : o <= max_seq(c, tail)
  <2> HIDE DEF E
  <2>1. \E x \in E : \A y \in E : y <= x
    BY <1>2, <1>6, Greatest
  <2> QED BY <1>7, <2>1
<1>9. max_seq(c, tail) \in 0..Len(l)
  BY <1>5, <1>8
<1>10. ASSUME tail # <<>> PROVE max_seq(c, tail) = Len(l)
  <2>1. Len(l) - k + 1 \in DOMAIN tail
    BY <1>1, <1>2, <1>10
  <2>2. tail[Len(l) - k + 1].seq + 1 = Len(l)
    BY <1>1, <1>2, <2>1
  <2>3. Len(l) \in E
    BY <2>1, <2>2
  <2> HIDE DEF E
  <2> QED BY <1>2, <1>8, <1>9, <2>3
<1>11. ASSUME tail = <<>>, NEW s \in 0..(max_seq(c, tail) - 1) PROVE Holding(c, s) # {}
  <2>1. DOMAIN tail = {}
    BY <1>1, <1>2, <1>11
  <2>2. PICK r \in c : r.end = max_seq(c, tail)
    BY <1>8, <1>9, <1>11, <2>1
  <2>3. r.start = 0 /\ s \in 0..(r.end - 1)
    BY <2>2, <1>11 DEF Ranges
  <2>4. r \in Holding(c, s)
    BY <2>3 DEF Holding
  <2> QED BY <2>4
<1>12. \A r \in c : r.end <= max_seq(c, tail)
  BY <1>8
<1> QED BY <1>9, <1>10, <1>11, <1>12

\* What the cold tier gives for a position is a copy of the record there.
LEMMA ListedMeans ==
  ASSUME NEW l, Shape(l), NEW c, Ranges(l, c), NEW s \in Nat, Holding(c, s) # {}
  PROVE  s + 1 \in 1..Len(l) /\ Genuine(Listed(c, s)) /\ Listed(c, s).this = l[s + 1].this
<1> DEFINE H == Holding(c, s)
           After(a, b) == a.start > b.start \/ (a.start = b.start /\ a.end >= b.end)
           newest == CHOOSE r \in H : \A o \in H : After(r, o)
           T == {r.end : r \in H}
<1>1. \A r \in H : r \in c /\ r.start = 0 /\ r.end \in 1..Len(l) /\ s \in 0..(r.end - 1)
  BY DEF Holding, Ranges
<1>2. Len(l) \in Nat
  BY DEF Shape, IsLog
<1>3. T \in SUBSET (0..Len(l)) /\ T # {}
  BY <1>1, <1>2
<1>4. \E x \in T : \A y \in T : y <= x
  <2> HIDE DEF T
  <2> QED BY <1>2, <1>3, Greatest
<1>5. PICK r \in H : \A o \in H : o.end <= r.end
  BY <1>4
<1>6. \A o \in H : After(r, o)
  BY <1>1, <1>5
<1>7. newest \in H
  <2> HIDE DEF H, After
  <2> QED BY <1>5, <1>6
<1>8. Listed(c, s) = newest.records[s - newest.start + 1]
  BY DEF Listed
<1> HIDE DEF newest, H
<1>9. newest \in c /\ newest.start = 0 /\ newest.end \in 1..Len(l) /\ s \in 0..(newest.end - 1)
  BY <1>1, <1>7
<1>10. s - 0 + 1 = s + 1 /\ s + 1 \in 1..newest.end /\ s + 1 \in 1..Len(l)
  BY <1>2, <1>9
<1>11. Listed(c, s) = newest.records[s + 1]
  BY <1>8, <1>9, <1>10
<1> QED BY <1>9, <1>10, <1>11 DEF Ranges

\* Where a record comes from, and what it then is.
LEMMA SourceMeans ==
  ASSUME NEW l, Shape(l), NEW c, Ranges(l, c), NEW tail \in HotTails(l), NEW mirror \in {NoMirror, l},
         NEW s \in 0..(max_seq(c, tail) - 1)
  PROVE  /\ s + 1 \in 1..Len(l)
         /\ SourceOf(c, mirror, tail, s) # "nowhere"
              <=> Holding(c, s) # {} \/ HasSeq(tail, s) \/ mirror # NoMirror
         /\ Holding(c, s) # {} => RecordAt(c, mirror, tail, s) = Listed(c, s)
         /\ Holding(c, s) = {} /\ SourceOf(c, mirror, tail, s) # "nowhere" =>
              RecordAt(c, mirror, tail, s) = l[s + 1] /\ max_seq(c, tail) = Len(l)
         /\ SourceOf(c, mirror, tail, s) # "nowhere" =>
              Genuine(RecordAt(c, mirror, tail, s)) /\ RecordAt(c, mirror, tail, s).this = l[s + 1].this
<1>1. max_seq(c, tail) \in 0..Len(l) /\ Len(l) \in Nat
  BY SpanMeans DEF Shape, IsLog
<1>2. s \in Nat /\ s \in 0..(Len(l) - 1) /\ s + 1 \in 1..Len(l)
  BY <1>1
<1>3. HasSeq(mirror, s) <=> mirror # NoMirror
  <2>1. CASE mirror = NoMirror
    BY <2>1 DEF NoMirror, HasSeq
  <2>2. CASE mirror # NoMirror
    <3>1. mirror = l
      BY <2>2
    <3>2. HasSeq(l, s)
      BY <1>2, WholeTail
    <3> QED BY <2>2, <3>1, <3>2
  <2> QED BY <2>1, <2>2
<1>4. SourceOf(c, mirror, tail, s) # "nowhere" <=> Holding(c, s) # {} \/ HasSeq(tail, s) \/ mirror # NoMirror
  BY <1>3 DEF SourceOf
<1>5. Holding(c, s) # {} => RecordAt(c, mirror, tail, s) = Listed(c, s)
  BY DEF RecordAt, SourceOf
<1>6. ASSUME Holding(c, s) = {}, SourceOf(c, mirror, tail, s) # "nowhere"
      PROVE  RecordAt(c, mirror, tail, s) = l[s + 1] /\ max_seq(c, tail) = Len(l)
  <2>1. max_seq(c, tail) = Len(l)
    BY <1>6, SpanMeans
  <2>2. CASE HasSeq(tail, s)
    <3>1. RecordAt(c, mirror, tail, s) = BySeq(tail, s)
      BY <1>6, <2>2 DEF RecordAt, SourceOf
    <3> QED BY <2>1, <2>2, <3>1, BySeqMeans
  <2>3. CASE ~HasSeq(tail, s)
    <3>1. mirror = l /\ HasSeq(l, s)
      BY <1>3, <1>4, <1>6, <2>3
    <3>2. RecordAt(c, mirror, tail, s) = BySeq(l, s)
      BY <1>6, <2>3, <3>1 DEF RecordAt, SourceOf
    <3>3. BySeq(l, s) = l[s + 1]
      BY <3>1, WholeTail, BySeqMeans
    <3> QED BY <2>1, <3>2, <3>3
  <2> QED BY <2>2, <2>3
<1>7. ASSUME SourceOf(c, mirror, tail, s) # "nowhere"
      PROVE  Genuine(RecordAt(c, mirror, tail, s)) /\ RecordAt(c, mirror, tail, s).this = l[s + 1].this
  <2>1. CASE Holding(c, s) # {}
    BY <1>2, <1>5, <2>1, ListedMeans
  <2>2. CASE Holding(c, s) = {}
    BY <1>2, <1>6, <1>7, <2>2 DEF Shape
  <2> QED BY <2>1, <2>2
<1> QED BY <1>2, <1>4, <1>5, <1>6, <1>7

\* The sequence recovery puts together.
Assembled(c, mirror, tail) == [i \in 1..max_seq(c, tail) |-> RecordAt(c, mirror, tail, i - 1)]

Complete(c, mirror, tail) == \A s \in 0..(max_seq(c, tail) - 1) : SourceOf(c, mirror, tail, s) # "nowhere"

\* What a recovery answers, by what the sources give.
LEMMA RecoverCases ==
  ASSUME NEW c, NEW mirror, NEW tail
  PROVE  LET got == recover_with_sources(c, mirror, tail)
             q == Assembled(c, mirror, tail)
         IN  /\ got.ok <=> Complete(c, mirror, tail) /\ verify_chain(q) /\ replay_unchecked(q) # None
             /\ got.ok => got.records = q
             /\ got.ok => got.why = "none"
             /\ got.why = "IncompleteChain" <=> ~Complete(c, mirror, tail)
             /\ got.why = "Tamper" <=> Complete(c, mirror, tail) /\ ~verify_chain(q)
             /\ got.why = "Replay" => Complete(c, mirror, tail) /\ replay_unchecked(q) = None
<1> DEFINE got == recover_with_sources(c, mirror, tail)
           q == Assembled(c, mirror, tail)
           src == IF \E s \in 0..(max_seq(c, tail) - 1) : SourceOf(c, mirror, tail, s) = "mirror"
                  THEN "ColdTierWithMirror" ELSE "ColdTier"
<1>1. got = IF ~Complete(c, mirror, tail) THEN RecoveryError("IncompleteChain")
            ELSE IF ~verify_chain(q) THEN RecoveryError("Tamper")
            ELSE IF replay_unchecked(q) = None THEN RecoveryError("Replay")
            ELSE [ok |-> TRUE, why |-> "none", records |-> q, source |-> src]
  BY DEF recover_with_sources, Complete, Assembled
<1> HIDE DEF got, q, src
<1>2. \A w : RecoveryError(w).ok = FALSE /\ RecoveryError(w).why = w
  BY DEF RecoveryError
<1>3. CASE ~Complete(c, mirror, tail)
  <2>1. ~got.ok /\ got.why = "IncompleteChain"
    BY <1>1, <1>2, <1>3
  <2> QED BY <1>3, <2>1 DEF got, q
<1>4. CASE Complete(c, mirror, tail) /\ ~verify_chain(q)
  <2>1. ~got.ok /\ got.why = "Tamper"
    BY <1>1, <1>2, <1>4
  <2> QED BY <1>4, <2>1 DEF got, q
<1>5. CASE Complete(c, mirror, tail) /\ verify_chain(q) /\ replay_unchecked(q) = None
  <2>1. ~got.ok /\ got.why = "Replay"
    BY <1>1, <1>2, <1>5
  <2> QED BY <1>5, <2>1 DEF got, q
<1>6. CASE Complete(c, mirror, tail) /\ verify_chain(q) /\ replay_unchecked(q) # None
  <2>1. got.ok /\ got.why = "none" /\ got.records = q
    BY <1>1, <1>6
  <2> QED BY <1>6, <2>1 DEF got, q
<1> QED BY <1>3, <1>4, <1>5, <1>6

\* Whatever sources are left, what is assembled is a copy of the log's beginning.
LEMMA AssembledCopy ==
  ASSUME NEW l, Shape(l), NEW c, Ranges(l, c), NEW tail \in HotTails(l), NEW mirror \in {NoMirror, l},
         Complete(c, mirror, tail)
  PROVE  /\ Len(Assembled(c, mirror, tail)) = max_seq(c, tail)
         /\ CopyOf(Assembled(c, mirror, tail), l)
         /\ Ranges(Assembled(c, mirror, tail), c)
<1> DEFINE q == Assembled(c, mirror, tail)
           n == max_seq(c, tail)
<1>1. n \in 0..Len(l) /\ Len(l) \in Nat
  BY SpanMeans DEF Shape, IsLog
<1>2. Len(q) = n /\ \A i \in 1..n : q[i] = RecordAt(c, mirror, tail, i - 1)
  BY <1>1 DEF Assembled
<1>3. q \in Seq({q[i] : i \in 1..n})
  BY <1>1 DEF Assembled
<1>4. ASSUME NEW i \in 1..n PROVE Genuine(q[i]) /\ q[i].this = l[i].this
  <2>1. i - 1 \in 0..(n - 1) /\ (i - 1) + 1 = i
    BY <1>1
  <2>2. SourceOf(c, mirror, tail, i - 1) # "nowhere"
    BY <2>1 DEF Complete
  <2>3. Genuine(RecordAt(c, mirror, tail, i - 1)) /\ RecordAt(c, mirror, tail, i - 1).this = l[(i - 1) + 1].this
    BY <2>1, <2>2, SourceMeans
  <2> QED BY <1>2, <2>1, <2>3
<1> HIDE DEF q
<1>5. CopyOf(q, l)
  BY <1>1, <1>2, <1>3, <1>4 DEF CopyOf, IsLog
<1>6. Ranges(q, c)
  <2> SUFFICES ASSUME NEW r \in c
               PROVE  /\ r.start = 0 /\ r.end \in 1..Len(q)
                      /\ \A i \in 1..r.end : Genuine(r.records[i]) /\ r.records[i].this = q[i].this
    BY DEF Ranges
  <2>1. /\ r.start = 0 /\ r.end \in 1..Len(l)
        /\ \A i \in 1..r.end : Genuine(r.records[i]) /\ r.records[i].this = l[i].this
    BY DEF Ranges
  <2>2. r.end <= n
    BY SpanMeans
  <2> QED BY <1>1, <1>2, <1>4, <2>1, <2>2
<1> QED BY <1>2, <1>5, <1>6 DEF q

\* The function replay_unchecked defines, up to record m.
IsReplay(f, l, m) ==
  f = [n \in 0..m |-> IF n = 0 THEN EmptyRefs
                      ELSE IF f[n - 1] = None THEN None
                      ELSE replay_record(f[n - 1], l[n])]

\* There is one: were there none for some length, there would be none for a
\* least length, and the one for the length before it extends.
LEMMA ReplayExists ==
  ASSUME NEW l, NEW m \in Nat
  PROVE  \E f : IsReplay(f, l, m)
<1> DEFINE Bad == {k \in Nat : ~\E f : IsReplay(f, l, k)}
<1> SUFFICES ASSUME Bad # {} PROVE FALSE
  OBVIOUS
<1> HIDE DEF Bad
<1>1. PICK k \in Bad : \A y \in Bad : k <= y
  BY Least DEF Bad
<1>2. k \in Nat /\ \A f : ~IsReplay(f, l, k)
  BY <1>1 DEF Bad
<1>3. k # 0
  <2> DEFINE g == [n \in 0..0 |-> EmptyRefs]
  <2>1. IsReplay(g, l, 0)
    BY DEF IsReplay
  <2> QED BY <1>2, <2>1
<1>4. k - 1 \in Nat /\ k - 1 \notin Bad
  BY <1>1, <1>2, <1>3
<1>5. PICK f : IsReplay(f, l, k - 1)
  BY <1>4 DEF Bad
<1> DEFINE Replayed(p, n) == IF p = None THEN None ELSE replay_record(p, l[n])
           g == [n \in 0..k |-> IF n = k THEN Replayed(f[k - 1], k) ELSE f[n]]
<1>6. \A n \in 0..(k - 1) : f[n] = IF n = 0 THEN EmptyRefs
                                   ELSE Replayed(f[n - 1], n)
  BY <1>5 DEF IsReplay
<1> HIDE DEF Replayed
<1>7. \A n \in 0..k : g[n] = IF n = 0 THEN EmptyRefs ELSE Replayed(g[n - 1], n)
  BY <1>2, <1>3, <1>6
<1>8. g = [n \in 0..k |-> IF n = 0 THEN EmptyRefs ELSE Replayed(g[n - 1], n)]
  BY <1>7
<1>9. IsReplay(g, l, k)
  BY <1>8 DEF IsReplay, Replayed
<1> QED BY <1>2, <1>9

\* So the recursive definition means what it says.
LEMMA ReplayUnfolds ==
  ASSUME NEW l, Len(l) \in Nat
  PROVE  \E f : IsReplay(f, l, Len(l)) /\ replay_unchecked(l) = f[Len(l)]
<1> DEFINE g == CHOOSE f : IsReplay(f, l, Len(l))
<1>1. IsReplay(g, l, Len(l))
  BY ReplayExists
<1>2. replay_unchecked(l) = g[Len(l)]
  BY DEF replay_unchecked, IsReplay
<1> QED BY <1>1, <1>2

\* Replay looks at kinds and payloads only, and what stops it on a copy of the
\* first records stops it on the log.
LEMMA ReplayCopies ==
  ASSUME NEW l, NEW q, Shape(l), CopyOf(q, l), replay_unchecked(q) = None
  PROVE  replay_unchecked(l) = None
<1>1. /\ Len(l) \in Nat /\ Len(q) \in Nat /\ Len(q) <= Len(l)
  BY DEF Shape, CopyOf, IsLog
<1>2. \A i \in 1..Len(q) : q[i].kind = l[i].kind /\ q[i].payload = l[i].payload
  BY CopyShape
<1>3. PICK f : IsReplay(f, l, Len(l)) /\ replay_unchecked(l) = f[Len(l)]
  BY <1>1, ReplayUnfolds
<1>4. PICK g : IsReplay(g, q, Len(q)) /\ replay_unchecked(q) = g[Len(q)]
  BY <1>1, ReplayUnfolds
<1>5. \A v : \A i \in 1..Len(q) : replay_record(v, q[i]) = replay_record(v, l[i])
  BY <1>2 DEF replay_record
<1> DEFINE Diff == {n \in 0..Len(q) : f[n] # g[n]}
<1>6. Diff = {}
  <2> SUFFICES ASSUME Diff # {} PROVE FALSE
    OBVIOUS
  <2>0. Diff \in SUBSET Nat
    BY <1>1
  <2> HIDE DEF Diff
  <2>1. PICK n \in Diff : \A y \in Diff : n <= y
    BY <2>0, Least
  <2>2. n \in 0..Len(q) /\ f[n] # g[n]
    BY <2>1 DEF Diff
  <2>3. n # 0
    BY <1>1, <1>3, <1>4, <2>2 DEF IsReplay
  <2>4. n - 1 \in 0..Len(q) /\ n - 1 \notin Diff /\ n \in 1..Len(q)
    BY <1>1, <2>1, <2>2, <2>3
  <2>5. f[n - 1] = g[n - 1]
    BY <2>4 DEF Diff
  <2>6. f[n] = IF f[n - 1] = None THEN None ELSE replay_record(f[n - 1], l[n])
    BY <1>1, <1>3, <2>4 DEF IsReplay
  <2>7. g[n] = IF g[n - 1] = None THEN None ELSE replay_record(g[n - 1], q[n])
    BY <1>1, <1>4, <2>4 DEF IsReplay
  <2> QED BY <1>5, <2>2, <2>4, <2>5, <2>6, <2>7
<1>7. f[Len(q)] = None
  BY <1>1, <1>4, <1>6
<1> DEFINE Alive == {n \in Len(q)..Len(l) : f[n] # None}
<1>8. Alive = {}
  <2> SUFFICES ASSUME Alive # {} PROVE FALSE
    OBVIOUS
  <2>0. Alive \in SUBSET Nat
    BY <1>1
  <2> HIDE DEF Alive
  <2>1. PICK n \in Alive : \A y \in Alive : n <= y
    BY <2>0, Least
  <2>2. n \in Len(q)..Len(l) /\ f[n] # None /\ n # Len(q)
    BY <1>7, <2>1 DEF Alive
  <2>3. n - 1 \in Len(q)..Len(l) /\ n - 1 \notin Alive /\ n \in 0..Len(l) /\ n # 0
    BY <1>1, <2>1, <2>2
  <2>4. f[n - 1] = None
    BY <2>3 DEF Alive
  <2> QED BY <1>1, <1>3, <2>2, <2>3, <2>4 DEF IsReplay
<1> QED BY <1>1, <1>3, <1>8

\* The first n records of a log.
LEMMA PrefixCopy ==
  ASSUME NEW l, Shape(l), NEW n \in 0..Len(l)
  PROVE  /\ Len(SubSeq(l, 1, n)) = n /\ CopyOf(SubSeq(l, 1, n), l)
         /\ \A i \in 1..n : SubSeq(l, 1, n)[i] = l[i]
<1> DEFINE S == {l[i] : i \in 1..Len(l)}
           p == SubSeq(l, 1, n)
<1>1. Len(l) \in Nat /\ l \in Seq(S)
  BY DEF Shape, IsLog
<1> HIDE DEF S
<1>2. Len(p) = n /\ p \in Seq(S) /\ \A i \in 1..n : p[i] = l[i]
  BY <1>1
<1> HIDE DEF p
<1>3. p \in Seq({p[i] : i \in 1..Len(p)})
  BY <1>1, <1>2
<1>4. \A i \in 1..n : i \in 1..Len(l) /\ Genuine(l[i])
  BY <1>1 DEF Shape
<1>5. CopyOf(p, l)
  BY <1>1, <1>2, <1>3, <1>4 DEF CopyOf, IsLog
<1> QED BY <1>2, <1>5 DEF p

\* A range lies across a redaction when one of its records is clear where a copy of
\* the log has a marker, or the reverse.
LEMMA SealedMeans ==
  ASSUME Shape(tlog), Ranges(tlog, tcold), NEW n \in 0..Len(tlog), NEW q, CopyOf(q, tlog), Len(q) = n
  PROVE  SealedAcross(SubSeq(tlog, 1, n)) <=>
           \E s \in 0..(n - 1) : /\ Holding(tcold, s) # {}
                                 /\ ~(Listed(tcold, s).chain = Pseudonym <=> Redacted(q, s))
<1> DEFINE p == SubSeq(tlog, 1, n)
<1>1. Len(p) = n /\ CopyOf(p, tlog) /\ \A i \in 1..n : p[i] = tlog[i]
  BY PrefixCopy
<1> HIDE DEF p
<1>2. Len(tlog) \in Nat /\ n \in Nat
  BY DEF Shape, IsLog
<1>3. Shape(p)
  BY <1>1, CopyShape
<1>4. \A s : Redacted(p, s) <=> Redacted(q, s)
  <2>1. \A s : Redacted(p, s) <=> \E m \in 1..n : IsMarker(tlog[m]) /\ tlog[m].payload.redacts[1].seq = s
    BY <1>1, CopyShape
  <2>2. \A s : Redacted(q, s) <=> \E m \in 1..n : IsMarker(tlog[m]) /\ tlog[m].payload.redacts[1].seq = s
    BY CopyShape
  <2> QED BY <2>1, <2>2
<1> DEFINE R == collect_redactions(p)
<1>5. ASSUME NEW s \in 0..(n - 1), Holding(tcold, s) # {}
      PROVE  recompute(Listed(tcold, s)) # (IF s \in DOMAIN R THEN R[s].redacted ELSE Listed(tcold, s).this)
               <=> ~(Listed(tcold, s).chain = Pseudonym <=> Redacted(q, s))
  <2> DEFINE r == Listed(tcold, s)
  <2>1. s \in Nat /\ s + 1 \in 1..n /\ (s + 1) - 1 = s
    BY <1>2
  <2>2. Genuine(r) /\ r.this = tlog[s + 1].this /\ Genuine(tlog[s + 1])
    BY <2>1, <1>5, ListedMeans DEF Shape
  <2>3. CommitmentOf(r) = CommitmentOf(tlog[s + 1])
    BY <2>2, OneHash
  <2> HIDE DEF r
  <2>4. recompute(r) = <<r.prev, r.kind, r.chain, r.payload, r.seq>>
    BY DEF recompute, compute_this_hash
  <2>5. CASE Redacted(q, s)
    <3>1. s \in DOMAIN R /\ R[s] = CommitmentOf(tlog[s + 1])
      BY <1>1, <1>3, <1>4, <1>5, <2>1, <2>5, RedactionsMean
    <3>2. R[s].redacted = <<r.prev, r.kind, Pseudonym, r.payload, r.seq>>
      BY <2>3, <3>1 DEF CommitmentOf
    <3> HIDE DEF R
    <3> QED BY <2>4, <2>5, <3>1, <3>2 DEF r
  <2>6. CASE ~Redacted(q, s)
    <3>1. s \notin DOMAIN R
      BY <1>3, <1>4, <2>6, RedactionsMean
    <3>2. r.this = <<r.prev, r.kind, Clear, r.payload, r.seq>> /\ r.chain \in {Clear, Pseudonym}
      BY <2>2 DEF Genuine, r
    <3> HIDE DEF R
    <3> QED BY <2>4, <2>6, <3>1, <3>2, ChainsApart DEF r
  <2> QED BY <2>5, <2>6
<1>6. SealedAcross(p) <=>
        \E s \in 0..(n - 1) : /\ Holding(tcold, s) # {}
                              /\ recompute(Listed(tcold, s)) #
                                   (IF s \in DOMAIN R THEN R[s].redacted ELSE Listed(tcold, s).this)
  BY <1>1 DEF SealedAcross
<1> HIDE DEF R
<1> QED BY <1>5, <1>6 DEF p

ColdInv == Shape(tlog) /\ verify_chain(tlog) /\ Ranges(tlog, tcold)

\* A range on the wrong side of a redaction is all that can break the chain.
LEMMA TamperMeans ==
  ASSUME ColdInv, NEW tail \in HotTails(tlog), NEW mirror \in {NoMirror, tlog},
         Complete(tcold, mirror, tail)
  PROVE  ~verify_chain(Assembled(tcold, mirror, tail))
           <=> SealedAcross(SubSeq(tlog, 1, max_seq(tcold, tail)))
<1> DEFINE q == Assembled(tcold, mirror, tail)
           n == max_seq(tcold, tail)
<1>1. Shape(tlog) /\ Ranges(tlog, tcold) /\ verify_chain(tlog)
  BY DEF ColdInv
<1>2. n \in 0..Len(tlog) /\ Len(tlog) \in Nat
  BY <1>1, SpanMeans DEF Shape, IsLog
<1>3. Len(q) = n /\ CopyOf(q, tlog)
  BY <1>1, AssembledCopy
<1>4. \A i \in 1..n : q[i] = RecordAt(tcold, mirror, tail, i - 1)
  BY DEF Assembled
<1> HIDE DEF q
<1>5. Shape(q) /\ (verify_chain(q) <=> Faithful(q))
  BY <1>1, <1>3, CopyShape, VerifyMeans
<1>6. ASSUME NEW i \in 1..n
      PROVE  /\ Holding(tcold, i - 1) # {} => q[i] = Listed(tcold, i - 1)
             /\ Holding(tcold, i - 1) = {} => (q[i].chain = Pseudonym <=> Redacted(q, i - 1))
  <2>1. i - 1 \in 0..(n - 1) /\ (i - 1) + 1 = i
    BY <1>2
  <2>2. SourceOf(tcold, mirror, tail, i - 1) # "nowhere"
    BY <2>1 DEF Complete
  <2>3. Holding(tcold, i - 1) # {} => q[i] = Listed(tcold, i - 1)
    BY <1>1, <1>4, <2>1, SourceMeans
  <2>4. ASSUME Holding(tcold, i - 1) = {} PROVE q[i].chain = Pseudonym <=> Redacted(q, i - 1)
    <3>1. q[i] = tlog[i] /\ n = Len(tlog)
      BY <1>1, <1>4, <2>1, <2>2, <2>4, SourceMeans
    <3>2. Faithful(tlog)
      BY <1>1, VerifyMeans
    <3>3. Redacted(q, i - 1)
            <=> \E m \in 1..Len(q) : IsMarker(tlog[m]) /\ tlog[m].payload.redacts[1].seq = i - 1
      BY <1>1, <1>3, CopyShape
    <3>4. Redacted(q, i - 1) <=> Redacted(tlog, i - 1)
      BY <1>3, <3>1, <3>3 DEF Redacted
    <3> QED BY <1>2, <3>1, <3>2, <3>4 DEF Faithful
  <2> QED BY <2>3, <2>4
<1>7. Faithful(q) <=> \A i \in 1..n : Holding(tcold, i - 1) # {} =>
                          (Listed(tcold, i - 1).chain = Pseudonym <=> Redacted(q, i - 1))
  BY <1>3, <1>6 DEF Faithful
<1>8. SealedAcross(SubSeq(tlog, 1, n)) <=>
        \E s \in 0..(n - 1) : /\ Holding(tcold, s) # {}
                              /\ ~(Listed(tcold, s).chain = Pseudonym <=> Redacted(q, s))
  BY <1>1, <1>2, <1>3, SealedMeans
<1> DEFINE Off(s) == Holding(tcold, s) # {} /\ ~(Listed(tcold, s).chain = Pseudonym <=> Redacted(q, s))
<1>9. (\E s \in 0..(n - 1) : Off(s)) <=> (\E i \in 1..n : Off(i - 1))
  <2> HIDE DEF Off
  <2>1. ASSUME NEW s \in 0..(n - 1), Off(s) PROVE \E i \in 1..n : Off(i - 1)
    <3>1. s + 1 \in 1..n /\ (s + 1) - 1 = s
      BY <1>2
    <3> QED BY <2>1, <3>1
  <2>2. ASSUME NEW i \in 1..n, Off(i - 1) PROVE \E s \in 0..(n - 1) : Off(s)
    <3>1. i - 1 \in 0..(n - 1)
      BY <1>2
    <3> QED BY <2>2, <3>1
  <2> QED BY <2>1, <2>2
<1> QED BY <1>5, <1>7, <1>8, <1>9 DEF q

\* From the cold tier and the tail, a recovery gives the log or refuses.
LEMMA ColdExact == ColdInv => RecoveryExact
<1> SUFFICES ASSUME ColdInv, NEW tail \in HotTails(tlog), NEW mirror \in {NoMirror, tlog}
             PROVE  LET got  == recover_with_sources(tcold, mirror, tail)
                        span == max_seq(tcold, tail)
                        goal == SubSeq(tlog, 1, span)
                        Held(s) == Holding(tcold, s) # {} \/ HasSeq(tail, s) \/ mirror # NoMirror
                    IN  /\ span <= Len(tlog)
                        /\ got.ok => /\ Len(got.records) = span
                                     /\ \A i \in 1..span :
                                          /\ got.records[i].this = goal[i].this
                                          /\ got.records[i] # goal[i] =>
                                               \E m \in (span + 1)..Len(tlog) :
                                                 /\ tlog[m].kind = "provenance.redaction"
                                                 /\ tlog[m].payload.redacts[1].seq = i - 1
                        /\ got.why = "IncompleteChain" <=> \E s \in 0..(span - 1) : ~Held(s)
                        /\ got.why = "Replay" => Poisoned(tlog)
                        /\ got.why = "Tamper" <=> SealedAcross(goal) /\ \A s \in 0..(span - 1) : Held(s)
  BY DEF RecoveryExact
<1> DEFINE got == recover_with_sources(tcold, mirror, tail)
           n == max_seq(tcold, tail)
           goal == SubSeq(tlog, 1, n)
           q == Assembled(tcold, mirror, tail)
           Held(s) == Holding(tcold, s) # {} \/ HasSeq(tail, s) \/ mirror # NoMirror
<1>1. Shape(tlog) /\ Ranges(tlog, tcold) /\ verify_chain(tlog)
  BY DEF ColdInv
<1>2. n \in 0..Len(tlog) /\ Len(tlog) \in Nat
  BY <1>1, SpanMeans DEF Shape, IsLog
<1>3. Complete(tcold, mirror, tail) <=> \A s \in 0..(n - 1) : Held(s)
  BY <1>1, SourceMeans DEF Complete
<1>4. Complete(tcold, mirror, tail) =>
        /\ Len(q) = n /\ CopyOf(q, tlog) /\ Shape(q)
        /\ verify_chain(q) <=> ~SealedAcross(goal)
  BY <1>1, AssembledCopy, CopyShape, TamperMeans
<1>5. /\ got.ok <=> Complete(tcold, mirror, tail) /\ verify_chain(q) /\ replay_unchecked(q) # None
      /\ got.ok => got.records = q
      /\ got.why = "IncompleteChain" <=> ~Complete(tcold, mirror, tail)
      /\ got.why = "Tamper" <=> Complete(tcold, mirror, tail) /\ ~verify_chain(q)
      /\ got.why = "Replay" => Complete(tcold, mirror, tail) /\ replay_unchecked(q) = None
  BY RecoverCases
<1>6. \A i \in 1..n : goal[i] = tlog[i]
  BY <1>1, <1>2, PrefixCopy
<1> HIDE DEF got, n, goal, q
<1>7. ASSUME got.ok, NEW i \in 1..n
      PROVE  /\ q[i].this = tlog[i].this
             /\ q[i] # tlog[i] => \E m \in (n + 1)..Len(tlog) :
                                    /\ tlog[m].kind = "provenance.redaction"
                                    /\ tlog[m].payload.redacts[1].seq = i - 1
  <2>1. /\ Len(q) = n /\ CopyOf(q, tlog) /\ Shape(q) /\ verify_chain(q)
    BY <1>4, <1>5, <1>7
  <2>2. i \in 1..Len(q) /\ i \in 1..Len(tlog)
    BY <1>2, <2>1
  <2>3. Genuine(q[i]) /\ Genuine(tlog[i]) /\ q[i].this = tlog[i].this
    BY <1>1, <2>1, <2>2 DEF CopyOf, Shape
  <2>4. Faithful(q) /\ Faithful(tlog)
    BY <1>1, <2>1, VerifyMeans
  <2>5. ASSUME q[i] # tlog[i]
        PROVE  \E m \in (n + 1)..Len(tlog) : /\ tlog[m].kind = "provenance.redaction"
                                             /\ tlog[m].payload.redacts[1].seq = i - 1
    <3>1. q[i].chain # tlog[i].chain
      BY <2>3, <2>5, OneHash
    <3>2. ~(Redacted(q, i - 1) <=> Redacted(tlog, i - 1))
      BY <2>2, <2>3, <2>4, <3>1 DEF Faithful, Genuine
    <3>3. Redacted(q, i - 1) <=> \E m \in 1..n : IsMarker(tlog[m]) /\ tlog[m].payload.redacts[1].seq = i - 1
      BY <1>1, <2>1, CopyShape
    <3>4. \E m \in 1..Len(tlog) : m \notin 1..n /\ IsMarker(tlog[m]) /\ tlog[m].payload.redacts[1].seq = i - 1
      BY <1>2, <3>2, <3>3 DEF Redacted
    <3>5. PICK m \in 1..Len(tlog) : m \notin 1..n /\ IsMarker(tlog[m]) /\ tlog[m].payload.redacts[1].seq = i - 1
      BY <3>4
    <3>6. m \in (n + 1)..Len(tlog)
      BY <1>2, <3>5
    <3> QED BY <3>5, <3>6 DEF IsMarker
  <2> QED BY <2>3, <2>5
<1>8. n <= Len(tlog)
  BY <1>2
<1>9. got.ok => Len(got.records) = n /\ got.records = q
  BY <1>4, <1>5
<1>10. ASSUME got.why = "Replay" PROVE Poisoned(tlog)
  BY <1>1, <1>4, <1>5, <1>10, ReplayCopies DEF Poisoned
<1>11. got.why = "Tamper" <=> SealedAcross(goal) /\ \A s \in 0..(n - 1) : Held(s)
  <2> HIDE DEF Held
  <2> QED BY <1>3, <1>4, <1>5
<1>12. got.why = "IncompleteChain" <=> \E s \in 0..(n - 1) : ~Held(s)
  <2> HIDE DEF Held
  <2> QED BY <1>3, <1>5
<1>13. got.ok => /\ Len(got.records) = n
                 /\ \A i \in 1..n :
                      /\ got.records[i].this = goal[i].this
                      /\ got.records[i] # goal[i] =>
                           \E m \in (n + 1)..Len(tlog) :
                             /\ tlog[m].kind = "provenance.redaction"
                             /\ tlog[m].payload.redacts[1].seq = i - 1
  BY <1>6, <1>7, <1>9
<1> QED BY <1>8, <1>10, <1>11, <1>12, <1>13 DEF got, n, goal

-----------------------------------------------------------------------------
(* Compaction, and the steps. *)

\* What the cold store holds after a compaction.
LEMMA CompactMeans ==
  ASSUME NEW l, Shape(l), verify_chain(l), NEW c, Ranges(l, c), NEW b \in Nat
  PROVE  /\ Ranges(l, compact(l, b, c))
         /\ Len(l) > b => \E r \in compact(l, b, c) : r.start = 0 /\ r.end = Len(l) - b
<1>1. Len(l) \in Nat
  BY DEF Shape, IsLog
<1>2. CASE Len(l) <= b
  BY <1>1, <1>2 DEF compact
<1>3. CASE Len(l) > b
  <2> DEFINE n == Len(l) - b
             p == SubSeq(l, 1, n)
             R == ColdRange(p)
  <2>1. n \in 1..Len(l) /\ n \in 0..Len(l) /\ 1 \in 1..n
    BY <1>1, <1>3
  <2>2. Len(p) = n /\ CopyOf(p, l) /\ \A i \in 1..n : p[i] = l[i]
    BY <2>1, PrefixCopy
  <2> HIDE DEF p
  <2>3. p # <<>> /\ p[1] = l[1] /\ p[Len(p)] = l[n]
    <3>1. Len(p) # 0
      BY <2>1, <2>2
    <3>2. p # <<>>
      BY <3>1
    <3> QED BY <2>1, <2>2, <3>2
  <2>4. l[1].seq = 0 /\ l[n].seq = n - 1
    BY <1>1, <2>1 DEF Shape
  <2>5. R.start = 0 /\ R.end = n /\ R.records = p
    BY <2>1, <2>3, <2>4 DEF ColdRange
  <2>6. compact(l, b, c) = {r \in c : key(r) # key(R)} \union {R}
    BY <1>1, <1>3 DEF compact, cold_put, p
  <2> HIDE DEF R
  <2>7. \A i \in 1..n : Genuine(p[i]) /\ p[i].this = l[i].this
    BY <2>2 DEF CopyOf
  <2>8. ASSUME NEW r \in compact(l, b, c)
        PROVE  /\ r.start = 0 /\ r.end \in 1..Len(l)
               /\ \A i \in 1..r.end : Genuine(r.records[i]) /\ r.records[i].this = l[i].this
    <3>1. CASE r = R
      BY <2>1, <2>5, <2>7, <3>1
    <3>2. CASE r # R
      BY <2>6, <2>8, <3>2 DEF Ranges
    <3> QED BY <3>1, <3>2
  <2>9. Ranges(l, compact(l, b, c))
    BY <2>8 DEF Ranges
  <2> QED BY <2>5, <2>6, <2>9
<1> QED BY <1>1, <1>2, <1>3

\* Compacting loses nothing: the sealed range and the hot remainder are the log.
LEMMA WholeAfterCompaction == ColdInv => CompactedWhole
<1> SUFFICES ASSUME ColdInv, NEW b \in HotBounds
             PROVE  LET report == CompactionReport(tlog, b)
                        got    == recover_with_sources(compact(tlog, b, tcold), NoMirror, report.hot)
                    IN  /\ report.sealed_count + Len(report.hot) = Len(tlog)
                        /\ got.why # "IncompleteChain"
                        /\ got.ok => Len(got.records) = Len(tlog)
  BY DEF CompactedWhole
<1> DEFINE hot == HotRemainder(tlog, b)
           c == compact(tlog, b, tcold)
           got == recover_with_sources(c, NoMirror, hot)
           n == max_seq(c, hot)
<1>1. Shape(tlog) /\ Ranges(tlog, tcold) /\ verify_chain(tlog) /\ b \in Nat /\ Len(tlog) \in Nat
  BY ColdAssumption DEF ColdInv, Shape, IsLog
<1>2. /\ Ranges(tlog, c)
      /\ Len(tlog) > b => \E r \in c : r.start = 0 /\ r.end = Len(tlog) - b
  BY <1>1, CompactMeans
<1> HIDE DEF c
<1>3. /\ CompactionReport(tlog, b).hot = hot
      /\ CompactionReport(tlog, b).sealed_count = IF Len(tlog) <= b THEN 0 ELSE Len(tlog) - b
  BY DEF CompactionReport
<1>4. hot \in HotTails(tlog) /\ Len(hot) = (IF Len(tlog) <= b THEN Len(tlog) ELSE b)
  <2>1. CASE Len(tlog) <= b
    BY <1>1, <2>1, WholeTail DEF HotRemainder
  <2>2. CASE Len(tlog) > b
    <3>1. hot = SubSeq(tlog, Len(tlog) - b + 1, Len(tlog)) /\ Len(tlog) - b + 1 \in 1..(Len(tlog) + 1)
      BY <1>1, <2>2 DEF HotRemainder
    <3>2. hot \in HotTails(tlog)
      BY <3>1 DEF HotTails
    <3>3. Len(hot) = b
      BY <1>1, <3>1, <2>2 DEF Shape, IsLog
    <3> QED BY <1>1, <2>2, <3>2, <3>3
  <2> QED BY <1>1, <2>1, <2>2
<1>5. ASSUME NEW s \in 0..(Len(tlog) - 1) PROVE Holding(c, s) # {} \/ HasSeq(hot, s)
  <2>1. CASE Len(tlog) <= b
    BY <1>1, <2>1, WholeTail DEF HotRemainder
  <2>2. CASE Len(tlog) > b /\ s < Len(tlog) - b
    <3>1. PICK r \in c : r.start = 0 /\ r.end = Len(tlog) - b
      BY <1>2, <2>2
    <3>2. r \in Holding(c, s)
      BY <1>1, <2>2, <3>1 DEF Holding
    <3> QED BY <3>2
  <2>3. CASE Len(tlog) > b /\ s >= Len(tlog) - b
    <3> DEFINE j == s - (Len(tlog) - b) + 1
    <3>1. hot = SubSeq(tlog, Len(tlog) - b + 1, Len(tlog)) /\ j \in 1..b
      BY <1>1, <2>3 DEF HotRemainder
    <3> DEFINE S == {tlog[i] : i \in 1..Len(tlog)}
               k == Len(tlog) - b + 1
    <3>4. tlog \in Seq(S)
      BY <1>1 DEF Shape, IsLog
    <3>5. k \in 1..(Len(tlog) + 1) /\ hot = SubSeq(tlog, k, Len(tlog))
      BY <1>1, <2>3, <3>1
    <3>6. j \in 1..(Len(tlog) - k + 1) /\ k + j - 1 = s + 1
      BY <1>1, <2>3, <3>1
    <3> HIDE DEF S, k, j
    <3>7. DOMAIN hot = 1..(Len(tlog) - k + 1) /\ hot[j] = tlog[k + j - 1]
      BY <1>1, <3>4, <3>5, <3>6
    <3>2. j \in DOMAIN hot /\ hot[j] = tlog[s + 1]
      BY <3>6, <3>7
    <3>3. tlog[s + 1].seq = s
      BY <1>1 DEF Shape
    <3> QED BY <3>2, <3>3 DEF HasSeq
  <2> QED BY <1>1, <2>1, <2>2, <2>3
<1>6. n \in 0..Len(tlog)
  BY <1>1, <1>2, <1>4, SpanMeans
<1>7. n = Len(tlog)
  <2>1. CASE hot # <<>>
    BY <1>1, <1>2, <1>4, <2>1, SpanMeans
  <2>2. CASE hot = <<>>
    <3>1. Len(hot) = 0
      BY <2>2
    <3>2. CASE Len(tlog) <= b
      BY <1>1, <1>4, <1>6, <3>1, <3>2
    <3>3. CASE Len(tlog) > b
      <4>1. b = 0
        BY <1>1, <1>4, <3>1, <3>3
      <4>2. PICK r \in c : r.start = 0 /\ r.end = Len(tlog) - b
        BY <1>2, <3>3
      <4>3. r.end <= n
        BY <1>1, <1>2, <1>4, SpanMeans
      <4> QED BY <1>1, <1>6, <4>1, <4>2, <4>3
    <3> QED BY <1>1, <3>2, <3>3
  <2> QED BY <2>1, <2>2
<1>8. Complete(c, NoMirror, hot)
  BY <1>1, <1>2, <1>4, <1>5, <1>7, SourceMeans DEF Complete
<1>9. got.why # "IncompleteChain" /\ (got.ok => got.records = Assembled(c, NoMirror, hot))
  BY <1>8, RecoverCases
<1>10. Len(Assembled(c, NoMirror, hot)) = n
  BY <1>1, <1>2, <1>4, <1>8, AssembledCopy
<1>11. CompactionReport(tlog, b).sealed_count + Len(hot) = Len(tlog)
  BY <1>1, <1>3, <1>4
<1> QED BY <1>3, <1>7, <1>9, <1>10, <1>11 DEF c

\* An appended record is genuine, and the log before it stays.
LEMMA Appended ==
  ASSUME NEW l, Shape(l), NEW k, NEW p, NEW a, a = append(l, k, Clear, p),
         k = "provenance.redaction" /\ p.redacts # <<>> => \E i \in 1..Len(l) : p.redacts = <<CommitmentOf(l[i])>>
  PROVE  /\ Shape(a) /\ Len(a) = Len(l) + 1 /\ \A i \in 1..Len(l) : a[i] = l[i]
         /\ a[Len(l) + 1].chain = Clear /\ a[Len(l) + 1].kind = k /\ a[Len(l) + 1].payload = p
         /\ ~Redacted(a, Len(l))
<1> DEFINE e == NewRecord(l, k, Clear, p)
           S == {l[i] : i \in 1..Len(l)} \union {e}
           n == Len(l)
<1>1. n \in Nat /\ l \in Seq(S) /\ e \in S
  <2>1. Len(l) \in Nat /\ l \in Seq({l[i] : i \in 1..Len(l)})
    BY DEF Shape, IsLog
  <2> QED BY <2>1
<1> HIDE DEF S, e
<1>2. a = Append(l, e)
  BY DEF append, e
<1>3. a \in Seq(S) /\ Len(a) = n + 1 /\ a[n + 1] = e /\ \A i \in 1..n : a[i] = l[i]
  BY <1>1, <1>2
<1>4. IsLog(a)
  BY <1>1, <1>3 DEF IsLog
<1>5. head_hash(l) = IF n = 0 THEN Genesis ELSE l[n].this
  BY <1>1 DEF head_hash
<1>6. /\ e = [seq |-> n, prev |-> head_hash(l), this |-> <<head_hash(l), k, Clear, p, n>>,
              kind |-> k, chain |-> Clear, payload |-> p]
  BY DEF e, NewRecord, compute_this_hash
<1>7. /\ e.seq = n /\ e.prev = head_hash(l) /\ e.kind = k /\ e.chain = Clear /\ e.payload = p
      /\ e.this = <<head_hash(l), k, Clear, p, n>>
  BY <1>6
<1>8. Genuine(e)
  BY <1>6, <1>7 DEF Genuine
<1>9. ASSUME NEW i \in 1..Len(a)
      PROVE  Genuine(a[i]) /\ a[i].seq = i - 1 /\ a[i].prev = IF i = 1 THEN Genesis ELSE a[i - 1].this
  <2>1. CASE i = n + 1
    <3>1. a[i] = e /\ i - 1 = n /\ (n # 0 => a[i - 1] = l[n])
      BY <1>1, <1>3, <2>1
    <3> QED BY <1>1, <1>5, <1>7, <1>8, <2>1, <3>1
  <2>2. CASE i # n + 1
    <3>1. i \in 1..n /\ a[i] = l[i] /\ (i # 1 => i - 1 \in 1..n /\ a[i - 1] = l[i - 1])
      BY <1>1, <1>3, <2>2
    <3> QED BY <3>1 DEF Shape
  <2> QED BY <2>1, <2>2
<1>10. ASSUME NEW m \in 1..Len(a), IsMarker(a[m])
       PROVE  \E i \in 1..(m - 1) : i <= n /\ a[m].payload.redacts = <<CommitmentOf(a[i])>>
  <2>1. CASE m = n + 1
    <3>1. PICK i \in 1..n : p.redacts = <<CommitmentOf(l[i])>>
      BY <1>3, <1>7, <1>10, <2>1 DEF IsMarker
    <3> QED BY <1>1, <1>3, <1>7, <2>1, <3>1
  <2>2. CASE m # n + 1
    <3>1. m \in 1..n /\ a[m] = l[m]
      BY <1>1, <1>3, <2>2
    <3>2. PICK i \in 1..(m - 1) : l[m].payload.redacts = <<CommitmentOf(l[i])>>
      BY <1>10, <3>1 DEF Shape
    <3>3. i \in 1..n
      BY <1>1, <3>1, <3>2
    <3> QED BY <1>3, <3>1, <3>2, <3>3
  <2> QED BY <2>1, <2>2
<1>11. Shape(a)
  BY <1>4, <1>9, <1>10 DEF Shape
<1>12. ASSUME Redacted(a, n) PROVE FALSE
  <2>1. PICK m \in 1..Len(a) : IsMarker(a[m]) /\ a[m].payload.redacts[1].seq = n
    BY <1>12 DEF Redacted
  <2>2. PICK i \in 1..(m - 1) : i <= n /\ a[m].payload.redacts = <<CommitmentOf(a[i])>>
    BY <1>10, <2>1
  <2>3. a[m].payload.redacts[1].seq = a[i].seq
    BY <2>2 DEF CommitmentOf
  <2>4. i \in 1..Len(a) /\ a[i].seq = i - 1
    BY <1>1, <1>3, <1>9, <2>2
  <2> QED BY <1>1, <2>1, <2>2, <2>3, <2>4
<1> QED BY <1>3, <1>7, <1>11, <1>12

\* A cold range stays a copy when the log grows.
LEMMA RangesGrow ==
  ASSUME NEW l, NEW a, NEW c, Ranges(l, c), Len(l) \in Nat, Len(a) \in Nat, Len(l) <= Len(a),
         \A i \in 1..Len(l) : a[i].this = l[i].this
  PROVE  Ranges(a, c)
<1> SUFFICES ASSUME NEW r \in c
             PROVE  /\ r.start = 0 /\ r.end \in 1..Len(a)
                    /\ \A i \in 1..r.end : Genuine(r.records[i]) /\ r.records[i].this = a[i].this
  BY DEF Ranges
<1>1. /\ r.start = 0 /\ r.end \in 1..Len(l)
      /\ \A i \in 1..r.end : Genuine(r.records[i]) /\ r.records[i].this = l[i].this
  BY DEF Ranges
<1>2. \A i \in 1..r.end : i \in 1..Len(l)
  BY <1>1
<1> QED BY <1>1, <1>2

\* A record that is no marker.
LEMMA PlainAppended ==
  ASSUME ColdInv, NEW k, NEW p, tlog' = append(tlog, k, Clear, p), k # "provenance.redaction",
         UNCHANGED tcold
  PROVE  ColdInv'
<1>1. /\ Shape(tlog') /\ Len(tlog') = Len(tlog) + 1 /\ Len(tlog) \in Nat
      /\ \A i \in 1..Len(tlog) : tlog'[i] = tlog[i]
      /\ tlog'[Len(tlog) + 1].chain = Clear /\ tlog'[Len(tlog) + 1].kind = k
      /\ ~Redacted(tlog', Len(tlog))
  <2>1. Shape(tlog) /\ Len(tlog) \in Nat
    BY DEF ColdInv, Shape, IsLog
  <2> QED BY <2>1, Appended
<1>2. Faithful(tlog) /\ Ranges(tlog, tcold)
  BY VerifyMeans DEF ColdInv
<1>3. \A s : Redacted(tlog', s) <=> Redacted(tlog, s)
  <2>1. ~IsMarker(tlog'[Len(tlog) + 1])
    BY <1>1 DEF IsMarker
  <2>2. \A m \in 1..Len(tlog') : m \in 1..Len(tlog) \/ m = Len(tlog) + 1
    BY <1>1
  <2>3. \A m \in 1..Len(tlog) : m \in 1..Len(tlog') /\ tlog'[m] = tlog[m]
    BY <1>1
  <2> QED BY <2>1, <2>2, <2>3 DEF Redacted
<1>4. ASSUME NEW i \in 1..Len(tlog') PROVE tlog'[i].chain = Pseudonym <=> Redacted(tlog', i - 1)
  <2>1. CASE i = Len(tlog) + 1
    BY <1>1, <2>1, ChainsApart
  <2>2. CASE i # Len(tlog) + 1
    <3>1. i \in 1..Len(tlog)
      BY <1>1, <2>2
    <3> QED BY <1>1, <1>2, <1>3, <3>1 DEF Faithful
  <2> QED BY <2>1, <2>2
<1>5. verify_chain(tlog')
  BY <1>1, <1>4, VerifyMeans DEF Faithful
<1>6. Ranges(tlog', tcold)
  BY <1>1, <1>2, RangesGrow
<1> QED BY <1>1, <1>5, <1>6 DEF ColdInv

\* One more record, of kind k; the kinds of the others stay.
Follows(l, a, k) ==
  Len(a) = Len(l) + 1 /\ a[Len(l) + 1].kind = k /\ \A i \in 1..Len(l) : a[i].kind = l[i].kind

\* A redaction rewrites one record, whose hash still commits to the clear form, and
\* appends its marker.
LEMMA RedactStep == ColdInv /\ Redact => ColdInv' /\ Follows(tlog, tlog', "provenance.redaction")
<1> SUFFICES ASSUME ColdInv, Redact PROVE ColdInv' /\ Follows(tlog, tlog', "provenance.redaction")
  OBVIOUS
<1>1. Shape(tlog) /\ Ranges(tlog, tcold) /\ Faithful(tlog) /\ Len(tlog) \in Nat
  BY VerifyMeans DEF ColdInv, Shape, IsLog
<1>2. PICK s \in 0..(Len(tlog) - 1) :
        tlog' = append([tlog EXCEPT ![s + 1] = redact_record(tlog[s + 1], <<"model">>, tlog[s + 1].payload)],
                       "provenance.redaction", <<"human">>,
                       [NoPayload EXCEPT !.redacts =
                          <<RedactionCommitment(tlog[s + 1], <<"model">>, tlog[s + 1].payload)>>])
  BY DEF Redact
<1> DEFINE t == s + 1
           r == tlog[t]
           w == redact_record(r, <<"model">>, r.payload)
           l == [tlog EXCEPT ![t] = w]
           p == [NoPayload EXCEPT !.redacts = <<RedactionCommitment(r, <<"model">>, r.payload)>>]
<1>3. tlog' = append(l, "provenance.redaction", Clear, p)
  BY <1>2 DEF Clear
<1>4. t \in 1..Len(tlog) /\ t - 1 = s
  BY <1>1
<1>5. Genuine(r) /\ r.seq = t - 1
  BY <1>1, <1>4 DEF Shape
<1> HIDE DEF r
<1>6. w = [seq |-> r.seq, prev |-> r.prev, this |-> r.this, kind |-> r.kind, chain |-> Pseudonym, payload |-> r.payload]
  BY DEF redact_record, Pseudonym
<1>7. p.redacts = <<CommitmentOf(r)>>
  BY DEF NoPayload, RedactionCommitment, CommitmentOf, compute_this_hash, Pseudonym
<1> HIDE DEF w, p
<1>8. /\ w.seq = r.seq /\ w.prev = r.prev /\ w.this = r.this /\ w.kind = r.kind
      /\ w.chain = Pseudonym /\ w.payload = r.payload
  BY <1>6
<1>9. Genuine(w) /\ CommitmentOf(w) = CommitmentOf(r)
  BY <1>5, <1>6, <1>8 DEF Genuine, CommitmentOf
<1>10. Len(l) = Len(tlog) /\ \A i \in 1..Len(tlog) : l[i] = IF i = t THEN w ELSE tlog[i]
  <2>1. DOMAIN tlog = 1..Len(tlog) /\ Len(tlog) \in Nat
    BY <1>1 DEF Shape, IsLog
  <2>2. DOMAIN l = 1..Len(tlog) /\ \A i \in 1..Len(tlog) : l[i] = IF i = t THEN w ELSE tlog[i]
    BY <2>1
  <2>3. l = [i \in 1..Len(tlog) |-> l[i]]
    BY <2>2
  <2> HIDE DEF l
  <2>4. Len(l) = Len(tlog)
    BY <2>1, <2>2, <2>3
  <2> QED BY <2>2, <2>4
<1>11. IsLog(l)
  <2>1. DOMAIN tlog = 1..Len(tlog)
    BY <1>1 DEF Shape, IsLog
  <2>2. DOMAIN l = 1..Len(tlog) /\ l = [i \in 1..Len(tlog) |-> IF i = t THEN w ELSE tlog[i]]
    BY <2>1
  <2> HIDE DEF l
  <2>3. \A i \in 1..Len(tlog) : l[i] \in {l[j] : j \in 1..Len(l)}
    BY <1>10
  <2>4. l \in Seq({l[j] : j \in 1..Len(l)})
    BY <1>1, <1>10, <2>2, <2>3
  <2> QED BY <1>1, <1>10, <2>4 DEF IsLog
<1> HIDE DEF l
<1>12. CopyOf(l, tlog)
  <2>1. \A i \in 1..Len(tlog) : Genuine(l[i]) /\ l[i].this = tlog[i].this
    BY <1>1, <1>8, <1>9, <1>10 DEF Shape, r
  <2> QED BY <1>1, <1>10, <1>11, <2>1 DEF CopyOf
<1>13. Shape(l)
  BY <1>1, <1>12, CopyShape
<1>14. \A x : Redacted(l, x) <=> Redacted(tlog, x)
  <2>1. \A x : Redacted(l, x) <=> \E m \in 1..Len(l) : IsMarker(tlog[m]) /\ tlog[m].payload.redacts[1].seq = x
    BY <1>1, <1>12, CopyShape
  <2> QED BY <1>10, <2>1 DEF Redacted
<1>15. \E i \in 1..Len(l) : p.redacts = <<CommitmentOf(l[i])>>
  BY <1>4, <1>7, <1>9, <1>10
<1>16. /\ Shape(tlog') /\ Len(tlog') = Len(tlog) + 1
       /\ \A i \in 1..Len(tlog) : tlog'[i] = l[i]
       /\ tlog'[Len(tlog) + 1].chain = Clear /\ tlog'[Len(tlog) + 1].kind = "provenance.redaction"
       /\ tlog'[Len(tlog) + 1].payload = p /\ ~Redacted(tlog', Len(tlog))
  BY <1>3, <1>10, <1>13, <1>15, Appended
<1>17. \A x : Redacted(tlog', x) <=> Redacted(l, x) \/ x = s
  <2>1. IsMarker(tlog'[Len(tlog) + 1]) /\ tlog'[Len(tlog) + 1].payload.redacts[1].seq = s
    <3>1. p.redacts # <<>> /\ p.redacts[1].seq = r.seq
      BY <1>7 DEF CommitmentOf
    <3> QED BY <1>4, <1>5, <1>16, <3>1 DEF IsMarker
  <2>2. \A m \in 1..Len(tlog') : m \in 1..Len(tlog) \/ m = Len(tlog) + 1
    BY <1>1, <1>16
  <2>3. \A m \in 1..Len(tlog) : m \in 1..Len(tlog') /\ tlog'[m] = l[m]
    BY <1>1, <1>16
  <2>4. Len(tlog) + 1 \in 1..Len(tlog')
    BY <1>1, <1>16
  <2> QED BY <1>10, <2>1, <2>2, <2>3, <2>4 DEF Redacted
<1>18. ASSUME NEW i \in 1..Len(tlog') PROVE tlog'[i].chain = Pseudonym <=> Redacted(tlog', i - 1)
  <2>1. CASE i = Len(tlog) + 1
    BY <1>1, <1>16, <2>1, ChainsApart
  <2>2. CASE i = t
    BY <1>4, <1>8, <1>10, <1>16, <1>17, <2>2
  <2>3. CASE i # Len(tlog) + 1 /\ i # t
    <3>1. i \in 1..Len(tlog) /\ i - 1 # s /\ tlog'[i] = tlog[i]
      BY <1>1, <1>10, <1>16, <2>3
    <3> QED BY <1>1, <1>14, <1>17, <3>1 DEF Faithful
  <2> QED BY <2>1, <2>2, <2>3
<1>19. verify_chain(tlog')
  BY <1>16, <1>18, VerifyMeans DEF Faithful
<1>20. Ranges(tlog', tcold)
  <2>1. \A i \in 1..Len(tlog) : tlog'[i].this = tlog[i].this
    BY <1>10, <1>12, <1>16 DEF CopyOf
  <2> QED BY <1>1, <1>16, <2>1, RangesGrow
<1>21. tcold' = tcold
  BY DEF Redact
<1>22. \A i \in 1..Len(tlog) : tlog'[i].kind = tlog[i].kind
  <2>1. \A i \in 1..Len(l) : l[i].kind = tlog[i].kind
    BY <1>1, <1>12, CopyShape
  <2> QED BY <1>10, <1>16, <2>1
<1> QED BY <1>16, <1>19, <1>20, <1>21, <1>22 DEF ColdInv, Follows

\* Every step of the cold tier keeps its invariant.
LEMMA ColdStep == ColdInv /\ [ColdNext]_coldVars => ColdInv'
<1> SUFFICES ASSUME ColdInv, [ColdNext]_coldVars PROVE ColdInv'
  OBVIOUS
<1>1. CASE SubmitUpdate
  <2>1. PICK p : tlog' = append(tlog, "ref.update", Clear, p)
    BY <1>1 DEF SubmitUpdate, Clear
  <2> QED BY <1>1, <2>1, PlainAppended DEF SubmitUpdate
<1>2. CASE LandIntent
  <2>1. PICK p : tlog' = append(tlog, "intent.landed", Clear, p)
    BY <1>2 DEF LandIntent, Clear
  <2> QED BY <1>2, <2>1, PlainAppended DEF LandIntent
<1>3. CASE Redact
  BY <1>3, RedactStep
<1>4. CASE Compact
  <2>1. PICK b \in HotBounds : tcold' = compact(tlog, b, tcold)
    BY <1>4 DEF Compact
  <2>2. tlog' = tlog /\ b \in Nat
    BY <1>4, ColdAssumption DEF Compact
  <2> QED BY <2>1, <2>2, CompactMeans DEF ColdInv
<1>5. CASE LoseHot
  <2>1. PICK tail \in HotTails(tlog), mirror \in {NoMirror, tlog} :
          recover_with_sources(tcold, mirror, tail).ok /\ tlog' = recover_with_sources(tcold, mirror, tail).records
    BY <1>5 DEF LoseHot
  <2>2. /\ Complete(tcold, mirror, tail) /\ verify_chain(Assembled(tcold, mirror, tail))
        /\ tlog' = Assembled(tcold, mirror, tail)
    BY <2>1, RecoverCases
  <2>3. CopyOf(tlog', tlog) /\ Ranges(tlog', tcold)
    BY <2>2, AssembledCopy DEF ColdInv
  <2>4. Shape(tlog')
    BY <2>3, CopyShape DEF ColdInv
  <2>5. tcold' = tcold
    BY <1>5 DEF LoseHot
  <2> QED BY <2>2, <2>3, <2>4, <2>5 DEF ColdInv
<1>6. CASE UNCHANGED coldVars
  BY <1>6 DEF coldVars, ColdInv
<1> QED BY <1>1, <1>2, <1>3, <1>4, <1>5, <1>6 DEF ColdNext

LEMMA ColdStart == ColdInit => ColdInv
<1> SUFFICES ASSUME ColdInit PROVE ColdInv
  OBVIOUS
<1>1. tlog = <<>> /\ tcold = {} /\ Len(tlog) = 0
  BY DEF ColdInit
<1>2. IsLog(tlog)
  BY <1>1 DEF IsLog
<1>3. Shape(tlog)
  BY <1>1, <1>2 DEF Shape
<1>4. verify_chain(tlog)
  BY <1>1, <1>3, VerifyMeans DEF Faithful
<1> QED BY <1>1, <1>3, <1>4 DEF ColdInv, Ranges

-----------------------------------------------------------------------------
(* The two altitudes.                                                      *)

IsPicked(f, l, K, m) ==
  f = [n \in 0..m |-> IF n = 0 THEN <<>>
                      ELSE IF l[n].kind \in K THEN Append(f[n - 1], l[n])
                      ELSE f[n - 1]]

\* The function OfKinds defines exists.
LEMMA PickedExists ==
  ASSUME NEW l, NEW K, NEW m \in Nat
  PROVE  \E f : IsPicked(f, l, K, m)
<1> DEFINE Bad == {n \in Nat : ~\E f : IsPicked(f, l, K, n)}
<1>1. Bad = {}
  <2> SUFFICES ASSUME Bad # {} PROVE FALSE
    OBVIOUS
  <2>0. Bad \in SUBSET Nat
    OBVIOUS
  <2> HIDE DEF Bad
  <2>1. PICK n \in Bad : \A y \in Bad : n <= y
    BY <2>0, Least
  <2>2. n \in Nat /\ ~\E f : IsPicked(f, l, K, n)
    BY <2>1 DEF Bad
  <2>3. n # 0
    <3> SUFFICES ASSUME n = 0 PROVE FALSE
      OBVIOUS
    <3> DEFINE f == [k \in 0..0 |-> <<>>]
    <3>1. IsPicked(f, l, K, 0)
      BY DEF IsPicked
    <3> QED BY <2>2, <3>1
  <2>4. n - 1 \in Nat /\ n - 1 \notin Bad
    BY <2>1, <2>2, <2>3
  <2>5. PICK g : IsPicked(g, l, K, n - 1)
    BY <2>4 DEF Bad
  <2> DEFINE f == [k \in 0..n |-> IF k < n THEN g[k]
                                  ELSE IF l[n].kind \in K THEN Append(g[n - 1], l[n]) ELSE g[n - 1]]
  <2>6. \A k \in 0..(n - 1) : g[k] = IF k = 0 THEN <<>>
                                     ELSE IF l[k].kind \in K THEN Append(g[k - 1], l[k]) ELSE g[k - 1]
    BY <2>4, <2>5 DEF IsPicked
  <2>7. ASSUME NEW k \in 0..n
        PROVE  f[k] = IF k = 0 THEN <<>>
                      ELSE IF l[k].kind \in K THEN Append(f[k - 1], l[k]) ELSE f[k - 1]
    <3>1. CASE k < n
      <4>1. k \in 0..(n - 1) /\ (k # 0 => k - 1 \in 0..n /\ k - 1 < n)
        BY <2>2, <3>1
      <4> QED BY <2>6, <3>1, <4>1
    <3>2. CASE k = n
      <4>1. k - 1 \in 0..n /\ k - 1 < n /\ f[k - 1] = g[n - 1] /\ k # 0
        BY <2>2, <2>3, <3>2
      <4> QED BY <3>2, <4>1
    <3> QED BY <2>2, <3>1, <3>2
  <2>8. f = [k \in 0..n |-> IF k = 0 THEN <<>>
                            ELSE IF l[k].kind \in K THEN Append(f[k - 1], l[k]) ELSE f[k - 1]]
    BY <2>7
  <2>9. IsPicked(f, l, K, n)
    <3> HIDE DEF f
    <3> QED BY <2>8 DEF IsPicked
  <2> QED BY <2>2, <2>9
<1> QED BY <1>1

\* OfKinds is the last value of that function.
LEMMA PickedUnfolds ==
  ASSUME NEW l, NEW K, Len(l) \in Nat
  PROVE  \E f : IsPicked(f, l, K, Len(l)) /\ OfKinds(l, K) = f[Len(l)]
<1> DEFINE g == CHOOSE f : IsPicked(f, l, K, Len(l))
<1>1. IsPicked(g, l, K, Len(l))
  BY PickedExists
<1>2. OfKinds(l, K) = g[Len(l)]
  BY DEF OfKinds, IsPicked
<1> QED BY <1>1, <1>2

\* The first n steps of a selection are those of the first n records.
LEMMA PickedAgree ==
  ASSUME NEW l, NEW p, NEW K, NEW m \in Nat, NEW n \in 0..m, NEW f, NEW g,
         IsPicked(f, l, K, m), IsPicked(g, p, K, n), \A i \in 1..n : p[i] = l[i]
  PROVE  f[n] = g[n]
<1> DEFINE Diff == {k \in 0..n : f[k] # g[k]}
<1>1. Diff = {}
  <2> SUFFICES ASSUME Diff # {} PROVE FALSE
    OBVIOUS
  <2>0. Diff \in SUBSET Nat
    OBVIOUS
  <2> HIDE DEF Diff
  <2>1. PICK k \in Diff : \A y \in Diff : k <= y
    BY <2>0, Least
  <2>2. k \in 0..n /\ f[k] # g[k] /\ k \in 0..m
    BY <2>1 DEF Diff
  <2>3. k # 0
    BY <2>2 DEF IsPicked
  <2>4. k - 1 \in 0..n /\ k - 1 \in 0..m /\ k - 1 \notin Diff /\ k \in 1..n
    BY <2>1, <2>2, <2>3
  <2>5. f[k - 1] = g[k - 1]
    BY <2>4 DEF Diff
  <2>6. f[k] = IF l[k].kind \in K THEN Append(f[k - 1], l[k]) ELSE f[k - 1]
    BY <2>2, <2>3 DEF IsPicked
  <2>7. g[k] = IF p[k].kind \in K THEN Append(g[k - 1], p[k]) ELSE g[k - 1]
    BY <2>2, <2>3 DEF IsPicked
  <2> QED BY <2>2, <2>4, <2>5, <2>6, <2>7
<1> QED BY <1>1

\* Nothing is picked of an empty log.
LEMMA PickNone ==
  ASSUME NEW K
  PROVE  OfKinds(<<>>, K) = <<>>
<1>1. PICK f : IsPicked(f, <<>>, K, 0) /\ OfKinds(<<>>, K) = f[0]
  <2>1. Len(<<>>) = 0 /\ 0 \in Nat
    OBVIOUS
  <2> QED BY <2>1, PickedUnfolds
<1> QED BY <1>1 DEF IsPicked

\* One more record is picked or not, after those picked before.
LEMMA PickOneMore ==
  ASSUME NEW S, NEW q \in Seq(S), NEW r \in S, NEW K
  PROVE  OfKinds(Append(q, r), K) = IF r.kind \in K THEN Append(OfKinds(q, K), r) ELSE OfKinds(q, K)
<1> DEFINE a == Append(q, r)
           n == Len(q)
<1>1. Len(a) = n + 1 /\ n \in Nat /\ a[n + 1] = r /\ \A i \in 1..n : a[i] = q[i]
  OBVIOUS
<1> HIDE DEF a
<1>2. PICK f : IsPicked(f, a, K, n + 1) /\ OfKinds(a, K) = f[n + 1]
  BY <1>1, PickedUnfolds
<1>3. PICK g : IsPicked(g, q, K, n) /\ OfKinds(q, K) = g[n]
  BY <1>1, PickedUnfolds
<1>4. \A i \in 1..n : q[i] = a[i]
  BY <1>1
<1>5. f[n] = g[n]
  <2>1. n \in 0..(n + 1) /\ n + 1 \in Nat
    BY <1>1
  <2> HIDE DEF n
  <2> QED BY <1>2, <1>3, <1>4, <2>1, PickedAgree
<1>6. f[n + 1] = IF a[n + 1].kind \in K THEN Append(f[n], a[n + 1]) ELSE f[n]
  <2>1. n + 1 \in 0..(n + 1) /\ n + 1 # 0 /\ (n + 1) - 1 = n
    BY <1>1
  <2> QED BY <1>2, <2>1 DEF IsPicked
<1> QED BY <1>1, <1>2, <1>3, <1>5, <1>6 DEF a

\* The first n records, record by record.
LEMMA PrefixGrows ==
  ASSUME NEW l, IsLog(l), NEW n \in 1..Len(l)
  PROVE  SubSeq(l, 1, n) = Append(SubSeq(l, 1, n - 1), l[n])
<1> DEFINE S == {l[i] : i \in 1..Len(l)}
<1>1. l \in Seq(S) /\ Len(l) \in Nat /\ l[n] \in S
  BY DEF IsLog
<1> HIDE DEF S
<1> DEFINE a == SubSeq(l, 1, n)
           b == SubSeq(l, 1, n - 1)
<1>2. a \in Seq(S) /\ Len(a) = n /\ \A i \in 1..n : a[i] = l[i]
  BY <1>1
<1>3. b \in Seq(S) /\ Len(b) = n - 1 /\ \A i \in 1..(n - 1) : b[i] = l[i]
  BY <1>1
<1> HIDE DEF a, b
<1>4. Append(b, l[n]) \in Seq(S) /\ Len(Append(b, l[n])) = n
  BY <1>1, <1>3
<1>5. \A i \in 1..n : Append(b, l[n])[i] = l[i]
  BY <1>1, <1>3
<1>6. a = Append(b, l[n])
  BY <1>2, <1>4, <1>5, SeqEqual
<1> QED BY <1>6 DEF a, b

RefKindsOf == {"intent.landed", "ref.update", "ref.delete"}

Projected(s) == [i \in DOMAIN s |-> ProjectionRow(s[i])]

\* The rows of a longer log.
LEMMA ProjectedGrows ==
  ASSUME NEW S, NEW s \in Seq(S), NEW r \in S
  PROVE  /\ Projected(s) \in Seq({ProjectionRow(x) : x \in S}) /\ Len(Projected(s)) = Len(s)
         /\ Projected(Append(s, r)) = Append(Projected(s), ProjectionRow(r))
<1> DEFINE T == {ProjectionRow(x) : x \in S}
           n == Len(s)
           a == Append(s, r)
<1>1. n \in Nat /\ DOMAIN s = 1..n /\ \A i \in 1..n : s[i] \in S
  OBVIOUS
<1>2. \A x \in S : ProjectionRow(x) \in T
  OBVIOUS
<1> HIDE DEF T
<1>3. Projected(s) \in [1..n -> T] /\ \A i \in 1..n : Projected(s)[i] = ProjectionRow(s[i])
  BY <1>1, <1>2 DEF Projected
<1>4. Projected(s) \in Seq(T) /\ Len(Projected(s)) = n
  BY <1>1, <1>3, SeqDef
<1>5. a \in Seq(S) /\ Len(a) = n + 1 /\ DOMAIN a = 1..(n + 1) /\ a[n + 1] = r /\ \A i \in 1..n : a[i] = s[i]
  OBVIOUS
<1> HIDE DEF a
<1>6. /\ Projected(a) \in [1..(n + 1) -> T]
      /\ \A i \in 1..(n + 1) : Projected(a)[i] = ProjectionRow(a[i])
  BY <1>2, <1>5 DEF Projected
<1>7. Projected(a) \in Seq(T) /\ Len(Projected(a)) = n + 1
  <2>1. n + 1 \in Nat
    BY <1>1
  <2> HIDE DEF n
  <2> QED BY <1>6, <2>1, SeqDef
<1> DEFINE b == Append(Projected(s), ProjectionRow(r))
<1>8. /\ b \in Seq(T) /\ Len(b) = n + 1 /\ b[n + 1] = ProjectionRow(r)
      /\ \A i \in 1..n : b[i] = Projected(s)[i]
  BY <1>1, <1>2, <1>4
<1> HIDE DEF b
<1>9. ASSUME NEW i \in 1..(n + 1) PROVE Projected(a)[i] = b[i]
  <2>1. i \in 1..n \/ i = n + 1
    BY <1>1
  <2> QED BY <1>3, <1>5, <1>6, <1>8, <2>1
<1>10. Projected(a) = b
  <2> HIDE DEF n
  <2> QED BY <1>7, <1>8, <1>9, SeqEqual
<1> QED BY <1>4, <1>10 DEF T, a, b

\* A row is an intent exactly when its record is.
LEMMA RowKinds ==
  ASSUME NEW r
  PROVE  ProjectionRow(r).kind \in {"Intent"} <=> r.kind \in {"intent.landed"}
BY DEF ProjectionRow

Elements(s) == {s[j] : j \in DOMAIN s}

\* What the two altitudes make of the first n records.
SameCommits(l, S, n) ==
  LET p == SubSeq(l, 1, n)
      L == OfKinds(p, {"intent.landed"})
      R == OfKinds(p, RefKindsOf)
  IN  /\ L \in Seq(S) /\ R \in Seq(S)
      /\ OfKinds(Projected(R), {"Intent"}) = Projected(L)
      /\ Elements(L) = {x \in Elements(R) : x.kind = "intent.landed"}
      /\ \A j \in DOMAIN R : R[j].kind \in RefKindsOf

\* What a list holds after one more element.
LEMMA ElementsGrow ==
  ASSUME NEW S, NEW s \in Seq(S), NEW r \in S
  PROVE  /\ Append(s, r) \in Seq(S)
         /\ Elements(Append(s, r)) = Elements(s) \union {r}
<1> DEFINE a == Append(s, r)
<1>1. /\ a \in Seq(S) /\ Len(s) \in Nat /\ DOMAIN a = 1..(Len(s) + 1) /\ a[Len(s) + 1] = r
      /\ DOMAIN s = 1..Len(s) /\ \A i \in 1..Len(s) : a[i] = s[i]
  OBVIOUS
<1> HIDE DEF a
<1>2. \A j \in DOMAIN a : j \in DOMAIN s \/ j = Len(s) + 1
  BY <1>1
<1>3. DOMAIN s \subseteq DOMAIN a /\ Len(s) + 1 \in DOMAIN a
  BY <1>1
<1>4. Elements(a) = Elements(s) \union {r}
  BY <1>1, <1>2, <1>3 DEF Elements
<1> QED BY <1>1, <1>4 DEF a

LEMMA SameCommitsStart ==
  ASSUME NEW l, IsLog(l), NEW S
  PROVE  SameCommits(l, S, 0)
<1>1. SubSeq(l, 1, 0) = <<>>
  <2> DEFINE T == {l[i] : i \in 1..Len(l)}
  <2>1. l \in Seq(T)
    BY DEF IsLog
  <2> HIDE DEF T
  <2> QED BY <2>1
<1>2. /\ OfKinds(<<>>, {"intent.landed"}) = <<>> /\ OfKinds(<<>>, RefKindsOf) = <<>>
      /\ OfKinds(<<>>, {"Intent"}) = <<>>
  BY PickNone
<1>3. Projected(<<>>) = <<>> /\ DOMAIN <<>> = {}
  BY DEF Projected
<1>4. <<>> \in Seq(S) /\ Elements(<<>>) = {}
  BY <1>3 DEF Elements
<1> QED BY <1>1, <1>2, <1>3, <1>4 DEF SameCommits

\* One more record keeps the commits and the intents in step.
LEMMA SameCommitsStep ==
  ASSUME NEW S, NEW l \in Seq(S), IsLog(l), NEW n \in 1..Len(l), SameCommits(l, S, n - 1)
  PROVE  SameCommits(l, S, n)
<1> DEFINE p == SubSeq(l, 1, n - 1)
           r == l[n]
           L == OfKinds(p, {"intent.landed"})
           R == OfKinds(p, RefKindsOf)
           LL == OfKinds(SubSeq(l, 1, n), {"intent.landed"})
           RR == OfKinds(SubSeq(l, 1, n), RefKindsOf)
<1>1. r \in S /\ p \in Seq(S)
  <2>1. Len(l) \in Nat /\ r \in S
    OBVIOUS
  <2> QED BY <2>1
<1>2. SubSeq(l, 1, n) = Append(p, r)
  BY PrefixGrows
<1>3. /\ L \in Seq(S) /\ R \in Seq(S)
      /\ OfKinds(Projected(R), {"Intent"}) = Projected(L)
      /\ Elements(L) = {x \in Elements(R) : x.kind = "intent.landed"}
      /\ \A j \in DOMAIN R : R[j].kind \in RefKindsOf
  BY DEF SameCommits
<1> HIDE DEF p, r
<1>4. LL = IF r.kind \in {"intent.landed"} THEN Append(L, r) ELSE L
  <2> DEFINE K == {"intent.landed"}
  <2> HIDE DEF K
  <2>1. OfKinds(Append(p, r), K) = IF r.kind \in K THEN Append(OfKinds(p, K), r) ELSE OfKinds(p, K)
    BY <1>1, PickOneMore
  <2> QED BY <1>2, <2>1 DEF K
<1>5. RR = IF r.kind \in RefKindsOf THEN Append(R, r) ELSE R
  <2> DEFINE K == RefKindsOf
  <2> HIDE DEF K
  <2>1. OfKinds(Append(p, r), K) = IF r.kind \in K THEN Append(OfKinds(p, K), r) ELSE OfKinds(p, K)
    BY <1>1, PickOneMore
  <2> QED BY <1>2, <2>1 DEF K
<1> SUFFICES /\ LL \in Seq(S) /\ RR \in Seq(S)
             /\ OfKinds(Projected(RR), {"Intent"}) = Projected(LL)
             /\ Elements(LL) = {x \in Elements(RR) : x.kind = "intent.landed"}
             /\ \A j \in DOMAIN RR : RR[j].kind \in RefKindsOf
  BY DEF SameCommits
<1> HIDE DEF L, R, LL, RR
<1>6. CASE r.kind \notin RefKindsOf
  <2>1. r.kind \notin {"intent.landed"}
    BY <1>6 DEF RefKindsOf
  <2>2. LL = L /\ RR = R
    BY <1>4, <1>5, <1>6, <2>1
  <2> QED BY <1>3, <2>2
<1>7. CASE r.kind \in RefKindsOf
  <2>1. RR = Append(R, r)
    BY <1>5, <1>7
  <2>2. RR \in Seq(S) /\ Elements(RR) = Elements(R) \union {r}
    <3>1. R \in Seq(S) /\ r \in S
      BY <1>1, <1>3
    <3> QED BY <2>1, <3>1, ElementsGrow
  <2>3. \A j \in DOMAIN RR : RR[j].kind \in RefKindsOf
    <3> TAKE j \in DOMAIN RR
    <3>1. RR[j] \in Elements(R) \union {r}
      BY <2>2 DEF Elements
    <3> QED BY <1>3, <1>7, <3>1 DEF Elements
  <2> DEFINE T == {ProjectionRow(x) : x \in S}
  <2>4. Projected(RR) = Append(Projected(R), ProjectionRow(r)) /\ Projected(R) \in Seq(T) /\ ProjectionRow(r) \in T
    BY <1>1, <1>3, <2>1, ProjectedGrows
  <2> HIDE DEF T
  <2>5. OfKinds(Projected(RR), {"Intent"})
          = IF ProjectionRow(r).kind \in {"Intent"}
            THEN Append(OfKinds(Projected(R), {"Intent"}), ProjectionRow(r))
            ELSE OfKinds(Projected(R), {"Intent"})
    BY <2>4, PickOneMore
  <2>6. CASE r.kind = "intent.landed"
    <3>1. LL = Append(L, r)
      BY <1>4, <2>6
    <3>2. LL \in Seq(S) /\ Elements(LL) = Elements(L) \union {r}
      <4>1. L \in Seq(S) /\ r \in S
        BY <1>1, <1>3
      <4> QED BY <3>1, <4>1, ElementsGrow
    <3>3. Projected(LL) = Append(Projected(L), ProjectionRow(r))
      BY <1>1, <1>3, <3>1, ProjectedGrows
    <3>4. OfKinds(Projected(RR), {"Intent"}) = Projected(LL)
      BY <1>3, <2>5, <2>6, <3>3, RowKinds
    <3>5. Elements(LL) = {x \in Elements(RR) : x.kind = "intent.landed"}
      BY <1>3, <2>2, <2>6, <3>2
    <3> QED BY <2>2, <2>3, <3>2, <3>4, <3>5
  <2>7. CASE r.kind # "intent.landed"
    <3>1. LL = L
      BY <1>4, <2>7
    <3>2. OfKinds(Projected(RR), {"Intent"}) = Projected(LL)
      BY <1>3, <2>5, <2>7, <3>1, RowKinds
    <3>3. Elements(LL) = {x \in Elements(RR) : x.kind = "intent.landed"}
      BY <1>3, <2>2, <2>7, <3>1
    <3> QED BY <1>3, <2>2, <2>3, <3>1, <3>2, <3>3
  <2> QED BY <2>6, <2>7
<1> QED BY <1>6, <1>7

\* The commits among the rows are the landed intents, one by one.
LEMMA CommitsAreIntents ==
  ASSUME NEW l, IsLog(l)
  PROVE  SameCommits(l, {l[i] : i \in 1..Len(l)}, Len(l))
<1> DEFINE S == {l[i] : i \in 1..Len(l)}
           Bad == {n \in 0..Len(l) : ~SameCommits(l, S, n)}
<1>1. Len(l) \in Nat
  BY DEF IsLog
<1>2. Bad = {}
  <2> SUFFICES ASSUME Bad # {} PROVE FALSE
    OBVIOUS
  <2>0. Bad \in SUBSET Nat
    BY <1>1
  <2> HIDE DEF Bad
  <2>1. PICK n \in Bad : \A y \in Bad : n <= y
    BY <2>0, Least
  <2>2. n \in 0..Len(l) /\ ~SameCommits(l, S, n)
    BY <2>1 DEF Bad
  <2>3. n # 0
    BY <2>2, SameCommitsStart
  <2>4. n \in 1..Len(l) /\ n - 1 \in 0..Len(l) /\ n - 1 \notin Bad
    BY <1>1, <2>1, <2>2, <2>3
  <2>5. SameCommits(l, S, n - 1)
    BY <2>4 DEF Bad
  <2>6. l \in Seq(S)
    BY DEF IsLog
  <2> HIDE DEF S
  <2> QED BY <2>2, <2>4, <2>5, <2>6, SameCommitsStep
<1>3. Len(l) \in 0..Len(l)
  BY <1>1
<1> QED BY <1>2, <1>3

LEMMA TwoMore ==
  ASSUME NEW n \in Nat, NEW i
  PROVE  i \in 1..(n + 2) <=> (i \in 1..n \/ i = n + 1 \/ i = n + 2)
OBVIOUS

\* A message is traced to the first trailer of its charter, or to its own.
LEMMA MessageMeans ==
  ASSUME NEW S, NEW c \in Seq(S), NEW id, NEW m, m = c \o <<<<"text">>, Trailer(id)>>
  PROVE  intent_id_from_message(m)
           = IF \E i \in DOMAIN c : c[i][1] = "Intent-Id" THEN intent_id_from_message(c) ELSE id
<1> DEFINE n == Len(c)
           Tc == {i \in DOMAIN c : c[i][1] = "Intent-Id"}
           Tm == {i \in DOMAIN m : m[i][1] = "Intent-Id"}
           F(T) == CHOOSE i \in T : \A j \in T : i <= j
<1>1. n \in Nat /\ DOMAIN c = 1..n
  OBVIOUS
<1>2. /\ DOMAIN m = 1..(n + 2) /\ m[n + 1] = <<"text">> /\ m[n + 2] = Trailer(id)
      /\ \A i \in 1..n : m[i] = c[i]
  OBVIOUS
<1>3. m[n + 1][1] # "Intent-Id" /\ m[n + 2][1] = "Intent-Id" /\ m[n + 2][2] = id
  BY <1>2 DEF Trailer
<1>4. \A i : i \in Tm <=> (i \in Tc \/ i = n + 2)
  <2> TAKE i
  <2>1. i \in DOMAIN m <=> i \in 1..n \/ i = n + 1 \/ i = n + 2
    <3> HIDE DEF n
    <3> QED BY <1>1, <1>2, TwoMore
  <2> QED BY <1>1, <1>2, <1>3, <2>1
<1>5. Tm \in SUBSET Nat /\ Tc \in SUBSET Nat /\ n + 2 \in Tm /\ \A i \in Tc : i \in 1..n
  <2>1. Tc \in SUBSET Nat /\ \A i \in Tc : i \in 1..n
    BY <1>1
  <2> QED BY <1>1, <1>4, <2>1
<1>6. /\ intent_id_from_message(m) = IF Tm = {} THEN None ELSE m[F(Tm)][2]
      /\ intent_id_from_message(c) = IF Tc = {} THEN None ELSE c[F(Tc)][2]
  BY DEF intent_id_from_message
<1>7. (\E i \in DOMAIN c : c[i][1] = "Intent-Id") <=> Tc # {}
  OBVIOUS
<1> HIDE DEF Tm, Tc
<1>8. F(Tm) \in Tm /\ \A j \in Tm : F(Tm) <= j
  <2>1. \E i \in Tm : \A j \in Tm : i <= j
    BY <1>5, Least
  <2> QED BY <2>1
<1>9. CASE Tc = {}
  <2>1. F(Tm) = n + 2
    <3> HIDE DEF F
    <3> QED BY <1>4, <1>8, <1>9
  <2> HIDE DEF F
  <2> QED BY <1>3, <1>5, <1>6, <1>7, <1>9, <2>1
<1>10. CASE Tc # {}
  <2>1. F(Tc) \in Tc /\ \A j \in Tc : F(Tc) <= j
    <3>1. \E i \in Tc : \A j \in Tc : i <= j
      BY <1>5, <1>10, Least
    <3> QED BY <3>1
  <2> HIDE DEF F
  <2>2. F(Tc) \in Tm /\ F(Tc) \in 1..n /\ F(Tm) <= F(Tc)
    BY <1>4, <1>5, <1>8, <2>1
  <2>3. F(Tm) \in Tc
    BY <1>1, <1>4, <1>5, <1>8, <2>2
  <2>4. F(Tm) = F(Tc)
    <3>1. F(Tm) \in Nat /\ F(Tc) \in Nat /\ F(Tc) <= F(Tm)
      BY <1>5, <2>1, <2>3
    <3> QED BY <2>2, <3>1
  <2> QED BY <1>2, <1>5, <1>6, <1>7, <1>10, <2>2, <2>4
<1> QED BY <1>9, <1>10

\* Every landed intent has its charter.
CharterInv ==
  \A i \in 1..Len(tlog) : tlog[i].kind = "intent.landed" =>
    i - 1 \in DOMAIN charter /\ charter[i - 1] \in Charters

\* The machine projection and the intent projection tell the same commits.
LEMMA AltitudesClaim == ColdInv /\ CharterInv => AltitudesAgree
<1> SUFFICES ASSUME ColdInv, CharterInv PROVE AltitudesAgree
  OBVIOUS
<1> DEFINE S == {tlog[i] : i \in 1..Len(tlog)}
           L == Landed(tlog)
           R == OfKinds(tlog, RefKindsOf)
           model == intents_from_records(tlog)
           machine == project_machine(tlog)
           intents == model.intents
<1>1. Shape(tlog) /\ IsLog(tlog) /\ Len(tlog) \in Nat
  BY DEF ColdInv, Shape, IsLog
<1>2. SubSeq(tlog, 1, Len(tlog)) = tlog
  <2>1. tlog \in Seq(S)
    BY <1>1 DEF IsLog
  <2> HIDE DEF S
  <2> QED BY <1>1, <2>1
<1>3. /\ L \in Seq(S) /\ R \in Seq(S)
      /\ OfKinds(Projected(R), {"Intent"}) = Projected(L)
      /\ Elements(L) = {x \in Elements(R) : x.kind = "intent.landed"}
      /\ \A j \in DOMAIN R : R[j].kind \in RefKindsOf
  <2>1. SameCommits(tlog, S, Len(tlog))
    BY <1>1, CommitsAreIntents
  <2> HIDE DEF S
  <2> QED BY <1>2, <2>1 DEF SameCommits, Landed
<1>4. /\ model.ok = \A i \in DOMAIN L : WellFormed(L[i])
      /\ intents = [i \in DOMAIN L |-> parse_intent(L[i])]
  BY DEF intents_from_records
<1>5. /\ machine.ok = \A i \in DOMAIN R : is_raw_push(R[i].kind) \/ WellFormed(R[i])
      /\ machine.rows = Projected(R)
  BY DEF project_machine, Projected, RefKindsOf
<1> HIDE DEF L, R, model, machine
<1>6. \A j \in DOMAIN R : is_raw_push(R[j].kind) <=> R[j].kind # "intent.landed"
  BY <1>3 DEF is_raw_push, RefKindsOf
<1>7. model.ok = machine.ok
  <2>1. (\A i \in DOMAIN L : WellFormed(L[i])) <=> \A x \in Elements(L) : WellFormed(x)
    BY DEF Elements
  <2>2. (\A i \in DOMAIN R : is_raw_push(R[i].kind) \/ WellFormed(R[i]))
          <=> \A x \in Elements(R) : x.kind = "intent.landed" => WellFormed(x)
    BY <1>6 DEF Elements
  <2> QED BY <1>3, <1>4, <1>5, <2>1, <2>2
<1>8. Len(L) \in Nat /\ DOMAIN L = 1..Len(L) /\ DOMAIN intents = 1..Len(L) /\ Len(intents) = Len(L)
  <2>1. Len(L) \in Nat /\ DOMAIN L = 1..Len(L)
    BY <1>3
  <2> QED BY <1>4, <2>1
<1>9. Len(commits(machine.rows)) = Len(L) /\ commits(machine.rows) = Projected(L)
  <2>1. commits(machine.rows) = Projected(L)
    BY <1>3, <1>5 DEF commits
  <2>2. DOMAIN Projected(L) = 1..Len(L)
    BY <1>8 DEF Projected
  <2>3. Len(Projected(L)) = Len(L)
    BY <1>8, <2>2 DEF Projected
  <2> QED BY <2>1, <2>3
<1>10. ASSUME NEW i \in DOMAIN intents
       PROVE  /\ commits(machine.rows)[i].row = GitCommit(intents[i])
              /\ intents[i] = parse_intent(L[i])
              /\ intents[i].charter \in Seq({intents[i].charter[j] : j \in DOMAIN intents[i].charter})
  <2>1. i \in DOMAIN L /\ intents[i] = parse_intent(L[i])
    BY <1>4
  <2>2. L[i].kind = "intent.landed"
    BY <1>3, <2>1 DEF Elements
  <2>3. commits(machine.rows)[i] = ProjectionRow(L[i])
    BY <1>9, <2>1 DEF Projected
  <2>4. commits(machine.rows)[i].row = GitCommit(intents[i])
    BY <2>1, <2>2, <2>3 DEF ProjectionRow
  <2>5. PICK k \in 1..Len(tlog) : L[i] = tlog[k]
    <3>1. L[i] \in S
      <4> HIDE DEF S
      <4> QED BY <1>3, <2>1
    <3> QED BY <3>1
  <2>6. tlog[k].seq = k - 1 /\ charter[k - 1] \in Charters
    BY <1>1, <2>2, <2>5 DEF Shape, CharterInv
  <2>7. intents[i].charter = charter[k - 1]
    BY <2>1, <2>5, <2>6 DEF parse_intent
  <2> QED BY <2>1, <2>4, <2>6, <2>7, ColdAssumption
<1> DEFINE Quoting(i) == \E l \in DOMAIN intents[i].charter : intents[i].charter[l][1] = "Intent-Id"
<1>11. ASSUME NEW i \in DOMAIN intents
       PROVE  LET c == commits(machine.rows)[i].row
              IN  (/\ c.seq = intents[i].seq /\ c.intent_id = intents[i].intent_id
                   /\ c.ref_name = intents[i].ref_name /\ c.target = intents[i].target
                   /\ intent_id_from_message(c.message) = intents[i].intent_id)
                  <=> (Quoting(i) => intent_id_from_message(intents[i].charter) = intents[i].intent_id)
  <2> DEFINE c == commits(machine.rows)[i].row
             t == intents[i]
  <2>1. c = GitCommit(t)
    BY <1>10
  <2> HIDE DEF c
  <2>2. /\ c.seq = t.seq /\ c.intent_id = t.intent_id /\ c.ref_name = t.ref_name /\ c.target = t.target
        /\ c.message = t.charter \o <<<<"text">>, Trailer(t.intent_id)>>
    BY <2>1 DEF GitCommit, generate_message
  <2>3. intent_id_from_message(c.message)
          = IF \E l \in DOMAIN t.charter : t.charter[l][1] = "Intent-Id"
            THEN intent_id_from_message(t.charter) ELSE t.intent_id
    <3>1. t.charter \in Seq({t.charter[j] : j \in DOMAIN t.charter})
      BY <1>10
    <3> DEFINE T == {t.charter[j] : j \in DOMAIN t.charter}
    <3>2. t.charter \in Seq(T)
      BY <3>1
    <3> DEFINE ch == t.charter
               id == t.intent_id
               m == c.message
    <3>3. ch \in Seq(T) /\ m = ch \o <<<<"text">>, Trailer(id)>>
      BY <2>2, <3>2
    <3> HIDE DEF t, T, ch, id, m
    <3>4. intent_id_from_message(m)
            = IF \E i2 \in DOMAIN ch : ch[i2][1] = "Intent-Id" THEN intent_id_from_message(ch) ELSE id
      BY <3>3, MessageMeans
    <3> QED BY <3>4 DEF ch, id, m
  <2> QED BY <2>2, <2>3 DEF c
<1>12. is_consistent_with(machine.rows, intents)
         <=> \A i \in DOMAIN intents :
               Quoting(i) => intent_id_from_message(intents[i].charter) = intents[i].intent_id
  <2> HIDE DEF Quoting, intents
  <2> QED BY <1>8, <1>9, <1>11 DEF is_consistent_with
<1> QED BY <1>7, <1>12 DEF AltitudesAgree, model, machine

LEMMA CharterStart == ColdInit => CharterInv
BY DEF ColdInit, CharterInv

\* A record that follows the log leaves the charters of the others alone.
LEMMA CharterFollows ==
  ASSUME CharterInv, Len(tlog) \in Nat, NEW k, Follows(tlog, tlog', k),
         \A s \in DOMAIN charter : s \in 0..(Len(tlog) - 1) => s \in DOMAIN charter' /\ charter'[s] = charter[s],
         k = "intent.landed" => Len(tlog) \in DOMAIN charter' /\ charter'[Len(tlog)] \in Charters
  PROVE  CharterInv'
<1> SUFFICES ASSUME NEW i \in 1..Len(tlog'), tlog'[i].kind = "intent.landed"
    PROVE  i - 1 \in DOMAIN charter' /\ charter'[i - 1] \in Charters
  BY DEF CharterInv
<1>1. CASE i \in 1..Len(tlog)
  <2>1. i - 1 \in DOMAIN charter /\ charter[i - 1] \in Charters /\ i - 1 \in 0..(Len(tlog) - 1)
    BY <1>1 DEF Follows, CharterInv
  <2> QED BY <2>1
<1>2. CASE i \notin 1..Len(tlog)
  <2>1. i = Len(tlog) + 1 /\ i - 1 = Len(tlog)
    BY <1>2 DEF Follows
  <2> QED BY <2>1 DEF Follows
<1> QED BY <1>1, <1>2

\* Every intent on the log keeps its charter.
LEMMA CharterStep == ColdInv /\ CharterInv /\ [ColdNext]_coldVars => CharterInv'
<1> SUFFICES ASSUME ColdInv, CharterInv, [ColdNext]_coldVars PROVE CharterInv'
  OBVIOUS
<1>1. Shape(tlog) /\ Len(tlog) \in Nat
  BY DEF ColdInv, Shape, IsLog
<1>2. ASSUME NEW k, NEW p, k # "provenance.redaction", tlog' = append(tlog, k, Clear, p)
      PROVE  Follows(tlog, tlog', k)
  BY <1>1, <1>2, Appended DEF Follows
<1>3. CASE SubmitUpdate
  <2>1. PICK p : tlog' = append(tlog, "ref.update", Clear, p)
    BY <1>3 DEF SubmitUpdate, Clear
  <2>2. Follows(tlog, tlog', "ref.update") /\ charter' = charter
    BY <1>2, <1>3, <2>1 DEF SubmitUpdate
  <2> QED BY <1>1, <2>2, CharterFollows
<1>4. CASE LandIntent
  <2>1. PICK id \in Ids, t \in Targets, c \in Charters :
          /\ tlog' = append(tlog, "intent.landed", Clear, import_payload(id, "r", t))
          /\ charter' = ref_insert(charter, Len(tlog), c)
    BY <1>4, Zenon DEF LandIntent, Clear
  <2>2. Follows(tlog, tlog', "intent.landed")
    BY <1>2, <2>1
  <2>3. /\ DOMAIN charter' = DOMAIN charter \union {Len(tlog)} /\ charter'[Len(tlog)] = c
        /\ \A s \in DOMAIN charter : s # Len(tlog) => charter'[s] = charter[s]
    BY <2>1 DEF ref_insert
  <2>4. \A s \in 0..(Len(tlog) - 1) : s # Len(tlog)
    BY <1>1
  <2> QED BY <1>1, <2>2, <2>3, <2>4, CharterFollows
<1>5. CASE Redact
  <2>1. Follows(tlog, tlog', "provenance.redaction") /\ charter' = charter
    BY <1>5, RedactStep DEF Redact
  <2> QED BY <1>1, <2>1, CharterFollows
<1>6. CASE Compact
  BY <1>6 DEF Compact, CharterInv
<1>7. CASE LoseHot
  <2>1. PICK tail \in HotTails(tlog), mirror \in {NoMirror, tlog} :
          recover_with_sources(tcold, mirror, tail).ok /\ tlog' = recover_with_sources(tcold, mirror, tail).records
    BY <1>7 DEF LoseHot
  <2>2. Complete(tcold, mirror, tail) /\ tlog' = Assembled(tcold, mirror, tail)
    BY <2>1, RecoverCases
  <2>3. CopyOf(tlog', tlog)
    BY <2>2, AssembledCopy DEF ColdInv
  <2>4. \A i \in 1..Len(tlog') : tlog'[i].kind = tlog[i].kind
    BY <1>1, <2>3, CopyShape
  <2>5. Len(tlog') \in Nat /\ Len(tlog') <= Len(tlog)
    BY <2>3 DEF CopyOf, IsLog
  <2>6. charter' = [s \in DOMAIN charter \intersect (0..(Len(tlog') - 1)) |-> charter[s]]
    BY <1>7 DEF LoseHot
  <2> SUFFICES ASSUME NEW i \in 1..Len(tlog'), tlog'[i].kind = "intent.landed"
      PROVE  i - 1 \in DOMAIN charter' /\ charter'[i - 1] \in Charters
    BY DEF CharterInv
  <2>7. i \in 1..Len(tlog) /\ i - 1 \in 0..(Len(tlog') - 1)
    BY <1>1, <2>5
  <2>8. i - 1 \in DOMAIN charter /\ charter[i - 1] \in Charters
    BY <2>4, <2>7 DEF CharterInv
  <2> QED BY <2>6, <2>7, <2>8
<1>8. CASE UNCHANGED coldVars
  BY <1>8 DEF coldVars, CharterInv
<1> QED BY <1>3, <1>4, <1>5, <1>6, <1>7, <1>8 DEF ColdNext

-----------------------------------------------------------------------------
(* Erasure.  The links form a log without redactions, so the verifier says *)
(* of each record whether it is still the one that was appended.           *)

\* A log of links as they were appended.
LinkLog(l) == Shape(l) /\ \A i \in 1..Len(l) : l[i].kind = OBJECT_LINK_KIND /\ l[i].chain = Clear

ErasureInv ==
  /\ DOMAIN live \subseteq ObjectHashes /\ tombs \subseteq ObjectHashes
  /\ IsLog(links)
  /\ \A i \in 1..Len(links) : links[i].kind = OBJECT_LINK_KIND /\ links[i].payload.target \in ObjectHashes
  /\ ~relinked => /\ LinkLog(links)
                  /\ \A i \in 1..Len(links) : links[i].payload.target \in DOMAIN live \union tombs
  /\ relinked => \E i \in 1..Len(links) : recompute(links[i]) # links[i].this
  /\ "d" \notin DOMAIN corpus => ~gate.repass
  /\ attest.sig # None => attest.sig = attest.tree

\* Without redactions the verifier recomputes every hash.
LEMMA PlainVerify ==
  ASSUME NEW l, Len(l) \in Nat, \A i \in 1..Len(l) : l[i].kind = OBJECT_LINK_KIND
  PROVE  verify_chain(l) => \A i \in 1..Len(l) : recompute(l[i]) = l[i].this
<1> DEFINE R == collect_redactions(l)
<1>1. \A i \in 1..Len(l) : l[i].kind # "provenance.redaction"
  BY DEF OBJECT_LINK_KIND
<1>2. DOMAIN R = {}
  BY <1>1 DEF collect_redactions
<1> HIDE DEF R
<1>3. verify_chain(l) => \A i \in 1..Len(l) : ContentOK(l[i], R)
  BY DEF verify_chain, R
<1> QED BY <1>2, <1>3 DEF ContentOK

\* A log of links as they were appended verifies.
LEMMA LinkLogVerifies ==
  ASSUME NEW l, LinkLog(l)
  PROVE  verify_chain(l)
<1>1. \A s : ~Redacted(l, s)
  BY DEF LinkLog, Redacted, IsMarker, OBJECT_LINK_KIND
<1>2. Faithful(l)
  BY <1>1, ChainsApart DEF Faithful, LinkLog
<1> QED BY <1>2, VerifyMeans DEF LinkLog

\* A link changes no ref.
LEMMA LinkReplay ==
  ASSUME NEW l, Len(l) \in Nat, \A i \in 1..Len(l) : l[i].kind = OBJECT_LINK_KIND
  PROVE  replay_unchecked(l) # None
<1>1. PICK f : IsReplay(f, l, Len(l)) /\ replay_unchecked(l) = f[Len(l)]
  BY ReplayUnfolds
<1>2. \A v : \A i \in 1..Len(l) : replay_record(v, l[i]) = v
  BY DEF replay_record, OBJECT_LINK_KIND
<1> DEFINE Off == {n \in 0..Len(l) : f[n] # EmptyRefs}
<1>3. Off = {}
  <2> SUFFICES ASSUME Off # {} PROVE FALSE
    OBVIOUS
  <2>0. Off \in SUBSET Nat
    OBVIOUS
  <2> HIDE DEF Off
  <2>1. PICK n \in Off : \A y \in Off : n <= y
    BY <2>0, Least
  <2>2. n \in 0..Len(l) /\ f[n] # EmptyRefs
    BY <2>1 DEF Off
  <2>3. n # 0
    BY <1>1, <2>2 DEF IsReplay
  <2>4. n - 1 \in 0..Len(l) /\ n - 1 \notin Off /\ n \in 1..Len(l)
    BY <2>1, <2>2, <2>3
  <2>5. f[n - 1] = EmptyRefs
    BY <2>4 DEF Off
  <2>6. f[n] = IF f[n - 1] = None THEN None ELSE replay_record(f[n - 1], l[n])
    BY <1>1, <2>4 DEF IsReplay
  <2> QED BY <1>2, <2>2, <2>4, <2>5, <2>6, ErasureAssumption
<1>4. f[Len(l)] = EmptyRefs
  BY <1>3
<1> QED BY <1>1, <1>4, ErasureAssumption

\* What was sealed recovers on its own, when every range holds the log's records.
LEMMA SealedRecovers ==
  ASSUME NEW l, LinkLog(l), NEW c, Ranges(l, c),
         \A s \in Nat : Holding(c, s) # {} => Listed(c, s) = l[s + 1]
  PROVE  recover_from_cold(c).ok
<1> DEFINE q == Assembled(c, NoMirror, <<>>)
           n == max_seq(c, <<>>)
<1>1. Shape(l) /\ Len(l) \in Nat /\ l \in Seq({l[i] : i \in 1..Len(l)})
  BY DEF LinkLog, Shape, IsLog
<1>2. <<>> \in HotTails(l)
  <2> DEFINE S == {l[i] : i \in 1..Len(l)}
  <2>1. l \in Seq(S)
    BY <1>1
  <2> HIDE DEF S
  <2>2. SubSeq(l, Len(l) + 1, Len(l)) = <<>> /\ Len(l) + 1 \in 1..(Len(l) + 1)
    BY <1>1, <2>1
  <2> QED BY <2>2 DEF HotTails
<1>3. n \in 0..Len(l) /\ \A s \in 0..(n - 1) : Holding(c, s) # {}
  BY <1>1, <1>2, SpanMeans
<1>4. \A s \in 0..(n - 1) : SourceOf(c, NoMirror, <<>>, s) # "nowhere" /\ RecordAt(c, NoMirror, <<>>, s) = l[s + 1]
  <2> TAKE s \in 0..(n - 1)
  <2>1. s \in Nat /\ Holding(c, s) # {}
    BY <1>3
  <2> QED BY <2>1 DEF SourceOf, RecordAt
<1>5. Complete(c, NoMirror, <<>>)
  BY <1>4 DEF Complete
<1>6. Len(q) = n /\ CopyOf(q, l)
  BY <1>1, <1>2, <1>5, AssembledCopy
<1>7. ASSUME NEW i \in 1..n PROVE q[i] = l[i]
  <2>1. i - 1 \in 0..(n - 1) /\ (i - 1) + 1 = i
    BY <1>1, <1>3
  <2>2. q[i] = RecordAt(c, NoMirror, <<>>, i - 1)
    BY DEF Assembled
  <2> QED BY <1>4, <2>1, <2>2
<1> HIDE DEF q, n
<1>8. LinkLog(q)
  <2>1. Shape(q)
    BY <1>1, <1>6, CopyShape
  <2>2. \A i \in 1..n : i \in 1..Len(l)
    BY <1>1, <1>3
  <2> QED BY <1>6, <1>7, <2>1, <2>2 DEF LinkLog
<1>9. verify_chain(q) /\ replay_unchecked(q) # None
  <2>1. Len(q) \in Nat /\ \A i \in 1..Len(q) : q[i].kind = OBJECT_LINK_KIND
    BY <1>8 DEF LinkLog, Shape, IsLog
  <2> QED BY <1>8, <2>1, LinkLogVerifies, LinkReplay
<1>10. recover_with_sources(c, NoMirror, <<>>).ok
  BY <1>5, <1>9, RecoverCases DEF q
<1> QED BY <1>10 DEF recover_from_cold, recover_with_mirror

LEMMA Halves ==
  ASSUME NEW l, IsLog(l), NEW n \in 0..Len(l)
  PROVE  SubSeq(l, 1, n) \o SubSeq(l, n + 1, Len(l)) = l
<1> DEFINE S == {l[i] : i \in 1..Len(l)}
<1>1. l \in Seq(S) /\ Len(l) \in Nat
  BY DEF IsLog
<1> HIDE DEF S
<1> DEFINE a == SubSeq(l, 1, n)
           b == SubSeq(l, n + 1, Len(l))
<1>2. a \in Seq(S) /\ Len(a) = n /\ \A i \in 1..n : a[i] = l[i]
  BY <1>1
<1>3. b \in Seq(S) /\ Len(b) = Len(l) - n /\ \A i \in 1..(Len(l) - n) : b[i] = l[n + i]
  BY <1>1
<1> HIDE DEF a, b
<1>4. a \o b \in Seq(S) /\ Len(a \o b) = Len(l)
  BY <1>1, <1>2, <1>3
<1>5. ASSUME NEW i \in 1..Len(l) PROVE (a \o b)[i] = l[i]
  <2>1. CASE i <= n
    BY <1>1, <1>2, <1>3, <2>1
  <2>2. CASE i > n
    <3>1. (a \o b)[i] = b[i - n] /\ i - n \in 1..(Len(l) - n) /\ n + (i - n) = i
      BY <1>1, <1>2, <1>3, <2>2
    <3> QED BY <1>3, <3>1
  <2>3. i <= n \/ i > n
    BY <1>1
  <2> QED BY <2>1, <2>2, <2>3
<1>6. a \o b = l
  BY <1>1, <1>4, <1>5, SeqEqual
<1> QED BY <1>6 DEF a, b

\* Compaction and recovery give the links back.
LEMMA LinksRecovered ==
  ASSUME NEW l, LinkLog(l), NEW b \in Nat
  PROVE  simulate_compaction_and_recovery(l, b) = l
<1> DEFINE cold == compact(l, b, {})
           sealed == IF cold = {} THEN <<>> ELSE (CHOOSE r \in cold : TRUE).records
           all == sealed \o HotRemainder(l, b)
<1>1. Shape(l) /\ IsLog(l) /\ Len(l) \in Nat /\ verify_chain(l)
  BY LinkLogVerifies DEF LinkLog, Shape, IsLog
<1>2. simulate_compaction_and_recovery(l, b)
        = IF verify_chain(all) /\ recover_from_cold(cold).ok THEN all ELSE <<None>>
  BY DEF simulate_compaction_and_recovery
<1>3. Ranges(l, {})
  BY DEF Ranges
<1>4. Ranges(l, cold)
  BY <1>1, <1>3, CompactMeans
<1>5. all = l /\ \A s \in Nat : Holding(cold, s) # {} => Listed(cold, s) = l[s + 1]
  <2>1. CASE Len(l) <= b
    <3>1. cold = {} /\ HotRemainder(l, b) = l
      BY <1>1, <2>1 DEF compact, HotRemainder
    <3>2. <<>> \o l = l
      <4> DEFINE S == {l[i] : i \in 1..Len(l)}
      <4>1. l \in Seq(S)
        BY <1>1 DEF IsLog
      <4> HIDE DEF S
      <4> QED BY <4>1
    <3>3. \A s \in Nat : Holding(cold, s) = {}
      BY <3>1 DEF Holding
    <3> QED BY <3>1, <3>2, <3>3
  <2>2. CASE Len(l) > b
    <3> DEFINE n == Len(l) - b
               p == SubSeq(l, 1, n)
               R == ColdRange(p)
    <3>1. n \in 0..Len(l) /\ n # 0
      BY <1>1, <2>2
    <3>2. Len(p) = n /\ \A i \in 1..n : p[i] = l[i]
      BY <1>1, <3>1, PrefixCopy
    <3>3. cold = {R}
      BY <1>1, <2>2 DEF compact, cold_put
    <3>4. HotRemainder(l, b) = SubSeq(l, n + 1, Len(l))
      BY <1>1, <2>2 DEF HotRemainder
    <3>5. R.records = p
      BY DEF ColdRange
    <3> HIDE DEF R
    <3>6. sealed = p
      BY <3>3, <3>5
    <3>7. all = p \o SubSeq(l, n + 1, Len(l))
      BY <3>4, <3>6
    <3>8. all = l
      BY <1>1, <3>1, <3>7, Halves
    <3>9. R.start = 0 /\ R.end \in 1..Len(l)
      BY <1>4, <3>3 DEF Ranges
    <3> HIDE DEF cold, p, all, sealed
    <3>10. R.end = n
      BY <1>1, <2>2, <1>3, <3>3, CompactMeans DEF cold
    <3>11. ASSUME NEW s \in Nat, Holding(cold, s) # {} PROVE Listed(cold, s) = l[s + 1]
      <4>1. Holding(cold, s) = {R} /\ s \in 0..(n - 1)
        BY <3>3, <3>9, <3>10, <3>11 DEF Holding
      <4>2. Listed(cold, s) = R.records[s - R.start + 1]
        BY <3>9, <4>1 DEF Listed
      <4>3. s - 0 + 1 = s + 1 /\ s + 1 \in 1..n
        BY <1>1, <3>1, <4>1
      <4> QED BY <3>2, <3>5, <3>9, <4>2, <4>3
    <3> QED BY <3>8, <3>11
  <2>3. Len(l) <= b \/ Len(l) > b
    BY <1>1
  <2> QED BY <2>1, <2>2, <2>3
<1> HIDE DEF cold, all
<1>6. recover_from_cold(cold).ok
  BY <1>4, <1>5, SealedRecovers
<1> QED BY <1>1, <1>2, <1>5, <1>6

LEMMA Following ==
  ASSUME NEW h, h \in DOMAIN live \union tombs
  PROVE  store_resolve(h) # "Missing" /\ follow(h) # "Broken"
BY DEF store_resolve, follow

LEMMA ThreeParts ==
  ASSUME NEW n \in Nat, NEW A, NEW B, NEW C, A \union B \union C = 1..n,
         A \cap B = {}, (A \union B) \cap C = {}
  PROVE  n = Cardinality(A) + Cardinality(B) + Cardinality(C)
<1>1. IsFiniteSet(1..n) /\ Cardinality(1..n) = n
  BY FS_Interval
<1>2. IsFiniteSet(A) /\ IsFiniteSet(B) /\ IsFiniteSet(C) /\ IsFiniteSet(A \union B)
  BY <1>1, FS_Subset
<1>3. /\ Cardinality(A) \in Nat /\ Cardinality(B) \in Nat /\ Cardinality(C) \in Nat
      /\ Cardinality(A \union B) \in Nat
  BY <1>2, FS_CardinalityType
<1>4. Cardinality({}) = 0
  BY FS_EmptySet
<1>5. Cardinality(A \union B) = Cardinality(A) + Cardinality(B) - Cardinality(A \cap B)
  BY <1>2, FS_Union
<1>6. Cardinality((A \union B) \union C) = Cardinality(A \union B) + Cardinality(C) - Cardinality((A \union B) \cap C)
  BY <1>2, FS_Union
<1>7. Cardinality(A \cap B) = 0 /\ Cardinality((A \union B) \cap C) = 0
  BY <1>4
<1>8. Cardinality((A \union B) \union C) = n
  BY <1>1
<1> QED BY <1>3, <1>5, <1>6, <1>7, <1>8

LEMMA ReportAdds ==
  ASSUME IsLog(links)
  PROVE  IntegrityReport.total = IntegrityReport.live + IntegrityReport.tombstoned + IntegrityReport.dangling
<1> DEFINE at(what) == {i \in DOMAIN links : store_resolve(link_target(links[i])) = what}
<1>1. Len(links) \in Nat /\ DOMAIN links = 1..Len(links)
  BY DEF IsLog
<1>2. \A i \in DOMAIN links : store_resolve(link_target(links[i])) \in {"Live", "Tombstone", "Missing"}
  BY DEF store_resolve
<1>3. /\ at("Live") \union at("Tombstone") \union at("Missing") = 1..Len(links)
      /\ at("Live") \cap at("Tombstone") = {}
      /\ (at("Live") \union at("Tombstone")) \cap at("Missing") = {}
  BY <1>1, <1>2
<1>4. /\ IntegrityReport.total = Len(links) /\ IntegrityReport.live = Cardinality(at("Live"))
      /\ IntegrityReport.tombstoned = Cardinality(at("Tombstone"))
      /\ IntegrityReport.dangling = Cardinality(at("Missing"))
  BY DEF IntegrityReport
<1> HIDE DEF at
<1> QED BY <1>1, <1>3, <1>4, ThreeParts

\* A cascade that the scan calls complete left nothing of the datum.
LEMMA ErasureClaims == ErasureInv => ErasureSound
<1> SUFFICES ASSUME ErasureInv PROVE ErasureSound
  OBVIOUS
<1>1. Len(links) \in Nat /\ DOMAIN links = 1..Len(links) /\ IsLog(links)
  BY DEF ErasureInv, IsLog
<1>2. \A i \in 1..Len(links) : link_target(links[i]) = links[i].payload.target /\ link_target(links[i]) \in ObjectHashes
  BY DEF ErasureInv, link_target
<1>3. ASSUME ~relinked
      PROVE  /\ scan_orphans = {} /\ verify_chain(links)
             /\ \/ human_can_always_follow({link_target(links[i]) : i \in DOMAIN links} \union DOMAIN live)
                \/ links = <<>>
             /\ \A b \in {0, 1} : simulate_compaction_and_recovery(links, b) = links
  <2>1. LinkLog(links) /\ \A i \in 1..Len(links) : link_target(links[i]) \in DOMAIN live \union tombs
    BY <1>2, <1>3 DEF ErasureInv
  <2>2. scan_orphans = {}
    BY <1>1, <2>1, Following DEF scan_orphans
  <2>3. \A h \in {link_target(links[i]) : i \in DOMAIN links} \union DOMAIN live : follow(h) # "Broken"
    BY <1>1, <2>1, Following
  <2>4. links = <<>> \/ {link_target(links[i]) : i \in DOMAIN links} # {}
    <3>1. links = <<>> \/ Len(links) # 0
      BY <1>1 DEF IsLog
    <3>2. ASSUME Len(links) # 0 PROVE 1 \in DOMAIN links
      BY <1>1, <3>2
    <3> QED BY <3>1, <3>2
  <2>5. \A b \in {0, 1} : simulate_compaction_and_recovery(links, b) = links
    BY <2>1, LinksRecovered
  <2> QED BY <2>1, <2>2, <2>3, <2>4, <2>5, LinkLogVerifies DEF human_can_always_follow
<1>4. ASSUME relinked
      PROVE  /\ \E i \in DOMAIN links : detect_silent_relink(links[i]) # None
             /\ ~verify_chain(links)
  <2>1. PICK i \in 1..Len(links) : recompute(links[i]) # links[i].this
    BY <1>4 DEF ErasureInv
  <2>2. ~verify_chain(links)
    BY <1>1, <2>1, PlainVerify DEF ErasureInv
  <2>3. detect_silent_relink(links[i]) = link_target(links[i])
    BY <2>1 DEF detect_silent_relink, Rehash, recompute
  <2> QED BY <1>1, <1>2, <2>1, <2>2, <2>3, ErasureAssumption
<1>5. ASSUME NEW h \in ObjectHashes, fully_erased(h)
      PROVE  /\ ~relinked /\ datum_absent(context) /\ datum_absent(corpus)
             /\ (\E i \in DOMAIN links : link_target(links[i]) = h)
                  => is_independently_verifiable_over_tombstone(h)
             /\ ExitProofValid({"mirror_erasure_obligation"})
  <2>1. /\ h \notin DOMAIN live /\ verify_chain(links) /\ datum_absent(context)
        /\ is_honestly_resolved /\ datum_absent(corpus)
    <3> DEFINE s == CascadeAbsenceScan(h)
    <3>1. {"cas", "chain", "context", "mirror", "corpus"} \subseteq DOMAIN s
      BY DEF CascadeAbsenceScan
    <3>2. s.cas /\ s.chain /\ s.context /\ s.mirror /\ s.corpus
      <4>1. \A field \in DOMAIN s : s[field]
        BY <1>5 DEF fully_erased
      <4> HIDE DEF s
      <4> QED BY <3>1, <4>1
    <3> QED BY <3>2 DEF CascadeAbsenceScan
  <2>2. ~relinked
    BY <1>4, <2>1
  <2>3. ASSUME NEW i \in DOMAIN links, link_target(links[i]) = h
        PROVE  is_independently_verifiable_over_tombstone(h)
    <3>1. h \in DOMAIN live \union tombs
      BY <1>1, <1>2, <2>2, <2>3 DEF ErasureInv
    <3> QED BY <2>1, <3>1 DEF is_independently_verifiable_over_tombstone, store_resolve
  <2> QED BY <2>1, <2>2, <2>3 DEF ExitProofValid, is_honestly_resolved
<1>6. "d" \notin DOMAIN corpus => ~gate.repass
  BY DEF ErasureInv
<1>7. \A h \in ObjectHashes : raw_commit_view(h) = "ViaPlainGit" => resolve_link(h) = "Found"
  BY DEF raw_commit_view, resolve_link, store_resolve
<1>8. attest.sig # None => verify_attestation(attest) = "ok"
  BY DEF ErasureInv, verify_attestation
<1> QED BY <1>1, <1>3, <1>4, <1>5, <1>6, <1>7, <1>8, ReportAdds DEF ErasureSound

LEMMA ErasureStart == ErasureInit => ErasureInv
<1> SUFFICES ASSUME ErasureInit PROVE ErasureInv
  OBVIOUS
<1>1. live = <<>> /\ links = <<>> /\ tombs = {} /\ ~relinked
  BY DEF ErasureInit
<1>2. Len(links) = 0 /\ DOMAIN live = {} /\ IsLog(links)
  BY <1>1 DEF IsLog
<1>3. LinkLog(links)
  BY <1>2 DEF LinkLog, Shape
<1>4. "d" \in DOMAIN corpus /\ attest.sig = None
  BY DEF ErasureInit
<1> QED BY <1>1, <1>2, <1>3, <1>4 DEF ErasureInv

\* A new link points at an object that is live or has a tombstone.
LEMMA RecordLinkStep == ErasureInv /\ RecordLink => ErasureInv'
<1> SUFFICES ASSUME ErasureInv, RecordLink PROVE ErasureInv'
  OBVIOUS
<1>1. PICK h \in DOMAIN live \union tombs :
        links' = append(links, OBJECT_LINK_KIND, <<"human">>, [NoPayload EXCEPT !.target = h])
  BY DEF RecordLink
<1> DEFINE p == [NoPayload EXCEPT !.target = h]
<1>2. p.target = h /\ p.redacts = <<>>
  BY DEF NoPayload
<1> HIDE DEF p
<1>3. ~relinked /\ ~relinked' /\ UNCHANGED <<live, tombs, corpus, gate, attest>>
  BY DEF RecordLink
<1>4. LinkLog(links) /\ Shape(links) /\ Len(links) \in Nat
  BY <1>3 DEF ErasureInv, LinkLog, Shape, IsLog
<1>5. links' = append(links, OBJECT_LINK_KIND, Clear, p)
  BY <1>1 DEF Clear, p
<1>6. /\ Shape(links') /\ Len(links') = Len(links) + 1 /\ \A i \in 1..Len(links) : links'[i] = links[i]
      /\ links'[Len(links) + 1].chain = Clear /\ links'[Len(links) + 1].kind = OBJECT_LINK_KIND
      /\ links'[Len(links) + 1].payload = p
  <2>1. OBJECT_LINK_KIND # "provenance.redaction"
    BY DEF OBJECT_LINK_KIND
  <2> QED BY <1>4, <1>5, <2>1, Appended
<1>7. h \in ObjectHashes
  BY <1>1 DEF ErasureInv
<1>8. ASSUME NEW i \in 1..Len(links')
      PROVE  /\ links'[i].kind = OBJECT_LINK_KIND /\ links'[i].chain = Clear
             /\ links'[i].payload.target \in ObjectHashes
             /\ links'[i].payload.target \in DOMAIN live \union tombs
  <2>1. CASE i \in 1..Len(links)
    BY <1>3, <1>4, <1>6, <2>1 DEF ErasureInv, LinkLog
  <2>2. CASE i \notin 1..Len(links)
    <3>1. i = Len(links) + 1
      BY <1>4, <1>6, <2>2
    <3> QED BY <1>1, <1>2, <1>6, <1>7, <3>1
  <2> QED BY <2>1, <2>2
<1>9. IsLog(links') /\ LinkLog(links')
  BY <1>6, <1>8 DEF LinkLog, Shape
<1> QED BY <1>3, <1>8, <1>9 DEF ErasureInv

\* A record that was repointed in place no longer has its hash.
LEMMA SilentRelinkStep == ErasureInv /\ SilentRelink => ErasureInv'
<1> SUFFICES ASSUME ErasureInv, SilentRelink PROVE ErasureInv'
  OBVIOUS
<1>1. PICK i \in DOMAIN links, h \in ObjectHashes :
        /\ h # link_target(links[i])
        /\ links' = [links EXCEPT ![i] = repointed(links[i], h)]
  BY DEF SilentRelink
<1>2. ~relinked /\ relinked' = TRUE /\ UNCHANGED <<live, tombs, corpus, gate, attest>>
  BY DEF SilentRelink
<1>3. Len(links) \in Nat /\ DOMAIN links = 1..Len(links) /\ IsLog(links) /\ LinkLog(links)
  BY <1>2 DEF ErasureInv, IsLog
<1> DEFINE r == links[i]
           q == repointed(links[i], h)
<1>4. Genuine(r) /\ r.kind = OBJECT_LINK_KIND /\ r.chain = Clear
  BY <1>1, <1>3 DEF LinkLog, Shape
<1>5. link_target(r) = r.payload.target
  BY <1>4 DEF link_target
<1> DEFINE p == [NoPayload EXCEPT !.target = h]
<1>6. p.target = h
  BY DEF NoPayload
<1>7. q = [r EXCEPT !.payload = p]
  BY DEF repointed
<1> HIDE DEF p, q
<1>8. /\ q.kind = r.kind /\ q.this = r.this /\ q.prev = r.prev /\ q.chain = r.chain /\ q.seq = r.seq
      /\ q.payload = p
  <2>1. r = [seq |-> r.seq, prev |-> r.prev, this |-> r.this, kind |-> r.kind,
             chain |-> r.chain, payload |-> r.payload]
    BY <1>4 DEF Genuine
  <2> HIDE DEF r
  <2> QED BY <1>7, <2>1
<1>9. recompute(q) # q.this
  <2>1. q.this = <<r.prev, r.kind, Clear, r.payload, r.seq>>
    BY <1>4, <1>8 DEF Genuine
  <2>2. recompute(q) = <<r.prev, r.kind, r.chain, p, r.seq>>
    BY <1>8 DEF recompute, compute_this_hash
  <2>3. p # r.payload
    BY <1>1, <1>5, <1>6
  <2> QED BY <2>1, <2>2, <2>3
<1>10. links' = [links EXCEPT ![i] = q]
  BY <1>1 DEF q
<1>11. /\ DOMAIN links' = 1..Len(links) /\ links'[i] = q
       /\ \A j \in 1..Len(links) : j # i => links'[j] = links[j]
  BY <1>1, <1>3, <1>10
<1>12. Len(links') = Len(links) /\ IsLog(links')
  <2> DEFINE S == {links[j] : j \in 1..Len(links)} \union {q}
  <2>1. links \in Seq(S)
    <3>1. links \in Seq({links[j] : j \in 1..Len(links)})
      BY <1>3 DEF IsLog
    <3> QED BY <3>1, SeqMonotonic
  <2>2. q \in S
    OBVIOUS
  <2> HIDE DEF S
  <2>3. links' \in Seq(S) /\ Len(links') = Len(links)
    BY <1>1, <1>3, <1>10, <2>1, <2>2
  <2>4. links' \in [1..Len(links') -> {links'[j] : j \in 1..Len(links')}]
    BY <1>11, <2>3
  <2> DEFINE T == {links'[j] : j \in 1..Len(links')}
  <2>5. links' \in [1..Len(links') -> T] /\ Len(links') \in Nat
    BY <1>3, <2>3, <2>4
  <2> HIDE DEF T
  <2>6. links' \in Seq(T)
    BY <2>5, SeqDef
  <2> QED BY <2>3, <2>5, <2>6 DEF IsLog, T
<1>13. ASSUME NEW j \in 1..Len(links')
       PROVE  links'[j].kind = OBJECT_LINK_KIND /\ links'[j].payload.target \in ObjectHashes
  <2>1. CASE j = i
    BY <1>4, <1>6, <1>8, <1>11, <2>1
  <2>2. CASE j # i
    BY <1>11, <1>12, <2>2 DEF ErasureInv
  <2> QED BY <2>1, <2>2
<1> HIDE DEF r
<1>14. recompute(links'[i]) # links'[i].this /\ i \in 1..Len(links')
  BY <1>1, <1>3, <1>9, <1>11, <1>12
<1> QED BY <1>2, <1>12, <1>13, <1>14 DEF ErasureInv

LEMMA ErasureStep == ErasureInv /\ [ErasureNext]_erasureVars => ErasureInv'
<1> SUFFICES ASSUME ErasureInv, [ErasureNext]_erasureVars PROVE ErasureInv'
  OBVIOUS
<1>1. CASE StorePut
  <2>1. PICK h \in ObjectHashes, data \in {{}, {Datum}} : live' = With(live, h, data)
    BY <1>1 DEF StorePut
  <2>2. DOMAIN live' = DOMAIN live \union {h}
    BY <2>1 DEF With
  <2>3. UNCHANGED <<tombs, links, corpus, gate, attest, relinked>>
    BY <1>1 DEF StorePut
  <2> QED BY <2>2, <2>3 DEF ErasureInv
<1>2. CASE RecordLink
  BY <1>2, RecordLinkStep
<1>3. CASE StoreErase
  <2>1. PICK h \in ObjectHashes : live' = Without(live, h) /\ tombs' = tombs \union {h}
    BY <1>3 DEF StoreErase
  <2>2. DOMAIN live' = DOMAIN live \ {h}
    BY <2>1 DEF Without
  <2>3. UNCHANGED <<links, corpus, gate, attest, relinked>>
    BY <1>3 DEF StoreErase
  <2>4. \A x : x \in DOMAIN live \union tombs => x \in DOMAIN live' \union tombs'
    BY <2>1, <2>2
  <2> QED BY <2>1, <2>2, <2>3, <2>4 DEF ErasureInv
<1>4. CASE SilentRelink
  BY <1>4, SilentRelinkStep
<1>5. CASE Purge
  BY <1>5 DEF Purge, ErasureInv
<1>6. CASE erase_datapoint
  BY <1>6 DEF erase_datapoint, ErasureInv
<1>7. CASE MirrorAnswers
  BY <1>7 DEF MirrorAnswers, ErasureInv
<1>8. CASE reseal_attestation
  BY <1>8 DEF reseal_attestation, ErasureInv, sign_attestation
<1>9. CASE UNCHANGED erasureVars
  BY <1>9 DEF erasureVars, ErasureInv
<1> QED BY <1>1, <1>2, <1>3, <1>4, <1>5, <1>6, <1>7, <1>8, <1>9 DEF ErasureNext

-----------------------------------------------------------------------------
(* Views.  Whatever a view shows went through apply.                       *)

ViewEvents == [kind : ViewKinds, id : ViewIds, ok : BOOLEAN, seq : Nat,
               marks : SUBSET {"attempt", "merged_from"}]

ViewInv ==
  /\ vlog \in Seq(ViewEvents)
  /\ lines \in Seq({WatchLine(e) : e \in ViewEvents})
  /\ latency \in [EventClasses -> Seq(Nat)]

LEMMA Scrubbed ==
  ASSUME NEW x, apply(x) # REDACTED
  PROVE  \A i \in DOMAIN apply(x)[1] : ~is_secret(<<apply(x)[1][i]>>)
<1>1. apply(x) = x /\ ~is_secret(x[1])
  BY DEF apply
<1>2. ASSUME NEW i \in DOMAIN x[1], is_secret(<<x[1][i]>>) PROVE FALSE
  <2>1. DOMAIN <<x[1][i]>> = {1} /\ <<x[1][i]>>[1] = x[1][i]
    OBVIOUS
  <2>2. is_structural_secret(<<x[1][i]>>) => is_structural_secret(x[1])
    BY <2>1 DEF is_structural_secret
  <2>3. high_entropy_token(<<x[1][i]>>) => high_entropy_token(x[1])
    BY <2>1 DEF high_entropy_token
  <2> QED BY <1>1, <1>2, <2>2, <2>3 DEF is_secret
<1> QED BY <1>1, <1>2

\* The last of the events a view looks at.
LEMMA MaxOf ==
  ASSUME NEW n \in Nat, NEW T \in SUBSET (1..n), T # {}
  PROVE  Max(T) \in T /\ \A y \in T : y <= Max(T)
<1>1. \E x \in T : \A y \in T : y <= x
  <2>1. T \in SUBSET (0..n)
    OBVIOUS
  <2> QED BY <2>1, Greatest
<1>2. \E x \in T : \A y \in T : x >= y
  BY <1>1
<1> QED BY <1>2 DEF Max

\* No text of a view holds a token that would be redacted.
LEMMA AllShownScrubbed ==
  ASSUME ViewInv
  PROVE  LET f == FleetState
             Shown == {r[1] : r \in f.workspaces} \union {r[1] : r \in f.agents}
                        \union {f.activity[i].target : i \in DOMAIN f.activity}
                        \union {lines[i].text : i \in DOMAIN lines}
                        \union {resolve(id).target : id \in {id \in ViewIds : resolve(id) # NoTime}}
         IN  \A s \in Shown : s # REDACTED => \A i \in DOMAIN s[1] : ~is_secret(<<s[1][i]>>)
<1> DEFINE f == FleetState
<1>1. \A s \in {r[1] : r \in f.workspaces} : \E x : s = apply(x)
  <2>1. f.workspaces = {<<apply(id), workspaces[id]>> : id \in DOMAIN workspaces}
    BY DEF FleetState
  <2> HIDE DEF f
  <2> QED BY <2>1
<1>2. \A s \in {r[1] : r \in f.agents} : \E x : s = apply(x)
  <2>1. f.agents = {<<apply(id), agents[id]>> : id \in DOMAIN agents}
    BY DEF FleetState
  <2> HIDE DEF f
  <2> QED BY <2>1
<1>3. \A s \in {f.activity[i].target : i \in DOMAIN f.activity} : \E x : s = apply(x)
  <2>1. f.activity = [i \in DOMAIN git_activity |-> git_activity_entry(git_activity[i])]
    BY DEF FleetState
  <2> HIDE DEF f
  <2>2. ASSUME NEW i \in DOMAIN f.activity PROVE f.activity[i].target = apply(git_activity[i].id)
    BY <2>1 DEF git_activity_entry
  <2> QED BY <2>2
<1>4. \A s \in {lines[i].text : i \in DOMAIN lines} : \E x : s = apply(x)
  <2> SUFFICES ASSUME NEW i \in DOMAIN lines PROVE \E x : lines[i].text = apply(x)
    OBVIOUS
  <2> DEFINE W == {WatchLine(e) : e \in ViewEvents}
  <2>1. lines \in Seq(W)
    BY DEF ViewInv
  <2> HIDE DEF W
  <2>2. lines[i] \in W
    BY <2>1
  <2>3. PICK e \in ViewEvents : lines[i] = WatchLine(e)
    BY <2>2 DEF W
  <2> QED BY <2>3 DEF WatchLine
<1>5. \A s \in {resolve(id).target : id \in {id \in ViewIds : resolve(id) # NoTime}} : \E x : s = apply(x)
  <2> SUFFICES ASSUME NEW id \in ViewIds, resolve(id) # NoTime PROVE \E x : resolve(id).target = apply(x)
    OBVIOUS
  <2> QED BY DEF resolve
<1> HIDE DEF f
<1> DEFINE Shown == {r[1] : r \in f.workspaces} \union {r[1] : r \in f.agents}
                        \union {f.activity[i].target : i \in DOMAIN f.activity}
                        \union {lines[i].text : i \in DOMAIN lines}
                        \union {resolve(id).target : id \in {id \in ViewIds : resolve(id) # NoTime}}
<1>6. \A s \in Shown : \E x : s = apply(x)
  BY <1>1, <1>2, <1>3, <1>4, <1>5
<1> HIDE DEF Shown
<1>7. \A s \in Shown : s # REDACTED => \A i \in DOMAIN s[1] : ~is_secret(<<s[1][i]>>)
  BY <1>6, Scrubbed
<1> QED BY <1>7 DEF Shown, f

\* A workspace has the state of its latest event.
LEMMA WorkspacesExact ==
  ASSUME ViewInv
  PROVE  /\ FleetState.shown = Cardinality({vlog[i].id : i \in {i \in DOMAIN vlog :
                                  vlog[i].ok /\ vlog[i].kind \in WsKinds}})
         /\ \A i \in DOMAIN vlog :
              (/\ vlog[i].ok /\ vlog[i].kind \in WsKinds
               /\ \A j \in (i + 1)..Len(vlog) : vlog[j].id = vlog[i].id => vlog[j].kind \notin WsKinds)
             => workspaces[vlog[i].id] = workspace_state(vlog[i].kind)
<1>1. DOMAIN workspaces = WorkspacesOf(vlog)
  BY DEF workspaces
<1>2. FleetState.shown = Cardinality({vlog[i].id : i \in {i \in DOMAIN vlog :
                                  vlog[i].ok /\ vlog[i].kind \in WsKinds}})
  BY <1>1 DEF FleetState, WorkspacesOf
<1>3. Len(vlog) \in Nat /\ DOMAIN vlog = 1..Len(vlog)
  BY DEF ViewInv
<1>4. ASSUME NEW i \in DOMAIN vlog, vlog[i].ok, vlog[i].kind \in WsKinds,
             \A j \in (i + 1)..Len(vlog) : vlog[j].id = vlog[i].id => vlog[j].kind \notin WsKinds
      PROVE  workspaces[vlog[i].id] = workspace_state(vlog[i].kind)
  <2> DEFINE id == vlog[i].id
             at == {k \in DOMAIN vlog : vlog[k].ok /\ vlog[k].kind \in WsKinds /\ vlog[k].id = id}
  <2>1. i \in at /\ at \in SUBSET (1..Len(vlog))
    BY <1>3, <1>4
  <2>2. LastOf(WsKinds, LAMBDA e : e.id = id) = IF at = {} THEN 0 ELSE Max(at)
    BY DEF LastOf
  <2>3. \A k \in at : k <= i
    BY <1>3, <1>4
  <2> HIDE DEF at
  <2>4. Max(at) \in at /\ i <= Max(at)
    BY <1>3, <2>1, MaxOf
  <2>5. Max(at) = i
    BY <1>3, <2>1, <2>3, <2>4
  <2>6. id \in WorkspacesOf(vlog)
    BY <1>4 DEF WorkspacesOf
  <2>7. workspaces[id] = workspace_state(vlog[LastOf(WsKinds, LAMBDA e : e.id = id)].kind)
    BY <2>6 DEF workspaces
  <2>8. LastOf(WsKinds, LAMBDA e : e.id = id) = i
    BY <2>1, <2>2, <2>5
  <2> QED BY <2>7, <2>8
<1> QED BY <1>2, <1>4

\* An agent that completed or failed had been assigned.
LEMMA AgentsExact ==
  ASSUME ViewInv, NEW id \in DOMAIN agents, agents[id] # "Assigned"
  PROVE  \E i, j \in DOMAIN vlog : /\ i < j /\ vlog[i].id = id /\ vlog[j].id = id
                                   /\ vlog[i].kind = "agent.assigned"
                                   /\ vlog[j].kind \in {"agent.completed", "agent.failed"}
<1>1. Len(vlog) \in Nat /\ DOMAIN vlog = 1..Len(vlog)
  BY DEF ViewInv
<1>2. PICK k \in DOMAIN vlog : vlog[k].ok /\ vlog[k].kind = "agent.assigned" /\ vlog[k].id = id
  BY DEF agents
<1>3. agents[id] = AgentState(id)
  BY DEF agents
<1> DEFINE at == {i \in DOMAIN vlog : vlog[i].ok /\ vlog[i].kind \in {"agent.assigned"} /\ vlog[i].id = id}
           from == LastOf({"agent.assigned"}, LAMBDA e : e.id = id)
           done == {i \in (from + 1)..Len(vlog) :
                      vlog[i].ok /\ vlog[i].id = id
                      /\ vlog[i].kind \in {"agent.completed", "agent.failed"}}
<1>4. k \in at /\ at \in SUBSET (1..Len(vlog))
  BY <1>1, <1>2
<1>5. from = IF at = {} THEN 0 ELSE Max(at)
  BY DEF LastOf
<1>6. from \in at
  <2> HIDE DEF at
  <2> QED BY <1>1, <1>4, <1>5, MaxOf
<1>7. AgentState(id) = IF done = {} THEN "Assigned"
                       ELSE IF vlog[Max(done)].kind = "agent.completed" THEN "Completed" ELSE "Failed"
  BY DEF AgentState
<1> HIDE DEF from
<1>8. PICK j \in done : TRUE
  <2> HIDE DEF done
  <2> QED BY <1>3, <1>7
<1>9. from \in DOMAIN vlog /\ vlog[from].id = id /\ vlog[from].kind = "agent.assigned"
  BY <1>6
<1>10. /\ j \in DOMAIN vlog /\ from < j /\ vlog[j].id = id
       /\ vlog[j].kind \in {"agent.completed", "agent.failed"}
  BY <1>1, <1>8, <1>9
<1> QED BY <1>9, <1>10

\* The views are scrubbed and exact.
LEMMA ViewsClaim == ViewInv => ViewsScrubbedAndExact
<1> SUFFICES ASSUME ViewInv PROVE ViewsScrubbedAndExact
  OBVIOUS
<1>1. \A id \in ViewIds : is_safe_identifier_shape(id[1]) => ~is_structural_secret(id[1])
  BY DEF is_safe_identifier_shape, is_structural_secret
<1> QED BY <1>1, AllShownScrubbed, WorkspacesExact, AgentsExact DEF ViewsScrubbedAndExact

\* p puts the first n samples in ascending order.
Orders(p, s, n) == p \in Bijection(1..n, 1..n) /\ \A i, j \in 1..n : i < j => s[p[i]] <= s[p[j]]

\* One more sample: the least one first, the others in their order.
LEMMA OrderExtends ==
  ASSUME NEW n \in Nat \ {0}, NEW s \in [1..n -> Nat],
         \A t \in [1..(n - 1) -> Nat] : \E q : Orders(q, t, n - 1)
  PROVE  \E p : Orders(p, s, n)
<1> DEFINE V == {s[i] : i \in 1..n}
<1>1. V \in SUBSET Nat /\ V # {}
  <2>1. s[1] \in V
    OBVIOUS
  <2> QED BY <2>1
<1>2. PICK v \in V : \A y \in V : v <= y
  <2> HIDE DEF V
  <2> QED BY <1>1, Least
<1>3. PICK m \in 1..n : v = s[m]
  BY <1>2
<1>4. \A i \in 1..n : s[m] <= s[i]
  BY <1>2, <1>3
<1> DEFINE g(k) == IF k < m THEN k ELSE k + 1
           t == [k \in 1..(n - 1) |-> s[g(k)]]
<1>5. \A k \in 1..(n - 1) : g(k) \in 1..n /\ g(k) # m
  OBVIOUS
<1>6. \A k, l \in 1..(n - 1) : g(k) = g(l) => k = l
  OBVIOUS
<1>7. \A x \in 1..n : x # m => \E k \in 1..(n - 1) : g(k) = x
  <2> SUFFICES ASSUME NEW x \in 1..n, x # m PROVE \E k \in 1..(n - 1) : g(k) = x
    OBVIOUS
  <2>1. CASE x < m
    <3>1. x \in 1..(n - 1) /\ g(x) = x
      BY <2>1
    <3> QED BY <3>1
  <2>2. CASE x > m
    <3>1. x - 1 \in 1..(n - 1) /\ g(x - 1) = x
      BY <2>2
    <3> QED BY <3>1
  <2> QED BY <2>1, <2>2
<1> HIDE DEF g
<1>8. t \in [1..(n - 1) -> Nat] /\ \A k \in 1..(n - 1) : t[k] = s[g(k)]
  BY <1>5
<1> HIDE DEF t
<1>9. PICK q : Orders(q, t, n - 1)
  BY <1>8
<1>10. /\ q \in [1..(n - 1) -> 1..(n - 1)]
       /\ \A i, j \in 1..(n - 1) : q[i] = q[j] => i = j
       /\ \A k \in 1..(n - 1) : \E i \in 1..(n - 1) : q[i] = k
       /\ \A i, j \in 1..(n - 1) : i < j => t[q[i]] <= t[q[j]]
  BY <1>9 DEF Orders, Bijection, Injection, Surjection, IsInjective
<1> DEFINE p == [i \in 1..n |-> IF i = 1 THEN m ELSE g(q[i - 1])]
<1>13. \A i \in 1..n : i = 1 \/ i \in 2..n
  OBVIOUS
<1>18. \A i \in 2..n : i - 1 \in 1..(n - 1) /\ i \in 1..n /\ i # 1 /\ q[i - 1] \in 1..(n - 1)
  <2>1. \A i \in 2..n : i - 1 \in 1..(n - 1) /\ i \in 1..n /\ i # 1
    OBVIOUS
  <2> QED BY <1>10, <2>1
<1>11. p[1] = m /\ \A i \in 2..n : i - 1 \in 1..(n - 1) /\ p[i] = g(q[i - 1]) /\ q[i - 1] \in 1..(n - 1)
  <2>1. 1 \in 1..n
    OBVIOUS
  <2> QED BY <1>18, <2>1
<1>12. p \in [1..n -> 1..n] /\ DOMAIN p = 1..n
  <2>1. \A i \in 2..n : g(q[i - 1]) \in 1..n
    BY <1>5, <1>18
  <2> QED BY <1>13, <2>1
<1> HIDE DEF p
<1>14. ASSUME NEW i \in 1..n, NEW j \in 1..n, p[i] = p[j] PROVE i = j
  <2>1. CASE i = 1 /\ j \in 2..n
    BY <1>5, <1>11, <1>14, <2>1
  <2>2. CASE j = 1 /\ i \in 2..n
    BY <1>5, <1>11, <1>14, <2>2
  <2>3. CASE i \in 2..n /\ j \in 2..n
    <3>0. g(q[i - 1]) = g(q[j - 1]) /\ q[i - 1] \in 1..(n - 1) /\ q[j - 1] \in 1..(n - 1)
      BY <1>11, <1>14, <2>3
    <3>1. q[i - 1] = q[j - 1]
      BY <1>6, <3>0
    <3>2. i - 1 = j - 1
      BY <1>10, <1>11, <2>3, <3>1
    <3> QED BY <3>2
  <2> QED BY <1>13, <2>1, <2>2, <2>3
<1>15. ASSUME NEW x \in 1..n PROVE \E i \in 1..n : p[i] = x
  <2>1. CASE x = m
    <3>1. 1 \in 1..n
      OBVIOUS
    <3> QED BY <1>11, <2>1, <3>1
  <2>2. CASE x # m
    <3>1. PICK k \in 1..(n - 1) : g(k) = x
      BY <1>7, <2>2
    <3>2. PICK i \in 1..(n - 1) : q[i] = k
      BY <1>10
    <3>3. i + 1 \in 2..n /\ i + 1 \in 1..n /\ (i + 1) - 1 = i
      OBVIOUS
    <3> QED BY <1>11, <3>1, <3>2, <3>3
  <2> QED BY <2>1, <2>2
<1>16. ASSUME NEW i \in 1..n, NEW j \in 1..n, i < j PROVE s[p[i]] <= s[p[j]]
  <2>1. CASE i = 1
    BY <1>4, <1>11, <1>12, <2>1
  <2>2. CASE i \in 2..n
    <3>1. j \in 2..n /\ i - 1 < j - 1
      BY <1>16, <2>2
    <3>2. t[q[i - 1]] <= t[q[j - 1]]
      BY <1>10, <1>11, <2>2, <3>1
    <3> QED BY <1>8, <1>11, <2>2, <3>1, <3>2
  <2> QED BY <1>13, <2>1, <2>2
<1>17. p \in Bijection(1..n, 1..n)
  BY <1>12, <1>14, <1>15 DEF Bijection, Injection, Surjection, IsInjective
<1> QED BY <1>16, <1>17 DEF Orders

\* A finite list of samples can be sorted.
LEMMA OrderExists ==
  ASSUME NEW n \in Nat, NEW s \in [1..n -> Nat]
  PROVE  \E p : Orders(p, s, n)
<1> DEFINE Bad == {k \in Nat : \E t \in [1..k -> Nat] : ~\E p : Orders(p, t, k)}
<1>1. Bad = {}
  <2> SUFFICES ASSUME Bad # {} PROVE FALSE
    OBVIOUS
  <2>0. Bad \in SUBSET Nat
    OBVIOUS
  <2> HIDE DEF Bad
  <2>1. PICK k \in Bad : \A y \in Bad : k <= y
    BY <2>0, Least
  <2>2. k \in Nat /\ \E t \in [1..k -> Nat] : ~\E p : Orders(p, t, k)
    BY <2>1 DEF Bad
  <2>3. k # 0
    <3> SUFFICES ASSUME k = 0 PROVE FALSE
      OBVIOUS
    <3>1. PICK t \in [1..k -> Nat] : ~\E p : Orders(p, t, k)
      BY <2>2
    <3>2. 1..k = {}
      OBVIOUS
    <3>3. [i \in 1..k |-> i] \in Bijection(1..k, 1..k)
      BY <3>2 DEF Bijection, Injection, Surjection, IsInjective
    <3>4. Orders([i \in 1..k |-> i], t, k)
      BY <3>2, <3>3 DEF Orders
    <3> QED BY <3>1, <3>4
  <2>4. k - 1 \in Nat /\ k - 1 \notin Bad
    BY <2>1, <2>2, <2>3
  <2>5. \A t \in [1..(k - 1) -> Nat] : \E p : Orders(p, t, k - 1)
    BY <2>4 DEF Bad
  <2> QED BY <2>2, <2>3, <2>5, OrderExtends
<1> QED BY <1>1

\* What sort_unstable returns is sorted and has the same samples.
LEMMA Sorted ==
  ASSUME NEW s \in Seq(Nat)
  PROVE  \E p : Orders(p, s, Len(s)) /\ sort_unstable(s) = [i \in 1..Len(s) |-> s[p[i]]]
<1> DEFINE n == Len(s)
           p == CHOOSE p \in Bijection(1..n, 1..n) : \A i, j \in 1..n : i < j => s[p[i]] <= s[p[j]]
<1>1. n \in Nat /\ s \in [1..n -> Nat]
  OBVIOUS
<1>2. sort_unstable(s) = [i \in 1..n |-> s[p[i]]]
  BY DEF sort_unstable
<1>3. \E q \in Bijection(1..n, 1..n) : \A i, j \in 1..n : i < j => s[q[i]] <= s[q[j]]
  <2>1. \E q : Orders(q, s, n)
    BY <1>1, OrderExists
  <2> QED BY <2>1 DEF Orders
<1>4. Orders(p, s, n)
  BY <1>3 DEF Orders
<1> HIDE DEF p
<1> QED BY <1>2, <1>4

\* The rank is one of the ranks, and 95 of 100 are not above it.
LEMMA Rank ==
  ASSUME NEW n \in Nat \ {0}
  PROVE  LET k == (95 * n + 99) \div 100 IN k \in 1..n /\ 100 * k >= 95 * n
OBVIOUS

\* The percentile of a list of samples is one of them, and at most one in twenty is
\* above it.
LEMMA LatencyClaim ==
  ASSUME NEW s \in Seq(Nat), s # <<>>
  PROVE  /\ 100 * Cardinality({i \in DOMAIN s : s[i] <= p95(s)}) >= 95 * Len(s)
         /\ p95(s) \in {s[i] : i \in DOMAIN s}
<1> DEFINE n == Len(s)
           k == (95 * n + 99) \div 100
           U == {i \in DOMAIN s : s[i] <= p95(s)}
<1>1. n \in Nat \ {0} /\ DOMAIN s = 1..n /\ \A i \in 1..n : s[i] \in Nat
  OBVIOUS
<1>2. k \in 1..n /\ 100 * k >= 95 * n
  <2> HIDE DEF n
  <2> QED BY <1>1, Rank
<1>3. PICK p : Orders(p, s, n) /\ sort_unstable(s) = [i \in 1..n |-> s[p[i]]]
  BY Sorted
<1>4. p95(s) = sort_unstable(s)[k]
  BY DEF p95
<1> HIDE DEF n, k
<1>5. p95(s) = s[p[k]]
  BY <1>2, <1>3, <1>4
<1>6. /\ p \in [1..n -> 1..n] /\ \A i, j \in 1..n : p[i] = p[j] => i = j
      /\ \A i, j \in 1..n : i < j => s[p[i]] <= s[p[j]]
  BY <1>3 DEF Orders, Bijection, Injection, IsInjective
<1> DEFINE f == [i \in 1..k |-> p[i]]
<1>7. \A i \in 1..k : i \in 1..n /\ p[i] \in U
  <2> TAKE i \in 1..k
  <2>1. i \in 1..n /\ p[i] \in 1..n /\ (i = k \/ i < k)
    BY <1>1, <1>2, <1>6
  <2>2. s[p[i]] <= s[p[k]]
    <3>1. s[p[i]] \in Nat
      BY <1>1, <2>1
    <3> QED BY <1>2, <1>6, <2>1, <3>1
  <2> QED BY <1>1, <1>5, <2>1, <2>2
<1>8. f \in Injection(1..k, U)
  <2> HIDE DEF U
  <2> QED BY <1>6, <1>7 DEF Injection, IsInjective
<1>9. IsFiniteSet(U)
  <2>1. IsFiniteSet(1..n) /\ U \subseteq 1..n
    BY <1>1, FS_Interval
  <2> HIDE DEF U
  <2> QED BY <2>1, FS_Subset
<1> HIDE DEF U, f
<1>10. Cardinality(1..k) <= Cardinality(U) /\ Cardinality(U) \in Nat
  BY <1>8, <1>9, FS_Injection, FS_CardinalityType
<1>11. Cardinality(1..k) = k
  BY <1>2, FS_Interval
<1>12. 100 * Cardinality(U) >= 95 * n
  BY <1>1, <1>2, <1>10, <1>11
<1>13. p95(s) \in {s[i] : i \in DOMAIN s}
  BY <1>1, <1>2, <1>5, <1>6
<1> QED BY <1>12, <1>13 DEF U, n

\* The latencies of every class are honest.
LEMMA LatencyClaims == ViewInv => LatencyHonest
<1> SUFFICES ASSUME ViewInv, NEW c \in EventClasses, latency[c] # <<>>
    PROVE  /\ 100 * Cardinality({i \in DOMAIN latency[c] : latency[c][i] <= p95(latency[c])})
                >= 95 * Len(latency[c])
           /\ p95(latency[c]) \in {latency[c][i] : i \in DOMAIN latency[c]}
  BY DEF LatencyHonest
<1>1. latency[c] \in Seq(Nat)
  BY DEF ViewInv
<1> QED BY <1>1, LatencyClaim

LEMMA ViewsStart == ViewInit => ViewInv
BY DEF ViewInit, ViewInv

LEMMA ViewsStep == ViewInv /\ [Process]_viewVars => ViewInv'
<1> SUFFICES ASSUME ViewInv, [Process]_viewVars PROVE ViewInv'
  OBVIOUS
<1>1. CASE Process
  <2> DEFINE E(kind, id, ok) ==
        [kind |-> kind, id |-> id, ok |-> ok, seq |-> Len(vlog),
         marks |-> IF kind = "ref.update" THEN {"attempt", "merged_from"} ELSE {}]
  <2>1. PICK kind \in ViewKinds, id \in ViewIds, ok \in BOOLEAN, ms \in {1, 2} :
          /\ vlog' = Append(vlog, E(kind, id, ok))
          /\ lines' = Append(lines, WatchLine(E(kind, id, ok)))
          /\ latency' = record_latency(latency, event_class(kind), ms)
    BY <1>1 DEF Process
  <2> DEFINE e == E(kind, id, ok)
             W == {WatchLine(x) : x \in ViewEvents}
  <2>2. e \in ViewEvents
    <3>1. Len(vlog) \in Nat
      BY DEF ViewInv
    <3>2. (IF kind = "ref.update" THEN {"attempt", "merged_from"} ELSE {}) \in SUBSET {"attempt", "merged_from"}
      OBVIOUS
    <3> QED BY <3>1, <3>2 DEF ViewEvents
  <2> HIDE DEF E
  <2>3. vlog' \in Seq(ViewEvents)
    <3> HIDE DEF e
    <3> QED BY <2>1, <2>2 DEF ViewInv, e
  <2>4. lines' \in Seq(W)
    <3>1. lines \in Seq(W) /\ WatchLine(e) \in W
      BY <2>2 DEF ViewInv
    <3> HIDE DEF W
    <3> QED BY <2>1, <3>1
  <2>5. event_class(kind) \in EventClasses
    BY DEF event_class, EventClasses, ViewKinds, WsKinds
  <2>6. latency' \in [EventClasses -> Seq(Nat)]
    BY <2>1, <2>5 DEF record_latency, ViewInv
  <2> QED BY <2>3, <2>4, <2>6 DEF ViewInv
<1>2. CASE UNCHANGED viewVars
  BY <1>2 DEF viewVars, ViewInv
<1> QED BY <1>1, <1>2

-----------------------------------------------------------------------------
(* The stores together.  Each has its own state, so a step of the ledger is *)
(* a step of one of them and changes nothing of the others.                 *)

LedgerInv ==
  /\ ColdInv /\ CharterInv /\ BlobInv /\ EnvelopeInv
  /\ ViewInv /\ JournalInv /\ ErasureInv /\ TrustInv

\* A step of the ledger is a step of each store, or leaves it as it is.
LEMMA LedgerSplits ==
  ASSUME [LedgerNext]_ledgerVars
  PROVE  /\ [ColdNext]_coldVars /\ [BlobNext]_blobVars
         /\ [RecordNext \/ RollNext]_envelopeVars
         /\ [Process]_viewVars /\ [Process \/ JournalNext]_<<viewVars, journalVars>>
         /\ [ErasureNext]_erasureVars /\ [TrustNext]_trustVars
<1>1. UNCHANGED recVars /\ UNCHANGED rollVars => UNCHANGED envelopeVars
  BY DEF recVars, rollVars, envelopeVars
<1>2. UNCHANGED viewVars /\ UNCHANGED journalVars => UNCHANGED <<viewVars, journalVars>>
  OBVIOUS
<1>3. UNCHANGED tenantVars /\ UNCHANGED releaseVars /\ UNCHANGED identityVars /\ UNCHANGED smartVars
        => UNCHANGED trustVars
  BY DEF trustVars
<1>4. CASE UNCHANGED ledgerVars
  BY <1>4 DEF ledgerVars
<1>5. CASE part = "cold" /\ ColdNext /\ Others("cold")
  BY <1>1, <1>2, <1>3, <1>5 DEF Others
<1>6. CASE part = "locks" /\ LockNext /\ Others("locks")
  BY <1>1, <1>2, <1>3, <1>6 DEF Others
<1>7. CASE part = "blobs" /\ BlobNext /\ Others("blobs")
  BY <1>1, <1>2, <1>3, <1>7 DEF Others
<1>8. CASE part = "record" /\ RecordNext /\ Others("record")
  BY <1>2, <1>3, <1>8 DEF Others
<1>9. CASE part = "roll" /\ RollNext /\ Others("roll")
  BY <1>2, <1>3, <1>9 DEF Others
<1>10. CASE part = "views" /\ Process /\ Others("views")
  BY <1>1, <1>3, <1>10 DEF Others
<1>11. CASE part = "journal" /\ JournalNext /\ Others("journal")
  BY <1>1, <1>3, <1>11 DEF Others
<1>12. CASE part = "erasure" /\ ErasureNext /\ Others("erasure")
  BY <1>1, <1>2, <1>3, <1>12 DEF Others
<1>13. CASE part = "tenants" /\ TenantNext /\ Others("tenants")
  BY <1>1, <1>2, <1>13 DEF Others, TrustNext
<1>14. CASE part = "releases" /\ ReleaseNext /\ Others("releases")
  BY <1>1, <1>2, <1>14 DEF Others, TrustNext
<1>15. CASE part = "identity" /\ IdentityNext /\ Others("identity")
  BY <1>1, <1>2, <1>15 DEF Others, TrustNext
<1>16. CASE part = "smart" /\ SmartNext /\ Others("smart")
  BY <1>1, <1>2, <1>16 DEF Others, TrustNext
<1>17. CASE part = "settle" /\ Settle /\ Others("settle")
  BY <1>1, <1>2, <1>3, <1>17 DEF Others
<1>18. CASE part = "spool" /\ Spool /\ Others("spool")
  BY <1>1, <1>2, <1>3, <1>18 DEF Others
<1> QED
  BY <1>4, <1>5, <1>6, <1>7, <1>8, <1>9, <1>10, <1>11, <1>12, <1>13, <1>14, <1>15, <1>16, <1>17, <1>18
     DEF LedgerNext

LEMMA LedgerHolds == LedgerSpec => []LedgerInv
<1>1. LedgerInit => LedgerInv
  BY ColdStart, CharterStart, BlobStarts, EnvelopeStarts, ViewsStart, JournalStarts, ErasureStart,
     TrustStarts DEF LedgerInit, LedgerInv
<1>2. LedgerInv /\ [LedgerNext]_ledgerVars => LedgerInv'
  <2> SUFFICES ASSUME LedgerInv, [LedgerNext]_ledgerVars PROVE LedgerInv'
    OBVIOUS
  <2>1. ColdInv' /\ CharterInv'
    BY LedgerSplits, ColdStep, CharterStep DEF LedgerInv
  <2>2. BlobInv' /\ EnvelopeInv'
    BY LedgerSplits, BlobKeeps, EnvelopeSteps DEF LedgerInv
  <2>3. ViewInv' /\ JournalInv'
    BY LedgerSplits, ViewsStep, JournalSteps DEF LedgerInv
  <2>4. ErasureInv' /\ TrustInv'
    BY LedgerSplits, ErasureStep, TrustSteps DEF LedgerInv
  <2> QED BY <2>1, <2>2, <2>3, <2>4 DEF LedgerInv
<1> QED BY <1>1, <1>2, PTL DEF LedgerSpec

\* Whatever is recorded, redacted, compacted and lost, in any order and for any
\* bounds, tails and mirrors: recovery gives the chain of the log as far as any
\* source goes and refuses exactly when it must (recover_with_sources), compact
\* leaves no hole, the two altitudes tell the same commits, acknowledged blobs
\* are found again, and envelopes refer to stored blobs.
THEOREM LedgerRecordKept == LedgerSpec => []RecordKept
<1>1. LedgerInv => RecordKept
  BY ColdExact, WholeAfterCompaction, AltitudesClaim, BlobClaims
     DEF LedgerInv, EnvelopeInv, RecordKept
<1> QED BY <1>1, LedgerHolds, PTL

\* For any events, ids, keys, objects and tenants: what the views show is
\* scrubbed and is the state of the latest event, the latency figure is a sample
\* that 95 of 100 do not exceed, a resume gives a journal of the tenant, a
\* cascade called complete left nothing of the datum, and no boundary is crossed.
THEOREM LedgerViewsHonest == LedgerSpec => []ViewsHonest
<1>1. LedgerInv => ViewsHonest
  BY ViewsClaim, LatencyClaims, ErasureClaims, TrustClaims
     DEF LedgerInv, JournalInv, ViewsHonest
<1> QED BY <1>1, LedgerHolds, PTL
=============================================================================
