------------------------------ MODULE GitProofs ------------------------------
(***************************************************************************)
(* The git front and the mirror for any refs, clients, tips, queue and     *)
(* crashes: pushes are compared and appended, main moves by landing alone, *)
(* the outbound queue keeps its order, the App and the status outputs tell *)
(* the truth, no hook of the user is lost, and what the wire carries is    *)
(* whole.                                                                  *)
(***************************************************************************)
EXTENDS GitProto, MirrorSync, MirrorStatus, MirrorImport, Hooks, FiniteSetTheorems,
        SequenceTheorems, WellFoundedInduction, TLAPS

------------------------------------------------------------------------------
(* Bounded sets of positions.                                              *)

\* A set of naturals that is not empty has a least member.
LEMMA LeastNat ==
  ASSUME NEW T \in SUBSET Nat, T # {}
  PROVE  \E x \in T : \A y \in T : x <= y
<1>1. PICK x \in T : \A y \in T : <<y, x>> \notin OpToRel(<, Nat)
  BY NatLessThanWellFounded, WFMin
<1>2. \A y \in T : ~(y < x)
  BY <1>1 DEF OpToRel
<1> QED BY <1>2

\* Max picks the last of a set of positions.
LEMMA Greatest ==
  ASSUME NEW n \in Nat, NEW S \in SUBSET (1..n), S # {}
  PROVE  Max(S) \in S /\ \A y \in S : y <= Max(S)
<1> DEFINE T == {b \in Nat : \A y \in S : y <= b}
<1>1. n \in T
  OBVIOUS
<1>2. PICK b \in T : \A c \in T : b <= c
  BY <1>1, LeastNat
<1>3. b \in S
  <2> SUFFICES ASSUME b \notin S PROVE FALSE
    OBVIOUS
  <2>1. \A y \in S : y <= b - 1
    OBVIOUS
  <2>2. b - 1 \in Nat
    <3>1. PICK y \in S : TRUE
      OBVIOUS
    <3>2. y \in Nat /\ y >= 1 /\ y <= b - 1 /\ b \in Nat
      BY <2>1
    <3> QED BY <3>2
  <2>3. b - 1 \in T
    BY <2>1, <2>2
  <2> QED BY <1>2, <2>3
<1>4. \E x \in S : \A y \in S : x >= y
  BY <1>3
<1>5. Max(S) \in S /\ \A y \in S : Max(S) >= y
  BY <1>4 DEF Max
<1> QED BY <1>5

\* A position beyond all others is their maximum.
LEMMA GreatestAdded ==
  ASSUME NEW n \in Nat, NEW S \in SUBSET (1..n)
  PROVE  Max(S \cup {n + 1}) = n + 1
<1> DEFINE T == S \cup {n + 1}
<1>1. T \in SUBSET (1..(n + 1)) /\ T # {}
  OBVIOUS
<1>2. Max(T) \in T /\ \A y \in T : y <= Max(T)
  BY <1>1, Greatest
<1>3. Max(T) \in 1..(n + 1) /\ n + 1 <= Max(T)
  BY <1>1, <1>2
<1> QED BY <1>3

------------------------------------------------------------------------------
(* The git front.                                                          *)

PushRecords == [ref : Refs, target : Targets, expected : Targets \cup {NoOid}]
Views == [Refs -> Targets \cup {NoOid}]

\* What the compare-and-append of a push needs: typed records, typed advertisements.
PushInv ==
  /\ reflog \in Seq(PushRecords)
  /\ DOMAIN client = Clients
  /\ \A c \in Clients : "adv" \in DOMAIN client[c] /\ client[c].adv \in Views
  /\ NoLostPush

\* A replay of the log gives each ref one of the targets pushed to it.
LEMMA ViewTyped ==
  ASSUME reflog \in Seq(PushRecords)
  PROVE  RefView \in Views
<1>1. ASSUME NEW r \in Refs PROVE RefView[r] \in Targets \cup {NoOid}
  <2> DEFINE moves == {k \in 1..Len(reflog) : reflog[k].ref = r}
  <2>1. CASE moves = {}
    BY <2>1 DEF RefView
  <2>2. CASE moves # {}
    <3>1. Max(moves) \in moves
      <4>1. Len(reflog) \in Nat /\ moves \in SUBSET (1..Len(reflog))
        OBVIOUS
      <4> HIDE DEF moves
      <4> QED BY <4>1, <2>2, Greatest
    <3>2. RefView[r] = reflog[Max(moves)].target
      BY <2>2 DEF RefView
    <3>3. Max(moves) \in 1..Len(reflog)
      BY <3>1
    <3> HIDE DEF moves
    <3>4. reflog[Max(moves)] \in PushRecords
      BY <3>3
    <3> QED BY <3>2, <3>4 DEF PushRecords
  <2> QED BY <2>1, <2>2
<1> QED BY <1>1 DEF RefView, Views

\* An accepted update is appended with the value the ref had.
LEMMA PushAppends ==
  ASSUME PushInv, NEW c \in Clients, NEW ref \in Refs, NEW target \in Targets,
         RefView[ref] = client[c].adv[ref],
         reflog' = Append(reflog, [ref |-> ref, target |-> target, expected |-> client[c].adv[ref]]),
         client' = client
  PROVE  PushInv'
<1> DEFINE e == [ref |-> ref, target |-> target, expected |-> client[c].adv[ref]]
<1>1. e \in PushRecords
  BY DEF PushInv, Views, PushRecords
<1>2. reflog' \in Seq(PushRecords) /\ Len(reflog') = Len(reflog) + 1
  BY <1>1 DEF PushInv
<1>3. \A k \in 1..Len(reflog) : reflog'[k] = reflog[k]
  BY DEF PushInv
<1>4. reflog'[Len(reflog) + 1] = e
  BY DEF PushInv
<1>5. ASSUME NEW n \in 1..Len(reflog')
      PROVE  LET earlier == {k \in 1..(n - 1) : reflog'[k].ref = reflog'[n].ref} IN
             reflog'[n].expected = IF earlier = {} THEN NoOid ELSE reflog'[Max(earlier)].target
  <2> DEFINE old == {k \in 1..(n - 1) : reflog[k].ref = reflog'[n].ref}
             new == {k \in 1..(n - 1) : reflog'[k].ref = reflog'[n].ref}
  <2>1. Len(reflog) \in Nat /\ n - 1 \in Nat /\ n - 1 <= Len(reflog)
    BY <1>2 DEF PushInv
  <2>2. old = new
    BY <1>3, <2>1
  <2>3. old # {} => Max(old) \in old
    <3>1. old \in SUBSET (1..(n - 1))
      OBVIOUS
    <3> HIDE DEF old
    <3> QED BY <2>1, <3>1, Greatest
  <2>4. old # {} => reflog'[Max(old)] = reflog[Max(old)]
    <3>1. old \in SUBSET (1..Len(reflog))
      BY <2>1
    <3> HIDE DEF old
    <3> QED BY <3>1, <2>3, <1>3
  <2>5. reflog'[n].expected = IF old = {} THEN NoOid ELSE reflog[Max(old)].target
    <3>1. CASE n <= Len(reflog)
      <4>1. n \in 1..Len(reflog) /\ reflog'[n] = reflog[n]
        BY <3>1, <1>3, <2>1
      <4>2. old = {k \in 1..(n - 1) : reflog[k].ref = reflog[n].ref}
        BY <4>1
      <4> QED BY <4>1, <4>2 DEF PushInv, NoLostPush
    <3>2. CASE n > Len(reflog)
      <4>1. n = Len(reflog) + 1 /\ reflog'[n] = e
        BY <3>2, <1>2, <1>4, <2>1
      <4>2. old = {k \in 1..Len(reflog) : reflog[k].ref = ref}
        BY <4>1, <2>1
      <4>3. RefView[ref] = IF old = {} THEN NoOid ELSE reflog[Max(old)].target
        BY <4>2 DEF RefView
      <4> QED BY <4>1, <4>3
    <3> HIDE DEF old
    <3> QED BY <3>1, <3>2, <2>1
  <2> HIDE DEF old, new
  <2>6. reflog'[n].expected = IF new = {} THEN NoOid ELSE reflog'[Max(new)].target
    BY <2>2, <2>4, <2>5
  <2> QED BY <2>6 DEF new
<1> QED BY <1>2, <1>5 DEF PushInv, NoLostPush

\* Receive decides before its first write, on the value the client was shown.
LEMMA VerdictChecks ==
  ASSUME NEW pack, NEW u, NEW ref, NEW target, NEW expected, NEW chain,
         receive_verdict(pack, u, ref, target, expected, chain) = "none"
  PROVE  RefView[ref] = expected
BY DEF receive_verdict

LEMMA PushStep == ASSUME PushInv, [GitNext]_gitVars PROVE PushInv'
<1>1. CASE UNCHANGED gitVars
  BY <1>1 DEF PushInv, NoLostPush, gitVars
<1>2. ASSUME NEW c \in Clients, NEW pack \in Packs, Receive(c, pack) PROVE PushInv'
  <2>1. PICK ref \in Refs, target \in Targets :
            /\ RefView[ref] = client[c].adv[ref]
            /\ record_ref_update(ref, target, client[c].adv[ref])
            /\ client' = client
    BY <1>2, VerdictChecks DEF Receive
  <2> QED BY <2>1, PushAppends DEF record_ref_update
<1>3. ASSUME NEW c \in Clients, NEW ref \in Refs, NEW target \in Targets, NEW chain,
             PushOrdered(c, ref, target, chain)
      PROVE  PushInv'
  BY <1>3, PushAppends DEF PushOrdered, record_external_change
<1>4. ASSUME NEW c \in Clients, UNCHANGED reflog,
             DOMAIN client' = Clients,
             \A d \in Clients : /\ "adv" \in DOMAIN client'[d]
                                /\ client'[d].adv = client[d].adv \/ client'[d].adv = RefView
      PROVE  PushInv'
  BY <1>4, ViewTyped DEF PushInv, NoLostPush
<1>5. ASSUME NEW c \in Clients, Advertise(c) PROVE PushInv'
  BY <1>5, <1>4 DEF PushInv, Advertise
<1>6. ASSUME NEW c \in Clients, Fetch(c) PROVE PushInv'
  BY <1>6, <1>4 DEF PushInv, Fetch
<1>7. ASSUME NEW c \in Clients, NEW depth \in Depths, Deepen(c, depth) PROVE PushInv'
  BY <1>7, <1>4 DEF PushInv, Deepen
<1>8. ASSUME NEW c \in Clients, FetchShallow(c) PROVE PushInv'
  <2>1. PICK objs, wants, shallow :
            client' = [client EXCEPT ![c].objs = objs, ![c].wants = wants, ![c].shallow = shallow, ![c].asked = {}]
    <3>1. PICK q \in client[c].asked :
            LET served == IF q.boundary = {} THEN serve_request(cas, WantHave(Range(q.wants), {}))
                          ELSE collect_shallow_at(cas, q.wants, q.boundary)
            IN  client' = [client EXCEPT ![c].objs = served.oids, ![c].wants = Range(q.wants),
                                         ![c].shallow = served.boundary, ![c].asked = {}]
      BY <1>8, Zenon DEF FetchShallow
    <3> DEFINE served == IF q.boundary = {} THEN serve_request(cas, WantHave(Range(q.wants), {}))
                         ELSE collect_shallow_at(cas, q.wants, q.boundary)
    <3>2. client' = [client EXCEPT ![c].objs = served.oids, ![c].wants = Range(q.wants),
                                   ![c].shallow = served.boundary, ![c].asked = {}]
      BY <3>1, Zenon
    <3> QED BY <3>2, Zenon
  <2>2. UNCHANGED reflog
    BY <1>8 DEF FetchShallow
  <2> QED BY <2>1, <2>2, <1>4 DEF PushInv
<1>9. ASSUME NEW c \in Clients, FetchMore(c) PROVE PushInv'
  BY <1>9, <1>4 DEF PushInv, FetchMore
<1> QED BY <1>1, <1>2, <1>3, <1>5, <1>6, <1>7, <1>8, <1>9 DEF GitNext

\* No push is lost: whatever clients push at the same time, through the receiver
\* or the serialized writer, a record moves its ref from the value that its
\* sender was shown, and that is the value the record before it left.
THEOREM PushesKept == GitSpec => []NoLostPush
<1>1. GitInit => PushInv
  BY DEF GitInit, PushInv, NoLostPush, Views
<1>2. PushInv => NoLostPush
  BY DEF PushInv
<1> QED BY <1>1, <1>2, PushStep, PTL DEF GitSpec

------------------------------------------------------------------------------
(* The mirror: what its log may hold.                                      *)

TipOrNone == Tips \cup {NoTip}

\* A ref.update never names main, and one of a side ref has the tip of its name.
Updates == {e \in [kind : {"ref.update"}, ref : Branches \cup SideRefs, tip : Tips, by : {"any"}] :
              e.ref \in SideRefs => e.tip = e.ref[3]}
Landings == [kind : {"intent.landed"}, ref : {Main}, tip : Tips, by : {"orchestrator"}]
Denials == [kind : {"authz.denied"}, ref : {NoTip}, tip : {NoTip}, by : Chains]
MirrorRecords == Updates \cup Landings \cup Denials

QueueEntries == [seq : Nat \ {0}, ref : MirrorRefs, oid : Tips]
PushReports == [seq : Nat \ {0}, ref : MirrorRefs, oid : Tips, verdict : {"verified", "diverged", "rejected"}]
Counts == [pushes : Nat, crashes : Nat, seqs : Nat, backpressure : Nat, moves : [MirrorRefs -> Nat],
           user : [MirrorRefs -> BOOLEAN], emits : [MirrorRefs -> Nat]]

MirrorTypeOK ==
  /\ mlog \in Seq(MirrorRecords)
  /\ emitted \in [MirrorRefs -> TipOrNone] /\ ingested \in [MirrorRefs -> TipOrNone]
  /\ authority \in [MirrorRefs -> {"Forge", NoTip}] /\ authority[Main] = "Forge"
  /\ ghub \in [MirrorRefs -> TipOrNone]
  /\ mq \in Seq(QueueEntries) /\ snap \in Seq(QueueEntries)
  /\ flying \in QueueEntries \cup {NoEntry}
  /\ reports \in Seq(PushReports)
  /\ arbitrated \subseteq Branches \X Tips
  /\ counts \in Counts

\* A landing alone moves main, and a side ref keeps the tip it was minted for.
LEMMA RecordsTell ==
  ASSUME NEW e \in MirrorRecords
  PROVE  /\ (e.ref = Main) <=> (e.kind = "intent.landed")
         /\ e.kind = "intent.landed" => e.by = "orchestrator"
         /\ e.ref \in SideRefs => e.tip = e.ref[3]
         /\ e.ref \in MirrorRefs => e.tip \in Tips
         /\ e.tip \in TipOrNone
<1> USE SideRefsApart, MirrorConstants DEF MirrorRefs
<1>1. CASE e \in Updates
  BY <1>1 DEF Updates, TipOrNone
<1>2. CASE e \in Landings
  BY <1>2 DEF Landings, TipOrNone
<1>3. CASE e \in Denials
  BY <1>3 DEF Denials, TipOrNone
<1> QED BY <1>1, <1>2, <1>3 DEF MirrorRecords

LEMMA RecordsFit ==
  ASSUME NEW r \in Branches, NEW t \in Tips
  PROVE  /\ RefRecord(r, t) \in Updates
         /\ RefRecord(incident_ref_name(r, t), t) \in Updates
         /\ RefRecord(proposed_ref_name(t), t) \in Updates
<1> USE SideRefsApart, MirrorConstants DEF MirrorRefs
<1>1. r \notin SideRefs
  OBVIOUS
<1>2. incident_ref_name(r, t) \in SideRefs /\ incident_ref_name(r, t)[3] = t
  BY DEF incident_ref_name, SideRefs
<1>3. proposed_ref_name(t) \in SideRefs /\ proposed_ref_name(t)[3] = t
  BY DEF proposed_ref_name, SideRefs
<1> QED BY <1>1, <1>2, <1>3 DEF RefRecord, Updates

\* The tips of the refs are tips.
LEMMA ForgeTips ==
  ASSUME mlog \in Seq(MirrorRecords), NEW r
  PROVE  /\ forge_tip(r) \in TipOrNone
         /\ r \in MirrorRefs \/ r \in SideRefs => (forge_tip(r) = NoTip <=> {i \in DOMAIN mlog : mlog[i].ref = r} = {})
<1> DEFINE at == {i \in DOMAIN mlog : mlog[i].ref = r}
<1>1. Len(mlog) \in Nat /\ at \in SUBSET (1..Len(mlog))
  OBVIOUS
<1>2. CASE at = {}
  BY <1>2 DEF forge_tip, TipAt, TipOrNone
<1>3. CASE at # {}
  <2>1. Max(at) \in at
    <3> HIDE DEF at
    <3> QED BY <1>1, <1>3, Greatest
  <2>2. mlog[Max(at)] \in MirrorRecords /\ mlog[Max(at)].ref = r
    BY <1>1, <2>1
  <2>3. forge_tip(r) = mlog[Max(at)].tip
    BY <1>3 DEF forge_tip, TipAt
  <2> HIDE DEF at
  <2>4. forge_tip(r) \in TipOrNone /\ (r \in SideRefs => forge_tip(r) = r[3]) /\ (r \in MirrorRefs => forge_tip(r) \in Tips)
    BY <2>2, <2>3, RecordsTell
  <2>5. r \in SideRefs => r[3] \in Tips
    BY DEF SideRefs
  <2> QED BY <1>3, <2>4, <2>5, MirrorConstants DEF at
<1> QED BY <1>2, <1>3

\* Appending a record moves its own ref and no other.
LEMMA Appended ==
  ASSUME mlog \in Seq(MirrorRecords), NEW e \in MirrorRecords, mlog' = Append(mlog, e), NEW r
  PROVE  /\ forge_tip(r)' = IF e.ref = r THEN e.tip ELSE forge_tip(r)
         /\ Cardinality({i \in DOMAIN mlog' : mlog'[i].ref = r}) =
              Cardinality({i \in DOMAIN mlog : mlog[i].ref = r}) + (IF e.ref = r THEN 1 ELSE 0)
<1> DEFINE n == Len(mlog)
           old == {i \in DOMAIN mlog : mlog[i].ref = r}
           new == {i \in DOMAIN mlog' : mlog'[i].ref = r}
<1>1. n \in Nat /\ DOMAIN mlog = 1..n /\ DOMAIN mlog' = 1..(n + 1)
  OBVIOUS
<1>2. \A i \in 1..n : mlog'[i] = mlog[i]
  OBVIOUS
<1>3. mlog'[n + 1] = e
  OBVIOUS
<1>4. old \in SUBSET (1..n)
  BY <1>1
<1>5. IsFiniteSet(old) /\ n + 1 \notin old /\ Cardinality(old) \in Nat
  <2>1. IsFiniteSet(1..n)
    BY <1>1, FS_Interval
  <2>2. IsFiniteSet(old)
    BY <2>1, <1>4, FS_Subset
  <2> QED BY <2>2, <1>4, <1>1, FS_CardinalityType
<1>6. forge_tip(r) = TipAt(mlog, old) /\ forge_tip(r)' = TipAt(mlog', new)
  BY DEF forge_tip
<1>7. CASE e.ref = r
  <2>1. new = old \cup {n + 1}
    BY <1>1, <1>2, <1>3, <1>7
  <2> HIDE DEF old, new
  <2>2. Max(new) = n + 1
    BY <2>1, <1>4, <1>1, GreatestAdded
  <2>3. TipAt(mlog', new) = e.tip
    BY <2>1, <2>2, <1>3 DEF TipAt
  <2>4. Cardinality(new) = Cardinality(old) + 1
    BY <2>1, <1>5, FS_AddElement
  <2> QED BY <2>3, <2>4, <1>6, <1>7 DEF old, new
<1>8. CASE e.ref # r
  <2>1. new = old
    BY <1>1, <1>2, <1>3, <1>8
  <2> HIDE DEF old, new
  <2>2. old # {} => Max(old) \in 1..n
    BY <1>4, <1>1, Greatest
  <2>3. TipAt(mlog', old) = TipAt(mlog, old)
    BY <1>2, <2>2 DEF TipAt
  <2>4. forge_tip(r)' = forge_tip(r) /\ Cardinality(new) = Cardinality(old) + 0
    BY <2>1, <2>3, <1>5, <1>6
  <2> QED BY <2>4, <1>8 DEF old, new
<1> QED BY <1>7, <1>8

------------------------------------------------------------------------------
(* The log side of the engine: arbitration, and one emission per move.     *)

Place(r) == incident_ref_name(r[1], r[2])

\* Every move of a ref is a record, and an emission is still due or its tip is booked.
SyncInv ==
  /\ \A p \in arbitrated : forge_tip(Place(p)) = p[2]
  /\ \A r \in MirrorRefs :
       /\ counts.moves[r] = Cardinality({i \in DOMAIN mlog : mlog[i].ref = r})
       /\ counts.emits[r] <= counts.moves[r]
       /\ counts.emits[r] = counts.moves[r] => emitted[r] = forge_tip(r)

LEMMA SideRefsInjective ==
  ASSUME NEW p \in Branches \X Tips, NEW r \in Branches, NEW t \in Tips
  PROVE  /\ Place(p) \in SideRefs /\ Place(p)[3] = p[2]
         /\ Place(p) \notin MirrorRefs /\ Place(p) # proposed_ref_name(t)
         /\ incident_ref_name(r, t) \notin MirrorRefs /\ proposed_ref_name(t) \notin MirrorRefs
         /\ Place(<<r, t>>) = incident_ref_name(r, t)
BY SideRefsApart, MirrorConstants DEF Place, incident_ref_name, proposed_ref_name, SideRefs, MirrorRefs

\* A record that keeps the tip a side ref is named for keeps what was arbitrated.
LEMMA LosersStay ==
  ASSUME mlog \in Seq(MirrorRecords), arbitrated \subseteq Branches \X Tips, SyncInv,
         NEW e \in MirrorRecords, mlog' = Append(mlog, e)
  PROVE  \A p \in arbitrated : forge_tip(Place(p))' = p[2]
<1> SUFFICES ASSUME NEW p \in arbitrated PROVE forge_tip(Place(p))' = p[2]
  OBVIOUS
<1>1. Place(p) \in SideRefs /\ Place(p)[3] = p[2]
  BY SideRefsInjective DEF Place, incident_ref_name, SideRefs
<1>2. e.ref = Place(p) => e.tip = p[2]
  BY <1>1, RecordsTell
<1>3. forge_tip(Place(p))' = IF e.ref = Place(p) THEN e.tip ELSE forge_tip(Place(p))
  BY Appended
<1> QED BY <1>2, <1>3 DEF SyncInv

\* The function reflect_bounded defines, up to position m of its order.
IsPass(f, order, m) ==
  f = [i \in 0..m |-> IF i = 0 THEN [out |-> <<>>, halted |-> FALSE] ELSE ReflectOne(order[i], f[i - 1])]

LEMMA PassExists ==
  ASSUME NEW order, NEW m \in Nat
  PROVE  \E f : IsPass(f, order, m)
<1> DEFINE Bad == {k \in Nat : ~\E f : IsPass(f, order, k)}
           Start == [out |-> <<>>, halted |-> FALSE]
<1> SUFFICES ASSUME Bad # {} PROVE FALSE
  OBVIOUS
<1> HIDE DEF Bad, Start
<1>1. PICK k \in Bad : \A y \in Bad : k <= y
  BY LeastNat DEF Bad
<1>2. k \in Nat /\ \A f : ~IsPass(f, order, k)
  BY <1>1 DEF Bad
<1>3. k # 0
  <2> DEFINE g == [i \in 0..0 |-> Start]
  <2>1. IsPass(g, order, 0)
    BY DEF IsPass, Start
  <2> QED BY <1>2, <2>1
<1>4. k - 1 \in Nat /\ k - 1 \notin Bad
  BY <1>1, <1>2, <1>3
<1>5. PICK f : IsPass(f, order, k - 1)
  BY <1>4 DEF Bad
<1> DEFINE Step(p, i) == ReflectOne(order[i], p)
           g == [i \in 0..k |-> IF i = k THEN Step(f[k - 1], k) ELSE f[i]]
<1>6. \A i \in 0..(k - 1) : f[i] = IF i = 0 THEN Start ELSE Step(f[i - 1], i)
  BY <1>5 DEF IsPass, Start
<1> HIDE DEF Step
<1>7. \A i \in 0..k : g[i] = IF i = 0 THEN Start ELSE Step(g[i - 1], i)
  BY <1>2, <1>3, <1>6
<1>8. g = [i \in 0..k |-> IF i = 0 THEN Start ELSE Step(g[i - 1], i)]
  BY <1>7
<1>9. IsPass(g, order, k)
  BY <1>8 DEF IsPass, Step, Start
<1> QED BY <1>2, <1>9

\* A pass emits refs of its order whose tip is not the one booked.
LEMMA PassEmits ==
  ASSUME NEW S, NEW order \in Seq(S)
  PROVE  reflect_bounded(order).out \in Seq({r \in S : emitted[r] # forge_tip(r)})
<1> DEFINE Due == {r \in S : emitted[r] # forge_tip(r)}
           n == Len(order)
           Accs == [out : Seq(Due), halted : BOOLEAN]
           f == CHOOSE h : IsPass(h, order, n)
<1>0. n \in Nat
  OBVIOUS
<1>1. IsPass(f, order, n)
  BY <1>0, PassExists
<1>2. reflect_bounded(order) = f[n]
  BY DEF reflect_bounded, IsPass
<1>3. \A r \in S, acc \in Accs : ReflectOne(r, acc) \in Accs
  <2> TAKE r \in S, acc \in Accs
  <2>1. [acc EXCEPT !.halted = TRUE] \in Accs
    OBVIOUS
  <2>2. r \in Due => [acc EXCEPT !.out = Append(@, r)] \in Accs
    <3> HIDE DEF Due
    <3>1. acc.out \in Seq(Due) /\ acc.halted \in BOOLEAN
      OBVIOUS
    <3>2. r \in Due => Append(acc.out, r) \in Seq(Due)
      BY <3>1
    <3> QED BY <3>1, <3>2
  <2> QED BY <2>1, <2>2 DEF ReflectOne
<1> HIDE DEF f
<1> DEFINE Bad == {i \in 0..n : f[i] \notin Accs}
<1>4. Bad = {}
  <2> SUFFICES ASSUME Bad # {} PROVE FALSE
    OBVIOUS
  <2> HIDE DEF Bad
  <2>1. Bad \in SUBSET Nat
    BY <1>0 DEF Bad
  <2>2. PICK k \in Bad : \A y \in Bad : k <= y
    BY <2>1, LeastNat
  <2>3. k \in 0..n /\ f[k] \notin Accs
    BY <2>2 DEF Bad
  <2>4. k # 0
    BY <1>1, <2>3 DEF IsPass
  <2>5. k - 1 \in 0..n /\ k - 1 \notin Bad
    BY <2>2, <2>3, <2>4
  <2>6. f[k - 1] \in Accs
    BY <2>5 DEF Bad
  <2>7. f[k] = ReflectOne(order[k], f[k - 1])
    BY <1>1, <2>3, <2>4 DEF IsPass
  <2>8. order[k] \in S
    BY <2>3, <2>4
  <2> QED BY <1>3, <2>3, <2>6, <2>7, <2>8
<1>5. f[n] \in Accs
  <2> HIDE DEF Accs
  <2> QED BY <1>0, <1>4
<1> QED BY <1>2, <1>5

------------------------------------------------------------------------------
(* The outbound queue: what is reported, in flight and queued, as one run. *)

OutboxItems == QueueEntries \cup PushReports
Flight(fl) == IF fl = NoEntry THEN 0 ELSE 1
OutboxOf(rp, fl, q) == rp \o (IF fl = NoEntry THEN <<>> ELSE <<fl>>) \o q

\* QueueInOrder as it is kept, for a run, its queue, the snapshot and the two counters.
QueueOK(run, q, sn, n, b) ==
  /\ Ascending(run) /\ Ascending(sn)
  /\ Len(q) <= QueueCap /\ Len(sn) <= QueueCap
  /\ \A i \in DOMAIN run : run[i].seq <= n
  /\ \A i \in DOMAIN sn : sn[i].seq <= n
  /\ \A i \in DOMAIN sn : \E j \in DOMAIN run : run[j].seq = sn[i].seq
  /\ Len(run) <= n - b /\ Len(sn) <= n - b

QueueInv == QueueOK(OutboxOf(reports, flying, mq), mq, snap, counts.seqs, counts.backpressure)

\* Where the parts of the run are.
LEMMA OutboxParts ==
  ASSUME NEW rp \in Seq(PushReports), NEW fl \in QueueEntries \cup {NoEntry}, NEW q \in Seq(QueueEntries)
  PROVE  /\ OutboxOf(rp, fl, q) \in Seq(OutboxItems)
         /\ Len(OutboxOf(rp, fl, q)) = Len(rp) + Flight(fl) + Len(q)
         /\ \A i \in 1..Len(rp) : OutboxOf(rp, fl, q)[i] = rp[i]
         /\ fl # NoEntry => OutboxOf(rp, fl, q)[Len(rp) + 1] = fl
         /\ \A i \in 1..Len(q) : OutboxOf(rp, fl, q)[Len(rp) + Flight(fl) + i] = q[i]
<1> DEFINE m == IF fl = NoEntry THEN <<>> ELSE <<fl>>
<1>1. rp \in Seq(OutboxItems) /\ q \in Seq(OutboxItems)
  BY DEF OutboxItems
<1>2. m \in Seq(OutboxItems) /\ Len(m) = Flight(fl) /\ (fl # NoEntry => m[1] = fl)
  <2>1. CASE fl = NoEntry
    BY <2>1 DEF Flight
  <2>2. CASE fl # NoEntry
    <3>1. fl \in OutboxItems /\ m = <<fl>>
      BY <2>2 DEF OutboxItems
    <3> HIDE DEF m
    <3> QED BY <2>2, <3>1 DEF Flight
  <2> QED BY <2>1, <2>2
<1>3. OutboxOf(rp, fl, q) = (rp \o m) \o q
  BY DEF OutboxOf
<1> HIDE DEF m
<1>4. /\ rp \o m \in Seq(OutboxItems) /\ Len(rp \o m) = Len(rp) + Flight(fl)
      /\ \A i \in 1..Len(rp) : (rp \o m)[i] = rp[i]
      /\ fl # NoEntry => (rp \o m)[Len(rp) + 1] = fl
  <2>1. m \in Seq(OutboxItems) /\ Len(m) \in Nat
    BY <1>2
  <2>2. rp \o m \in Seq(OutboxItems) /\ Len(rp \o m) = Len(rp) + Len(m)
    BY <1>1, <2>1
  <2>3. \A i \in 1..Len(rp) : (rp \o m)[i] = rp[i]
    BY <1>1, <2>1
  <2>4. Len(m) = 1 => (rp \o m)[Len(rp) + 1] = m[1]
    <3> DEFINE k == Len(rp) + 1
    <3>1. Len(rp) \in Nat /\ k > Len(rp) /\ k - Len(rp) = 1
      BY <1>1
    <3>2. Len(m) = 1 => k \in 1..(Len(rp) + Len(m))
      BY <3>1
    <3>3. \A i \in 1..(Len(rp) + Len(m)) : i > Len(rp) => (rp \o m)[i] = m[i - Len(rp)]
      BY <1>1, <2>1
    <3> HIDE DEF k
    <3>4. Len(m) = 1 => (rp \o m)[k] = m[1]
      BY <3>1, <3>2, <3>3
    <3> QED BY <3>4 DEF k
  <2>5. fl # NoEntry => Len(m) = 1
    BY <1>2 DEF Flight
  <2> QED BY <1>2, <2>2, <2>3, <2>4, <2>5
<1> DEFINE a == rp \o m
<1>5. a \in Seq(OutboxItems) /\ Len(a) = Len(rp) + Flight(fl)
  BY <1>4
<1>6. Flight(fl) \in 0..1 /\ (fl # NoEntry => Flight(fl) = 1)
  BY DEF Flight
<1>7. /\ \A i \in 1..Len(rp) : a[i] = rp[i]
      /\ fl # NoEntry => a[Len(rp) + 1] = fl
  BY <1>4
<1> HIDE DEF a
<1>8. /\ a \o q \in Seq(OutboxItems) /\ Len(a \o q) = Len(a) + Len(q)
      /\ \A i \in 1..Len(a) : (a \o q)[i] = a[i]
      /\ \A i \in 1..Len(q) : (a \o q)[Len(a) + i] = q[i]
  BY <1>1, <1>5
<1>9. OutboxOf(rp, fl, q) = a \o q
  BY <1>3 DEF a
<1> QED BY <1>5, <1>6, <1>7, <1>8, <1>9

LEMMA ItemSeq == \A x \in OutboxItems : x.seq \in Nat \ {0}
BY DEF OutboxItems, QueueEntries, PushReports

LEMMA EntryFlies == \A x \in QueueEntries : x # NoEntry
<1> SUFFICES ASSUME NEW x \in QueueEntries PROVE x # NoEntry
  OBVIOUS
<1>1. x.seq # 0
  BY DEF QueueEntries
<1>2. NoEntry.seq = 0
  BY DEF NoEntry
<1> QED BY <1>1, <1>2

\* Moving entries from one part to the next changes nothing.
LEMMA QueueSame ==
  ASSUME NEW run \in Seq(OutboxItems), NEW run2 \in Seq(OutboxItems),
         NEW q, NEW q2, NEW sn \in Seq(QueueEntries), NEW n \in Nat, NEW b \in Nat,
         QueueOK(run, q, sn, n, b), Len(q) \in Nat, Len(q2) \in Nat, Len(q2) <= Len(q), Len(run2) = Len(run),
         \A i \in 1..Len(run) : run2[i].seq = run[i].seq
  PROVE  QueueOK(run2, q2, sn, n, b)
<1>1. DOMAIN run = 1..Len(run) /\ DOMAIN run2 = 1..Len(run)
  OBVIOUS
<1>2. Ascending(run2)
  BY <1>1 DEF QueueOK, Ascending
<1>3. Len(q2) <= QueueCap
  BY MirrorConstants DEF QueueOK
<1> QED BY <1>1, <1>2, <1>3 DEF QueueOK

\* k entries with the next numbers are queued, and d - k handed back.
LEMMA QueueGrows ==
  ASSUME NEW run \in Seq(OutboxItems), NEW run2 \in Seq(OutboxItems),
         NEW q, NEW q2, NEW sn \in Seq(QueueEntries), NEW n \in Nat, NEW b \in Nat, NEW k \in Nat, NEW d \in Nat,
         QueueOK(run, q, sn, n, b), Len(q2) \in Nat, Len(q2) <= QueueCap, k <= d, Len(run2) = Len(run) + k,
         \A i \in 1..Len(run) : run2[i] = run[i],
         \A i \in 1..k : run2[Len(run) + i].seq = n + i
  PROVE  QueueOK(run2, q2, sn, n + d, b + (d - k))
<1> DEFINE l == Len(run)
<1>1. l \in Nat /\ DOMAIN run = 1..l /\ DOMAIN run2 = 1..(l + k)
  OBVIOUS
<1>2. \A i \in 1..l : run[i].seq \in Nat /\ run[i].seq <= n /\ run2[i].seq = run[i].seq
  <2> TAKE i \in 1..l
  <2>1. run[i] \in OutboxItems
    BY <1>1
  <2>2. run[i].seq \in Nat
    BY <2>1, ItemSeq
  <2> QED BY <2>2, <1>1 DEF QueueOK
<1>3. \A i \in (l + 1)..(l + k) : run2[i].seq = n + (i - l)
  <2> TAKE i \in (l + 1)..(l + k)
  <2>1. i - l \in 1..k /\ i = l + (i - l)
    BY <1>1
  <2> QED BY <2>1
<1>4. Ascending(run2)
  <2> SUFFICES ASSUME NEW i \in 1..(l + k), NEW j \in 1..(l + k), i < j
               PROVE  run2[i].seq < run2[j].seq
    BY <1>1 DEF Ascending
  <2>1. CASE j <= l
    <3>1. i \in 1..l /\ j \in 1..l
      BY <2>1, <1>1
    <3> QED BY <3>1, <1>1, <1>2 DEF QueueOK, Ascending
  <2>2. CASE i <= l /\ j > l
    <3>1. i \in 1..l /\ j \in (l + 1)..(l + k)
      BY <2>2, <1>1
    <3> QED BY <3>1, <1>1, <1>2, <1>3
  <2>3. CASE i > l
    <3>1. i \in (l + 1)..(l + k) /\ j \in (l + 1)..(l + k)
      BY <2>3, <1>1
    <3> QED BY <3>1, <1>1, <1>3
  <2> QED BY <2>1, <2>2, <2>3, <1>1
<1>5. \A i \in DOMAIN run2 : run2[i].seq <= n + d
  <2> SUFFICES ASSUME NEW i \in 1..(l + k) PROVE run2[i].seq <= n + d
    BY <1>1
  <2>1. CASE i <= l
    BY <2>1, <1>1, <1>2
  <2>2. CASE i > l
    BY <2>2, <1>1, <1>3
  <2> QED BY <2>1, <2>2, <1>1
<1>6. \A i \in DOMAIN sn : sn[i].seq \in Nat /\ sn[i].seq <= n + d
  <2> TAKE i \in DOMAIN sn
  <2>1. sn[i] \in QueueEntries
    OBVIOUS
  <2>2. sn[i].seq \in Nat
    BY <2>1 DEF QueueEntries
  <2> QED BY <2>2 DEF QueueOK
<1>7. \A i \in DOMAIN sn : \E j \in DOMAIN run2 : run2[j].seq = sn[i].seq
  <2> TAKE i \in DOMAIN sn
  <2>1. PICK j \in 1..l : run[j].seq = sn[i].seq
    BY <1>1 DEF QueueOK
  <2> QED BY <2>1, <1>1, <1>2
<1>8. Len(run2) <= (n + d) - (b + (d - k)) /\ Len(sn) <= (n + d) - (b + (d - k))
  BY <1>1 DEF QueueOK
<1> QED BY <1>4, <1>5, <1>6, <1>7, <1>8 DEF QueueOK

------------------------------------------------------------------------------
(* The steps of the mirror.                                                *)

\* A record of a ref that is not mirrored.
LEMMA SyncAside ==
  ASSUME MirrorTypeOK, SyncInv, NEW e \in MirrorRecords, e.ref \notin MirrorRefs, mlog' = Append(mlog, e),
         emitted' = emitted, counts'.moves = counts.moves, counts'.emits = counts.emits,
         \A p \in arbitrated' : p \in arbitrated \/ (e.ref = Place(p) /\ e.tip = p[2])
  PROVE  SyncInv'
<1>1. mlog \in Seq(MirrorRecords) /\ arbitrated \subseteq Branches \X Tips
  BY DEF MirrorTypeOK
<1>2. ASSUME NEW p \in arbitrated' PROVE forge_tip(Place(p))' = p[2]
  <2>1. CASE p \in arbitrated
    BY <1>1, <2>1, LosersStay
  <2>2. CASE e.ref = Place(p) /\ e.tip = p[2]
    BY <1>1, <2>2, Appended
  <2> QED BY <2>1, <2>2
<1>3. ASSUME NEW r \in MirrorRefs
      PROVE  /\ counts'.moves[r] = Cardinality({i \in DOMAIN mlog' : mlog'[i].ref = r})
             /\ counts'.emits[r] <= counts'.moves[r]
             /\ counts'.emits[r] = counts'.moves[r] => emitted'[r] = forge_tip(r)'
  <2>1. /\ forge_tip(r)' = forge_tip(r)
        /\ Cardinality({i \in DOMAIN mlog' : mlog'[i].ref = r}) =
             Cardinality({i \in DOMAIN mlog : mlog[i].ref = r}) + 0
    BY <1>1, Appended
  <2>2. counts.moves[r] \in Nat
    BY DEF MirrorTypeOK, Counts
  <2> QED BY <2>1, <2>2 DEF SyncInv
<1> QED BY <1>2, <1>3 DEF SyncInv

\* A record that moves a mirrored ref, emitted at once or not.
LEMMA SyncMoves ==
  ASSUME MirrorTypeOK, SyncInv, NEW e \in MirrorRecords, e.ref \in MirrorRefs, mlog' = Append(mlog, e),
         arbitrated' = arbitrated, counts'.moves = [counts.moves EXCEPT ![e.ref] = @ + 1],
         \/ emitted' = emitted /\ counts'.emits = counts.emits
         \/ /\ emitted' = [emitted EXCEPT ![e.ref] = e.tip]
            /\ counts'.emits = [counts.emits EXCEPT ![e.ref] = @ + 1]
  PROVE  SyncInv'
<1>1. mlog \in Seq(MirrorRecords) /\ arbitrated \subseteq Branches \X Tips
  BY DEF MirrorTypeOK
<1>2. \A p \in arbitrated' : forge_tip(Place(p))' = p[2]
  BY <1>1, LosersStay
<1>3. ASSUME NEW r \in MirrorRefs
      PROVE  /\ counts'.moves[r] = Cardinality({i \in DOMAIN mlog' : mlog'[i].ref = r})
             /\ counts'.emits[r] <= counts'.moves[r]
             /\ counts'.emits[r] = counts'.moves[r] => emitted'[r] = forge_tip(r)'
  <2>1. /\ forge_tip(r)' = IF e.ref = r THEN e.tip ELSE forge_tip(r)
        /\ Cardinality({i \in DOMAIN mlog' : mlog'[i].ref = r}) =
             Cardinality({i \in DOMAIN mlog : mlog[i].ref = r}) + (IF e.ref = r THEN 1 ELSE 0)
    <3>1. mlog \in Seq(MirrorRecords) /\ e \in MirrorRecords /\ mlog' = Append(mlog, e)
      BY <1>1
    <3> QED BY ONLY <3>1, Appended
  <2>2. /\ counts.moves \in [MirrorRefs -> Nat] /\ counts.emits \in [MirrorRefs -> Nat]
        /\ emitted \in [MirrorRefs -> TipOrNone]
    BY DEF MirrorTypeOK, Counts
  <2>3. /\ counts.moves[r] = Cardinality({i \in DOMAIN mlog : mlog[i].ref = r})
        /\ counts.emits[r] <= counts.moves[r]
        /\ counts.emits[r] = counts.moves[r] => emitted[r] = forge_tip(r)
    BY DEF SyncInv
  <2>4. counts'.moves[r] = counts.moves[r] + (IF e.ref = r THEN 1 ELSE 0)
    BY <2>2
  <2>5. counts'.moves[r] = Cardinality({i \in DOMAIN mlog' : mlog'[i].ref = r})
    BY <2>1, <2>3, <2>4
  <2>6. CASE e.ref # r
    <3>1. counts'.emits[r] = counts.emits[r] /\ emitted'[r] = emitted[r]
      BY <2>2, <2>6
    <3> QED BY <3>1, <2>1, <2>2, <2>3, <2>4, <2>5, <2>6
  <2>7. CASE e.ref = r /\ emitted' = emitted /\ counts'.emits = counts.emits
    <3>1. counts'.emits[r] < counts'.moves[r]
      BY <2>7, <2>2, <2>3, <2>4
    <3>2. counts'.emits[r] \in Nat /\ counts'.moves[r] \in Nat
      BY <2>7, <2>2, <2>4
    <3>3. counts'.emits[r] <= counts'.moves[r] /\ counts'.emits[r] # counts'.moves[r]
      BY <3>1, <3>2
    <3> QED BY <3>3, <2>5
  <2>8. CASE e.ref = r /\ emitted' = [emitted EXCEPT ![e.ref] = e.tip]
             /\ counts'.emits = [counts.emits EXCEPT ![e.ref] = @ + 1]
    <3>1. emitted'[r] = e.tip /\ counts'.emits[r] = counts.emits[r] + 1
      BY <2>8, <2>2
    <3>2. counts'.emits[r] <= counts'.moves[r]
      BY <3>1, <2>8, <2>2, <2>3, <2>4
    <3>3. emitted'[r] = forge_tip(r)'
      BY <3>1, <2>8, <2>1
    <3> QED BY <3>2, <3>3, <2>5
  <2> QED BY <2>6, <2>7, <2>8
<1> QED BY <1>2, <1>3 DEF SyncInv

\* Refs whose tip is not the one booked are emitted.
LEMMA SyncEmits ==
  ASSUME MirrorTypeOK, SyncInv, NEW Out, \A r \in Out : emitted[r] # forge_tip(r),
         mlog' = mlog, arbitrated' = arbitrated, counts'.moves = counts.moves,
         \A r \in MirrorRefs : /\ counts'.emits[r] = counts.emits[r] + (IF r \in Out THEN 1 ELSE 0)
                               /\ emitted'[r] = IF r \in Out THEN forge_tip(r) ELSE emitted[r]
  PROVE  SyncInv'
<1>1. \A r : forge_tip(r)' = forge_tip(r)
  BY DEF forge_tip
<1>2. ASSUME NEW r \in MirrorRefs
      PROVE  /\ counts'.moves[r] = Cardinality({i \in DOMAIN mlog' : mlog'[i].ref = r})
             /\ counts'.emits[r] <= counts'.moves[r]
             /\ counts'.emits[r] = counts'.moves[r] => emitted'[r] = forge_tip(r)'
  <2>1. counts.moves[r] \in Nat /\ counts.emits[r] \in Nat
    BY DEF MirrorTypeOK, Counts
  <2>2. /\ counts.moves[r] = Cardinality({i \in DOMAIN mlog : mlog[i].ref = r})
        /\ counts.emits[r] <= counts.moves[r]
        /\ counts.emits[r] = counts.moves[r] => emitted[r] = forge_tip(r)
    BY DEF SyncInv
  <2> QED BY <1>1, <2>1, <2>2
<1> QED BY <1>1, <1>2 DEF SyncInv

\* Nothing that the log side looks at changes.
LEMMA SyncStays ==
  ASSUME SyncInv, UNCHANGED <<mlog, arbitrated, emitted>>,
         counts'.moves = counts.moves, counts'.emits = counts.emits
  PROVE  SyncInv'
BY DEF SyncInv, forge_tip

LEMMA QueueStays ==
  ASSUME QueueInv, UNCHANGED <<mq, snap, flying, reports>>,
         counts'.seqs = counts.seqs, counts'.backpressure = counts.backpressure
  PROVE  QueueInv'
BY DEF QueueInv

MirrorInv == MirrorTypeOK /\ SyncInv /\ QueueInv

\* The counters after a move, and after a user's push.
LEMMA CountsKept ==
  ASSUME NEW c \in Counts, NEW r \in MirrorRefs
  PROVE  /\ LET d == [c EXCEPT !.moves[r] = @ + 1] IN
            /\ d \in Counts /\ d.moves = [c.moves EXCEPT ![r] = @ + 1]
            /\ d.emits = c.emits /\ d.seqs = c.seqs /\ d.backpressure = c.backpressure
         /\ LET d == [c EXCEPT !.pushes = @ + 1, !.user[r] = TRUE] IN
            /\ d \in Counts /\ d.moves = c.moves
            /\ d.emits = c.emits /\ d.seqs = c.seqs /\ d.backpressure = c.backpressure
<1>1. /\ c.moves \in [MirrorRefs -> Nat] /\ c.user \in [MirrorRefs -> BOOLEAN] /\ c.emits \in [MirrorRefs -> Nat]
      /\ c.pushes \in Nat /\ c.crashes \in Nat /\ c.seqs \in Nat /\ c.backpressure \in Nat
  BY DEF Counts
<1> DEFINE m == [c.moves EXCEPT ![r] = @ + 1]
           u == [c.user EXCEPT ![r] = TRUE]
<1>2. m \in [MirrorRefs -> Nat] /\ u \in [MirrorRefs -> BOOLEAN]
  BY <1>1
<1>3. [c EXCEPT !.moves[r] = @ + 1] = [c EXCEPT !.moves = m]
  OBVIOUS
<1>4. [c EXCEPT !.pushes = @ + 1, !.user[r] = TRUE] = [c EXCEPT !.pushes = @ + 1, !.user = u]
  OBVIOUS
<1> HIDE DEF m, u
<1>5. /\ [c EXCEPT !.moves = m] \in Counts /\ [c EXCEPT !.moves = m].moves = m
      /\ [c EXCEPT !.moves = m].emits = c.emits /\ [c EXCEPT !.moves = m].seqs = c.seqs
      /\ [c EXCEPT !.moves = m].backpressure = c.backpressure
  BY <1>2 DEF Counts
<1> DEFINE p == c.pushes + 1
<1>6. p \in Nat
  BY <1>1
<1> HIDE DEF p
<1>7. /\ [c EXCEPT !.pushes = p, !.user = u] \in Counts /\ [c EXCEPT !.pushes = p, !.user = u].moves = c.moves
      /\ [c EXCEPT !.pushes = p, !.user = u].emits = c.emits /\ [c EXCEPT !.pushes = p, !.user = u].seqs = c.seqs
      /\ [c EXCEPT !.pushes = p, !.user = u].backpressure = c.backpressure
  BY <1>2, <1>6 DEF Counts
<1> QED BY <1>3, <1>4, <1>5, <1>7 DEF m, p

LEMMA AppendTyped ==
  ASSUME mlog \in Seq(MirrorRecords), NEW e \in MirrorRecords, mlog' = Append(mlog, e)
  PROVE  mlog' \in Seq(MirrorRecords)
OBVIOUS

LEMMA IngestKeeps ==
  ASSUME MirrorInv, NEW r \in MirrorRefs, NEW t \in Tips, ingest_github_push(r, t),
         UNCHANGED <<emitted, authority, ghub, mq, snap, flying, reports, arbitrated>>
  PROVE  MirrorInv'
<1> USE DEF MirrorInv
<1>1. CASE r = Main
  <2> DEFINE e == RefRecord(proposed_ref_name(t), t)
  <2>1. e \in MirrorRecords /\ e.ref \notin MirrorRefs
    <3>1. proposed_ref_name(t) \in SideRefs /\ proposed_ref_name(t)[3] = t
      BY DEF proposed_ref_name, SideRefs
    <3> QED BY <3>1, SideRefsApart DEF MirrorRecords, Updates, RefRecord
  <2>2. mlog' = Append(mlog, e) /\ UNCHANGED <<ingested, counts>>
    BY <1>1 DEF ingest_github_push, append_external_update
  <2> HIDE DEF e
  <2>3. MirrorTypeOK'
    BY <2>1, <2>2, AppendTyped DEF MirrorTypeOK
  <2>4. SyncInv'
    BY <2>1, <2>2, SyncAside
  <2>5. QueueInv'
    BY <2>2, QueueStays
  <2> QED BY <2>3, <2>4, <2>5
<1>2. CASE r # Main
  <2> DEFINE e == RefRecord(r, t)
  <2>1. e \in MirrorRecords /\ e.ref = r
    BY <1>2, RecordsFit DEF MirrorRecords, RefRecord, MirrorRefs
  <2>2. mlog' = Append(mlog, e) /\ ingested' = [ingested EXCEPT ![r] = t] /\ counts' = Moved(r)
    BY <1>2 DEF ingest_github_push, append_external_update
  <2> HIDE DEF e
  <2>3. counts \in Counts
    BY DEF MirrorTypeOK
  <2>4. /\ counts' \in Counts /\ counts'.moves = [counts.moves EXCEPT ![r] = @ + 1] /\ counts'.emits = counts.emits
        /\ counts'.seqs = counts.seqs /\ counts'.backpressure = counts.backpressure
    BY <2>2, <2>3, CountsKept DEF Moved
  <2>5. MirrorTypeOK'
    BY <2>1, <2>2, <2>4, AppendTyped DEF MirrorTypeOK, TipOrNone
  <2>6. SyncInv'
    BY <2>1, <2>2, <2>4, SyncMoves
  <2>7. QueueInv'
    BY <2>4, QueueStays
  <2> QED BY <2>5, <2>6, <2>7
<1> QED BY <1>1, <1>2

LEMMA IngestStep == ASSUME MirrorInv, Ingest \/ ConvergeInbound PROVE MirrorInv'
<1>1. PICK r \in MirrorRefs : /\ ghub[r] # NoTip /\ ingest_github_push(r, ghub[r])
                              /\ UNCHANGED <<emitted, authority, ghub, mq, snap, flying, reports, arbitrated>>
  BY DEF Ingest, ConvergeInbound, converge_inbound_due, MirrorRefs
<1>2. ghub[r] \in Tips
  BY <1>1 DEF MirrorInv, MirrorTypeOK, TipOrNone
<1> QED BY <1>1, <1>2, IngestKeeps

LEMMA LandStep == ASSUME MirrorInv, Land PROVE MirrorInv'
<1> USE DEF MirrorInv
<1>1. PICK t \in Tips, c \in Chains : land_via_queue(t, c)
  BY DEF Land
<1>2. UNCHANGED <<emitted, ingested, ghub, mq, snap, flying, reports, arbitrated>>
  BY DEF Land
<1>3. CASE authorize_land(c)
  <2> DEFINE e == LandRecord(t, c)
  <2>1. e \in MirrorRecords /\ e.ref = Main
    BY <1>3 DEF MirrorRecords, LandRecord, Landings, authorize_land
  <2>2. mlog' = Append(mlog, e) /\ authority' = [authority EXCEPT ![Main] = "Forge"] /\ counts' = Moved(Main)
    BY <1>1, <1>3 DEF land_via_queue
  <2> HIDE DEF e
  <2>3. counts \in Counts /\ Main \in MirrorRefs
    BY DEF MirrorTypeOK, MirrorRefs
  <2>4. /\ counts' \in Counts /\ counts'.moves = [counts.moves EXCEPT ![Main] = @ + 1] /\ counts'.emits = counts.emits
        /\ counts'.seqs = counts.seqs /\ counts'.backpressure = counts.backpressure
    BY <2>2, <2>3, CountsKept DEF Moved
  <2>5. MirrorTypeOK'
    BY <1>2, <2>1, <2>2, <2>3, <2>4, AppendTyped DEF MirrorTypeOK
  <2>6. SyncInv'
    BY <1>2, <2>1, <2>2, <2>3, <2>4, SyncMoves
  <2>7. QueueInv'
    BY <1>2, <2>4, QueueStays
  <2> QED BY <2>5, <2>6, <2>7
<1>4. CASE ~authorize_land(c)
  <2> DEFINE e == DenyRecord(c)
  <2>1. e \in MirrorRecords /\ e.ref \notin MirrorRefs
    BY SideRefsApart DEF MirrorRecords, DenyRecord, Denials
  <2>2. mlog' = Append(mlog, e) /\ UNCHANGED <<authority, counts>>
    BY <1>1, <1>4 DEF land_via_queue
  <2> HIDE DEF e
  <2>3. MirrorTypeOK'
    BY <1>2, <2>1, <2>2, AppendTyped DEF MirrorTypeOK
  <2>4. SyncInv'
    BY <1>2, <2>1, <2>2, SyncAside
  <2>5. QueueInv'
    BY <1>2, <2>2, QueueStays
  <2> QED BY <2>3, <2>4, <2>5
<1> QED BY <1>3, <1>4

LEMMA ArbitrateStep == ASSUME MirrorInv, Arbitrate PROVE MirrorInv'
<1> USE DEF MirrorInv
<1>1. PICK r \in Branches : /\ ghub[r] # NoTip
                            /\ append_external_update(incident_ref_name(r, ghub[r]), ghub[r])
                            /\ authority' = [authority EXCEPT ![r] = "Forge"]
                            /\ arbitrated' = arbitrated \cup {<<r, ghub[r]>>}
  BY DEF Arbitrate
<1>2. UNCHANGED <<emitted, ingested, ghub, mq, snap, flying, reports, counts>>
  BY DEF Arbitrate
<1>3. r \in MirrorRefs /\ ghub[r] \in Tips
  BY <1>1 DEF MirrorTypeOK, TipOrNone, MirrorRefs
<1> DEFINE t == ghub[r]
           e == RefRecord(incident_ref_name(r, t), t)
<1>4. e \in MirrorRecords /\ e.ref = incident_ref_name(r, t) /\ e.tip = t
  BY <1>3, RecordsFit DEF MirrorRecords, RefRecord
<1>5. e.ref \notin MirrorRefs /\ e.ref = Place(<<r, t>>)
  BY <1>3, <1>4, SideRefsInjective, <<r, t>> \in Branches \X Tips
<1>6. mlog' = Append(mlog, e)
  BY <1>1 DEF append_external_update
<1>7. arbitrated' = arbitrated \cup {<<r, t>>}
  BY <1>1
<1> HIDE DEF e
<1>8. MirrorTypeOK'
  BY <1>1, <1>2, <1>3, <1>4, <1>6, AppendTyped DEF MirrorTypeOK
<1>9. SyncInv'
  BY <1>2, <1>4, <1>5, <1>6, <1>7, SyncAside
<1>10. QueueInv'
  BY <1>2, QueueStays
<1> QED BY <1>8, <1>9, <1>10

LEMMA GitHubStep == ASSUME MirrorInv, GitHubPush PROVE MirrorInv'
<1> USE DEF MirrorInv
<1>1. PICK r \in MirrorRefs, t \in Tips :
         /\ ghub' = [ghub EXCEPT ![r] = t]
         /\ counts' = [counts EXCEPT !.pushes = @ + 1, !.user[r] = TRUE]
  BY DEF GitHubPush
<1>2. UNCHANGED <<mlog, emitted, ingested, authority, mq, snap, flying, reports, arbitrated>>
  BY DEF GitHubPush
<1>3. counts \in Counts
  BY DEF MirrorTypeOK
<1>4. /\ counts' \in Counts /\ counts'.moves = counts.moves /\ counts'.emits = counts.emits
      /\ counts'.seqs = counts.seqs /\ counts'.backpressure = counts.backpressure
  BY <1>1, <1>3, CountsKept
<1>5. MirrorTypeOK'
  BY <1>1, <1>2, <1>4 DEF MirrorTypeOK, TipOrNone
<1>6. SyncInv'
  BY <1>2, <1>4, SyncStays
<1>7. QueueInv'
  BY <1>2, <1>4, QueueStays
<1> QED BY <1>5, <1>6, <1>7

LEMMA QueueAdds ==
  ASSUME MirrorTypeOK, QueueInv, NEW k \in Nat, NEW d \in Nat, k <= d,
         mq' \in Seq(QueueEntries), Len(mq') = Len(mq) + k, Len(mq') <= QueueCap,
         \A i \in 1..Len(mq) : mq'[i] = mq[i],
         \A i \in 1..k : mq'[Len(mq) + i].seq = counts.seqs + i,
         UNCHANGED <<snap, flying, reports>>,
         counts'.seqs = counts.seqs + d, counts'.backpressure = counts.backpressure + (d - k)
  PROVE  QueueInv'
<1> DEFINE run == OutboxOf(reports, flying, mq)
           run2 == OutboxOf(reports, flying, mq')
           l == Len(reports) + Flight(flying)
<1>1. /\ reports \in Seq(PushReports) /\ flying \in QueueEntries \cup {NoEntry} /\ mq \in Seq(QueueEntries)
      /\ snap \in Seq(QueueEntries) /\ counts.seqs \in Nat /\ counts.backpressure \in Nat
  BY DEF MirrorTypeOK, Counts
<1>2. l \in Nat /\ Len(mq) \in Nat /\ Len(mq') \in Nat /\ Len(reports) \in Nat /\ Flight(flying) \in 0..1
  BY <1>1 DEF Flight
<1>3. /\ run \in Seq(OutboxItems) /\ Len(run) = l + Len(mq)
      /\ \A i \in 1..Len(reports) : run[i] = reports[i]
      /\ flying # NoEntry => run[Len(reports) + 1] = flying
      /\ \A i \in 1..Len(mq) : run[l + i] = mq[i]
  BY <1>1, OutboxParts
<1>4. /\ run2 \in Seq(OutboxItems) /\ Len(run2) = l + Len(mq')
      /\ \A i \in 1..Len(reports) : run2[i] = reports[i]
      /\ flying # NoEntry => run2[Len(reports) + 1] = flying
      /\ \A i \in 1..Len(mq') : run2[l + i] = mq'[i]
  BY <1>1, OutboxParts
<1>5. QueueOK(run, mq, snap, counts.seqs, counts.backpressure)
  BY DEF QueueInv
<1> HIDE DEF run, run2
<1>6. \A i \in 1..Len(run) : run2[i] = run[i]
  <2> TAKE i \in 1..Len(run)
  <2>1. CASE i <= Len(reports)
    BY <2>1, <1>2, <1>3, <1>4
  <2>2. CASE i > l
    <3>1. i - l \in 1..Len(mq) /\ i - l \in 1..Len(mq') /\ i = l + (i - l)
      BY <2>2, <1>2, <1>3
    <3> QED BY <3>1, <1>3, <1>4
  <2>3. CASE i > Len(reports) /\ i <= l
    <3>1. flying # NoEntry /\ i = Len(reports) + 1
      BY <2>3, <1>2, <1>3 DEF Flight
    <3> QED BY <3>1, <1>3, <1>4
  <2> QED BY <2>1, <2>2, <2>3, <1>2, <1>3
<1>7. \A i \in 1..k : run2[Len(run) + i].seq = counts.seqs + i
  <2> TAKE i \in 1..k
  <2>1. Len(mq) + i \in 1..Len(mq') /\ Len(run) + i = l + (Len(mq) + i)
    BY <1>2, <1>3
  <2> QED BY <2>1, <1>4
<1>8. Len(run2) = Len(run) + k
  BY <1>2, <1>3, <1>4
<1>9. QueueOK(run2, mq', snap, counts.seqs + d, counts.backpressure + (d - k))
  BY <1>1, <1>2, <1>3, <1>4, <1>5, <1>6, <1>7, <1>8, QueueGrows
<1> QED BY <1>9 DEF QueueInv, run2

\* One entry is queued, or handed back at capacity.
LEMMA EnqueueKeeps ==
  ASSUME MirrorTypeOK, QueueInv, NEW r \in MirrorRefs, NEW t \in Tips, enqueue(r, t),
         UNCHANGED <<snap, flying, reports>>, counts'.seqs = counts.seqs + 1,
         counts'.backpressure = counts.backpressure + (IF is_full THEN 1 ELSE 0)
  PROVE  mq' \in Seq(QueueEntries) /\ QueueInv'
<1>1. mq \in Seq(QueueEntries) /\ Len(mq) \in Nat /\ counts.seqs \in Nat /\ counts.backpressure \in Nat
  BY DEF MirrorTypeOK, Counts
<1>2. Len(mq) <= QueueCap /\ QueueCap \in Nat
  BY MirrorConstants DEF QueueInv, QueueOK
<1>3. CASE is_full
  <2>1. mq' = mq
    BY <1>3 DEF enqueue
  <2> DEFINE k == 0
             d == 1
  <2>2. /\ k \in Nat /\ d \in Nat /\ k <= d /\ counts'.seqs = counts.seqs + d
        /\ counts'.backpressure = counts.backpressure + (d - k) /\ Len(mq') = Len(mq) + k
    BY <1>1, <1>3, <2>1
  <2>3. \A i \in 1..k : mq'[Len(mq) + i].seq = counts.seqs + i
    OBVIOUS
  <2>4. \A i \in 1..Len(mq) : mq'[i] = mq[i]
    BY <2>1
  <2>5. mq' \in Seq(QueueEntries) /\ Len(mq') <= QueueCap
    BY <1>1, <1>2, <2>1
  <2> HIDE DEF k, d
  <2>6. QueueInv'
    BY <2>2, <2>3, <2>4, <2>5, QueueAdds
  <2> QED BY <2>5, <2>6
<1>4. CASE ~is_full
  <2> DEFINE x == [seq |-> counts.seqs + 1, ref |-> r, oid |-> t]
  <2>1. x \in QueueEntries /\ x.seq = counts.seqs + 1
    BY <1>1 DEF QueueEntries
  <2>2. mq' = Append(mq, x)
    BY <1>4 DEF enqueue
  <2> HIDE DEF x
  <2>3. /\ mq' \in Seq(QueueEntries) /\ Len(mq') = Len(mq) + 1
        /\ \A i \in 1..Len(mq) : mq'[i] = mq[i]
        /\ mq'[Len(mq) + 1] = x
    BY <1>1, <2>1, <2>2
  <2>4. Len(mq') <= QueueCap
    BY <1>1, <1>2, <1>4, <2>3 DEF is_full
  <2>5. \A i \in 1..1 : mq'[Len(mq) + i].seq = counts.seqs + i
    BY <2>1, <2>3
  <2>6. counts'.backpressure = counts.backpressure + (1 - 1)
    BY <1>1, <1>4
  <2> QED BY <1>1, <2>3, <2>4, <2>5, <2>6, QueueAdds
<1> QED BY <1>3, <1>4

\* What Enqueued does to the counters.
LEMMA CountsEnqueued ==
  ASSUME NEW c \in Counts, NEW r \in MirrorRefs
  PROVE  /\ Enqueued(c, r) \in Counts /\ Enqueued(c, r).moves = c.moves
         /\ Enqueued(c, r).emits = [c.emits EXCEPT ![r] = @ + 1]
         /\ Enqueued(c, r).seqs = c.seqs + 1
         /\ Enqueued(c, r).backpressure = c.backpressure + (IF is_full THEN 1 ELSE 0)
<1> DEFINE em == [c.emits EXCEPT ![r] = @ + 1]
           x == IF is_full THEN 1 ELSE 0
<1>1. em \in [MirrorRefs -> Nat] /\ x \in Nat
  BY DEF Counts
<1>2. Enqueued(c, r) = [c EXCEPT !.seqs = @ + 1, !.emits = em, !.backpressure = @ + x]
  BY DEF Enqueued
<1> HIDE DEF em, x
<1> DEFINE s == c.seqs + 1
           b == c.backpressure + x
<1>3. s \in Nat /\ b \in Nat
  BY <1>1 DEF Counts
<1>4. Enqueued(c, r) = [c EXCEPT !.seqs = s, !.emits = em, !.backpressure = b]
  BY <1>2
<1> HIDE DEF s, b
<1>5. /\ Enqueued(c, r) \in Counts /\ Enqueued(c, r).moves = c.moves /\ Enqueued(c, r).emits = em
      /\ Enqueued(c, r).seqs = s /\ Enqueued(c, r).backpressure = b
  BY <1>1, <1>3, <1>4 DEF Counts
<1> QED BY <1>5 DEF em, x, s, b

LEMMA MirrorOutStep == ASSUME MirrorInv, MirrorOut PROVE MirrorInv'
<1> USE DEF MirrorInv
<1>1. PICK r \in Branches, t \in Tips :
         mirror_out_forge_branch(r, t) /\ enqueue(r, t) /\ counts' = Enqueued(Moved(r), r)
  BY DEF MirrorOut
<1>2. UNCHANGED <<ingested, authority, ghub, snap, flying, reports, arbitrated>>
  BY DEF MirrorOut
<1> DEFINE e == RefRecord(r, t)
<1>3. r \in MirrorRefs /\ e \in MirrorRecords /\ e.ref = r /\ e.tip = t
  BY RecordsFit DEF MirrorRecords, RefRecord, MirrorRefs
<1>4. mlog' = Append(mlog, e) /\ emitted' = [emitted EXCEPT ![r] = t]
  BY <1>1 DEF mirror_out_forge_branch, append_external_update, Emit
<1> HIDE DEF e
<1>5. /\ Moved(r) \in Counts /\ Moved(r).moves = [counts.moves EXCEPT ![r] = @ + 1] /\ Moved(r).emits = counts.emits
      /\ Moved(r).seqs = counts.seqs /\ Moved(r).backpressure = counts.backpressure
  <2>1. counts \in Counts
    BY DEF MirrorTypeOK
  <2> QED BY <2>1, <1>3, CountsKept DEF Moved
<1>6. /\ counts' \in Counts /\ counts'.moves = [counts.moves EXCEPT ![r] = @ + 1]
      /\ counts'.emits = [counts.emits EXCEPT ![r] = @ + 1] /\ counts'.seqs = counts.seqs + 1
      /\ counts'.backpressure = counts.backpressure + (IF is_full THEN 1 ELSE 0)
  BY <1>1, <1>3, <1>5, CountsEnqueued
<1>7. mq' \in Seq(QueueEntries) /\ QueueInv'
  BY <1>1, <1>2, <1>3, <1>6, EnqueueKeeps
<1>8. MirrorTypeOK'
  BY <1>2, <1>3, <1>4, <1>6, <1>7, AppendTyped DEF MirrorTypeOK, TipOrNone
<1>9. SyncInv'
  BY <1>2, <1>3, <1>4, <1>6, SyncMoves
<1> QED BY <1>7, <1>8, <1>9

LEMMA ConvergeOutStep == ASSUME MirrorInv, ConvergeOutbound PROVE MirrorInv'
<1> USE DEF MirrorInv
<1>1. PICK r \in MirrorRefs :
         /\ converge_outbound_due(r) /\ Emit(r, forge_tip(r)) /\ enqueue(r, forge_tip(r))
         /\ counts' = Enqueued(counts, r)
  BY DEF ConvergeOutbound
<1>2. UNCHANGED <<mlog, ingested, authority, ghub, snap, flying, reports, arbitrated>>
  BY DEF ConvergeOutbound
<1>3. mlog \in Seq(MirrorRecords) /\ counts \in Counts /\ emitted \in [MirrorRefs -> TipOrNone]
  BY DEF MirrorTypeOK
<1>4. forge_tip(r) \in Tips /\ emitted[r] # forge_tip(r)
  BY <1>1, <1>3, ForgeTips DEF converge_outbound_due, TipOrNone
<1>5. emitted' = [emitted EXCEPT ![r] = forge_tip(r)]
  BY <1>1 DEF Emit
<1>6. /\ counts' \in Counts /\ counts'.moves = counts.moves
      /\ counts'.emits = [counts.emits EXCEPT ![r] = @ + 1] /\ counts'.seqs = counts.seqs + 1
      /\ counts'.backpressure = counts.backpressure + (IF is_full THEN 1 ELSE 0)
  BY <1>1, <1>3, CountsEnqueued
<1>7. mq' \in Seq(QueueEntries) /\ QueueInv'
  BY <1>1, <1>2, <1>4, <1>6, EnqueueKeeps
<1>8. MirrorTypeOK'
  BY <1>2, <1>4, <1>5, <1>6, <1>7 DEF MirrorTypeOK, TipOrNone
<1>9. counts.emits \in [MirrorRefs -> Nat]
  BY <1>3 DEF Counts
<1>10. \A q \in MirrorRefs : /\ counts'.emits[q] = counts.emits[q] + (IF q \in {r} THEN 1 ELSE 0)
                             /\ emitted'[q] = IF q \in {r} THEN forge_tip(q) ELSE emitted[q]
  BY <1>3, <1>5, <1>6, <1>9
<1>11. SyncInv'
  BY <1>2, <1>4, <1>6, <1>10, SyncEmits
<1> QED BY <1>7, <1>8, <1>11

LEMMA ReflectStep == ASSUME MirrorInv, Reflect PROVE MirrorInv'
<1> USE DEF MirrorInv
<1>0. PICK S \in SUBSET {r \in MirrorRefs : forge_tip(r) # NoTip} : \E order \in SetToSeqs(S) :
         LET out == reflect_bounded(order).out
             room == QueueCap - Len(mq)
         IN  /\ emitted' = [r \in MirrorRefs |->
                            IF r \in Range(out) THEN forge_tip(r) ELSE emitted[r]]
             /\ mq' = mq \o [i \in 1..(IF Len(out) <= room THEN Len(out) ELSE room) |->
                               [seq |-> counts.seqs + i, ref |-> out[i],
                                oid |-> forge_tip(out[i])]]
             /\ counts' = [counts EXCEPT
                             !.seqs = @ + Len(out),
                             !.emits = [r \in MirrorRefs |-> counts.emits[r] + (IF r \in Range(out) THEN 1 ELSE 0)],
                             !.backpressure = @ + (IF Len(out) > room THEN Len(out) - room ELSE 0)]
  BY DEF Reflect
<1>1. PICK order \in SetToSeqs(S) :
         LET out == reflect_bounded(order).out
             room == QueueCap - Len(mq)
         IN  /\ emitted' = [r \in MirrorRefs |->
                            IF r \in Range(out) THEN forge_tip(r) ELSE emitted[r]]
             /\ mq' = mq \o [i \in 1..(IF Len(out) <= room THEN Len(out) ELSE room) |->
                               [seq |-> counts.seqs + i, ref |-> out[i],
                                oid |-> forge_tip(out[i])]]
             /\ counts' = [counts EXCEPT
                             !.seqs = @ + Len(out),
                             !.emits = [r \in MirrorRefs |-> counts.emits[r] + (IF r \in Range(out) THEN 1 ELSE 0)],
                             !.backpressure = @ + (IF Len(out) > room THEN Len(out) - room ELSE 0)]
  BY <1>0
<1>2. UNCHANGED <<mlog, ingested, authority, ghub, snap, flying, reports, arbitrated>>
  BY DEF Reflect
<1>3. /\ mlog \in Seq(MirrorRecords) /\ counts \in Counts /\ emitted \in [MirrorRefs -> TipOrNone]
      /\ mq \in Seq(QueueEntries) /\ Len(mq) \in Nat
  BY DEF MirrorTypeOK
<1>4. order \in Seq(S)
  <2>1. IsFiniteSet(MirrorRefs)
    BY MirrorConstants, FS_AddElement DEF MirrorRefs
  <2>2. S \subseteq MirrorRefs
    OBVIOUS
  <2>3. Cardinality(S) \in Nat
    BY <2>1, <2>2, FS_Subset, FS_CardinalityType
  <2>4. order \in [1..Cardinality(S) -> S]
    BY DEF SetToSeqs
  <2> QED BY <2>3, <2>4
<1>5. PICK out : out = reflect_bounded(order).out
  OBVIOUS
<1>6. out \in Seq({r \in S : emitted[r] # forge_tip(r)})
  BY <1>4, <1>5, PassEmits
<1>7. \A i \in 1..Len(out) : out[i] \in MirrorRefs /\ forge_tip(out[i]) \in Tips /\ emitted[out[i]] # forge_tip(out[i])
  <2> TAKE i \in 1..Len(out)
  <2>1. out[i] \in {r \in S : emitted[r] # forge_tip(r)}
    BY <1>6
  <2>2. out[i] \in MirrorRefs /\ forge_tip(out[i]) # NoTip /\ emitted[out[i]] # forge_tip(out[i])
    BY <2>1
  <2> QED BY <2>2, <1>3, ForgeTips DEF TipOrNone
<1>8. \A r \in Range(out) : r \in MirrorRefs /\ forge_tip(r) \in Tips /\ emitted[r] # forge_tip(r)
  <2>1. DOMAIN out = 1..Len(out)
    BY <1>6
  <2> QED BY <2>1, <1>7 DEF Range
<1> DEFINE room == QueueCap - Len(mq)
           d == Len(out)
           k == IF d <= room THEN d ELSE room
           x == IF d > room THEN d - room ELSE 0
           new == [i \in 1..k |-> [seq |-> counts.seqs + i, ref |-> out[i], oid |-> forge_tip(out[i])]]
           em == [r \in MirrorRefs |-> counts.emits[r] + (IF r \in Range(out) THEN 1 ELSE 0)]
<1>9. Len(mq) <= QueueCap /\ QueueCap \in Nat
  BY MirrorConstants DEF QueueInv, QueueOK
<1>10. room \in Nat /\ d \in Nat /\ k \in Nat /\ k <= d /\ x \in Nat /\ x = d - k /\ Len(mq) + k <= QueueCap
  <2>1. room \in Nat /\ d \in Nat
    BY <1>3, <1>6, <1>9
  <2>2. room = QueueCap - Len(mq)
    OBVIOUS
  <2>3. Len(mq) \in Nat
    BY <1>3
  <2> HIDE DEF room, d
  <2>4. CASE d <= room
    BY <2>1, <2>2, <2>3, <2>4, <1>9
  <2>5. CASE ~(d <= room)
    BY <2>1, <2>2, <2>3, <2>5, <1>9
  <2> QED BY <2>4, <2>5
<1>11. /\ emitted' = [r \in MirrorRefs |-> IF r \in Range(out) THEN forge_tip(r) ELSE emitted[r]]
       /\ mq' = mq \o new
       /\ counts' = [counts EXCEPT !.seqs = @ + d, !.emits = em, !.backpressure = @ + x]
  BY <1>1, <1>5
<1>12. new \in Seq(QueueEntries) /\ Len(new) = k /\ \A i \in 1..k : new[i].seq = counts.seqs + i
  <2>1. \A i \in 1..k : [seq |-> counts.seqs + i, ref |-> out[i], oid |-> forge_tip(out[i])] \in QueueEntries
    <3> TAKE i \in 1..k
    <3>1. i \in 1..Len(out) /\ counts.seqs + i \in Nat \ {0}
      BY <1>3, <1>10 DEF Counts
    <3> QED BY <3>1, <1>7 DEF QueueEntries
  <2> HIDE DEF k
  <2> QED BY <2>1, <1>10
<1>13. em \in [MirrorRefs -> Nat]
  BY <1>3 DEF Counts
<1> HIDE DEF room, d, k, x, new
<1>14. /\ counts' \in Counts /\ counts'.moves = counts.moves /\ counts'.emits = em
       /\ counts'.seqs = counts.seqs + d /\ counts'.backpressure = counts.backpressure + (d - k)
  <2>1. counts' = [counts EXCEPT !.seqs = @ + d, !.emits = em, !.backpressure = @ + x]
    BY <1>11
  <2>2. d \in Nat /\ x \in Nat /\ x = d - k /\ counts \in Counts /\ counts.seqs \in Nat /\ counts.backpressure \in Nat
    BY <1>3, <1>10 DEF Counts
  <2> DEFINE s == counts.seqs + d
             b == counts.backpressure + x
  <2>3. s \in Nat /\ b \in Nat /\ counts' = [counts EXCEPT !.seqs = s, !.emits = em, !.backpressure = b]
    BY <2>1, <2>2
  <2> HIDE DEF em, s, b
  <2>4. /\ counts' \in Counts /\ counts'.moves = counts.moves /\ counts'.emits = em
        /\ counts'.seqs = s /\ counts'.backpressure = b
    BY <2>2, <2>3, <1>13 DEF Counts
  <2> QED BY <2>2, <2>4 DEF s, b
<1>15. /\ mq' \in Seq(QueueEntries) /\ Len(mq') = Len(mq) + k
       /\ \A i \in 1..Len(mq) : mq'[i] = mq[i]
       /\ \A i \in 1..k : mq'[Len(mq) + i] = new[i]
  <2>0. mq' = mq \o new /\ mq \in Seq(QueueEntries) /\ new \in Seq(QueueEntries)
    BY <1>3, <1>11, <1>12
  <2>1. mq' \in Seq(QueueEntries) /\ Len(mq') = Len(mq) + Len(new)
    BY ONLY <2>0
  <2>2. \A i \in 1..Len(mq) : mq'[i] = mq[i]
    BY ONLY <2>0
  <2>3. \A i \in 1..(Len(mq) + Len(new)) : i > Len(mq) => mq'[i] = new[i - Len(mq)]
    BY ONLY <2>0
  <2>4. ASSUME NEW i \in 1..k PROVE mq'[Len(mq) + i] = new[i]
    <3> DEFINE j == Len(mq) + i
    <3>1. j \in 1..(Len(mq) + Len(new)) /\ j > Len(mq) /\ j - Len(mq) = i
      BY <1>3, <1>10, <1>12
    <3> HIDE DEF j
    <3>2. mq'[j] = new[i]
      BY <3>1, <2>3
    <3> QED BY <3>2 DEF j
  <2> QED BY <2>1, <2>2, <2>4, <1>12
<1>16. QueueInv'
  BY <1>2, <1>10, <1>12, <1>14, <1>15, QueueAdds
<1>17. emitted' \in [MirrorRefs -> TipOrNone]
  BY <1>3, <1>8, <1>11 DEF TipOrNone
<1>18. MirrorTypeOK'
  BY <1>2, <1>14, <1>15, <1>17 DEF MirrorTypeOK
<1>19. \A r \in MirrorRefs : /\ counts'.emits[r] = counts.emits[r] + (IF r \in Range(out) THEN 1 ELSE 0)
                             /\ emitted'[r] = IF r \in Range(out) THEN forge_tip(r) ELSE emitted[r]
  BY <1>11, <1>14
<1>20. SyncInv'
  BY <1>2, <1>8, <1>14, <1>19, SyncEmits
<1> QED BY <1>16, <1>18, <1>20

ReportOf(e, verdict) == [seq |-> e.seq, ref |-> e.ref, oid |-> e.oid, verdict |-> verdict]

LEMMA ReportTyped ==
  ASSUME NEW e \in QueueEntries, NEW v \in {"verified", "diverged", "rejected"}
  PROVE  ReportOf(e, v) \in PushReports /\ ReportOf(e, v).seq = e.seq
BY DEF ReportOf, PushReports, QueueEntries

\* An entry that moves on within the run keeps the queue in order.
LEMMA QueueMoves ==
  ASSUME MirrorTypeOK, MirrorTypeOK', QueueInv, UNCHANGED <<snap, counts>>, Len(mq') <= Len(mq),
         Len(OutboxOf(reports', flying', mq')) = Len(OutboxOf(reports, flying, mq)),
         \A i \in 1..Len(OutboxOf(reports, flying, mq)) :
            OutboxOf(reports', flying', mq')[i].seq = OutboxOf(reports, flying, mq)[i].seq
  PROVE  QueueInv'
<1> DEFINE run == OutboxOf(reports, flying, mq)
           run2 == OutboxOf(reports', flying', mq')
<1>1. /\ run \in Seq(OutboxItems) /\ run2 \in Seq(OutboxItems)
      /\ Len(mq) \in Nat /\ Len(mq') \in Nat /\ snap \in Seq(QueueEntries)
      /\ counts.seqs \in Nat /\ counts.backpressure \in Nat
  <2>1. /\ reports \in Seq(PushReports) /\ flying \in QueueEntries \cup {NoEntry} /\ mq \in Seq(QueueEntries)
        /\ reports' \in Seq(PushReports) /\ flying' \in QueueEntries \cup {NoEntry} /\ mq' \in Seq(QueueEntries)
        /\ snap \in Seq(QueueEntries) /\ counts \in Counts
    BY DEF MirrorTypeOK
  <2>2. run \in Seq(OutboxItems)
    BY <2>1, OutboxParts
  <2>3. run2 \in Seq(OutboxItems)
    BY <2>1, OutboxParts
  <2> QED BY <2>1, <2>2, <2>3 DEF Counts
<1>2. QueueOK(run, mq, snap, counts.seqs, counts.backpressure)
  BY DEF QueueInv
<1>3. Len(run2) = Len(run) /\ \A i \in 1..Len(run) : run2[i].seq = run[i].seq
  OBVIOUS
<1> HIDE DEF run, run2
<1>4. QueueOK(run2, mq', snap, counts.seqs, counts.backpressure)
  BY <1>1, <1>2, <1>3, QueueSame
<1> QED BY <1>4 DEF QueueInv, run2

LEMMA PushRefStep == ASSUME MirrorInv, PushRef PROVE MirrorInv'
<1> USE DEF MirrorInv
<1> DEFINE e == Head(mq)
<1>1. flying = NoEntry /\ mq # <<>> /\ mq' = Tail(mq)
  BY DEF PushRef, Idle
<1>2. UNCHANGED <<mlog, emitted, ingested, authority, snap, arbitrated, counts>>
  BY DEF PushRef
<1>3. /\ mq \in Seq(QueueEntries) /\ reports \in Seq(PushReports) /\ mlog \in Seq(MirrorRecords)
      /\ ghub \in [MirrorRefs -> TipOrNone] /\ flying \in QueueEntries \cup {NoEntry}
  BY DEF MirrorTypeOK
<1>4. /\ e \in QueueEntries /\ e = mq[1] /\ mq' \in Seq(QueueEntries) /\ Len(mq) \in Nat \ {0}
      /\ Len(mq') = Len(mq) - 1 /\ \A i \in 1..Len(mq') : mq'[i] = mq[i + 1]
  BY <1>1, <1>3
<1>5. \/ /\ ghub' = [ghub EXCEPT ![e.ref] = forge_tip(e.ref)]
         /\ flying' = e /\ UNCHANGED reports
      \/ reports' = Append(reports, ReportOf(e, "rejected")) /\ UNCHANGED <<ghub, flying>>
  BY DEF PushRef, Report, ReportOf
<1>6. e.ref \in MirrorRefs /\ forge_tip(e.ref) \in TipOrNone
  BY <1>3, <1>4, ForgeTips DEF QueueEntries
<1> HIDE DEF e
<1> DEFINE run == OutboxOf(reports, flying, mq)
           run2 == OutboxOf(reports', flying', mq')
           l == Len(reports)
<1>7. l \in Nat /\ Flight(flying) = 0
  BY <1>1, <1>3 DEF Flight
<1>8. /\ Len(run) = l + 0 + Len(mq)
      /\ \A i \in 1..l : run[i] = reports[i]
      /\ \A i \in 1..Len(mq) : run[l + 0 + i] = mq[i]
  BY <1>3, <1>7, OutboxParts
<1>9. SyncInv'
  BY <1>2, SyncStays
<1>10. CASE ghub' = [ghub EXCEPT ![e.ref] = forge_tip(e.ref)] /\ flying' = e /\ UNCHANGED reports
  <2>1. MirrorTypeOK'
    BY <1>2, <1>3, <1>4, <1>6, <1>10 DEF MirrorTypeOK
  <2>2. flying' # NoEntry /\ Flight(flying') = 1
    BY <1>4, <1>10, EntryFlies DEF Flight
  <2>3. /\ Len(run2) = l + 1 + Len(mq')
        /\ \A i \in 1..l : run2[i] = reports[i]
        /\ run2[l + 1] = e
        /\ \A i \in 1..Len(mq') : run2[l + 1 + i] = mq'[i]
    <3>1. reports' \in Seq(PushReports) /\ flying' \in QueueEntries \cup {NoEntry} /\ mq' \in Seq(QueueEntries)
      BY <1>3, <1>4, <1>10
    <3>2. /\ Len(run2) = Len(reports') + Flight(flying') + Len(mq')
          /\ \A i \in 1..Len(reports') : run2[i] = reports'[i]
          /\ flying' # NoEntry => run2[Len(reports') + 1] = flying'
          /\ \A i \in 1..Len(mq') : run2[Len(reports') + Flight(flying') + i] = mq'[i]
      BY ONLY <3>1, OutboxParts
    <3> HIDE DEF run2
    <3> QED BY <3>2, <2>2, <1>10
  <2> HIDE DEF run, run2
  <2>4. Len(run2) = Len(run)
    BY <1>4, <1>7, <1>8, <2>3
  <2>5. ASSUME NEW i \in 1..Len(run) PROVE run2[i].seq = run[i].seq
    <3>1. CASE i <= l
      BY <3>1, <1>7, <1>8, <2>3
    <3>2. CASE i = l + 1
      <4>1. run[l + 0 + 1] = mq[1] /\ l + 0 + 1 = l + 1
        BY <1>4, <1>7, <1>8
      <4> QED BY <3>2, <4>1, <1>4, <2>3
    <3>3. CASE i > l + 1
      <4> DEFINE j == i - (l + 1)
      <4>1. j \in 1..Len(mq') /\ j + 1 \in 1..Len(mq) /\ i = l + 1 + j /\ i = l + 0 + (j + 1)
        BY <3>3, <1>4, <1>7, <1>8
      <4> HIDE DEF j
      <4>2. run2[i] = mq'[j] /\ run[i] = mq[j + 1] /\ mq'[j] = mq[j + 1]
        BY <4>1, <1>4, <1>8, <2>3
      <4> QED BY <4>2
    <3> QED BY <3>1, <3>2, <3>3, <1>7, <1>8
  <2>6. QueueInv'
    BY <1>2, <1>4, <2>1, <2>4, <2>5, QueueMoves DEF run, run2
  <2> QED BY <2>1, <2>6, <1>9
<1>11. CASE reports' = Append(reports, ReportOf(e, "rejected")) /\ UNCHANGED <<ghub, flying>>
  <2> DEFINE x == ReportOf(e, "rejected")
  <2>1. x \in PushReports /\ x.seq = e.seq
    BY <1>4, ReportTyped
  <2>2. reports' = Append(reports, x)
    BY <1>11
  <2> HIDE DEF x
  <2>3. /\ reports' \in Seq(PushReports) /\ Len(reports') = l + 1 /\ reports'[l + 1] = x
        /\ \A i \in 1..l : reports'[i] = reports[i]
    BY <1>3, <2>1, <2>2
  <2>4. MirrorTypeOK'
    BY <1>2, <1>4, <1>11, <2>3 DEF MirrorTypeOK
  <2>5. /\ Len(run2) = (l + 1) + 0 + Len(mq')
        /\ \A i \in 1..(l + 1) : run2[i] = reports'[i]
        /\ \A i \in 1..Len(mq') : run2[(l + 1) + 0 + i] = mq'[i]
    <3>1. flying' \in QueueEntries \cup {NoEntry} /\ mq' \in Seq(QueueEntries) /\ Flight(flying') = 0
      BY <1>3, <1>4, <1>7, <1>11
    <3>2. /\ Len(run2) = Len(reports') + Flight(flying') + Len(mq')
          /\ \A i \in 1..Len(reports') : run2[i] = reports'[i]
          /\ \A i \in 1..Len(mq') : run2[Len(reports') + Flight(flying') + i] = mq'[i]
      BY ONLY <3>1, <2>3, OutboxParts
    <3> HIDE DEF run2
    <3> QED BY <3>1, <3>2, <2>3
  <2> HIDE DEF run, run2
  <2>6. Len(run2) = Len(run)
    BY <1>4, <1>7, <1>8, <2>5
  <2>7. ASSUME NEW i \in 1..Len(run) PROVE run2[i].seq = run[i].seq
    <3>1. CASE i <= l
      BY <3>1, <1>7, <1>8, <2>3, <2>5
    <3>2. CASE i = l + 1
      <4>1. run[l + 0 + 1] = mq[1] /\ l + 0 + 1 = l + 1
        BY <1>4, <1>7, <1>8
      <4>2. run2[l + 1] = x
        BY <1>7, <2>3, <2>5
      <4> QED BY <3>2, <4>1, <4>2, <1>4, <2>1
    <3>3. CASE i > l + 1
      <4> DEFINE j == i - (l + 1)
      <4>1. j \in 1..Len(mq') /\ j + 1 \in 1..Len(mq) /\ i = (l + 1) + 0 + j /\ i = l + 0 + (j + 1)
        BY <3>3, <1>4, <1>7, <1>8
      <4> HIDE DEF j
      <4>2. run2[i] = mq'[j] /\ run[i] = mq[j + 1] /\ mq'[j] = mq[j + 1]
        BY <4>1, <1>4, <1>8, <2>5
      <4> QED BY <4>2
    <3> QED BY <3>1, <3>2, <3>3, <1>7, <1>8
  <2>8. QueueInv'
    BY <1>2, <1>4, <2>4, <2>6, <2>7, QueueMoves DEF run, run2
  <2> QED BY <2>4, <2>8, <1>9
<1> QED BY <1>5, <1>10, <1>11

LEMMA LsRemoteStep == ASSUME MirrorInv, LsRemote PROVE MirrorInv'
<1> USE DEF MirrorInv
<1>1. flying # NoEntry /\ flying' = NoEntry
  BY DEF LsRemote, Idle
<1>2. UNCHANGED <<mlog, emitted, ingested, authority, ghub, mq, snap, arbitrated, counts>>
  BY DEF LsRemote
<1>3. mq \in Seq(QueueEntries) /\ reports \in Seq(PushReports) /\ flying \in QueueEntries
  BY <1>1 DEF MirrorTypeOK
<1>4. PICK v \in {"verified", "diverged", "rejected"} : reports' = Append(reports, ReportOf(flying, v))
  BY DEF LsRemote, Report, ReportOf, verify_push
<1> DEFINE x == ReportOf(flying, v)
           l == Len(reports)
           run == OutboxOf(reports, flying, mq)
           run2 == OutboxOf(reports', flying', mq')
<1>5. x \in PushReports /\ x.seq = flying.seq /\ l \in Nat /\ Len(mq) \in Nat
  BY <1>3, ReportTyped
<1>6. reports' = Append(reports, x)
  BY <1>4
<1> HIDE DEF x
<1>7. /\ reports' \in Seq(PushReports) /\ Len(reports') = l + 1 /\ reports'[l + 1] = x
      /\ \A i \in 1..l : reports'[i] = reports[i]
  BY <1>3, <1>5, <1>6
<1>8. MirrorTypeOK'
  BY <1>1, <1>2, <1>7 DEF MirrorTypeOK
<1>9. SyncInv'
  BY <1>2, SyncStays
<1>10. Flight(flying) = 1 /\ Flight(flying') = 0
  BY <1>1 DEF Flight
<1>11. /\ Len(run) = l + 1 + Len(mq)
       /\ \A i \in 1..l : run[i] = reports[i]
       /\ run[l + 1] = flying
       /\ \A i \in 1..Len(mq) : run[l + 1 + i] = mq[i]
  <2>1. flying \in QueueEntries \cup {NoEntry}
    BY <1>3
  <2>2. /\ Len(run) = Len(reports) + Flight(flying) + Len(mq)
        /\ \A i \in 1..Len(reports) : run[i] = reports[i]
        /\ flying # NoEntry => run[Len(reports) + 1] = flying
        /\ \A i \in 1..Len(mq) : run[Len(reports) + Flight(flying) + i] = mq[i]
    BY ONLY <2>1, <1>3, OutboxParts
  <2> HIDE DEF run
  <2> QED BY <2>2, <1>1, <1>5, <1>10
<1>12. /\ Len(run2) = (l + 1) + 0 + Len(mq)
       /\ \A i \in 1..(l + 1) : run2[i] = reports'[i]
       /\ \A i \in 1..Len(mq) : run2[(l + 1) + 0 + i] = mq[i]
  <2>1. flying' \in QueueEntries \cup {NoEntry} /\ mq' \in Seq(QueueEntries) /\ mq' = mq
    BY <1>1, <1>2, <1>3
  <2>2. /\ Len(run2) = Len(reports') + Flight(flying') + Len(mq')
        /\ \A i \in 1..Len(reports') : run2[i] = reports'[i]
        /\ \A i \in 1..Len(mq') : run2[Len(reports') + Flight(flying') + i] = mq'[i]
    BY ONLY <2>1, <1>7, OutboxParts
  <2> HIDE DEF run2
  <2> QED BY <2>1, <2>2, <1>7, <1>10
<1> HIDE DEF run, run2
<1>13. Len(run2) = Len(run)
  BY <1>5, <1>11, <1>12
<1>14. ASSUME NEW i \in 1..Len(run) PROVE run2[i].seq = run[i].seq
  <2>1. CASE i <= l
    BY <2>1, <1>5, <1>7, <1>11, <1>12
  <2>2. CASE i = l + 1
    <3>1. run2[l + 1] = x /\ run[l + 1] = flying
      BY <1>5, <1>7, <1>11, <1>12
    <3> QED BY <2>2, <3>1, <1>5
  <2>3. CASE i > l + 1
    <3> DEFINE j == i - (l + 1)
    <3>1. j \in 1..Len(mq) /\ i = l + 1 + j /\ i = (l + 1) + 0 + j
      BY <2>3, <1>5, <1>11
    <3> HIDE DEF j
    <3>2. run2[i] = mq[j] /\ run[i] = mq[j]
      BY <3>1, <1>11, <1>12
    <3> QED BY <3>2
  <2> QED BY <2>1, <2>2, <2>3, <1>5, <1>11
<1>15. Len(mq') <= Len(mq)
  BY <1>2, <1>5
<1>16. QueueInv'
  BY <1>2, <1>8, <1>13, <1>14, <1>15, QueueMoves DEF run, run2
<1> QED BY <1>8, <1>9, <1>16

\* Without reports and flight, the run is the queue.
LEMMA OutboxQueue ==
  ASSUME NEW q \in Seq(QueueEntries)
  PROVE  OutboxOf(<<>>, NoEntry, q) = q
<1> DEFINE run == OutboxOf(<<>>, NoEntry, q)
<1>1. /\ run \in Seq(OutboxItems) /\ Len(run) = Len(q)
      /\ \A i \in 1..Len(q) : run[i] = q[i]
  <2>1. <<>> \in Seq(PushReports) /\ NoEntry \in QueueEntries \cup {NoEntry} /\ Len(<<>>) = 0 /\ Flight(NoEntry) = 0
        /\ Len(q) \in Nat
    BY DEF Flight
  <2>2. /\ run \in Seq(OutboxItems) /\ Len(run) = Len(<<>>) + Flight(NoEntry) + Len(q)
        /\ \A i \in 1..Len(q) : run[Len(<<>>) + Flight(NoEntry) + i] = q[i]
    BY <2>1, OutboxParts
  <2> HIDE DEF run
  <2>3. \A i \in 1..Len(q) : run[i] = q[i]
    <3> TAKE i \in 1..Len(q)
    <3>1. Len(<<>>) + Flight(NoEntry) + i = i
      BY <2>1
    <3> QED BY <3>1, <2>2
  <2> QED BY <2>1, <2>2, <2>3
<1> HIDE DEF run
<1>2. run = q
  BY <1>1
<1> QED BY <1>2 DEF run

\* A queue that is the whole run, and its own snapshot.
LEMMA QueueAlone ==
  ASSUME NEW q \in Seq(QueueEntries), NEW n, NEW b,
         Ascending(q), Len(q) <= QueueCap, \A i \in DOMAIN q : q[i].seq <= n, Len(q) <= n - b
  PROVE  QueueOK(OutboxOf(<<>>, NoEntry, q), q, q, n, b)
BY OutboxQueue DEF QueueOK

LEMMA SnapshotStep == ASSUME MirrorInv, Snapshot PROVE MirrorInv'
<1> USE DEF MirrorInv
<1>1. flying = NoEntry /\ flying' = NoEntry /\ snap' = mq /\ mq' = mq /\ reports' = <<>>
  BY DEF Snapshot, Idle
<1>2. UNCHANGED <<mlog, emitted, ingested, authority, ghub, arbitrated, counts>>
  BY DEF Snapshot
<1>3. MirrorTypeOK'
  BY <1>1, <1>2 DEF MirrorTypeOK
<1>4. SyncInv'
  BY <1>2, SyncStays
<1>5. /\ mq \in Seq(QueueEntries) /\ reports \in Seq(PushReports) /\ Len(mq) \in Nat /\ Len(reports) \in Nat
      /\ counts.seqs \in Nat /\ counts.backpressure \in Nat
  BY DEF MirrorTypeOK, Counts
<1> DEFINE run == OutboxOf(reports, flying, mq)
           l == Len(reports)
<1>6. Len(run) = l + 0 + Len(mq) /\ \A i \in 1..Len(mq) : run[l + 0 + i] = mq[i]
  <2>1. Flight(flying) = 0 /\ flying \in QueueEntries \cup {NoEntry}
    BY <1>1 DEF Flight
  <2> QED BY <1>5, <2>1, OutboxParts
<1>7. QueueOK(run, mq, snap, counts.seqs, counts.backpressure) /\ run \in Seq(OutboxItems)
  BY <1>1, <1>5, OutboxParts DEF QueueInv
<1> HIDE DEF run
<1>8. \A i \in 1..Len(mq) : l + i \in DOMAIN run /\ run[l + i] = mq[i]
  BY <1>5, <1>6, <1>7
<1>9. Ascending(mq) /\ (\A i \in DOMAIN mq : mq[i].seq <= counts.seqs)
  <2>1. DOMAIN mq = 1..Len(mq)
    BY <1>5
  <2>2. ASSUME NEW i \in 1..Len(mq), NEW j \in 1..Len(mq), i < j PROVE mq[i].seq < mq[j].seq
    <3>1. l + i \in DOMAIN run /\ l + j \in DOMAIN run /\ l + i < l + j
      BY <1>5, <1>8, <2>2
    <3> QED BY <3>1, <1>7, <1>8 DEF QueueOK, Ascending
  <2> QED BY <2>1, <2>2, <1>7, <1>8 DEF QueueOK, Ascending
<1>10. Len(mq) <= QueueCap /\ Len(mq) <= counts.seqs - counts.backpressure
  BY <1>5, <1>6, <1>7 DEF QueueOK
<1>11. QueueOK(OutboxOf(<<>>, NoEntry, mq), mq, mq, counts.seqs, counts.backpressure)
  BY <1>5, <1>9, <1>10, QueueAlone
<1>12. QueueInv'
  BY <1>1, <1>2, <1>11 DEF QueueInv
<1> QED BY <1>3, <1>4, <1>12

LEMMA CrashStep == ASSUME MirrorInv, MirrorCrash PROVE MirrorInv'
<1> USE DEF MirrorInv
<1>1. mq' = snap /\ snap' = snap /\ flying' = NoEntry /\ reports' = <<>>
  BY DEF MirrorCrash, Restore
<1>2. counts' = [counts EXCEPT !.crashes = @ + 1] /\ UNCHANGED <<mlog, emitted, ingested, authority, ghub, arbitrated>>
  BY DEF MirrorCrash
<1>3. counts \in Counts /\ snap \in Seq(QueueEntries)
  BY DEF MirrorTypeOK
<1>4. /\ counts' \in Counts /\ counts'.moves = counts.moves /\ counts'.emits = counts.emits
      /\ counts'.seqs = counts.seqs /\ counts'.backpressure = counts.backpressure
  <2> DEFINE k == counts.crashes + 1
  <2>1. k \in Nat /\ counts' = [counts EXCEPT !.crashes = k]
    BY <1>2, <1>3 DEF Counts
  <2> HIDE DEF k
  <2> QED BY <2>1, <1>3 DEF Counts
<1>5. MirrorTypeOK'
  BY <1>1, <1>2, <1>4 DEF MirrorTypeOK
<1>6. SyncInv'
  BY <1>2, <1>4, SyncStays
<1>7. QueueOK(OutboxOf(<<>>, NoEntry, snap), snap, snap, counts.seqs, counts.backpressure)
  BY <1>3, QueueAlone DEF QueueInv, QueueOK
<1>8. QueueInv'
  BY <1>1, <1>4, <1>7 DEF QueueInv
<1> QED BY <1>5, <1>6, <1>8

LEMMA MirrorStarts == ASSUME MirrorInit PROVE MirrorInv
<1> USE DEF MirrorInit
<1>1. counts \in Counts
  BY DEF Counts
<1>2. MirrorTypeOK
  <2>1. mlog \in Seq(MirrorRecords) /\ mq \in Seq(QueueEntries) /\ snap \in Seq(QueueEntries)
        /\ reports \in Seq(PushReports) /\ flying \in QueueEntries \cup {NoEntry} /\ arbitrated = {}
    OBVIOUS
  <2>2. emitted \in [MirrorRefs -> TipOrNone] /\ ingested \in [MirrorRefs -> TipOrNone]
        /\ ghub \in [MirrorRefs -> TipOrNone]
    BY DEF TipOrNone
  <2>3. authority \in [MirrorRefs -> {"Forge", NoTip}] /\ authority[Main] = "Forge"
    BY DEF MirrorRefs
  <2> QED BY <1>1, <2>1, <2>2, <2>3 DEF MirrorTypeOK
<1>3. SyncInv
  <2>1. \A r : {i \in DOMAIN mlog : mlog[i].ref = r} = {} /\ forge_tip(r) = NoTip
    BY DEF forge_tip, TipAt
  <2> QED BY <2>1, FS_EmptySet DEF SyncInv
<1>4. QueueInv
  <2>1. <<>> \in Seq(QueueEntries) /\ Ascending(<<>>) /\ Len(<<>>) = 0 /\ DOMAIN <<>> = {}
    BY DEF Ascending
  <2>2. QueueOK(OutboxOf(<<>>, NoEntry, <<>>), <<>>, <<>>, 0, 0)
    <3> DEFINE z == 0
               q == <<>>
    <3>1. /\ q \in Seq(QueueEntries) /\ Ascending(q) /\ Len(q) <= QueueCap /\ Len(q) <= z - z
          /\ \A i \in DOMAIN q : q[i].seq <= z
      BY <2>1, MirrorConstants
    <3> HIDE DEF z, q
    <3>2. QueueOK(OutboxOf(<<>>, NoEntry, q), q, q, z, z)
      BY ONLY <3>1, QueueAlone
    <3> QED BY <3>2 DEF z, q
  <2> QED BY <2>2 DEF QueueInv
<1> QED BY <1>2, <1>3, <1>4 DEF MirrorInv

LEMMA MirrorStep == ASSUME MirrorInv, [MirrorNext]_mirrorVars PROVE MirrorInv'
<1>1. CASE UNCHANGED mirrorVars
  BY <1>1 DEF mirrorVars, MirrorInv, MirrorTypeOK, SyncInv, QueueInv, forge_tip
<1>2. CASE MirrorNext
  BY <1>2, IngestStep, LandStep, MirrorOutStep, ConvergeOutStep, ArbitrateStep, ReflectStep, PushRefStep,
     LsRemoteStep, SnapshotStep, CrashStep, GitHubStep DEF MirrorNext, SyncNext, WriterNext
<1> QED BY <1>1, <1>2

\* What is kept is what is claimed.
LEMMA MirrorClaims == ASSUME MirrorInv PROVE MirrorInSync
<1> USE DEF MirrorInv
<1>1. mlog \in Seq(MirrorRecords) /\ authority[Main] = "Forge"
  BY DEF MirrorTypeOK
<1>2. \A i \in DOMAIN mlog : /\ (mlog[i].ref = Main) <=> (mlog[i].kind = "intent.landed")
                             /\ mlog[i].kind = "intent.landed" => mlog[i].by = "orchestrator"
  BY <1>1, RecordsTell
<1>3. {i \in DOMAIN mlog : mlog[i].ref = Main} = {i \in DOMAIN mlog : mlog[i].kind = "intent.landed"}
  BY <1>2
<1>4. MainOnlyLanded
  BY <1>1, <1>2, <1>3 DEF MainOnlyLanded, forge_tip
<1>5. LosersKept
  BY DEF LosersKept, SyncInv, Place
<1>6. EmitOncePerMove
  BY DEF EmitOncePerMove, SyncInv
<1>7. QueueInOrder
  BY DEF QueueInOrder, QueueInv, QueueOK, OutboxOf, Idle
<1> QED BY <1>4, <1>5, <1>6, <1>7 DEF MirrorInSync, MirrorArbitration

\* For any branches, tips, capacity and bounds, whatever GitHub users push and
\* wherever the process dies: the forge's main is the last authorised landing,
\* the tip that lost an arbitration is still at its incident ref, no ref is
\* emitted twice for one move, and the outbound queue keeps order and bound.
THEOREM MirrorSynced == MirrorSpec => []MirrorInSync
<1>1. MirrorInit => MirrorInv
  BY MirrorStarts
<1>2. MirrorInv /\ [MirrorNext]_mirrorVars => MirrorInv'
  BY MirrorStep
<1>3. MirrorInv => MirrorInSync
  BY MirrorClaims
<1> QED BY <1>1, <1>2, <1>3, PTL DEF MirrorSpec

-----------------------------------------------------------------------------
(* The App.  A tombstone is a safe id that the index and the halted set    *)
(* hold; a call past the gate came in before the revocation; a cached      *)
(* token is refreshed before it expires.                                   *)

CredInv ==
    /\ dir \cap Unsafe = {} /\ dir \subseteq index /\ dir \subseteq halted
    /\ late = FALSE /\ handed.clean = TRUE /\ handed.alive = TRUE
    /\ clock \in Nat
    /\ mint \in [Minters -> [inst : Insts \cup {NoInst}, clean : {TRUE}]]
    /\ tokenCache \in [inst : Insts \cup {NoInst}, refresh : Nat, expiry : Nat]
    /\ tokenCache.inst # NoInst => tokenCache.refresh < tokenCache.expiry

LEMMA CredStarts == ASSUME AppInit PROVE CredInv
BY DEF AppInit, CredInv, NoToken, IdleMint

LEMMA UninstallStep == ASSUME CredInv, Uninstall PROVE CredInv'
BY DEF CredInv, Uninstall, revoke, is_safe_id

LEMMA GateStep == ASSUME CredInv, mint_with_transport PROVE CredInv'
<1>1. PICK m \in Minters, i \in Insts : mint[m] = IdleMint /\ MintGate(m, i)
  BY DEF mint_with_transport
<1>2. ~is_revoked(i)
  BY <1>1 DEF MintGate
<1>3. CASE cached_if_fresh(i)
  <2>1. handed' = [inst |-> tokenCache.inst, alive |-> clock < tokenCache.expiry, clean |-> ~is_revoked(i)]
        /\ mint' = mint
    BY <1>1, <1>3 DEF MintGate, Hand
  <2>2. clock < tokenCache.expiry
    BY <1>3, AppConstants DEF cached_if_fresh, CredInv
  <2>3. handed'.clean = TRUE /\ handed'.alive = TRUE
    BY <2>1, <2>2, <1>2
  <2> QED BY <2>1, <2>3 DEF CredInv, mint_with_transport
<1>4. CASE ~cached_if_fresh(i)
  <2>1. mint' = [mint EXCEPT ![m] = [inst |-> i, clean |-> TRUE]] /\ handed' = handed
    BY <1>1, <1>2, <1>4 DEF MintGate
  <2> QED BY <2>1 DEF CredInv, mint_with_transport
<1> QED BY <1>3, <1>4

LEMMA ExchangeStep == ASSUME CredInv, exchange_and_cache PROVE CredInv'
<1>1. PICK m \in Minters :
        /\ mint[m] # IdleMint
        /\ mint' = [mint EXCEPT ![m] = IdleMint]
        /\ \/ /\ cached_if_fresh(mint[m].inst)
              /\ Hand(tokenCache, mint[m].clean)
              /\ UNCHANGED tokenCache
           \/ /\ ~cached_if_fresh(mint[m].inst)
              /\ \E parsed \in BOOLEAN :
                   LET t == [inst |-> mint[m].inst, expiry |-> clock + TrueTtl,
                             refresh |-> refresh_after(parsed)]
                   IN  tokenCache' = t /\ Hand(t, mint[m].clean)
           \/ ~cached_if_fresh(mint[m].inst) /\ UNCHANGED <<tokenCache, handed>>
  BY DEF exchange_and_cache
<1>2. mint[m].clean = TRUE /\ mint[m].inst \in Insts
  BY <1>1 DEF CredInv, IdleMint
<1>3. mint' \in [Minters -> [inst : Insts \cup {NoInst}, clean : {TRUE}]]
  BY <1>1 DEF CredInv, IdleMint
<1>4. UNCHANGED <<dir, index, halted, clock, late>>
  BY DEF exchange_and_cache
<1>5. CASE cached_if_fresh(mint[m].inst) /\ Hand(tokenCache, mint[m].clean) /\ UNCHANGED tokenCache
  <2>1. clock < tokenCache.expiry
    BY <1>2, <1>5, AppConstants DEF cached_if_fresh, CredInv
  <2>2. handed'.clean = TRUE /\ handed'.alive = TRUE
    BY <1>2, <1>5, <2>1 DEF Hand
  <2> QED BY <1>3, <1>4, <1>5, <2>2 DEF CredInv
<1>6. ASSUME NEW parsed \in BOOLEAN, NEW t, t = [inst |-> mint[m].inst, expiry |-> clock + TrueTtl,
                                                  refresh |-> refresh_after(parsed)],
             tokenCache' = t, Hand(t, mint[m].clean)
      PROVE  CredInv'
  <2>1. clock \in Nat /\ TrueTtl \in Nat /\ TrueTtl > 11
    BY AppConstants DEF CredInv, FALLBACK_TTL
  <2>2. refresh_after(parsed) \in Nat /\ refresh_after(parsed) < clock + TrueTtl /\ clock < clock + TrueTtl
        /\ clock + TrueTtl \in Nat
    BY <2>1 DEF refresh_after, FALLBACK_TTL, REFRESH_SKEW
  <2>3. tokenCache' \in [inst : Insts \cup {NoInst}, refresh : Nat, expiry : Nat]
        /\ tokenCache'.refresh < tokenCache'.expiry
    BY <1>2, <1>6, <2>2
  <2>4. handed'.clean = TRUE /\ handed'.alive = TRUE
    BY <1>2, <1>6, <2>2 DEF Hand
  <2> QED BY <1>3, <1>4, <2>3, <2>4 DEF CredInv
<1>7. CASE UNCHANGED <<tokenCache, handed>>
  BY <1>3, <1>4, <1>7 DEF CredInv
<1> QED BY <1>1, <1>5, <1>6, <1>7

LEMMA AppStep == ASSUME CredInv, [AppNext]_appVars PROVE CredInv'
<1>1. CASE UNCHANGED appVars
  BY <1>1 DEF appVars, CredInv
<1>2. CASE store_token
  BY <1>2 DEF store_token, CredInv
<1>3. CASE Webhook
  BY <1>3 DEF Webhook, persist_event, CredInv
<1>4. CASE AppTick
  <2>1. TrueTtl - REFRESH_SKEW \in Nat
    BY AppConstants DEF REFRESH_SKEW, FALLBACK_TTL
  <2>2. clock' \in Nat
    BY <1>4, <2>1 DEF AppTick, CredInv
  <2> QED BY <1>4, <2>2 DEF AppTick, CredInv
<1>5. CASE AppRestart
  <2>1. RevocationLedger_open = dir
    BY DEF RevocationLedger_open, is_safe_id, CredInv
  <2> QED BY <1>5, <2>1 DEF AppRestart, CredInv, NoToken, IdleMint
<1> QED BY <1>1, <1>2, <1>3, <1>4, <1>5, UninstallStep, GateStep, ExchangeStep DEF AppNext

LEMMA CredClaims == ASSUME CredInv PROVE CredentialsHonest
BY DEF CredInv, CredentialsHonest, RevokeSticks, TokensLive

-----------------------------------------------------------------------------
(* A posted result: the attempts so far all failed while the call goes on. *)

Codes == {200, 429, 500, 404}
Emitted(state, exit) == [state |-> state, exit |-> exit, conclusion |-> IF exit = 0 THEN "success" ELSE "failure"]

EmitInv ==
    /\ attempts \in Seq(Codes) /\ Len(attempts) <= MaxRetries + 1
    /\ emit.state \in {"idle", "token revoked", "invalid", "sending", "posted", "terminal"}
    /\ emit.state \in {"idle", "token revoked", "invalid"} => attempts = <<>>
    /\ emit.state \in {"sending", "posted", "terminal"} =>
        /\ emit.exit \in 0..1
        /\ emit = Emitted(emit.state, emit.exit)
    /\ emit.state \in {"sending", "terminal"} => \A i \in DOMAIN attempts : ~classify_response(attempts[i])
    /\ emit.state = "terminal" => Len(attempts) = MaxRetries + 1
    /\ emit.state = "posted" =>
        /\ classify_response(attempts[Len(attempts)])
        /\ \A i \in 1..(Len(attempts) - 1) : ~classify_response(attempts[i])

LEMMA EmitStarts == ASSUME StatusInit PROVE EmitInv
BY StatusConstants DEF StatusInit, EmitInv

LEMMA EmitCheckStep == ASSUME EmitInv, EmitCheck PROVE EmitInv'
<1>1. emit.state = "idle" /\ attempts' = attempts
  BY DEF EmitCheck
<1>2. attempts = <<>>
  BY <1>1 DEF EmitInv
<1>3. PICK r \in [key : BOOLEAN, sha : BOOLEAN, exit : 0..1], given \in BOOLEAN :
       emit' = IF ~given THEN [state |-> "token revoked"]
               ELSE IF project(r) = "InvalidResult" THEN [state |-> "invalid"]
               ELSE [state |-> "sending", exit |-> r.exit, conclusion |-> project(r)]
  BY DEF EmitCheck
<1>4. r.exit \in 0..1
  BY <1>3
<1>5. CASE ~given \/ project(r) = "InvalidResult"
  <2>1. emit'.state \in {"token revoked", "invalid"}
    BY <1>3, <1>5
  <2> QED BY <1>1, <1>2, <2>1 DEF EmitInv
<1>6. CASE given /\ project(r) # "InvalidResult"
  <2>1. project(r) = IF r.exit = 0 THEN "success" ELSE "failure"
    BY <1>6 DEF project
  <2>2. emit' = [state |-> "sending", exit |-> r.exit, conclusion |-> project(r)]
    BY <1>3, <1>6
  <2>3. emit'.state = "sending" /\ emit'.exit = r.exit
    BY <2>2
  <2>4. emit' = Emitted(emit'.state, emit'.exit)
    BY <2>1, <2>2, <2>3 DEF Emitted
  <2> QED BY <1>1, <1>2, <1>4, <2>3, <2>4 DEF EmitInv
<1> QED BY <1>5, <1>6

LEMMA SendCheckStep == ASSUME EmitInv, SendCheck PROVE EmitInv'
<1>1. emit.state = "sending" /\ emit.exit \in 0..1 /\ emit = Emitted("sending", emit.exit)
  BY DEF EmitInv, SendCheck
<1>2. \A i \in DOMAIN attempts : ~classify_response(attempts[i])
  BY <1>1 DEF EmitInv
<1>3. /\ attempts \in Seq(Codes) /\ Len(attempts) <= MaxRetries + 1 
      /\ Len(attempts) \in Nat /\ MaxRetries \in Nat
  <2>1. attempts \in Seq(Codes) /\ Len(attempts) <= MaxRetries + 1
    BY DEF EmitInv
  <2>2. MaxRetries \in Nat
    BY StatusConstants
  <2> QED BY <2>1, <2>2
<1>4. ASSUME NEW state
      PROVE  LET e == [emit EXCEPT !.state = state]
             IN  e = Emitted(state, emit.exit) /\ e.state = state /\ e.exit = emit.exit
  BY <1>1 DEF Emitted
<1>6. CASE RetriesLeft(Len(attempts))
  <2>1. PICK code \in Codes : /\ attempts' = Append(attempts, code)
          /\ emit' = IF classify_response(code) THEN [emit EXCEPT !.state = "posted"] ELSE emit
    BY <1>6 DEF SendCheck, Codes
  <2>2. /\ attempts' \in Seq(Codes) /\ Len(attempts') = Len(attempts) + 1 /\ attempts' # <<>>
        /\ attempts'[Len(attempts) + 1] = code
        /\ \A i \in 1..Len(attempts) : attempts'[i] = attempts[i]
    BY <2>1, <1>3
  <2>3. Len(attempts') <= MaxRetries + 1
    BY <1>3, <1>6, <2>2 DEF RetriesLeft
  <2>4. \A i \in 1..Len(attempts) : ~classify_response(attempts'[i])
    BY <1>2, <1>3, <2>2
  <2>5. CASE classify_response(code)
    <3>1. emit' = Emitted("posted", emit.exit) /\ emit'.state = "posted" /\ emit'.exit = emit.exit
      BY <2>1, <2>5, <1>4
    <3>2. classify_response(attempts'[Len(attempts')])
      BY <2>2, <2>5
    <3>3. \A i \in 1..(Len(attempts') - 1) : ~classify_response(attempts'[i])
      BY <1>3, <2>2, <2>4
    <3> QED BY <1>1, <2>2, <2>3, <3>1, <3>2, <3>3 DEF EmitInv
  <2>6. CASE ~classify_response(code)
    <3>1. emit' = emit
      BY <2>1, <2>6
    <3>2. \A i \in DOMAIN attempts' : ~classify_response(attempts'[i])
      BY <1>3, <2>2, <2>4, <2>6
    <3> QED BY <1>1, <2>2, <2>3, <3>1, <3>2 DEF EmitInv
  <2> QED BY <2>5, <2>6
<1>7. CASE ~RetriesLeft(Len(attempts))
  <2>1. emit' = [emit EXCEPT !.state = "terminal"] /\ attempts' = attempts
    BY <1>7 DEF SendCheck
  <2>2. emit' = Emitted("terminal", emit.exit) /\ emit'.state = "terminal" /\ emit'.exit = emit.exit
    BY <1>4, <2>1
  <2>3. Len(attempts) = MaxRetries + 1
    BY <1>3, <1>7 DEF RetriesLeft
  <2> QED BY <1>1, <1>2, <1>3, <2>1, <2>2, <2>3 DEF EmitInv
<1> QED BY <1>6, <1>7

LEMMA EmitClaims == ASSUME EmitInv PROVE RetriesHonest
<1>1. ASSUME emit.state = "posted"
      PROVE  conclusion_to_status_state("completed", emit.conclusion) = "success" <=> emit.exit = 0
  <2>1. emit = Emitted("posted", emit.exit)
    BY <1>1 DEF EmitInv
  <2>2. emit.conclusion = IF emit.exit = 0 THEN "success" ELSE "failure"
    BY <2>1 DEF Emitted
  <2> QED BY <2>2 DEF conclusion_to_status_state
<1> QED BY <1>1 DEF RetriesHonest, EmitInv, Last

-----------------------------------------------------------------------------
(* The writes of an outage are numbered in the order they were accepted;   *)
(* what is held is the end of that count.                                  *)

\* The function FlattenSeq defines, up to m.
IsFlat(f, ss, m) == f = [i \in 1..m |-> IF i = 1 THEN ss[i] ELSE f[i - 1] \o ss[i]]

LEMMA FlatExists ==
    ASSUME NEW ss, NEW m \in Nat
    PROVE  \E f : IsFlat(f, ss, m)
<1> DEFINE Bad == {k \in Nat : ~\E f : IsFlat(f, ss, k)}
<1> SUFFICES ASSUME Bad # {} PROVE FALSE
  OBVIOUS
<1> HIDE DEF Bad
<1>1. PICK k \in Bad : \A y \in Bad : k <= y
  BY LeastNat DEF Bad
<1>2. k \in Nat /\ \A f : ~IsFlat(f, ss, k)
  BY <1>1 DEF Bad
<1>3. k # 0
  <2> DEFINE g == [i \in 1..0 |-> ss]
  <2>1. IsFlat(g, ss, 0)
    BY DEF IsFlat
  <2> QED BY <1>2, <2>1
<1>4. k - 1 \in Nat /\ k - 1 \notin Bad
  BY <1>1, <1>2, <1>3
<1>5. PICK f : IsFlat(f, ss, k - 1)
  BY <1>4 DEF Bad
<1> DEFINE g == [i \in 1..k |-> IF i = k THEN (IF i = 1 THEN ss[i] ELSE f[i - 1] \o ss[i]) ELSE f[i]]
<1>6. \A i \in 1..(k - 1) : f[i] = IF i = 1 THEN ss[i] ELSE f[i - 1] \o ss[i]
  BY <1>5 DEF IsFlat
<1>7. \A i \in 1..k : g[i] = IF i = 1 THEN ss[i] ELSE g[i - 1] \o ss[i]
  <2> TAKE i \in 1..k
  <2>1. i # 1 => i - 1 \in 1..k /\ i - 1 # k /\ g[i - 1] = f[i - 1]
    BY <1>2
  <2>2. CASE i = k
    BY <2>1, <2>2
  <2>3. CASE i # k
    <3>1. i \in 1..(k - 1) /\ g[i] = f[i]
      BY <1>2, <2>3
    <3> HIDE DEF g
    <3> QED BY <3>1, <2>1, <1>6
  <2> QED BY <2>2, <2>3
<1>8. g = [i \in 1..k |-> g[i]]
  OBVIOUS
<1>9. IsFlat(g, ss, k)
  <2> HIDE DEF g
  <2> QED BY <1>7, <1>8 DEF IsFlat
<1> QED BY <1>2, <1>9

\* One more sequence at the end of the sequences is appended to the whole.
LEMMA FlattenGrows ==
    ASSUME NEW ss \in Seq(Seq(Nat)), NEW q \in Seq(Nat), NEW tt, tt = Append(ss, q)
    PROVE  /\ FlattenSeq(ss) \in Seq(Nat) /\ FlattenSeq(tt) \in Seq(Nat)
           /\ FlattenSeq(tt) = FlattenSeq(ss) \o q
<1> DEFINE n == Len(ss)
           f == CHOOSE h : IsFlat(h, ss, n)
           g == CHOOSE h : IsFlat(h, tt, Len(tt))
<1>0. n \in Nat /\ Len(tt) = n + 1 /\ tt[n + 1] = q /\ \A i \in 1..n : tt[i] = ss[i] /\ ss[i] \in Seq(Nat)
  OBVIOUS
<1>f. IsFlat(f, ss, n)
  BY <1>0, FlatExists
<1>g. IsFlat(g, tt, Len(tt))
  <2>1. Len(tt) \in Nat
    BY <1>0
  <2> QED BY <2>1, FlatExists
<1>1. IsFlat(f, ss, n) /\ IsFlat(g, tt, n + 1)
  <2> HIDE DEF f, g, n
  <2> QED BY <1>0, <1>f, <1>g
<1>2. FlattenSeq(ss) = IF n = 0 THEN ss ELSE f[n]
  BY DEF FlattenSeq, IsFlat
<1>3. FlattenSeq(tt) = g[n + 1]
  <2>1. FlattenSeq(tt) = IF Len(tt) = 0 THEN tt ELSE g[Len(tt)]
    BY DEF FlattenSeq, IsFlat
  <2> HIDE DEF g, n
  <2> QED BY <1>0, <2>1
<1> HIDE DEF f, g, n
<1>4. \A i \in 1..n : f[i] = IF i = 1 THEN ss[i] ELSE f[i - 1] \o ss[i]
  BY <1>1 DEF IsFlat
<1>5. \A i \in 1..(n + 1) : g[i] = IF i = 1 THEN tt[i] ELSE g[i - 1] \o tt[i]
  BY <1>1 DEF IsFlat
<1>6. \A i \in 1..n : f[i] \in Seq(Nat) /\ g[i] = f[i]
  <2> DEFINE Bad == {i \in 1..n : ~(f[i] \in Seq(Nat) /\ g[i] = f[i])}
  <2> SUFFICES ASSUME Bad # {} PROVE FALSE
    OBVIOUS
  <2>1. Bad \in SUBSET Nat
    BY <1>0
  <2>2. PICK k \in Bad : \A y \in Bad : k <= y
    BY <2>1, LeastNat
  <2>3. k \in 1..n /\ k \in 1..(n + 1) /\ k \in Nat
    BY <1>0, <2>2
  <2>4. k # 1
    BY <1>0, <1>4, <1>5, <2>2, <2>3
  <2>5. k - 1 \in 1..n /\ k - 1 \notin Bad
    BY <1>0, <2>2, <2>3, <2>4
  <2>6. f[k - 1] \in Seq(Nat) /\ g[k - 1] = f[k - 1]
    BY <2>5
  <2>7. f[k] = f[k - 1] \o ss[k] /\ g[k] = g[k - 1] \o ss[k] /\ ss[k] \in Seq(Nat)
    BY <1>0, <1>4, <1>5, <2>3, <2>4
  <2>8. f[k - 1] \o ss[k] \in Seq(Nat)
    BY <2>6, <2>7
  <2> QED BY <2>2, <2>6, <2>7, <2>8
<1>7. CASE n = 0
  <2>1. ss = <<>>
    BY <1>7 DEF n
  <2>2. g[n + 1] = q
    BY <1>0, <1>5, <1>7
  <2> QED BY <1>2, <1>3, <1>7, <2>1, <2>2
<1>8. CASE n # 0
  <2>1. n \in 1..n /\ n + 1 \in 1..(n + 1) /\ n + 1 # 1 /\ (n + 1) - 1 = n
    BY <1>0, <1>8
  <2>2. g[n + 1] = g[(n + 1) - 1] \o tt[n + 1]
    BY <1>5, <2>1
  <2>3. f[n] \in Seq(Nat) /\ g[n] = f[n]
    BY <1>6, <2>1
  <2>4. g[n + 1] = f[n] \o q
    BY <1>0, <2>1, <2>2, <2>3
  <2>5. f[n] \o q \in Seq(Nat)
    BY <2>3
  <2> QED BY <1>2, <1>3, <1>8, <2>3, <2>4, <2>5
<1> QED BY <1>7, <1>8

Outs(ds) == FlattenSeq([i \in DOMAIN ds |-> ds[i].items])
Drains == [items : Seq(Nat), from : Nat, to : Nat, count : Nat]

HoldInv ==
    /\ held \in Seq(Nat) /\ offered \in Seq(Nat) /\ drained \in Seq(Drains)
    /\ Len(held) <= Len(offered)
    /\ \A i \in 1..Len(held) : held[i] = (Len(offered) - Len(held)) + i
    /\ Outs(drained) \in Seq(Nat)
    /\ Outs(drained) \o held = offered
    /\ \A i \in DOMAIN drained :
        drained[i].count > 0 => drained[i].to - drained[i].from + 1 = drained[i].count

LEMMA HoldStarts == ASSUME StatusInit PROVE HoldInv
<1>1. held = <<>> /\ offered = <<>> /\ drained = <<>>
  BY DEF StatusInit
<1>2. Outs(drained) = <<>>
  BY <1>1 DEF Outs, FlattenSeq
<1>3. <<>> \in Seq(Nat) /\ <<>> \in Seq(Drains) /\ <<>> \o <<>> = <<>> /\ Len(<<>>) = 0 /\ DOMAIN <<>> = {}
  OBVIOUS
<1> DEFINE o == Outs(drained)
<1>4. o = <<>> /\ o \o held = offered
  BY <1>1, <1>2, <1>3
<1> HIDE DEF o
<1>5. held \in Seq(Nat) /\ offered \in Seq(Nat) /\ drained \in Seq(Drains) /\ o \in Seq(Nat)
  BY <1>1, <1>3, <1>4
<1>6. Len(held) = 0 /\ Len(offered) = 0 /\ DOMAIN drained = {} /\ 1..Len(held) = {}
  BY <1>1
<1> QED BY <1>4, <1>5, <1>6 DEF HoldInv, o

LEMMA HoldWriteStep == ASSUME HoldInv, HoldWrite PROVE HoldInv'
<1> DEFINE x == Len(offered) + 1
           out == Outs(drained)
<1>0. held \in Seq(Nat) /\ offered \in Seq(Nat) /\ out \in Seq(Nat) /\ x \in Nat
  BY DEF HoldInv
<1>1. CASE Len(held) >= HoldCap
  BY <1>1 DEF HoldWrite, HoldInv
<1>2. CASE ~(Len(held) >= HoldCap)
  <2>1. held' = Append(held, x) /\ offered' = Append(offered, x) /\ drained' = drained
    BY <1>2 DEF HoldWrite
  <2>2. /\ held' \in Seq(Nat) /\ offered' \in Seq(Nat)
        /\ Len(held') = Len(held) + 1 /\ Len(offered') = Len(offered) + 1
        /\ held'[Len(held) + 1] = Len(offered) + 1
        /\ \A i \in 1..Len(held) : held'[i] = held[i]
    BY <1>0, <2>1
  <2>3. \A i \in 1..Len(held') : held'[i] = (Len(offered') - Len(held')) + i
    <3> SUFFICES ASSUME NEW i \in 1..(Len(held) + 1)
                 PROVE  held'[i] = ((Len(offered) + 1) - (Len(held) + 1)) + i
      BY <2>2
    <3>1. Len(held) \in Nat /\ Len(offered) \in Nat
      BY <1>0
    <3>2. CASE i = Len(held) + 1
      BY <2>2, <3>1, <3>2
    <3>3. CASE i # Len(held) + 1
      <4>1. i \in 1..Len(held) /\ held'[i] = held[i]
        BY <2>2, <3>1, <3>3
      <4>2. held[i] = (Len(offered) - Len(held)) + i
        BY <4>1 DEF HoldInv
      <4> QED BY <3>1, <4>1, <4>2
    <3> QED BY <3>2, <3>3
  <2> HIDE DEF out, x
  <2>4. out \o held' = Append(out \o held, x)
    BY <1>0, <2>1
  <2>5. out \o held' = offered'
    BY <2>1, <2>4 DEF HoldInv, out
  <2>6. Len(held') <= Len(offered')
    BY <1>0, <2>2 DEF HoldInv
  <2> QED BY <2>1, <2>2, <2>3, <2>5, <2>6 DEF HoldInv, out
<1> QED BY <1>1, <1>2

LEMMA DrainHeldStep == ASSUME HoldInv, DrainHeld PROVE HoldInv'
<1> DEFINE d == drain_to_verified(held)
           ss == [i \in DOMAIN drained |-> drained[i].items]
           tt == [i \in DOMAIN drained' |-> drained'[i].items]
<1>0. /\ held \in Seq(Nat) /\ drained \in Seq(Drains) /\ Len(held) \in Nat /\ offered \in Seq(Nat)
      /\ Len(offered) \in Nat /\ Len(held) <= Len(offered)
  <2>1. held \in Seq(Nat) /\ offered \in Seq(Nat)
    BY DEF HoldInv
  <2> QED BY <2>1 DEF HoldInv
<1>1. drained' = Append(drained, d) /\ held' = <<>> /\ offered' = offered
  BY DEF DrainHeld
<1>2. d \in Drains /\ d.items = held /\ (d.count > 0 => d.to - d.from + 1 = d.count)
  <2>1. CASE held = <<>>
    BY <1>0, <2>1 DEF drain_to_verified, Drains
  <2>2. CASE held # <<>>
    <3>1. Len(held) # 0 /\ 1 \in 1..Len(held) /\ Len(held) \in 1..Len(held)
      BY <1>0, <2>2
    <3>2. held[1] = (Len(offered) - Len(held)) + 1 /\ held[Len(held)] = (Len(offered) - Len(held)) + Len(held)
      BY <3>1 DEF HoldInv
    <3>3. d = [items |-> held, from |-> held[1], to |-> held[Len(held)], count |-> Len(held)]
      BY <1>0, <2>2 DEF drain_to_verified, Last
    <3>4. held[1] \in Nat /\ held[Len(held)] \in Nat
      BY <1>0, <3>1
    <3>5. held[Len(held)] - held[1] + 1 = Len(held)
      BY <1>0, <3>2
    <3> QED BY <1>0, <3>3, <3>4, <3>5 DEF Drains
  <2> QED BY <2>1, <2>2
<1> HIDE DEF d
<1>3. /\ drained' \in Seq(Drains) /\ Len(drained') = Len(drained) + 1
      /\ drained'[Len(drained) + 1] = d
      /\ \A i \in 1..Len(drained) : drained'[i] = drained[i] /\ drained[i] \in Drains
  BY <1>0, <1>1, <1>2
<1>4. ss \in Seq(Seq(Nat)) /\ tt = Append(ss, held)
  <2>1. \A i \in 1..Len(drained) : drained[i].items \in Seq(Nat)
    BY <1>3 DEF Drains
  <2>2. DOMAIN drained = 1..Len(drained) /\ Len(drained) \in Nat
    BY <1>0
  <2>3. ss \in Seq(Seq(Nat)) /\ Len(ss) = Len(drained)
    BY <2>1, <2>2
  <2>4. DOMAIN drained' = 1..(Len(drained) + 1)
    BY <1>3, <2>2
  <2> HIDE DEF ss
  <2>5. \A i \in 1..(Len(drained) + 1) : tt[i] = Append(ss, held)[i]
    BY <1>2, <1>3, <2>2, <2>3, <2>4 DEF ss
  <2>6. DOMAIN tt = 1..(Len(drained) + 1)
    BY <2>4
  <2>7. Append(ss, held) = [i \in 1..(Len(drained) + 1) |-> Append(ss, held)[i]]
    <3>1. Append(ss, held) \in Seq(Seq(Nat)) /\ Len(Append(ss, held)) = Len(drained) + 1
      BY <1>0, <2>3
    <3> DEFINE w == Append(ss, held)
    <3> HIDE DEF w
    <3>2. w \in Seq(Seq(Nat)) /\ Len(w) = Len(drained) + 1
      BY <3>1 DEF w
    <3>3. w = [i \in 1..(Len(drained) + 1) |-> w[i]]
      BY <3>2
    <3> QED BY <3>3 DEF w
  <2> QED BY <2>3, <2>4, <2>5, <2>6, <2>7
<1> HIDE DEF ss, tt
<1>5. FlattenSeq(ss) \in Seq(Nat) /\ FlattenSeq(tt) \in Seq(Nat) /\ FlattenSeq(tt) = FlattenSeq(ss) \o held
  BY <1>0, <1>4, FlattenGrows
<1>6. Outs(drained) = FlattenSeq(ss) /\ Outs(drained)' = FlattenSeq(tt)
  BY DEF Outs, ss, tt
<1>7. Outs(drained)' \in Seq(Nat) /\ Outs(drained)' \o held' = offered'
  <2>1. Outs(drained)' = offered
    BY <1>5, <1>6 DEF HoldInv
  <2>2. offered \o <<>> = offered
    BY <1>0
  <2> QED BY <1>0, <1>1, <2>1, <2>2
<1>8. \A i \in DOMAIN drained' :
        drained'[i].count > 0 => drained'[i].to - drained'[i].from + 1 = drained'[i].count
  <2> SUFFICES ASSUME NEW i \in 1..(Len(drained) + 1), drained'[i].count > 0
               PROVE  drained'[i].to - drained'[i].from + 1 = drained'[i].count
    BY <1>3
  <2>1. CASE i = Len(drained) + 1
    BY <1>2, <1>3, <2>1
  <2>2. CASE i # Len(drained) + 1
    <3>1. i \in 1..Len(drained) /\ i \in DOMAIN drained /\ drained'[i] = drained[i]
      BY <1>0, <1>3, <2>2
    <3> QED BY <3>1 DEF HoldInv
  <2> QED BY <2>1, <2>2
<1>9. held' \in Seq(Nat) /\ Len(held') = 0 /\ Len(held') <= Len(offered')
  BY <1>0, <1>1
<1>10. \A i \in 1..Len(held') : held'[i] = (Len(offered') - Len(held')) + i
  BY <1>9
<1> QED BY <1>0, <1>1, <1>3, <1>7, <1>8, <1>9, <1>10 DEF HoldInv

LEMMA HoldClaims == ASSUME HoldInv PROVE HeldInOrder
BY DEF HoldInv, HeldInOrder, Outs

-----------------------------------------------------------------------------
(* The badge and the two sides' tips. *)

BadgeInv == now \in Nat /\ (badge.fresh => ~badge.api_down /\ now - badge.at <= Stale)

LEMMA BadgeStep == ASSUME BadgeInv, BadgeNext PROVE BadgeInv'
<1>1. CASE StatusArrives
  BY <1>1 DEF StatusArrives, BadgeInv
<1>2. CASE RenderBadge
  <2>1. now' = now
    BY <1>2 DEF RenderBadge
  <2>2. badge'.fresh => ~badge'.api_down /\ now - badge'.at <= Stale
    <3>1. CASE badge' = from_live(known.status, known.at)
      BY <3>1 DEF from_live
    <3>2. CASE badge' = from_last_known(known.status, known.at)
      BY <3>2 DEF from_last_known
    <3>3. CASE badge' = unknown_api_down
      BY <3>3 DEF unknown_api_down
    <3> QED BY <1>2, <3>1, <3>2, <3>3 DEF RenderBadge
  <2> QED BY <2>1, <2>2 DEF BadgeInv
<1>3. CASE StatusTick
  BY <1>3 DEF StatusTick, BadgeInv, NoBadge
<1> QED BY <1>1, <1>2, <1>3 DEF BadgeNext

\* The tick that finds a divergence is the first one at or after it.
LEMMA PollFinds ==
    ASSUME NEW at \in Nat
    PROVE  detected_at(at) \in Nat /\ at <= detected_at(at) /\ detected_at(at) - at <= PollInterval
<1> DEFINE p == PollInterval
           a == at + p - 1
           k == a \div p
<1>1. p \in Nat /\ p > 0 /\ a \in Nat
  BY StatusConstants
<1>2. k \in Nat /\ a = p * k + (a % p) /\ a % p \in 0..(p - 1)
  BY <1>1
<1> QED BY <1>1, <1>2 DEF detected_at

LEMMA BadgeClaims == ASSUME BadgeInv PROVE BadgeHonest
<1>1. ASSUME PollInterval <= PollSla PROVE within_sla(now) /\ detected_at(now) >= now
  BY <1>1, PollFinds, StatusConstants DEF BadgeInv, within_sla
<1> QED BY <1>1 DEF BadgeInv, BadgeHonest

TipInv == forge \in [StatusRefs -> StatusTips \cup {NoStatusTip}]
          /\ mirror \in [StatusRefs -> StatusTips \cup {NoStatusTip}]

LEMMA TipStep == ASSUME TipInv, TipNext PROVE TipInv'
<1>1. CASE ForgeOp
  BY <1>1 DEF ForgeOp, apply, TipInv
<1>2. CASE MirrorOp
  BY <1>2 DEF MirrorOp, apply, TipInv
<1>3. CASE RepairAll
  <2>1. \A r \in diff_ref_tips : r \in StatusRefs /\ resolve(FALSE, forge[r], mirror[r], "Unobserved").tip = forge[r]
    BY StatusConstants DEF diff_ref_tips, resolve, classify, TipInv
  <2> QED BY <1>3, <2>1 DEF RepairAll, TipInv
<1> QED BY <1>1, <1>2, <1>3 DEF TipNext

LEMMA TipClaims == ASSUME TipInv PROVE DiffComplete
<1>1. ASSUME diff_ref_tips = {} PROVE \A r \in StatusRefs : forge[r] = mirror[r]
  BY <1>1 DEF diff_ref_tips, TipInv
<1>2. ASSUME \A r \in StatusRefs : forge[r] = mirror[r] PROVE forge = mirror
  BY <1>2 DEF TipInv
<1>3. ASSUME forge = mirror PROVE diff_ref_tips = {}
  BY <1>3 DEF diff_ref_tips
<1> QED BY <1>1, <1>2, <1>3 DEF DiffComplete

StatusInv == EmitInv /\ HoldInv /\ BadgeInv /\ TipInv

LEMMA StatusStep == ASSUME StatusInv, [StatusNext]_statusVars PROVE StatusInv'
<1> USE DEF StatusInv
<1>1. ASSUME UNCHANGED emitVars PROVE EmitInv'
  BY <1>1 DEF emitVars, EmitInv
<1>2. ASSUME UNCHANGED holdVars PROVE HoldInv'
  BY <1>2 DEF holdVars, HoldInv
<1>3. ASSUME UNCHANGED badgeVars PROVE BadgeInv'
  BY <1>3 DEF badgeVars, BadgeInv
<1>4. ASSUME UNCHANGED tipVars PROVE TipInv'
  BY <1>4 DEF tipVars, TipInv
<1>5. CASE EmitNext
  BY <1>5, <1>2, <1>3, <1>4, EmitCheckStep, SendCheckStep DEF EmitNext, EmitCheck, SendCheck
<1>6. CASE HoldNext
  BY <1>6, <1>1, <1>3, <1>4, HoldWriteStep, DrainHeldStep DEF HoldNext, HoldWrite, DrainHeld
<1>7. CASE BadgeNext
  BY <1>7, <1>1, <1>2, <1>4, BadgeStep DEF BadgeNext, StatusArrives, RenderBadge, StatusTick
<1>8. CASE TipNext
  BY <1>8, <1>1, <1>2, <1>3, TipStep DEF TipNext, ForgeOp, MirrorOp, RepairAll
<1>9. CASE UNCHANGED statusVars
  BY <1>9, <1>1, <1>2, <1>3, <1>4 DEF statusVars, emitVars, holdVars, badgeVars, tipVars
<1> QED BY <1>5, <1>6, <1>7, <1>8, <1>9 DEF StatusNext

\* For any installations, threads, tokens, retries, capacities and refs, with
\* crashes and clock steps anywhere: a tombstone refuses every later call, every
\* token handed out is honoured, a result is posted or given up as told, an
\* outage loses no write, and badge and comparison never tell more than is known.
THEOREM AccountsCorrect == AccountsSpec => []AccountsHonest
<1> DEFINE Inv == CredInv /\ StatusInv
<1>1. AppInit /\ StatusInit => Inv
  <2> SUFFICES ASSUME AppInit, StatusInit PROVE Inv
    OBVIOUS
  <2>1. BadgeInv /\ TipInv
    BY DEF StatusInit, BadgeInv, TipInv, NoBadge
  <2> QED BY <2>1, CredStarts, EmitStarts, HoldStarts DEF StatusInv
<1>2. Inv /\ [AccountsNext]_<<appVars, statusVars>> => Inv'
  BY AppStep, StatusStep DEF AccountsNext
<1>3. Inv => AccountsHonest
  BY CredClaims, EmitClaims, HoldClaims, BadgeClaims, TipClaims
     DEF StatusInv, AccountsHonest, StatusHonest
<1> QED BY <1>1, <1>2, <1>3, PTL DEF AccountsSpec

-----------------------------------------------------------------------------
(* Seeding: what lies behind the loop is verified, what is verified is as in *)
(* the source, and a loss is recovered only after the seed is complete.      *)
SeedNames == Range(SeedRefs)
SeedCount == Len(SeedRefs)

SeedTypes ==
  /\ units \in [SeedNames -> Hashes] /\ copy \in [SeedNames -> Hashes \cup {NoHash}]
  /\ progress.verified \in SUBSET SeedNames
  /\ seed \in [state : {"fresh", "running", "interrupted", "mismatch", "complete"}, at : Nat]

SeedInv ==
  /\ SeedTypes
  /\ mirrorOk.kind = "none" => \A r \in progress.verified : copy[r] = units[r]
  /\ seed.state = "running" => /\ seed.at \in 1..(SeedCount + 1)
                               /\ \A j \in 1..(seed.at - 1) : SeedRefs[j] \in progress.verified
  /\ seed.state = "complete" => seed.at = SeedCount /\ progress.verified = SeedNames
  /\ seed.state # "complete" => mirrorOk.kind = "none"
  /\ mirrorOk.kind # "none" /\ mirrorOk.ok => copy = units

LEMMA RefsCounted ==
  /\ SeedCount \in Nat /\ DOMAIN SeedRefs = 1..SeedCount /\ Cardinality(SeedNames) = SeedCount
  /\ \A k \in 1..SeedCount : SeedRefs[k] \in SeedNames
  /\ \A r \in SeedNames : \E k \in 1..SeedCount : r = SeedRefs[k]
<1>1. SeedCount \in Nat /\ DOMAIN SeedRefs = 1..SeedCount
  BY ImportConstants DEF SeedCount
<1>2. SeedNames = {SeedRefs[k] : k \in 1..SeedCount}
  BY <1>1 DEF SeedNames, Range
<1>3. \A i, j \in 1..SeedCount : SeedRefs[i] = SeedRefs[j] => i = j
  BY <1>1, ImportConstants DEF IsInjective
<1>4. SeedRefs \in [1..SeedCount -> SeedNames]
  BY <1>1, <1>2, ImportConstants DEF SeedNames, SeedCount
<1>5. SeedRefs \in Bijection(1..SeedCount, SeedNames)
  BY <1>2, <1>3, <1>4 DEF Bijection, Injection, Surjection, IsInjective
<1>6. Cardinality(SeedNames) = SeedCount
  BY <1>1, <1>5, FS_CountingElements DEF ExistsBijection
<1> QED BY <1>1, <1>2, <1>6

LEMMA SeedStartStep == ASSUME SeedInv, SeedStart PROVE SeedInv'
BY RefsCounted DEF SeedInv, SeedTypes, SeedStart

LEMMA ColdSeedStep == ASSUME SeedInv, cold_seed PROVE SeedInv'
<1> DEFINE k == seed.at
<1> USE RefsCounted
<1>0. seed.state = "running" /\ UNCHANGED <<units, mirrorOk>> /\ mirrorOk.kind = "none"
  BY DEF cold_seed, SeedInv
<1>1. k \in 1..(SeedCount + 1) /\ \A j \in 1..(k - 1) : SeedRefs[j] \in progress.verified
  BY <1>0 DEF SeedInv
<1>2. CASE /\ k > SeedCount /\ seed' = [state |-> "complete", at |-> Cardinality(progress.verified)]
           /\ UNCHANGED <<copy, progress>>
  <2>1. \A j \in 1..SeedCount : SeedRefs[j] \in progress.verified
    BY <1>1, <1>2
  <2>2. SeedNames \subseteq progress.verified
    BY <2>1
  <2>3. progress.verified = SeedNames
    BY <2>2 DEF SeedInv, SeedTypes
  <2> QED BY <1>0, <1>2, <2>3 DEF SeedInv, SeedTypes
<1>3. CASE /\ k <= SeedCount /\ is_verified(progress, k) /\ seed' = [seed EXCEPT !.at = k + 1]
           /\ UNCHANGED <<copy, progress>>
  <2>1. seed'.state = "running" /\ seed'.at = k + 1 /\ seed' \in [state : {"running"}, at : Nat]
    BY <1>0, <1>1, <1>3 DEF SeedInv, SeedTypes
  <2>2. \A j \in 1..k : SeedRefs[j] \in progress.verified
    BY <1>1, <1>3 DEF is_verified
  <2> QED BY <1>0, <1>1, <1>3, <2>1, <2>2 DEF SeedInv, SeedTypes
<1>4. CASE /\ k <= SeedCount /\ ~is_verified(progress, k)
           /\ \E h \in Hashes : copy' = [copy EXCEPT ![SeedRefs[k]] = h] /\ SeedUnit(k, h)
  <2>1. PICK h \in Hashes : copy' = [copy EXCEPT ![SeedRefs[k]] = h] /\ SeedUnit(k, h)
    BY <1>4
  <2>2. SeedRefs[k] \in SeedNames /\ SeedRefs[k] \notin progress.verified
    BY <1>1, <1>4 DEF is_verified
  <2>3. copy' \in [SeedNames -> Hashes \cup {NoHash}] /\ copy'[SeedRefs[k]] = h
        /\ \A r \in progress.verified : copy'[r] = copy[r]
    BY <2>1, <2>2 DEF SeedInv, SeedTypes
  <2>4. CASE h = units[SeedRefs[k]]
    <3>1. progress' = record(progress, k) /\ seed' = [seed EXCEPT !.at = k + 1]
      BY <2>1, <2>4 DEF SeedUnit
    <3>2. seed'.state = "running" /\ seed'.at = k + 1 /\ seed' \in [state : {"running"}, at : Nat]
      BY <1>0, <1>1, <3>1 DEF SeedInv, SeedTypes
    <3>3. progress'.verified = progress.verified \cup {SeedRefs[k]}
      BY <3>1 DEF record
    <3>4. \A j \in 1..k : SeedRefs[j] \in progress'.verified
      BY <1>1, <3>3
    <3> QED BY <1>0, <1>1, <1>4, <2>2, <2>3, <2>4, <3>2, <3>3, <3>4 DEF SeedInv, SeedTypes
  <2>5. CASE h # units[SeedRefs[k]]
    <3>1. progress' = progress /\ seed' = [state |-> "mismatch", at |-> k]
      BY <2>1, <2>5 DEF SeedUnit
    <3> QED BY <1>0, <1>1, <2>3, <3>1 DEF SeedInv, SeedTypes
  <2> QED BY <2>4, <2>5
<1>5. CASE seed' = [state |-> "interrupted", at |-> k] /\ UNCHANGED <<copy, progress>>
  BY <1>0, <1>1, <1>5 DEF SeedInv, SeedTypes
<1> QED BY <1>2, <1>3, <1>4, <1>5 DEF cold_seed, SeedCount

LEMMA RecoverStep ==
  ASSUME SeedInv, recover_github_loss \/ recover_substrate_loss PROVE SeedInv'
<1>1. UNCHANGED <<units, progress, seed>> /\ seed.state = "complete"
  BY DEF recover_github_loss, recover_substrate_loss
<1> DEFINE Kinds == {"AppRevocation", "RepoDeletionOrRename", "SubstrateLoss"}
<1>2. PICK kind \in Kinds, readback \in [SeedNames -> Hashes] :
        /\ copy' = readback
        /\ mirrorOk' = RecoveredTo(kind, readback) \/ mirrorOk' = Recovery(kind, 0, FALSE)
  <2>1. CASE recover_github_loss
    <3>1. PICK probe \in {"auth", "notfound"}, readback \in [SeedNames -> Hashes] :
            copy' = readback /\ mirrorOk' = RecoveredTo(detect_github_loss(probe), readback)
      BY <2>1 DEF recover_github_loss, SeedNames
    <3>2. detect_github_loss(probe) \in Kinds
      BY DEF detect_github_loss
    <3> QED BY <3>1, <3>2
  <2>2. CASE recover_substrate_loss
    <3>1. PICK working \in BOOLEAN, readback \in [SeedNames -> Hashes] :
            /\ copy' = readback
            /\ mirrorOk' = IF working THEN RecoveredTo("SubstrateLoss", readback)
                           ELSE Recovery("SubstrateLoss", 0, FALSE)
      BY <2>2 DEF recover_substrate_loss, SeedNames
    <3> QED BY <3>1
  <2> QED BY <2>1, <2>2
<1> DEFINE bad == {k \in DOMAIN SeedRefs : readback[SeedRefs[k]] # units[SeedRefs[k]]}
<1>a. RecoveredTo(kind, readback).kind = kind /\ RecoveredTo(kind, readback).ok = (bad = {})
  BY Zenon DEF RecoveredTo, Recovery
<1>b. Recovery(kind, 0, FALSE).kind = kind /\ Recovery(kind, 0, FALSE).ok = FALSE
  BY DEF Recovery
<1>3. mirrorOk'.kind = kind /\ kind # "none"
  BY <1>2, <1>a, <1>b
<1>4. mirrorOk'.ok => \A k \in DOMAIN SeedRefs : readback[SeedRefs[k]] = units[SeedRefs[k]]
  <2>1. CASE mirrorOk' = RecoveredTo(kind, readback)
    BY <2>1, <1>a
  <2>2. CASE mirrorOk' = Recovery(kind, 0, FALSE)
    BY <2>2, <1>b
  <2> QED BY <1>2, <2>1, <2>2
<1>5. mirrorOk'.ok => readback = units
  <2>1. mirrorOk'.ok => \A r \in SeedNames : readback[r] = units[r]
    BY <1>4, RefsCounted
  <2> QED BY <1>2, <2>1 DEF SeedInv, SeedTypes
<1> QED BY <1>1, <1>2, <1>3, <1>5 DEF SeedInv, SeedTypes

-----------------------------------------------------------------------------
(* The history: the cursor counts the events written, which are, as long as  *)
(* the source is not rewritten, its first commits in its order; the cursor   *)
(* names the last of them.                                                   *)
HistoryTypes ==
  /\ source \in Seq(Commits)
  /\ events \in Seq([kind : {"git.commit"}, oid : Commits, seq : Nat])
  /\ cursor \in [oid : Commits \cup {NoHash}, seq : Nat]

Followed ==
  /\ \A i, j \in 1..Len(source) : source[i] = source[j] => i = j
  /\ Len(events) <= Len(source)
  /\ \A i \in 1..Len(events) : events[i].oid = source[i]
  /\ cursor.oid = IF Len(events) = 0 THEN NoHash ELSE source[Len(events)]

HistoryInv ==
  /\ HistoryTypes
  /\ cursor.seq = Len(events)
  /\ \A i \in 1..Len(events) : events[i].seq = i
  /\ rewrites = 0 => Followed

LEMMA CutOf ==
  ASSUME NEW S, NEW s \in Seq(S), NEW m \in Nat \ {0}, NEW n \in Nat, n <= Len(s)
  PROVE  /\ SubSeq(s, m, n) \in Seq(S)
         /\ Len(SubSeq(s, m, n)) = IF m <= n THEN n - m + 1 ELSE 0
         /\ \A i \in 1..(n - m + 1) : SubSeq(s, m, n)[i] = s[m + i - 1]
<1>1. \A i \in m..n : s[i] \in S
  OBVIOUS
<1> QED BY <1>1, SubSeqProperties

LEMMA RestOf ==
  ASSUME NEW S, NEW s \in Seq(S), NEW k \in 1..Len(s)
  PROVE  LET t == SubSeq(s, k + 1, Len(s))
         IN  t \in Seq(S) /\ Len(t) = Len(s) - k /\ \A i \in 1..Len(t) : t[i] = s[k + i]
<1> DEFINE t == SubSeq(s, k + 1, Len(s))
<1>0. k \in Nat /\ Len(s) \in Nat /\ k <= Len(s) /\ k + 1 \in Nat \ {0}
  OBVIOUS
<1>1. /\ t \in Seq(S)
      /\ Len(t) = IF k + 1 <= Len(s) THEN Len(s) - (k + 1) + 1 ELSE 0
      /\ \A i \in 1..(Len(s) - (k + 1) + 1) : t[i] = s[(k + 1) + i - 1]
  BY <1>0, CutOf
<1> HIDE DEF t
<1>2. Len(t) = Len(s) - k
  BY <1>0, <1>1
<1>3. \A i \in 1..Len(t) : i \in 1..(Len(s) - (k + 1) + 1) /\ (k + 1) + i - 1 = k + i
  BY <1>0, <1>2
<1>4. \A i \in 1..Len(t) : t[i] = s[k + i]
  BY <1>1, <1>3
<1> QED BY <1>1, <1>2, <1>4 DEF t

LEMMA JoinOf ==
  ASSUME NEW S, NEW s \in Seq(S), NEW t \in Seq(S)
  PROVE  /\ s \o t \in Seq(S) /\ Len(s \o t) = Len(s) + Len(t)
         /\ \A i \in 1..Len(s) : (s \o t)[i] = s[i]
         /\ \A i \in 1..Len(t) : (s \o t)[Len(s) + i] = t[i]
<1>0. Len(s) \in Nat /\ Len(t) \in Nat
  OBVIOUS
<1> DEFINE u == s \o t
<1>1. /\ u \in Seq(S) /\ Len(u) = Len(s) + Len(t)
      /\ \A i \in 1..(Len(s) + Len(t)) : u[i] = IF i <= Len(s) THEN s[i] ELSE t[i - Len(s)]
  BY ConcatProperties
<1> HIDE DEF u
<1>2. \A i \in 1..Len(s) : u[i] = s[i]
  BY <1>0, <1>1
<1>3. \A i \in 1..Len(t) : u[Len(s) + i] = t[i]
  BY <1>0, <1>1
<1> QED BY <1>1, <1>2, <1>3 DEF u

LEMMA ListOf ==
  ASSUME NEW S, NEW n \in Nat, NEW f \in [1..n -> S]
  PROVE  f \in Seq(S) /\ Len(f) = n
OBVIOUS

(* What is still due is what follows the events written.                     *)
LEMMA DueIs ==
  ASSUME HistoryInv
  PROVE  LET due == compute_idempotency(cursor, source)
         IN  /\ due \in Seq(Commits)
             /\ rewrites = 0 => /\ Len(due) = Len(source) - Len(events)
                                /\ \A i \in 1..Len(due) : due[i] = source[Len(events) + i]
<1> DEFINE due == compute_idempotency(cursor, source)
           i0 == CHOOSE i \in DOMAIN source : source[i] = cursor.oid
<1>0. source \in Seq(Commits) /\ Len(source) \in Nat /\ DOMAIN source = 1..Len(source)
      /\ Len(events) \in Nat
  BY DEF HistoryInv, HistoryTypes
<1>1. CASE cursor.oid = NoHash \/ cursor.oid \notin Range(source)
  <2>1. due = source
    BY <1>1 DEF compute_idempotency
  <2>2. ASSUME rewrites = 0, Len(events) # 0 PROVE FALSE
    <3>1. Len(events) \in 1..Len(source) /\ cursor.oid = source[Len(events)]
      BY <1>0, <2>2 DEF HistoryInv, Followed
    <3>2. cursor.oid \in Range(source) /\ cursor.oid \in Commits
      BY <1>0, <3>1 DEF Range
    <3> QED BY <1>1, <3>2, ImportConstants
  <2>3. ASSUME rewrites = 0
        PROVE  /\ Len(source) = Len(source) - Len(events)
               /\ \A i \in 1..Len(source) : source[i] = source[Len(events) + i]
    <3>1. Len(events) = 0
      BY <2>2, <2>3
    <3> QED BY <1>0, <3>1
  <2> HIDE DEF due
  <2>4. due \in Seq(Commits)
        /\ (rewrites = 0 => /\ Len(due) = Len(source) - Len(events)
                            /\ \A i \in 1..Len(due) : due[i] = source[Len(events) + i])
    BY <1>0, <2>1, <2>3
  <2> QED BY <2>4 DEF due
<1>2. CASE ~(cursor.oid = NoHash \/ cursor.oid \notin Range(source))
  <2>1. due = SubSeq(source, i0 + 1, Len(source))
    BY <1>2 DEF compute_idempotency
  <2>2. i0 \in 1..Len(source) /\ source[i0] = cursor.oid
    BY <1>0, <1>2 DEF Range
  <2>3. /\ due \in Seq(Commits)
        /\ Len(due) = Len(source) - i0
        /\ \A i \in 1..Len(due) : due[i] = source[i0 + i]
    <3> HIDE DEF i0
    <3> QED BY <1>0, <2>1, <2>2, RestOf
  <2>4. ASSUME rewrites = 0 PROVE i0 = Len(events)
    <3>1. Followed
      BY <2>4 DEF HistoryInv
    <3>2. Len(events) \in 1..Len(source) /\ source[Len(events)] = cursor.oid
      BY <1>0, <1>2, <3>1 DEF Followed
    <3> QED BY <2>2, <3>1, <3>2 DEF Followed
  <2> QED BY <2>3, <2>4
<1> QED BY <1>1, <1>2

LEMMA ImportRoundStep == ASSUME HistoryInv, ImportRound PROVE HistoryInv'
<1> DEFINE due == compute_idempotency(cursor, source)
           E == [kind : {"git.commit"}, oid : Commits, seq : Nat]
<1>1. PICK n \in 1..Len(due) :
        \/ UNCHANGED <<events, cursor>>
        \/ /\ events' = events \o import_commits(SubSeq(due, 1, n), cursor)
           /\ cursor' = advance(cursor, SubSeq(due, 1, n))
  BY DEF ImportRound
<1> DEFINE batch == SubSeq(due, 1, n)
<1>2. UNCHANGED <<source, rewrites>>
  BY DEF ImportRound
<1>3. CASE UNCHANGED <<events, cursor>>
  BY <1>2, <1>3 DEF HistoryInv, HistoryTypes, Followed
<1>4. CASE events' = events \o import_commits(batch, cursor) /\ cursor' = advance(cursor, batch)
  <2>0. events \in Seq(E) /\ Len(events) \in Nat /\ cursor.seq = Len(events)
        /\ source \in Seq(Commits) /\ Len(source) \in Nat
    BY DEF HistoryInv, HistoryTypes
  <2>1. due \in Seq(Commits) /\ Len(due) \in Nat
        /\ (rewrites = 0 => /\ Len(due) = Len(source) - Len(events)
                            /\ \A i \in 1..Len(due) : due[i] = source[Len(events) + i])
    BY DueIs
  <2> HIDE DEF due
  <2>2. n \in Nat \ {0} /\ n <= Len(due)
    BY <2>1
  <2>3. batch \in Seq(Commits) /\ Len(batch) = n /\ \A i \in 1..n : batch[i] = due[i]
    <3>1. /\ batch \in Seq(Commits)
          /\ Len(batch) = IF 1 <= n THEN n - 1 + 1 ELSE 0
          /\ \A i \in 1..(n - 1 + 1) : batch[i] = due[1 + i - 1]
      BY <2>1, <2>2, CutOf
    <3> QED BY <2>1, <2>2, <3>1
  <2> HIDE DEF batch
  <2> DEFINE new == import_commits(batch, cursor)
  <2>4. /\ new \in Seq(E) /\ Len(new) = n
        /\ \A i \in 1..n : new[i].seq = Len(events) + i /\ new[i].oid = batch[i]
    <3>1. DOMAIN batch = 1..n
      BY <2>3
    <3>2. new = [i \in 1..n |-> [kind |-> "git.commit", oid |-> batch[i], seq |-> Len(events) + i]]
      BY <2>0, <3>1 DEF import_commits, project_commit_to_event, parse_commit_meta
    <3>3. \A i \in 1..n : batch[i] \in Commits
      BY <2>3
    <3>4. \A i \in 1..n : new[i] = [kind |-> "git.commit", oid |-> batch[i], seq |-> Len(events) + i]
      BY <3>2
    <3>5. new \in [1..n -> E]
      BY <2>0, <2>2, <3>2, <3>3
    <3> HIDE DEF new, E
    <3>6. new \in Seq(E) /\ Len(new) = n
      BY <2>2, <3>5, ListOf
    <3> QED BY <3>4, <3>6
  <2>5. cursor' = [oid |-> batch[n], seq |-> Len(events) + n]
    BY <1>4, <2>0, <2>3 DEF advance, Last
  <2> HIDE DEF new
  <2>6. /\ events' \in Seq(E) /\ Len(events') = Len(events) + n
        /\ \A i \in 1..Len(events) : events'[i] = events[i]
        /\ \A i \in 1..n : events'[Len(events) + i] = new[i]
    <3>0. events' = events \o new
      BY <1>4 DEF new
    <3> HIDE DEF E
    <3>1. new \in Seq(E) /\ Len(new) = n /\ events \in Seq(E)
      BY <2>0, <2>4
    <3> DEFINE u == events \o new
    <3>2. /\ u \in Seq(E) /\ Len(u) = Len(events) + Len(new)
          /\ \A i \in 1..Len(events) : u[i] = events[i]
          /\ \A i \in 1..Len(new) : u[Len(events) + i] = new[i]
      <4>1. \A a, b \in Seq(E) :
              /\ a \o b \in Seq(E) /\ Len(a \o b) = Len(a) + Len(b)
              /\ \A i \in 1..Len(a) : (a \o b)[i] = a[i]
              /\ \A i \in 1..Len(b) : (a \o b)[Len(a) + i] = b[i]
        BY JoinOf
      <4> QED BY <3>1, <4>1
    <3> HIDE DEF u
    <3> QED BY <3>0, <3>1, <3>2 DEF u
  <2>7. \A i \in 1..Len(events') : \/ i \in 1..Len(events) /\ events'[i] = events[i]
                                   \/ \E j \in 1..n : i = Len(events) + j /\ events'[i] = new[j]
    <3>1. TAKE i \in 1..Len(events')
    <3>2. CASE i <= Len(events)
      BY <2>0, <2>6, <3>2
    <3>3. CASE i > Len(events)
      <4>1. i - Len(events) \in 1..n /\ i = Len(events) + (i - Len(events))
        BY <2>0, <2>2, <2>6, <3>3
      <4> QED BY <2>6, <4>1
    <3> QED BY <2>0, <3>2, <3>3
  <2>8. \A i \in 1..Len(events') : events'[i].seq = i
    BY <2>4, <2>7 DEF HistoryInv
  <2>9. HistoryTypes' /\ cursor'.seq = Len(events')
    <3>1. batch[n] \in Commits
      BY <2>2, <2>3
    <3> QED BY <1>2, <2>0, <2>2, <2>5, <2>6, <3>1 DEF HistoryTypes
  <2>10. ASSUME rewrites = 0 PROVE Followed'
    <3>1. Followed
      BY <2>10 DEF HistoryInv
    <3>2. \A j \in 1..n : new[j].oid = source[Len(events) + j]
      BY <2>1, <2>2, <2>3, <2>4, <2>10
    <3>3. \A i \in 1..Len(events') : events'[i].oid = source[i]
      BY <2>7, <3>1, <3>2 DEF Followed
    <3>4. Len(events') <= Len(source) /\ Len(events') # 0
      BY <2>0, <2>1, <2>2, <2>6, <2>10
    <3>5. cursor'.oid = source[Len(events')]
      <4>1. batch[n] = source[Len(events) + n]
        BY <2>1, <2>2, <2>3, <2>10
      <4> QED BY <2>5, <2>6, <4>1
    <3> QED BY <1>2, <3>1, <3>3, <3>4, <3>5 DEF Followed
  <2> QED BY <1>2, <2>8, <2>9, <2>10 DEF HistoryInv
<1> QED BY <1>1, <1>3, <1>4

LEMMA SourceStep == ASSUME HistoryInv, SourceCommit \/ SourceRewrite PROVE HistoryInv'
<1>0. source \in Seq(Commits) /\ Len(source) \in Nat /\ Len(events) \in Nat
      /\ UNCHANGED <<events, cursor>>
  BY DEF HistoryInv, HistoryTypes, SourceCommit, SourceRewrite
<1>1. CASE SourceCommit
  <2>1. PICK c \in Commits \ Range(source) : source' = Append(source, c)
    BY <1>1 DEF SourceCommit
  <2>2. /\ source' \in Seq(Commits) /\ Len(source') = Len(source) + 1
        /\ \A i \in 1..Len(source) : source'[i] = source[i] /\ source[i] # c
        /\ source'[Len(source) + 1] = c
    BY <1>0, <2>1 DEF Range
  <2>3. ASSUME Followed PROVE Followed'
    <3>1. \A i, j \in 1..Len(source') : source'[i] = source'[j] => i = j
      BY <1>0, <2>2, <2>3 DEF Followed
    <3>2. Len(events) # 0 => Len(events) \in 1..Len(source)
      BY <1>0, <2>3 DEF Followed
    <3> QED BY <1>0, <2>2, <2>3, <3>1, <3>2 DEF Followed
  <2>4. rewrites' = rewrites
    BY <1>1 DEF SourceCommit
  <2> QED BY <1>0, <2>2, <2>3, <2>4 DEF HistoryInv, HistoryTypes
<1>2. CASE SourceRewrite
  <2>1. PICK c \in Commits \ Range(source) : source' = Append(Front(source), c)
    BY <1>2 DEF SourceRewrite
  <2>2. Front(source) \in Seq(Commits)
    BY <1>0, SubSeqProperties DEF Front
  <2>3. source' \in Seq(Commits)
    BY <2>1, <2>2
  <2>4. rewrites' = 1
    BY <1>2 DEF SourceRewrite
  <2> QED BY <1>0, <2>3, <2>4 DEF HistoryInv, HistoryTypes
<1> QED BY <1>1, <1>2

-----------------------------------------------------------------------------
(* The objects fetched: LFS bytes are the pointer's; one proposal per url.   *)
LEMMA LfsStep == ASSUME FetchedExact, MaterializeLfs PROVE FetchedExact'
<1>1. prOut' = prOut
  BY DEF MaterializeLfs
<1>2. PICK p \in LfsObjects, b1 \in LfsObjects, b2 \in LfsObjects, usable \in BOOLEAN, s \in Hashes,
           blob \in [marked : BOOLEAN, oid : {TRUE}, size : {TRUE}, hex : BOOLEAN] :
        lfsOut' = IF parse_lfs_pointer(blob) # "ok" THEN LfsResult(parse_lfs_pointer(blob), p, NoBytes)
                  ELSE materialize_lfs_via_batch(p, <<[sha |-> s, href |-> 1, usable |-> TRUE],
                                                      [sha |-> p.sha, href |-> 2, usable |-> usable]>>,
                                                 <<b1, b2>>)
  BY DEF MaterializeLfs
<1> DEFINE Checked(r, b) == lfsOut' = LfsResult(r, p, b)
<1>3. \A r, b : Checked(r, b) => lfsOut'.res = r /\ lfsOut'.ptr = p /\ lfsOut'.bytes = b
  BY DEF LfsResult
<1>4. \/ Checked("NotAPointer", NoBytes) \/ Checked("MalformedPointer", NoBytes)
      \/ Checked("FetchFailed", NoBytes)
      \/ \E b \in LfsObjects : LET v == verify_lfs_object(p, b)
                               IN  Checked(v, IF v = "ok" THEN b ELSE NoBytes)
  <2>1. CASE parse_lfs_pointer(blob) # "ok"
    <3>1. parse_lfs_pointer(blob) \in {"NotAPointer", "MalformedPointer"}
      BY <2>1 DEF parse_lfs_pointer
    <3> QED BY <1>2, <2>1, <3>1
  <2>2. CASE parse_lfs_pointer(blob) = "ok"
    <3> DEFINE answer == <<[sha |-> s, href |-> 1, usable |-> TRUE],
                           [sha |-> p.sha, href |-> 2, usable |-> usable]>>
               acts == parse_batch_response(answer)
               mine == {i \in DOMAIN acts : acts[i].sha = p.sha}
               first == CHOOSE i \in mine : \A j \in mine : i <= j
    <3>1. lfsOut' = materialize_lfs_via_batch(p, answer, <<b1, b2>>)
      BY <1>2, <2>2
    <3>2. CASE mine = {}
      BY <3>1, <3>2 DEF materialize_lfs_via_batch
    <3>3. CASE mine # {}
      <4>1. mine \in SUBSET {1, 2} /\ \A i \in mine : acts[i].href \in {1, 2}
        BY DEF parse_batch_response
      <4>2. first \in mine
        <5>1. \E i \in mine : \A j \in mine : i <= j
          <6> HIDE DEF mine
          <6>1. mine \in SUBSET Nat
            BY <4>1
          <6> QED BY <3>3, <6>1, LeastNat
        <5> QED BY <5>1
      <4>3. acts[first].href \in {1, 2}
        BY <4>1, <4>2
      <4> DEFINE b == <<b1, b2>>[acts[first].href]
      <4>4. b \in LfsObjects
        BY <4>3
      <4>5. LET v == verify_lfs_object(p, b) IN Checked(v, IF v = "ok" THEN b ELSE NoBytes)
        BY <3>1, <3>3 DEF materialize_lfs_via_batch
      <4> HIDE DEF b
      <4> QED BY <4>4, <4>5
    <3> QED BY <3>2, <3>3
  <2> QED BY <2>1, <2>2
<1> HIDE DEF Checked
<1>5. \A b \in LfsObjects : /\ verify_lfs_object(p, b) \in {"SizeMismatch", "Sha256Mismatch", "ok"}
                            /\ verify_lfs_object(p, b) = "ok" => b = [sha |-> p.sha, size |-> p.size]
  BY DEF verify_lfs_object, LfsObjects
<1>6. /\ lfsOut'.res \in LfsErrors \cup {"none", "ok"}
      /\ lfsOut'.res = "ok" => lfsOut'.bytes = [sha |-> lfsOut'.ptr.sha, size |-> lfsOut'.ptr.size]
  BY <1>3, <1>4, <1>5 DEF LfsErrors
<1> QED BY <1>1, <1>6 DEF FetchedExact

(* The k first pull requests are listed: each proposal is of one of them,    *)
(* each url has one, no two have the same.                                   *)
NewUrl(prs, i) == prs[i].url # "" /\ \A j \in 1..(i - 1) : prs[j].url # prs[i].url
IsProposals(f, prs, k) ==
  f = [i \in 0..k |-> IF i = 0 THEN <<>>
                      ELSE IF NewUrl(prs, i) THEN Append(f[i - 1], to_proposed_intent(prs[i])) ELSE f[i - 1]]
Proposals(prs) == {to_proposed_intent(prs[i]) : i \in 1..Len(prs)}
ProposalId(url) == <<"proposed", url>>
OfThem(s, prs, k) ==
  \A a \in 1..Len(s) : \E i \in 1..k : prs[i].url # "" /\ s[a] = to_proposed_intent(prs[i])
EachOne(s, prs, k) ==
  \A i \in 1..k : prs[i].url # "" => \E a \in 1..Len(s) : s[a].id = ProposalId(prs[i].url)
Distinct(s) == \A a, b \in 1..Len(s) : s[a].id = s[b].id => a = b
Listed(s, prs, k) ==
  s \in Seq(Proposals(prs)) /\ OfThem(s, prs, k) /\ EachOne(s, prs, k) /\ Distinct(s)

LEMMA IdOf ==
  /\ \A pr : to_proposed_intent(pr).id = ProposalId(pr.url) /\ to_proposed_intent(pr).authoritative = FALSE
  /\ \A x, y : ProposalId(x) = ProposalId(y) => x = y
  /\ \A x : ProposalId(x)[2] = x
BY DEF to_proposed_intent, ProposalId

LEMMA ListedStep ==
  ASSUME NEW prs, Len(prs) \in Nat, NEW k \in 1..Len(prs), NEW s, Listed(s, prs, k - 1)
  PROVE  Listed(IF NewUrl(prs, k) THEN Append(s, to_proposed_intent(prs[k])) ELSE s, prs, k)
<1>0. k \in Nat /\ k \in 1..k /\ \A i \in 1..k : i = k \/ i \in 1..(k - 1)
  OBVIOUS
<1>1. \A i \in 1..(k - 1) : i \in 1..k
  OBVIOUS
<1>2. /\ s \in Seq(Proposals(prs)) /\ OfThem(s, prs, k - 1) /\ EachOne(s, prs, k - 1) /\ Distinct(s)
      /\ Len(s) \in Nat
  BY DEF Listed
<1>3. CASE NewUrl(prs, k)
  <2> DEFINE e == to_proposed_intent(prs[k])
             t == Append(s, e)
  <2>0. prs[k].url # "" /\ \A j \in 1..(k - 1) : prs[j].url # prs[k].url
    BY <1>3, Zenon DEF NewUrl
  <2>1. e \in Proposals(prs) /\ e.id = ProposalId(prs[k].url)
    BY IdOf DEF Proposals
  <2>2. e = to_proposed_intent(prs[k])
    OBVIOUS
  <2> HIDE DEF e
  <2>3. /\ t \in Seq(Proposals(prs)) /\ Len(t) = Len(s) + 1 /\ t[Len(s) + 1] = e
        /\ \A a \in 1..Len(s) : t[a] = s[a]
    BY <1>2, <2>1, AppendProperties
  <2> HIDE DEF t
  <2>4. /\ \A a \in 1..Len(t) : a = Len(s) + 1 \/ a \in 1..Len(s)
        /\ \A a \in 1..Len(s) : a \in 1..Len(t)
        /\ Len(s) + 1 \in 1..Len(t)
    BY <1>2, <2>3
  <2>5. OfThem(t, prs, k)
    <3> SUFFICES ASSUME NEW a \in 1..Len(t)
                 PROVE  \E i \in 1..k : prs[i].url # "" /\ t[a] = to_proposed_intent(prs[i])
      BY DEF OfThem
    <3>1. CASE a = Len(s) + 1
      BY <1>0, <2>0, <2>2, <2>3, <3>1
    <3>2. CASE a \in 1..Len(s)
      <4>1. PICK i \in 1..(k - 1) : prs[i].url # "" /\ s[a] = to_proposed_intent(prs[i])
        BY <1>2, <3>2 DEF OfThem
      <4> QED BY <1>1, <2>3, <3>2, <4>1
    <3> QED BY <2>4, <3>1, <3>2
  <2>6. EachOne(t, prs, k)
    <3> SUFFICES ASSUME NEW i \in 1..k, prs[i].url # ""
                 PROVE  \E a \in 1..Len(t) : t[a].id = ProposalId(prs[i].url)
      BY DEF EachOne
    <3>1. CASE i = k
      BY <2>1, <2>3, <2>4, <3>1
    <3>2. CASE i \in 1..(k - 1)
      <4>1. PICK a \in 1..Len(s) : s[a].id = ProposalId(prs[i].url)
        BY <1>2, <3>2 DEF EachOne
      <4> QED BY <4>1, <2>3, <2>4
    <3> QED BY <1>0, <3>1, <3>2
  <2>7. \A a \in 1..Len(s) : s[a].id # e.id
    <3> SUFFICES ASSUME NEW a \in 1..Len(s) PROVE s[a].id # e.id
      OBVIOUS
    <3>1. PICK i \in 1..(k - 1) : s[a] = to_proposed_intent(prs[i])
      BY <1>2 DEF OfThem
    <3>2. s[a].id = ProposalId(prs[i].url)
      BY <3>1, IdOf
    <3> QED BY <2>0, <2>1, <3>2, IdOf
  <2>8. Distinct(t)
    <3>1. \A a, b \in 1..Len(s) : s[a].id = s[b].id => a = b
      BY <1>2 DEF Distinct
    <3>2. \A a, b \in 1..Len(t) : t[a].id = t[b].id => a = b
      BY <2>3, <2>4, <2>7, <3>1
    <3> QED BY <3>2 DEF Distinct
  <2>9. Listed(t, prs, k)
    BY <2>3, <2>5, <2>6, <2>8 DEF Listed
  <2> QED BY <1>3, <2>9 DEF t, e
<1>4. CASE ~NewUrl(prs, k)
  <2>1. OfThem(s, prs, k)
    BY <1>1, <1>2 DEF OfThem
  <2>2. EachOne(s, prs, k)
    <3> SUFFICES ASSUME NEW i \in 1..k, prs[i].url # ""
                 PROVE  \E a \in 1..Len(s) : s[a].id = ProposalId(prs[i].url)
      BY DEF EachOne
    <3>1. CASE i = k
      <4>1. PICK j \in 1..(k - 1) : prs[j].url = prs[k].url
        BY <1>4, <3>1 DEF NewUrl
      <4> QED BY <1>2, <3>1, <4>1 DEF EachOne
    <3>2. CASE i \in 1..(k - 1)
      BY <1>2, <3>2 DEF EachOne
    <3> QED BY <1>0, <3>1, <3>2
  <2>3. Listed(s, prs, k)
    BY <1>2, <2>1, <2>2 DEF Listed
  <2> QED BY <1>4, <2>3
<1> QED BY <1>3, <1>4

LEMMA ProposalsExist ==
  ASSUME NEW prs, Len(prs) \in Nat
  PROVE  \A m \in 0..Len(prs) : \E f : IsProposals(f, prs, m) /\ \A i \in 0..m : Listed(f[i], prs, i)
<1> DEFINE Good(k) == \E f : IsProposals(f, prs, k) /\ \A i \in 0..k : Listed(f[i], prs, i)
           Bad == {k \in Nat : k <= Len(prs) /\ ~Good(k)}
<1> SUFFICES ASSUME Bad # {} PROVE FALSE
  OBVIOUS
<1> HIDE DEF Bad
<1>1. PICK k \in Bad : \A y \in Bad : k <= y
  BY LeastNat DEF Bad
<1>2. k \in Nat /\ k <= Len(prs) /\ ~Good(k)
  BY <1>1 DEF Bad
<1>3. k # 0
  <2> DEFINE g == [i \in 0..0 |-> <<>>]
  <2>1. \A i \in 0..0 : i = 0 /\ g[i] = <<>>
    OBVIOUS
  <2>2. IsProposals(g, prs, 0)
    BY DEF IsProposals
  <2>3. Listed(<<>>, prs, 0)
    BY DEF Listed, OfThem, EachOne, Distinct
  <2> HIDE DEF g
  <2>4. Good(0)
    BY <2>1, <2>2, <2>3
  <2> QED BY <1>2, <2>4
<1>4. k - 1 \in Nat /\ k - 1 <= Len(prs) /\ k - 1 \notin Bad
  BY <1>1, <1>2, <1>3
<1>5. PICK f : IsProposals(f, prs, k - 1) /\ \A i \in 0..(k - 1) : Listed(f[i], prs, i)
  BY <1>4 DEF Bad
<1> DEFINE Add(x, i) == IF NewUrl(prs, i) THEN Append(x, to_proposed_intent(prs[i])) ELSE x
           g == [i \in 0..k |-> IF i = k THEN Add(f[k - 1], k) ELSE f[i]]
<1>6. \A i \in 0..(k - 1) : f[i] = IF i = 0 THEN <<>> ELSE Add(f[i - 1], i)
  BY <1>5 DEF IsProposals
<1>7. Listed(Add(f[k - 1], k), prs, k)
  BY <1>2, <1>3, <1>5, ListedStep
<1> HIDE DEF Add
<1>8. \A i \in 0..k : g[i] = IF i = 0 THEN <<>> ELSE Add(g[i - 1], i)
  BY <1>2, <1>3, <1>6
<1>9. g = [i \in 0..k |-> IF i = 0 THEN <<>> ELSE Add(g[i - 1], i)]
  BY <1>8
<1>10. IsProposals(g, prs, k)
  BY <1>9 DEF IsProposals, Add
<1>11. \A i \in 0..k : Listed(g[i], prs, i)
  BY <1>2, <1>3, <1>5, <1>7
<1> QED BY <1>2, <1>10, <1>11

LEMMA BatchListed ==
  ASSUME NEW prs, Len(prs) \in Nat
  PROVE  Listed(import_prissue_batch(prs), prs, Len(prs))
<1> DEFINE n == Len(prs)
           f == CHOOSE g : IsProposals(g, prs, n)
<1>1. PICK g : IsProposals(g, prs, n)
  BY ProposalsExist
<1>2. IsProposals(f, prs, n)
  BY <1>1
<1>3. import_prissue_batch(prs) = f[n]
  BY DEF import_prissue_batch, IsProposals, NewUrl
<1> HIDE DEF f
<1> DEFINE Bad == {k \in Nat : k <= n /\ ~Listed(f[k], prs, k)}
<1>4. Bad = {}
  <2> SUFFICES ASSUME Bad # {} PROVE FALSE
    OBVIOUS
  <2> HIDE DEF Bad
  <2>1. PICK k \in Bad : \A y \in Bad : k <= y
    BY LeastNat DEF Bad
  <2>2. k \in 0..n /\ ~Listed(f[k], prs, k)
    BY <2>1 DEF Bad
  <2>3. f[k] = IF k = 0 THEN <<>>
               ELSE IF NewUrl(prs, k) THEN Append(f[k - 1], to_proposed_intent(prs[k])) ELSE f[k - 1]
    BY <1>2, <2>2 DEF IsProposals
  <2>4. k # 0
    <3>1. Listed(<<>>, prs, 0)
      BY DEF Listed, OfThem, EachOne, Distinct
    <3> QED BY <2>2, <2>3, <3>1
  <2>5. Listed(f[k - 1], prs, k - 1) /\ k \in 1..n
    BY <2>1, <2>2, <2>4 DEF Bad
  <2> QED BY <2>2, <2>3, <2>4, <2>5, ListedStep
<1> QED BY <1>3, <1>4

LEMMA PrsStep == ASSUME FetchedExact, ImportPrs PROVE FetchedExact'
<1>1. lfsOut' = lfsOut
  BY DEF ImportPrs
<1>2. PICK u \in [1..3 -> Urls \cup {""}] :
        LET prs == [i \in 1..3 |-> [url |-> u[i], n |-> i]]
        IN  prOut' = [res |-> "ok", prs |-> prs, out |-> import_prissue_batch(prs)]
  BY DEF ImportPrs
<1> DEFINE prs == [i \in 1..3 |-> [url |-> u[i], n |-> i]]
           out == import_prissue_batch(prs)
<1>3. prOut'.res = "ok" /\ prOut'.prs = prs /\ prOut'.out = out
  BY <1>2
<1>4. Len(prs) = 3 /\ DOMAIN prs = 1..3
  <2> DEFINE P == {[url |-> u[i], n |-> i] : i \in 1..3}
  <2>1. prs \in [1..3 -> P]
    OBVIOUS
  <2> HIDE DEF prs, P
  <2>2. 3 \in Nat
    OBVIOUS
  <2>3. Len(prs) = 3
    BY <2>1, <2>2, ListOf
  <2> QED BY <2>1, <2>3
<1> HIDE DEF prs
<1>5. Listed(out, prs, 3)
  <2>1. Len(prs) \in Nat
    <3>1. 3 \in Nat
      OBVIOUS
    <3> QED BY <1>4, <3>1
  <2>2. Listed(out, prs, Len(prs))
    BY <2>1, BatchListed
  <2> QED BY <1>4, <2>2
<1> HIDE DEF out
<1>6. /\ out \in Seq(Proposals(prs)) /\ OfThem(out, prs, 3) /\ EachOne(out, prs, 3) /\ Distinct(out)
      /\ DOMAIN out = 1..Len(out) /\ Range(out) = {out[a] : a \in 1..Len(out)}
  <2>1. out \in Seq(Proposals(prs)) /\ OfThem(out, prs, 3) /\ EachOne(out, prs, 3) /\ Distinct(out)
    BY <1>5, Zenon DEF Listed
  <2>2. DOMAIN out = 1..Len(out)
    BY <2>1, LenProperties
  <2> QED BY <2>1, <2>2, Zenon DEF Range
<1>8. \A i, j \in DOMAIN out : out[i].id = out[j].id => i = j
  BY <1>6 DEF Distinct
<1>9. \A e \in Range(out) : \E i \in 1..3 : /\ prs[i].url # "" /\ e.id = ProposalId(prs[i].url)
                                           /\ e.authoritative = FALSE
  <2> SUFFICES ASSUME NEW e \in Range(out)
               PROVE  \E i \in 1..3 : /\ prs[i].url # "" /\ e.id = ProposalId(prs[i].url)
                                      /\ e.authoritative = FALSE
    OBVIOUS
  <2>1. PICK a \in 1..Len(out) : e = out[a]
    BY <1>6
  <2>2. PICK i \in 1..3 : prs[i].url # "" /\ out[a] = to_proposed_intent(prs[i])
    BY <1>6 DEF OfThem
  <2> QED BY <2>1, <2>2, IdOf
<1>10. \A i \in 1..3 : prs[i].url # "" => \E e \in Range(out) : e.id = ProposalId(prs[i].url)
  BY <1>6 DEF EachOne
<1>11. {e.id[2] : e \in Range(out)} = {p.url : p \in Range(prs)} \ {""}
  <2>1. Range(prs) = {prs[i] : i \in 1..3}
    BY <1>4 DEF Range
  <2>3. ASSUME NEW x \in {e.id[2] : e \in Range(out)} PROVE x \in {p.url : p \in Range(prs)} \ {""}
    <3>1. PICK e \in Range(out) : x = e.id[2]
      BY <2>3
    <3>2. PICK i \in 1..3 : prs[i].url # "" /\ e.id = ProposalId(prs[i].url)
      BY <1>9
    <3>3. x = prs[i].url
      BY <3>1, <3>2, IdOf
    <3> QED BY <2>1, <3>2, <3>3
  <2>4. ASSUME NEW x \in {p.url : p \in Range(prs)} \ {""} PROVE x \in {e.id[2] : e \in Range(out)}
    <3>1. PICK i \in 1..3 : x = prs[i].url
      BY <2>1, <2>4
    <3>2. PICK e \in Range(out) : e.id = ProposalId(prs[i].url)
      BY <1>10, <2>4, <3>1
    <3>3. e.id[2] = x
      BY <3>1, <3>2, IdOf
    <3> QED BY <3>2, <3>3
  <2> QED BY <2>3, <2>4
<1> QED BY <1>1, <1>3, <1>8, <1>9, <1>11 DEF FetchedExact

-----------------------------------------------------------------------------
ImportInv == SeedInv /\ HistoryInv /\ FetchedExact

LEMMA ImportInitInv == ASSUME ImportInit PROVE ImportInv
<1>1. SeedInv
  BY RefsCounted DEF ImportInit, SeedInv, SeedTypes, SeedProgressNew, NotLost, Recovery, SeedNames
<1>2. HistoryInv
  BY DEF ImportInit, HistoryInv, HistoryTypes, Followed, NewCursor
<1>3. FetchedExact
  BY DEF ImportInit, FetchedExact, LfsResult
<1> QED BY <1>1, <1>2, <1>3 DEF ImportInv

LEMMA ImportStep == ASSUME ImportInv, [ImportNext]_importVars PROVE ImportInv'
<1>1. UNCHANGED seedVars => (SeedInv => SeedInv')
  BY DEF seedVars, SeedInv, SeedTypes
<1>2. UNCHANGED historyVars => (HistoryInv => HistoryInv')
  BY DEF historyVars, HistoryInv, HistoryTypes, Followed
<1>3. UNCHANGED <<lfsOut, prOut>> => (FetchedExact => FetchedExact')
  BY DEF FetchedExact
<1>4. CASE SeedNext
  <2>1. SeedInv'
    BY <1>4, SeedStartStep, ColdSeedStep, RecoverStep DEF SeedNext, ImportInv
  <2>2. UNCHANGED historyVars /\ UNCHANGED <<lfsOut, prOut>>
    BY <1>4 DEF SeedNext, SeedStart, cold_seed, recover_github_loss, recover_substrate_loss
  <2> QED BY <1>2, <1>3, <2>1, <2>2 DEF ImportInv
<1>5. CASE HistoryNext
  <2>1. HistoryInv'
    BY <1>5, ImportRoundStep, SourceStep DEF HistoryNext, ImportInv
  <2>2. UNCHANGED seedVars /\ UNCHANGED <<lfsOut, prOut>>
    BY <1>5 DEF HistoryNext, ImportRound, SourceCommit, SourceRewrite
  <2> QED BY <1>1, <1>3, <2>1, <2>2 DEF ImportInv
<1>6. CASE MaterializeLfs \/ ImportPrs
  <2>1. FetchedExact'
    BY <1>6, LfsStep, PrsStep DEF ImportInv
  <2>2. UNCHANGED seedVars /\ UNCHANGED historyVars
    BY <1>6 DEF MaterializeLfs, ImportPrs
  <2> QED BY <1>1, <1>2, <2>1, <2>2 DEF ImportInv
<1>7. CASE UNCHANGED importVars
  BY <1>1, <1>2, <1>3, <1>7 DEF ImportInv, importVars, seedVars, historyVars
<1> QED BY <1>4, <1>5, <1>6, <1>7 DEF ImportNext

LEMMA ImportHolds == ASSUME ImportInv PROVE SeedAndImport
<1>1. SeedExact
  BY DEF ImportInv, SeedInv, SeedExact, recovery_source, SeedNames, SeedCount
<1>2. ImportExact
  <2>0. events \in Seq([kind : {"git.commit"}, oid : Commits, seq : Nat]) /\ source \in Seq(Commits)
        /\ Len(events) \in Nat /\ Len(source) \in Nat /\ DOMAIN events = 1..Len(events)
    BY DEF ImportInv, HistoryInv, HistoryTypes
  <2>1. \A i \in DOMAIN events : events[i].seq = i /\ import_as_change_event(events[i])
    <3>1. \A i \in DOMAIN events : events[i].kind = "git.commit" /\ events[i].seq = i
      <4> DEFINE E == [kind : {"git.commit"}, oid : Commits, seq : Nat]
      <4>0. events \in Seq(E)
        BY <2>0
      <4> HIDE DEF E
      <4>1. \A i \in 1..Len(events) : events[i] \in E
        BY <4>0, ElementOfSeq
      <4>2. \A i \in 1..Len(events) : events[i].kind = "git.commit"
        BY <4>1 DEF E
      <4> QED BY <2>0, <4>2 DEF ImportInv, HistoryInv
    <3> QED BY <3>1 DEF import_as_change_event
  <2>2. ASSUME rewrites = 0
        PROVE  [i \in DOMAIN events |-> events[i].oid] = SubSeq(source, 1, Len(events))
    <3>1. Followed
      BY <2>2 DEF ImportInv, HistoryInv
    <3> DEFINE n == Len(events)
               t == SubSeq(source, 1, n)
    <3>2. n <= Len(source)
      BY <3>1 DEF Followed
    <3>3. /\ t \in Seq(Commits)
          /\ Len(t) = IF 1 <= n THEN n - 1 + 1 ELSE 0
          /\ \A i \in 1..(n - 1 + 1) : t[i] = source[1 + i - 1]
      BY <2>0, <3>2, CutOf
    <3> HIDE DEF t
    <3>4. Len(t) = n /\ \A i \in 1..n : t[i] = source[i]
      BY <2>0, <3>3
    <3>5. t = [i \in 1..n |-> source[i]]
      BY <3>3, <3>4
    <3>6. \A i \in 1..n : events[i].oid = source[i]
      BY <3>1 DEF Followed
    <3> QED BY <2>0, <3>5, <3>6 DEF t
  <2> QED BY <2>1, <2>2 DEF ImportExact, ImportInv, HistoryInv
<1> QED BY <1>1, <1>2 DEF SeedAndImport, ImportInv

(* A seed reported complete and a recovery reported good hold the source's   *)
(* hashes; the import writes each commit once in source order whatever       *)
(* rounds it is interrupted by; LFS bytes are the pointer's own.             *)
THEOREM ImportCorrect == ImportSpec => []SeedAndImport
<1>1. ImportInit => ImportInv
  BY ImportInitInv
<1>2. ImportInv /\ [ImportNext]_importVars => ImportInv'
  BY ImportStep
<1>3. ImportInv => SeedAndImport
  BY ImportHolds
<1> QED BY <1>1, <1>2, <1>3, PTL DEF ImportSpec

-----------------------------------------------------------------------------
(* Installed hooks.  A verb only writes over a hook that is not the user's,  *)
(* or whose bytes are in a backup: attach knows them from the path it read,  *)
(* the second adoption from its token.                                       *)

Attaching == work.verb \in {"attach", "attach_write"}

WorkInv ==
    /\ "verb" \in DOMAIN work
    /\ work.verb # "none" => "at" \in DOMAIN work /\ work.at \in Nat \ {0}
    /\ Attaching => {"plan", "seen"} \subseteq DOMAIN work

\* What attach planned for a hook is what it saw there.
PlanInv == Attaching => \A k \in KindSet:
    IF work.plan[k].what = "adopt" THEN work.plan[k].bytes = work.seen[k] ELSE ~IsUser(work.seen[k])

\* A manifest records dispatchers, and what a token names is in the backups.
ManifestInv ==
    /\ DOMAIN adoption = {"state", "token"}
    /\ \A k \in KindSet: ~IsUser(manifest[k].disp)
    /\ \A e \in adoption.token: e \in backups /\ e = <<e[1], e[2]>>

\* The scripts behind the position of setup are written; the marker comes last.
TemplateInv ==
    /\ DOMAIN template = {"dir", "hooks", "owned"} /\ template.hooks \subseteq KindSet
    /\ work.verb = "setup" => \A i \in DOMAIN HookKinds: i < work.at => HookKinds[i] \in template.hooks
    /\ work.verb = "setup" /\ work.at > Len(HookKinds) + 1 => template.owned
    /\ TemplateWhole

HooksInv ==
    /\ DOMAIN hook = KindSet /\ DOMAIN last = KindSet
    /\ \A x \in DOMAIN foreign: foreign[x] \in {"whole", "torn"}
    /\ WorkInv /\ PlanInv /\ ManifestInv /\ TemplateInv /\ ForeignKept

LEMMA KindsOf ==
    /\ HookKinds \in Seq(STRING) /\ Len(HookKinds) \in Nat /\ DOMAIN HookKinds = 1..Len(HookKinds)
    /\ KindSet = {HookKinds[i]: i \in 1..Len(HookKinds)}
BY HooksAssumption DEF KindSet, ToSet

LEMMA CurrentKind == ASSUME WorkInv, work.verb # "none", More PROVE Current \in KindSet
BY KindsOf DEF WorkInv, More, Current

LEMMA NotUsers ==
    /\ ~IsUser(Absent) /\ ~IsUser(Script) /\ ~IsUser(OldScript)
    /\ \A b: ~IsUser(dispatcher(b)) /\ ~IsUser(dispatcher_script(b))
    /\ \A b: Upgradable(b) => ~IsUser(b)
<1>1. ~IsUser(Absent) /\ ~IsUser(Script) /\ ~IsUser(OldScript)
  BY DEF IsUser, Absent, Script, OldScript
<1>2. ASSUME NEW b PROVE ~IsUser(dispatcher(b))
  <2>1. <<"dispatcher", b>>[1] = "dispatcher"
    OBVIOUS
  <2> QED BY <1>1, <2>1 DEF IsUser, dispatcher
<1>3. ASSUME NEW b PROVE ~IsUser(dispatcher_script(b))
  BY DEF IsUser, dispatcher_script
<1>4. ASSUME NEW b, Upgradable(b) PROVE ~IsUser(b)
  BY <1>1, <1>4 DEF IsUser, Upgradable
<1> QED BY <1>1, <1>2, <1>3, <1>4

LEMMA HooksInvInit == HooksInit => HooksInv
<1> SUFFICES ASSUME HooksInit PROVE HooksInv
  OBVIOUS
<1>1. DOMAIN hook = KindSet /\ last = hook /\ DOMAIN foreign = {}
  BY DEF HooksInit
<1>2. WorkInv /\ PlanInv
  BY DEF HooksInit, WorkInv, PlanInv, Attaching, Resting
<1>3. ManifestInv
  BY NotUsers DEF HooksInit, ManifestInv, NoManifest, NoAdoption
<1>4. TemplateInv
  BY DEF HooksInit, TemplateInv, TemplateWhole, Resting
<1>5. ForeignKept
  BY <1>1 DEF ForeignKept
<1> QED BY <1>1, <1>2, <1>3, <1>4, <1>5 DEF HooksInv

\* What is safe stays safe when only hooks that are not the user's are written.
LEMMA HookKept ==
    ASSUME ForeignKept, last' = last, backups \subseteq backups', unread \subseteq unread', torn \subseteq torn',
           \A b \in DOMAIN foreign: b \in DOMAIN foreign' /\ (foreign[b] = "whole" => foreign'[b] = "whole"),
           \A k \in KindSet: \/ hook'[k] = hook[k] \/ ~IsUser(hook[k]) \/ k \in unread' \union torn'
                             \/ <<k, hook[k]>> \in backups'
                             \/ <<k, hook[k]>> \in DOMAIN foreign' /\ foreign'[<<k, hook[k]>>] = "whole"
    PROVE  ForeignKept'
<1> SUFFICES ASSUME NEW k \in KindSet, k \notin unread' \union torn', IsUser(last[k])
             PROVE  \/ hook'[k] = last[k]
                    \/ <<k, last[k]>> \in backups'
                    \/ <<k, last[k]>> \in DOMAIN foreign' /\ foreign'[<<k, last[k]>>] = "whole"
  BY DEF ForeignKept
<1>1. \/ hook[k] = last[k]
      \/ <<k, last[k]>> \in backups
      \/ <<k, last[k]>> \in DOMAIN foreign /\ foreign[<<k, last[k]>>] = "whole"
  BY DEF ForeignKept
<1>2. CASE hook[k] = last[k]
  BY <1>2
<1>3. CASE hook[k] # last[k]
  BY <1>1, <1>3
<1> QED BY <1>2, <1>3

LEMMA HooksInvStep == HooksInv /\ [HooksNext]_hookVars => HooksInv'
<1> SUFFICES ASSUME HooksInv, [HooksNext]_hookVars PROVE HooksInv'
  OBVIOUS
<1> USE DEF Begin, End, Continue, Resting
<1>0. /\ DOMAIN hook = KindSet /\ DOMAIN last = KindSet
      /\ \A x \in DOMAIN foreign: foreign[x] \in {"whole", "torn"}
      /\ WorkInv /\ PlanInv /\ ManifestInv /\ TemplateInv /\ ForeignKept
  BY DEF HooksInv
\* A step that starts, ends or goes on with a verb and leaves files alone.
<1>1. ASSUME UNCHANGED <<hook, foreign, manifest, last, unread, torn, template, configured>>,
             UNCHANGED <<backups, adoption>>, WorkInv', PlanInv',
             work'.verb # "setup"
      PROVE  HooksInv'
  <2>1. ManifestInv'
    BY <1>0, <1>1 DEF ManifestInv
  <2>2. TemplateInv'
    BY <1>0, <1>1 DEF TemplateInv, TemplateWhole, owns_template
  <2>3. ForeignKept'
    BY <1>0, <1>1 DEF ForeignKept
  <2> QED BY <1>0, <1>1, <2>1, <2>2, <2>3 DEF HooksInv
<1>2. ASSUME NEW t, attach_do_run(t) PROVE HooksInv'
  <2>1. work' = [verb |-> "attach", at |-> 1, plan |-> [k \in KindSet |-> plan_of(k)], token |-> t, seen |-> hook]
    BY <1>2 DEF attach_do_run
  <2>2. WorkInv'
    BY <2>1 DEF WorkInv, Attaching
  <2>3. ASSUME NEW k \in KindSet
        PROVE  IF plan_of(k).what = "adopt" THEN plan_of(k).bytes = hook[k] ELSE ~IsUser(hook[k])
    BY <1>0, NotUsers DEF plan_of, ManifestInv
  <2>4. PlanInv'
    BY <2>1, <2>3 DEF PlanInv, Attaching
  <2> QED BY <1>1, <1>2, <2>1, <2>2, <2>4 DEF attach_do_run
<1>3. ASSUME attach_backup PROVE HooksInv'
  <2> DEFINE b == <<Current, work.plan[Current].bytes>>
  <2>1. CASE work' = Resting /\ UNCHANGED foreign
    <3>1. WorkInv' /\ PlanInv'
      BY <2>1 DEF WorkInv, PlanInv, Attaching
    <3> QED BY <1>1, <1>3, <2>1, <3>1 DEF attach_backup
  <2>2. CASE /\ b \notin DOMAIN foreign /\ work' = [work EXCEPT !.verb = "attach_write"]
             /\ foreign' = [x \in DOMAIN foreign \union {b} |-> IF x = b THEN "torn" ELSE foreign[x]]
    <3>1. Attaching /\ work.verb = "attach"
      BY <1>3 DEF attach_backup, Attaching
    <3>2. WorkInv' /\ PlanInv' /\ work'.verb = "attach_write"
      BY <1>0, <2>2, <3>1 DEF WorkInv, PlanInv, Attaching
    <3>3. /\ \A x \in DOMAIN foreign: x \in DOMAIN foreign' /\ foreign'[x] = foreign[x]
          /\ \A x \in DOMAIN foreign': foreign'[x] \in {"whole", "torn"}
      <4> HIDE DEF b
      <4> QED BY <1>0, <2>2
    <3>4. ForeignKept'
      BY <1>0, <1>3, <3>3, HookKept DEF attach_backup
    <3>5. ManifestInv' /\ TemplateInv'
      BY <1>0, <1>3, <3>2 DEF attach_backup, ManifestInv, TemplateInv, TemplateWhole, owns_template
    <3> QED BY <1>0, <1>3, <3>2, <3>3, <3>4, <3>5 DEF attach_backup, HooksInv
  <2> QED BY <1>3, <2>1, <2>2 DEF attach_backup
<1>4. ASSUME attach_backup_write PROVE HooksInv'
  <2>1. work.verb = "attach_write" /\ Attaching /\ work' = [work EXCEPT !.verb = "attach"]
    BY <1>4 DEF attach_backup_write, Attaching
  <2>2. WorkInv' /\ PlanInv' /\ work'.verb = "attach"
    BY <1>0, <2>1 DEF WorkInv, PlanInv, Attaching
  <2>3. /\ \A x \in DOMAIN foreign: x \in DOMAIN foreign' /\ (foreign[x] = "whole" => foreign'[x] = "whole")
        /\ \A x \in DOMAIN foreign': foreign'[x] \in {"whole", "torn"}
    BY <1>0, <1>4 DEF attach_backup_write
  <2>4. ForeignKept'
    BY <1>0, <1>4, <2>3, HookKept DEF attach_backup_write
  <2>5. ManifestInv' /\ TemplateInv'
    BY <1>0, <1>4, <2>2 DEF attach_backup_write, ManifestInv, TemplateInv, TemplateWhole, owns_template
  <2> QED BY <1>0, <1>4, <2>2, <2>3, <2>4, <2>5 DEF attach_backup_write, HooksInv
<1>5. ASSUME atomic_hook PROVE HooksInv'
  <2> DEFINE k == Current
             p == work.plan[k]
  <2>1. work.verb = "attach" /\ Attaching /\ k \in KindSet /\ work' = [work EXCEPT !.at = @ + 1]
    BY <1>0, <1>5, CurrentKind DEF atomic_hook, Attaching
  <2>2. WorkInv' /\ PlanInv' /\ work'.verb = "attach"
    BY <1>0, <2>1 DEF WorkInv, PlanInv, Attaching
  <2>3. /\ p.what = "adopt" => <<k, p.bytes>> \in DOMAIN foreign
        /\ hook' = [hook EXCEPT ![k] = dispatcher(p.bytes)]
        /\ unread' = IF hook[k] # work.seen[k] THEN unread \union {k} ELSE unread
        /\ torn' = IF p.what = "adopt" /\ foreign[<<k, p.bytes>>] = "torn" THEN torn \union {k} ELSE torn
        /\ UNCHANGED <<foreign, manifest, backups, adoption, last, template, configured>>
    BY <1>5 DEF atomic_hook
  <2>4. IF p.what = "adopt" THEN p.bytes = work.seen[k] ELSE ~IsUser(work.seen[k])
    BY <1>0, <2>1 DEF PlanInv
  <2>5. \A x \in DOMAIN foreign: foreign[x] \in {"whole", "torn"}
    BY <1>0
  <2> HIDE DEF k, p
  <2>6. \/ ~IsUser(hook[k]) \/ k \in unread' \union torn'
        \/ <<k, hook[k]>> \in DOMAIN foreign' /\ foreign'[<<k, hook[k]>>] = "whole"
    BY <2>3, <2>4, <2>5
  <2>7. \A q \in KindSet: q # k => hook'[q] = hook[q]
    BY <1>0, <2>3
  <2>8. unread \subseteq unread' /\ torn \subseteq torn'
    BY <2>3
  <2>9. ForeignKept'
    <3>1. \A q \in KindSet: \/ hook'[q] = hook[q] \/ ~IsUser(hook[q]) \/ q \in unread' \union torn'
                            \/ <<q, hook[q]>> \in DOMAIN foreign' /\ foreign'[<<q, hook[q]>>] = "whole"
      BY <2>6, <2>7
    <3> QED BY <1>0, <2>3, <2>8, <3>1, HookKept
  <2>10. ManifestInv' /\ TemplateInv'
    BY <1>0, <2>2, <2>3 DEF ManifestInv, TemplateInv, TemplateWhole, owns_template
  <2>11. DOMAIN hook' = KindSet
    BY <1>0, <2>3
  <2> QED BY <1>0, <2>2, <2>3, <2>9, <2>10, <2>11 DEF HooksInv
\* Steps of the other verbs on hooks: the user's bytes are left alone, or backed up.
<1>6. ASSUME UNCHANGED <<foreign, manifest, last, unread, torn, template, configured, backups>>,
             adoption'.token = adoption.token, DOMAIN adoption' = DOMAIN adoption, DOMAIN hook' = KindSet, WorkInv', ~Attaching', work'.verb # "setup",
             \A k \in KindSet: hook'[k] = hook[k] \/ ~IsUser(hook[k]) \/ <<k, hook[k]>> \in backups
      PROVE  HooksInv'
  <2>1. ManifestInv' /\ PlanInv'
    BY <1>0, <1>6 DEF ManifestInv, PlanInv
  <2>2. TemplateInv'
    BY <1>0, <1>6 DEF TemplateInv, TemplateWhole, owns_template
  <2>3. ForeignKept'
    BY <1>0, <1>6, HookKept
  <2> QED BY <1>0, <1>6, <2>1, <2>2, <2>3 DEF HooksInv
\* The verb goes on, or is over.
<1>7. ASSUME work.verb \in {"detach", "install", "adopt", "detach_run"},
             work' = Resting \/ work' = [work EXCEPT !.at = @ + 1]
      PROVE  WorkInv' /\ ~Attaching' /\ work'.verb # "setup"
  BY <1>0, <1>7 DEF WorkInv, Attaching
<1>8. ASSUME attach_manifest PROVE HooksInv'
  <2>1. WorkInv' /\ PlanInv' /\ work'.verb = "none"
    BY <1>8 DEF attach_manifest, WorkInv, PlanInv, Attaching
  <2>2. ManifestInv'
    BY <1>0, <1>8, NotUsers DEF attach_manifest, ManifestInv
  <2>3. ForeignKept'
    BY <1>0, <1>8, HookKept DEF attach_manifest
  <2>4. TemplateInv'
    BY <1>0, <1>8, <2>1 DEF attach_manifest, TemplateInv, TemplateWhole, owns_template
  <2> QED BY <1>0, <1>8, <2>1, <2>2, <2>3, <2>4 DEF attach_manifest, HooksInv
<1>9. ASSUME attach_detach \/ install_hooks \/ detach_run PROVE HooksInv'
  <2>1. PICK v \in {"detach", "install", "detach_run"}: work' = [verb |-> v, at |-> 1]
    BY <1>9 DEF attach_detach, install_hooks, detach_run
  <2>2. WorkInv' /\ PlanInv' /\ work'.verb # "setup"
    BY <2>1 DEF WorkInv, PlanInv, Attaching
  <2> QED BY <1>1, <1>9, <2>2 DEF attach_detach, install_hooks, detach_run
<1>10. ASSUME attach_detach_step PROVE HooksInv'
  <2>1. work.verb = "detach" /\ (work' = Resting \/ work' = [work EXCEPT !.at = @ + 1])
    BY <1>10 DEF attach_detach_step
  <2>2. ASSUME hook' # hook
        PROVE  /\ Current \in KindSet /\ hook[Current] = manifest[Current].disp
               /\ hook' = [hook EXCEPT ![Current] = manifest[Current].backup]
    BY <1>0, <1>10, <2>2, CurrentKind DEF attach_detach_step
  <2>3. DOMAIN hook' = KindSet /\ \A k \in KindSet: hook'[k] = hook[k] \/ ~IsUser(hook[k])
    BY <1>0, <2>2 DEF ManifestInv
  <2> QED BY <1>6, <1>7, <1>10, <2>1, <2>3 DEF attach_detach_step
<1>11. ASSUME install_step PROVE HooksInv'
  <2>1. work.verb = "install" /\ (work' = Resting \/ work' = [work EXCEPT !.at = @ + 1])
    BY <1>11 DEF install_step
  <2>2. ASSUME hook' # hook
        PROVE  /\ Current \in KindSet /\ (hook[Current] = Absent \/ Upgradable(hook[Current]))
               /\ hook' = [hook EXCEPT ![Current] = Script]
    BY <1>0, <1>11, <2>2, CurrentKind DEF install_step
  <2>3. DOMAIN hook' = KindSet /\ \A k \in KindSet: hook'[k] = hook[k] \/ ~IsUser(hook[k])
    BY <1>0, <2>2, NotUsers
  <2> QED BY <1>6, <1>7, <1>11, <2>1, <2>3 DEF install_step
\* An entry of the token names a hook with bytes that are in the backups.
<1>12. ASSUME NEW k \in KindSet, HasEntry(k) PROVE <<k, EntryOf(k)[2]>> \in backups
  <2>1. EntryOf(k) \in adoption.token /\ EntryOf(k)[1] = k
    BY <1>12 DEF HasEntry, EntryOf
  <2> QED BY <1>0, <2>1 DEF ManifestInv
<1>13. ASSUME NEW tok, adopt_managed_dispatchers(tok) PROVE HooksInv'
  <2>1. work' = [verb |-> "adopt", at |-> 1]
    BY <1>13 DEF adopt_managed_dispatchers
  <2>2. WorkInv' /\ PlanInv' /\ work'.verb # "setup"
    BY <2>1 DEF WorkInv, PlanInv, Attaching
  <2>3. CASE adoption # NoAdoption
    BY <1>1, <1>13, <2>2, <2>3 DEF adopt_managed_dispatchers
  <2>4. CASE adoption = NoAdoption
    <3>1. /\ tok = adoption_token /\ backups' = backups \union tok /\ adoption'.token = tok
          /\ DOMAIN adoption' = {"state", "token"}
          /\ UNCHANGED <<hook, foreign, manifest, last, unread, torn, template, configured>>
      BY <1>13, <2>4 DEF adopt_managed_dispatchers
    <3>2. \A e \in tok: e = <<e[1], e[2]>>
      BY <3>1 DEF adoption_token
    <3>3. ManifestInv'
      BY <1>0, <3>1, <3>2 DEF ManifestInv
    <3>4. ForeignKept'
      BY <1>0, <3>1, HookKept
    <3>5. TemplateInv'
      BY <1>0, <2>2, <3>1 DEF TemplateInv, TemplateWhole, owns_template
    <3> QED BY <1>0, <2>2, <3>1, <3>3, <3>4, <3>5 DEF HooksInv
  <2> QED BY <2>3, <2>4
<1>14. ASSUME adopt_step PROVE HooksInv'
  <2>1. work.verb = "adopt" /\ (work' = Resting \/ work' = [work EXCEPT !.at = @ + 1])
    BY <1>14 DEF adopt_step
  <2>2. adoption'.token = adoption.token /\ DOMAIN adoption' = DOMAIN adoption
    BY <1>0, <1>14 DEF adopt_step, ManifestInv
  <2>3. \/ hook' = hook \/ hook' = rollback_adoption(hook)
        \/ /\ Current \in KindSet /\ HasEntry(Current)
           /\ ~adopt_changed(Current, EntryOf(Current)[2])
           /\ hook' = [hook EXCEPT ![Current] = dispatcher_script(EntryOf(Current)[2])]
    BY <1>0, <1>14, CurrentKind DEF adopt_step
  <2>4. CASE hook' = rollback_adoption(hook)
    <3>1. DOMAIN hook' = KindSet /\ \A k \in KindSet: hook'[k] = hook[k] \/ ~IsUser(hook[k])
      BY <2>4, NotUsers DEF rollback_adoption
    <3> QED BY <1>6, <1>7, <1>14, <2>1, <2>2, <3>1 DEF adopt_step
  <2>5. CASE /\ Current \in KindSet /\ HasEntry(Current)
             /\ ~adopt_changed(Current, EntryOf(Current)[2])
             /\ hook' = [hook EXCEPT ![Current] = dispatcher_script(EntryOf(Current)[2])]
    <3>1. hook[Current] = EntryOf(Current)[2] \/ hook[Current] = dispatcher_script(EntryOf(Current)[2])
      BY <2>5 DEF adopt_changed
    <3>2. <<Current, hook[Current]>> \in backups \/ ~IsUser(hook[Current])
      BY <1>12, <2>5, <3>1, NotUsers
    <3>3. /\ DOMAIN hook' = KindSet
          /\ \A k \in KindSet: hook'[k] = hook[k] \/ ~IsUser(hook[k]) \/ <<k, hook[k]>> \in backups
      BY <1>0, <2>5, <3>2
    <3> QED BY <1>6, <1>7, <1>14, <2>1, <2>2, <3>3 DEF adopt_step
  <2>6. CASE hook' = hook
    BY <1>0, <1>6, <1>7, <1>14, <2>1, <2>2, <2>6 DEF adopt_step
  <2> QED BY <2>3, <2>4, <2>5, <2>6
<1>15. ASSUME detach_run_step PROVE HooksInv'
  <2>1. work.verb = "detach_run" /\ (work' = Resting \/ work' = [work EXCEPT !.at = @ + 1])
    BY <1>15 DEF detach_run_step
  <2>2. ASSUME hook' # hook
        PROVE  Current \in KindSet /\ ~IsUser(hook[Current]) /\ \E b: hook' = [hook EXCEPT ![Current] = b]
    BY <1>0, <1>15, <2>2, CurrentKind, NotUsers DEF detach_run_step, is_managed_hook
  <2>3. DOMAIN hook' = KindSet /\ \A k \in KindSet: hook'[k] = hook[k] \/ ~IsUser(hook[k])
    BY <1>0, <2>2
  <2> QED BY <1>6, <1>7, <1>15, <2>1, <2>3 DEF detach_run_step
\* The template: everything else is left alone.
<1>16. ASSUME UNCHANGED <<fileVars, last, unread, torn>>, WorkInv', ~Attaching', TemplateInv' PROVE HooksInv'
  BY <1>0, <1>16 DEF fileVars, HooksInv, PlanInv, ManifestInv, ForeignKept
<1>17. ASSUME NEW replace, do_setup(replace) PROVE HooksInv'
  <2>1. work' = [verb |-> "setup", at |-> 1] /\ template' = [template EXCEPT !.dir = TRUE] /\ configured' = configured
    BY <1>17 DEF do_setup
  <2>2. TemplateInv'
    BY <1>0, <2>1, KindsOf DEF TemplateInv, TemplateWhole, owns_template
  <2>3. WorkInv' /\ ~Attaching'
    BY <2>1 DEF WorkInv, Attaching
  <2> QED BY <1>16, <1>17, <2>2, <2>3 DEF do_setup
<1>18. ASSUME setup_step PROVE HooksInv'
  <2>0. work.verb = "setup" /\ work.at \in Nat \ {0} /\ "at" \in DOMAIN work /\ "verb" \in DOMAIN work
    BY <1>0, <1>18 DEF setup_step, WorkInv
  <2>1. CASE /\ More /\ template' = [template EXCEPT !.hooks = @ \union {Current}]
             /\ work' = [work EXCEPT !.at = @ + 1] /\ UNCHANGED configured
    <3>1. Current \in KindSet /\ Current = HookKinds[work.at] /\ work.at <= Len(HookKinds)
      BY <1>0, <2>0, <2>1, CurrentKind DEF Current, More
    <3>2. work'.verb = "setup" /\ work'.at = work.at + 1 /\ WorkInv' /\ ~Attaching'
      BY <1>0, <2>0, <2>1 DEF WorkInv, Attaching
    <3>3. /\ DOMAIN template' = {"dir", "hooks", "owned"} /\ template'.owned = template.owned
          /\ template'.hooks = template.hooks \union {Current}
      BY <1>0, <2>1 DEF TemplateInv
    <3>4. TemplateInv'
      BY <1>0, <2>0, <2>1, <3>1, <3>2, <3>3, KindsOf DEF TemplateInv, TemplateWhole, owns_template
    <3> QED BY <1>16, <1>18, <3>2, <3>4 DEF setup_step
  <2>2. CASE /\ work.at = Len(HookKinds) + 1 /\ template' = [template EXCEPT !.owned = TRUE]
             /\ work' = [work EXCEPT !.at = @ + 1] /\ UNCHANGED configured
    <3>1. work'.verb = "setup" /\ work'.at = work.at + 1 /\ WorkInv' /\ ~Attaching'
      BY <1>0, <2>0, <2>2 DEF WorkInv, Attaching
    <3>2. /\ DOMAIN template' = {"dir", "hooks", "owned"} /\ template'.owned = TRUE
          /\ template'.hooks = template.hooks
      BY <1>0, <2>2 DEF TemplateInv
    <3>3. \A i \in 1..Len(HookKinds): HookKinds[i] \in template.hooks
      BY <1>0, <2>0, <2>2, KindsOf DEF TemplateInv
    <3>4. template.hooks = KindSet
      BY <1>0, <3>3, KindsOf DEF TemplateInv
    <3>5. TemplateInv'
      BY <1>0, <3>2, <3>3, <3>4, KindsOf DEF TemplateInv, TemplateWhole, owns_template
    <3> QED BY <1>16, <1>18, <3>1, <3>5 DEF setup_step
  <2>3. CASE /\ work.at = Len(HookKinds) + 2 /\ configured' = "hugit" /\ work' = Resting /\ UNCHANGED template
    <3>1. template.owned /\ \A i \in 1..Len(HookKinds): HookKinds[i] \in template.hooks
      BY <1>0, <2>0, <2>3, KindsOf DEF TemplateInv
    <3>2. template.hooks = KindSet
      BY <1>0, <3>1, KindsOf DEF TemplateInv
    <3>3. TemplateInv'
      BY <1>0, <2>3, <3>1, <3>2 DEF TemplateInv, TemplateWhole, owns_template
    <3>4. WorkInv' /\ ~Attaching'
      BY <2>3 DEF WorkInv, Attaching
    <3> QED BY <1>16, <1>18, <3>3, <3>4 DEF setup_step
  <2> QED BY <1>18, <2>1, <2>2, <2>3 DEF setup_step
<1>19. ASSUME CrashHooks PROVE HooksInv'
  <2>1. WorkInv' /\ PlanInv' /\ work'.verb # "setup"
    BY <1>19 DEF CrashHooks, WorkInv, PlanInv, Attaching
  <2> QED BY <1>1, <1>19, <2>1 DEF CrashHooks
<1>20. ASSUME NEW k \in KindSet, NEW b \in UserHooks, UserEdits(k, b) PROVE HooksInv'
  <2>1. ForeignKept'
    <3> SUFFICES ASSUME NEW q \in KindSet, q \notin unread' \union torn', IsUser(last'[q])
                 PROVE  \/ hook'[q] = last'[q]
                        \/ <<q, last'[q]>> \in backups'
                        \/ <<q, last'[q]>> \in DOMAIN foreign' /\ foreign'[<<q, last'[q]>>] = "whole"
      BY DEF ForeignKept
    <3>1. CASE q = k
      BY <1>0, <1>20, <3>1 DEF UserEdits
    <3>2. CASE q # k
      <4>1. /\ hook'[q] = hook[q] /\ last'[q] = last[q] /\ q \notin unread \union torn
            /\ backups' = backups /\ foreign' = foreign
        BY <1>0, <1>20, <3>2 DEF UserEdits
      <4> QED BY <1>0, <4>1 DEF ForeignKept
    <3> QED BY <3>1, <3>2
  <2>2. WorkInv' /\ PlanInv'
    BY <1>0, <1>20 DEF UserEdits, WorkInv, PlanInv, Attaching
  <2>3. ManifestInv' /\ TemplateInv'
    BY <1>0, <1>20 DEF UserEdits, ManifestInv, TemplateInv, TemplateWhole, owns_template
  <2>4. DOMAIN hook' = KindSet /\ DOMAIN last' = KindSet
    BY <1>0, <1>20 DEF UserEdits
  <2>5. foreign' = foreign
    BY <1>20 DEF UserEdits
  <2> QED BY <1>0, <2>1, <2>2, <2>3, <2>4, <2>5 DEF HooksInv
<1>21. ASSUME UNCHANGED hookVars PROVE HooksInv'
  BY <1>0, <1>21 DEF hookVars, fileVars, HooksInv, WorkInv, PlanInv, Attaching, ManifestInv, TemplateInv,
     TemplateWhole, owns_template, ForeignKept
<1> QED BY <1>2, <1>3, <1>4, <1>5, <1>8, <1>9, <1>10, <1>11, <1>13, <1>14, <1>15, <1>17, <1>18, <1>19, <1>20, <1>21
    DEF HooksNext

\* Whatever the order of attach, adopt, init, setup and detach, the user's edits
\* and the crashes: the user's latest hook is at its path or in a whole backup,
\* but for the two windows that ForeignKept names; and Git is pointed at a
\* template only when it is whole.
THEOREM HooksSafe == HooksSpec => []HooksKept
<1>1. HooksInv => HooksKept
  BY DEF HooksInv, TemplateInv, HooksKept
<1> QED BY <1>1, HooksInvInit, HooksInvStep, PTL DEF HooksSpec

------------------------------------------------------------------------------
(* Folds.  A fold over a sequence of n items is a function on the sets of   *)
(* positions up to n; its value on 1..n is the fold.                        *)

FoldStep(m, p, q, a, x) ==
  CASE m = "shallow" -> ShallowStep(p, q, a, x)
    [] m = "boundary" -> BoundaryStep(p, q, a, x)
    [] m = "full" -> TakeFull(p, a, x)
    [] m = "pack" -> ResolveInPack(p, a, x)
    [] m = "tips" -> AddTip(p, a, x)
    [] OTHER -> ResolveFromCas(p, a, x)

IsFold(f, m, p, q, base, seq, n) ==
  f = [s \in SUBSET (1..n) |->
         IF s = {} THEN base ELSE FoldStep(m, p, q, f[s \ {Max(s)}], seq[Max(s)])]

\* Folds exist: a fold over n items extends one over n - 1.
LEMMA FoldExists ==
  ASSUME NEW m, NEW p, NEW q, NEW base, NEW seq, NEW n \in Nat
  PROVE  \E f : IsFold(f, m, p, q, base, seq, n)
<1> DEFINE Bad == {k \in Nat : ~\E f : IsFold(f, m, p, q, base, seq, k)}
<1> SUFFICES ASSUME Bad # {} PROVE FALSE
  OBVIOUS
<1> HIDE DEF Bad
<1>1. PICK k \in Bad : \A y \in Bad : k <= y
  BY LeastNat DEF Bad
<1>2. k \in Nat /\ \A f : ~IsFold(f, m, p, q, base, seq, k)
  BY <1>1 DEF Bad
<1>3. k # 0
  <2> DEFINE g == [s \in SUBSET (1..0) |-> base]
  <2>1. \A s \in SUBSET (1..0) : s = {}
    OBVIOUS
  <2>2. g = [s \in SUBSET (1..0) |->
               IF s = {} THEN base ELSE FoldStep(m, p, q, g[s \ {Max(s)}], seq[Max(s)])]
    BY <2>1
  <2>3. IsFold(g, m, p, q, base, seq, 0)
    BY <2>2 DEF IsFold
  <2> QED BY <1>2, <2>3
<1>4. k - 1 \in Nat /\ k - 1 \notin Bad
  BY <1>1, <1>2, <1>3
<1>5. PICK f : IsFold(f, m, p, q, base, seq, k - 1)
  BY <1>4 DEF Bad
<1> DEFINE St(a, x) == FoldStep(m, p, q, a, x)
           g == [s \in SUBSET (1..k) |-> IF k \in s THEN St(f[s \ {k}], seq[k]) ELSE f[s]]
<1>6. \A s \in SUBSET (1..(k - 1)) : f[s] = IF s = {} THEN base ELSE St(f[s \ {Max(s)}], seq[Max(s)])
  BY <1>5 DEF IsFold
<1> HIDE DEF St
<1>7. ASSUME NEW s \in SUBSET (1..k)
      PROVE  g[s] = IF s = {} THEN base ELSE St(g[s \ {Max(s)}], seq[Max(s)])
  <2>1. CASE k \in s
    <3>1. Max(s) \in s /\ \A y \in s : y <= Max(s)
      BY <2>1, <1>2, Greatest
    <3>2. Max(s) = k
      <4>1. Max(s) \in 1..k /\ k <= Max(s)
        BY <3>1, <2>1
      <4> QED BY <4>1, <1>2
    <3>3. s \ {k} \in SUBSET (1..k) /\ k \notin s \ {k}
      OBVIOUS
    <3>4. g[s \ {k}] = f[s \ {k}]
      BY <3>3
    <3> QED BY <2>1, <3>2, <3>4
  <2>2. CASE k \notin s
    <3>1. s \in SUBSET (1..(k - 1))
      BY <2>2, <1>2
    <3>2. s \ {Max(s)} \in SUBSET (1..k) /\ k \notin s \ {Max(s)}
      BY <2>2
    <3>3. g[s] = f[s] /\ g[s \ {Max(s)}] = f[s \ {Max(s)}]
      BY <2>2, <3>2
    <3> QED BY <3>1, <3>3, <1>6
  <2> QED BY <2>1, <2>2
<1>8. g = [s \in SUBSET (1..k) |-> IF s = {} THEN base ELSE St(g[s \ {Max(s)}], seq[Max(s)])]
  BY <1>7
<1>9. IsFold(g, m, p, q, base, seq, k)
  BY <1>8 DEF IsFold, St
<1> QED BY <1>2, <1>9

\* What every step carries from its position to the next holds at the end.
LEMMA FoldKeeps ==
  ASSUME NEW m, NEW p, NEW q, NEW base, NEW seq, NEW n \in Nat, NEW f, NEW G,
         IsFold(f, m, p, q, base, seq, n),
         base \in G[0],
         \A i \in 1..n : \A a \in G[i - 1] : FoldStep(m, p, q, a, seq[i]) \in G[i]
  PROVE  f[1..n] \in G[n]
<1> DEFINE Bad == {k \in 0..n : f[1..k] \notin G[k]}
<1> SUFFICES ASSUME Bad # {} PROVE FALSE
  BY n \in 0..n
<1>0. Bad \in SUBSET Nat
  OBVIOUS
<1> HIDE DEF Bad
<1>1. PICK k \in Bad : \A y \in Bad : k <= y
  BY <1>0, LeastNat
<1>2. k \in 0..n /\ f[1..k] \notin G[k]
  BY <1>1 DEF Bad
<1>3. CASE k = 0
  <2>1. 1..k = {} /\ {} \in SUBSET (1..n)
    BY <1>3
  <2>2. f[{}] = base
    BY <2>1 DEF IsFold
  <2> QED BY <2>1, <2>2, <1>2, <1>3
<1>4. CASE k # 0
  <2>1. k - 1 \in 0..n /\ f[1..(k - 1)] \in G[k - 1]
    BY <1>1, <1>2, <1>4 DEF Bad
  <2>2. 1..k \in SUBSET (1..n) /\ 1..k # {} /\ k \in 1..n /\ k \in Nat /\ k \in 1..k
    <3>1. k \in 1..n /\ k \in Nat /\ k \in 1..k
      BY <1>2, <1>4
    <3>2. \A x \in 1..k : x \in 1..n
      BY <3>1
    <3> QED BY <3>1, <3>2
  <2>3. Max(1..k) = k
    <3>1. Max(1..k) \in 1..k /\ \A y \in 1..k : y <= Max(1..k)
      BY <2>2, Greatest
    <3> QED BY <3>1, <2>2
  <2>4. (1..k) \ {k} = 1..(k - 1)
    BY <2>2
  <2>5. f[1..k] = FoldStep(m, p, q, f[(1..k) \ {Max(1..k)}], seq[Max(1..k)])
    BY <2>2 DEF IsFold
  <2>6. f[1..k] = FoldStep(m, p, q, f[1..(k - 1)], seq[k])
    BY <2>3, <2>4, <2>5
  <2> QED BY <2>1, <2>2, <2>6, <1>2
<1> QED BY <1>3, <1>4

\* The folds of the model.
TipFold(adv, base, seq) == FoldLeft(LAMBDA tips, r : AddTip(adv, tips, r), base, seq)
BoundaryFold(p, q, base, seq) == FoldLeft(LAMBDA acc, o : BoundaryStep(p, q, acc, o), base, seq)
ShallowFold(p, q, base, seq) == FoldLeft(LAMBDA acc, item : ShallowStep(p, q, acc, item), base, seq)
FullFold(entries, base) == Over(entries, TakeFull, base)
PackFold(entries, base) == Over(entries, ResolveInPack, base)
CasFold(entries, base) == Over(entries, ResolveFromCas, base)

LEMMA FoldBoundary ==
  ASSUME NEW p, NEW q, NEW base, NEW seq, NEW G, Len(seq) \in Nat, DOMAIN seq = 1..Len(seq),
         base \in G[0],
         \A i \in 1..Len(seq) : \A a \in G[i - 1] : BoundaryStep(p, q, a, seq[i]) \in G[i]
  PROVE  BoundaryFold(p, q, base, seq) \in G[Len(seq)]
<1> DEFINE n == Len(seq)
           Is(f) == f = [s \in SUBSET (DOMAIN seq) |->
                           IF s = {} THEN base ELSE BoundaryStep(p, q, f[s \ {Max(s)}], seq[Max(s)])]
           g == CHOOSE f : Is(f)
<1>1. BoundaryFold(p, q, base, seq) = g[DOMAIN seq]
  BY DEF BoundaryFold, FoldLeft, MapThenFoldSet
<1>2. \A f : Is(f) <=> IsFold(f, "boundary", p, q, base, seq, n)
  BY DEF IsFold, FoldStep
<1>3. \E f : Is(f)
  BY <1>2, FoldExists
<1>4. IsFold(g, "boundary", p, q, base, seq, n)
  BY <1>2, <1>3
<1>5. \A i \in 1..n : \A a \in G[i - 1] : FoldStep("boundary", p, q, a, seq[i]) \in G[i]
  BY DEF FoldStep
<1> HIDE DEF g
<1>6. g[1..n] \in G[n]
  BY <1>4, <1>5, FoldKeeps
<1> QED BY <1>1, <1>6

LEMMA FoldShallow ==
  ASSUME NEW p, NEW q, NEW base, NEW seq, NEW G, Len(seq) \in Nat, DOMAIN seq = 1..Len(seq),
         base \in G[0],
         \A i \in 1..Len(seq) : \A a \in G[i - 1] : ShallowStep(p, q, a, seq[i]) \in G[i]
  PROVE  ShallowFold(p, q, base, seq) \in G[Len(seq)]
<1> DEFINE n == Len(seq)
           Is(f) == f = [s \in SUBSET (DOMAIN seq) |->
                           IF s = {} THEN base ELSE ShallowStep(p, q, f[s \ {Max(s)}], seq[Max(s)])]
           g == CHOOSE f : Is(f)
<1>1. ShallowFold(p, q, base, seq) = g[DOMAIN seq]
  BY DEF ShallowFold, FoldLeft, MapThenFoldSet
<1>2. \A f : Is(f) <=> IsFold(f, "shallow", p, q, base, seq, n)
  BY DEF IsFold, FoldStep
<1>3. \E f : Is(f)
  BY <1>2, FoldExists
<1>4. IsFold(g, "shallow", p, q, base, seq, n)
  BY <1>2, <1>3
<1>5. \A i \in 1..n : \A a \in G[i - 1] : FoldStep("shallow", p, q, a, seq[i]) \in G[i]
  BY DEF FoldStep
<1> HIDE DEF g
<1>6. g[1..n] \in G[n]
  BY <1>4, <1>5, FoldKeeps
<1> QED BY <1>1, <1>6

LEMMA FoldTips ==
  ASSUME NEW p, NEW base, NEW seq, NEW G, Len(seq) \in Nat, DOMAIN seq = 1..Len(seq),
         base \in G[0],
         \A i \in 1..Len(seq) : \A a \in G[i - 1] : AddTip(p, a, seq[i]) \in G[i]
  PROVE  TipFold(p, base, seq) \in G[Len(seq)]
<1> DEFINE n == Len(seq)
           Is(f) == f = [s \in SUBSET (DOMAIN seq) |->
                           IF s = {} THEN base ELSE AddTip(p, f[s \ {Max(s)}], seq[Max(s)])]
           g == CHOOSE f : Is(f)
<1>1. TipFold(p, base, seq) = g[DOMAIN seq]
  BY DEF TipFold, FoldLeft, MapThenFoldSet
<1>2. \A f : Is(f) <=> IsFold(f, "tips", p, 0, base, seq, n)
  BY DEF IsFold, FoldStep
<1>3. \E f : Is(f)
  BY <1>2, FoldExists
<1>4. IsFold(g, "tips", p, 0, base, seq, n)
  BY <1>2, <1>3
<1>5. \A i \in 1..n : \A a \in G[i - 1] : FoldStep("tips", p, 0, a, seq[i]) \in G[i]
  BY DEF FoldStep
<1> HIDE DEF g
<1>6. g[1..n] \in G[n]
  BY <1>4, <1>5, FoldKeeps
<1> QED BY <1>1, <1>6

LEMMA FoldFull ==
  ASSUME NEW entries, NEW base, NEW G, Len(entries) \in Nat,
         base \in G[0],
         \A i \in 1..Len(entries) : \A a \in G[i - 1] : TakeFull(entries, a, i) \in G[i]
  PROVE  FullFold(entries, base) \in G[Len(entries)]
<1> DEFINE n == Len(entries)
           seq == [i \in 1..n |-> i]
           Is(f) == f = [s \in SUBSET (DOMAIN seq) |->
                           IF s = {} THEN base ELSE TakeFull(entries, f[s \ {Max(s)}], seq[Max(s)])]
           g == CHOOSE f : Is(f)
<1>1. FullFold(entries, base) = g[DOMAIN seq]
  BY DEF FullFold, Over, FoldLeft, MapThenFoldSet
<1>2. \A f : Is(f) <=> IsFold(f, "full", entries, 0, base, seq, n)
  BY DEF IsFold, FoldStep
<1>3. \E f : Is(f)
  <2>1. \E f : IsFold(f, "full", entries, 0, base, seq, n)
    <3> HIDE DEF seq
    <3> QED BY FoldExists
  <2> QED BY <1>2, <2>1
<1>4. IsFold(g, "full", entries, 0, base, seq, n)
  BY <1>2, <1>3
<1>5. \A i \in 1..n : \A a \in G[i - 1] : FoldStep("full", entries, 0, a, seq[i]) \in G[i]
  BY DEF FoldStep
<1>6. DOMAIN seq = 1..n
  OBVIOUS
<1> HIDE DEF g, seq
<1>7. g[1..n] \in G[n]
  BY <1>4, <1>5, FoldKeeps
<1> QED BY <1>1, <1>6, <1>7

LEMMA FoldPack ==
  ASSUME NEW entries, NEW base, NEW G, Len(entries) \in Nat,
         base \in G[0],
         \A i \in 1..Len(entries) : \A a \in G[i - 1] : ResolveInPack(entries, a, i) \in G[i]
  PROVE  PackFold(entries, base) \in G[Len(entries)]
<1> DEFINE n == Len(entries)
           seq == [i \in 1..n |-> i]
           Is(f) == f = [s \in SUBSET (DOMAIN seq) |->
                           IF s = {} THEN base ELSE ResolveInPack(entries, f[s \ {Max(s)}], seq[Max(s)])]
           g == CHOOSE f : Is(f)
<1>1. PackFold(entries, base) = g[DOMAIN seq]
  BY DEF PackFold, Over, FoldLeft, MapThenFoldSet
<1>2. \A f : Is(f) <=> IsFold(f, "pack", entries, 0, base, seq, n)
  BY DEF IsFold, FoldStep
<1>3. \E f : Is(f)
  <2>1. \E f : IsFold(f, "pack", entries, 0, base, seq, n)
    <3> HIDE DEF seq
    <3> QED BY FoldExists
  <2> QED BY <1>2, <2>1
<1>4. IsFold(g, "pack", entries, 0, base, seq, n)
  BY <1>2, <1>3
<1>5. \A i \in 1..n : \A a \in G[i - 1] : FoldStep("pack", entries, 0, a, seq[i]) \in G[i]
  BY DEF FoldStep
<1>6. DOMAIN seq = 1..n
  OBVIOUS
<1> HIDE DEF g, seq
<1>7. g[1..n] \in G[n]
  BY <1>4, <1>5, FoldKeeps
<1> QED BY <1>1, <1>6, <1>7

LEMMA FoldCas ==
  ASSUME NEW entries, NEW base, NEW G, Len(entries) \in Nat,
         base \in G[0],
         \A i \in 1..Len(entries) : \A a \in G[i - 1] : ResolveFromCas(entries, a, i) \in G[i]
  PROVE  CasFold(entries, base) \in G[Len(entries)]
<1> DEFINE n == Len(entries)
           seq == [i \in 1..n |-> i]
           Is(f) == f = [s \in SUBSET (DOMAIN seq) |->
                           IF s = {} THEN base ELSE ResolveFromCas(entries, f[s \ {Max(s)}], seq[Max(s)])]
           g == CHOOSE f : Is(f)
<1>1. CasFold(entries, base) = g[DOMAIN seq]
  BY DEF CasFold, Over, FoldLeft, MapThenFoldSet
<1>2. \A f : Is(f) <=> IsFold(f, "cas", entries, 0, base, seq, n)
  BY DEF IsFold, FoldStep
<1>3. \E f : Is(f)
  <2>1. \E f : IsFold(f, "cas", entries, 0, base, seq, n)
    <3> HIDE DEF seq
    <3> QED BY FoldExists
  <2> QED BY <1>2, <2>1
<1>4. IsFold(g, "cas", entries, 0, base, seq, n)
  BY <1>2, <1>3
<1>5. \A i \in 1..n : \A a \in G[i - 1] : FoldStep("cas", entries, 0, a, seq[i]) \in G[i]
  BY DEF FoldStep
<1>6. DOMAIN seq = 1..n
  OBVIOUS
<1> HIDE DEF g, seq
<1>7. g[1..n] \in G[n]
  BY <1>4, <1>5, FoldKeeps
<1> QED BY <1>1, <1>6, <1>7

------------------------------------------------------------------------------
(* Waves.  The walks and the passes of unpacking repeat a step a given      *)
(* number of times.                                                         *)

CollectWave(store, excluded, w) ==
  LET batch == w.frontier \ (excluded \cup w.out)
      out == w.out \cup (batch \cap store)
  IN  IF batch = {} THEN w ELSE
      [out |-> out,
       frontier |-> UNION {push_unseen(o, excluded, out) : o \in batch \cap store},
       missing |-> w.missing \cup (batch \ store)]

ShallowWave(store, depth, w) ==
  ShallowFold(store, IF depth = 0 THEN 1 ELSE depth, [w EXCEPT !.next = <<>>], w.next)

BoundaryWave(store, boundary, w) ==
  BoundaryFold(store, boundary, [w EXCEPT !.next = <<>>], w.next)

WaveStep(m, p, q, w, n) ==
  CASE m = "collect" -> CollectWave(p, q, w)
    [] m = "shallow" -> ShallowWave(p, q, w)
    [] m = "boundary" -> BoundaryWave(p, q, w)
    [] OTHER -> Pass(p, w, n)

IsWave(f, m, p, q, base, k) ==
  f = [n \in 0..k |-> IF n = 0 THEN base ELSE WaveStep(m, p, q, f[n - 1], n)]

\* Waves exist, as folds do.
LEMMA WaveExists ==
  ASSUME NEW m, NEW p, NEW q, NEW base, NEW n \in Nat
  PROVE  \E f : IsWave(f, m, p, q, base, n)
<1> DEFINE Bad == {k \in Nat : ~\E f : IsWave(f, m, p, q, base, k)}
<1> SUFFICES ASSUME Bad # {} PROVE FALSE
  OBVIOUS
<1> HIDE DEF Bad
<1>1. PICK k \in Bad : \A y \in Bad : k <= y
  BY LeastNat DEF Bad
<1>2. k \in Nat /\ \A f : ~IsWave(f, m, p, q, base, k)
  BY <1>1 DEF Bad
<1>3. k # 0
  <2> DEFINE g == [i \in 0..0 |-> base]
  <2>1. IsWave(g, m, p, q, base, 0)
    BY DEF IsWave
  <2> QED BY <1>2, <2>1
<1>4. k - 1 \in Nat /\ k - 1 \notin Bad
  BY <1>1, <1>2, <1>3
<1>5. PICK f : IsWave(f, m, p, q, base, k - 1)
  BY <1>4 DEF Bad
<1> DEFINE St(w, i) == WaveStep(m, p, q, w, i)
           g == [i \in 0..k |-> IF i = k THEN St(f[k - 1], k) ELSE f[i]]
<1>6. \A i \in 0..(k - 1) : f[i] = IF i = 0 THEN base ELSE St(f[i - 1], i)
  BY <1>5 DEF IsWave
<1> HIDE DEF St
<1>7. \A i \in 0..k : g[i] = IF i = 0 THEN base ELSE St(g[i - 1], i)
  BY <1>2, <1>3, <1>6
<1>8. g = [i \in 0..k |-> IF i = 0 THEN base ELSE St(g[i - 1], i)]
  BY <1>7
<1>9. IsWave(g, m, p, q, base, k)
  BY <1>8 DEF IsWave, St
<1> QED BY <1>2, <1>9

\* What every wave carries to the next holds after the last.
LEMMA WaveKeeps ==
  ASSUME NEW m, NEW p, NEW q, NEW base, NEW n \in Nat, NEW f, NEW G,
         IsWave(f, m, p, q, base, n),
         base \in G[0],
         \A i \in 1..n : \A w \in G[i - 1] : WaveStep(m, p, q, w, i) \in G[i]
  PROVE  f[n] \in G[n]
<1> DEFINE Bad == {k \in 0..n : f[k] \notin G[k]}
<1> SUFFICES ASSUME Bad # {} PROVE FALSE
  BY n \in 0..n
<1>0. Bad \in SUBSET Nat
  OBVIOUS
<1> HIDE DEF Bad
<1>1. PICK k \in Bad : \A y \in Bad : k <= y
  BY <1>0, LeastNat
<1>2. k \in 0..n /\ f[k] \notin G[k]
  BY <1>1 DEF Bad
<1>3. f[0] = base
  BY DEF IsWave
<1>4. k # 0
  BY <1>2, <1>3
<1>5. k - 1 \in 0..n /\ f[k - 1] \in G[k - 1]
  BY <1>1, <1>2, <1>4 DEF Bad
<1>6. f[k] = WaveStep(m, p, q, f[k - 1], k)
  BY <1>2, <1>4 DEF IsWave
<1> QED BY <1>2, <1>4, <1>5, <1>6

LEMMA ObjectCount == Cardinality(Objects) \in Nat
BY ObjectAssumption, FS_CardinalityType

LEMMA CollectKeeps ==
  ASSUME NEW store, NEW roots, NEW excluded, NEW start, NEW G,
         [out |-> start, frontier |-> roots, missing |-> {}] \in G[0],
         \A n \in 1..Cardinality(Objects) : \A w \in G[n - 1] : CollectWave(store, excluded, w) \in G[n]
  PROVE  collect_inner(store, roots, excluded, start) \in G[Cardinality(Objects)]
<1> DEFINE N == Cardinality(Objects)
           base == [out |-> start, frontier |-> roots, missing |-> {}]
           Is(f) == f = [n \in 0..N |-> IF n = 0 THEN base ELSE CollectWave(store, excluded, f[n - 1])]
           g == CHOOSE f : Is(f)
<1>1. collect_inner(store, roots, excluded, start) = g[N]
  BY DEF collect_inner, CollectWave
<1>2. \A f : Is(f) <=> IsWave(f, "collect", store, excluded, base, N)
  BY DEF IsWave, WaveStep
<1>3. \E f : Is(f)
  <2>1. \E f : IsWave(f, "collect", store, excluded, base, N)
    <3> HIDE DEF base
    <3> QED BY WaveExists, ObjectCount
  <2> QED BY <1>2, <2>1
<1>4. IsWave(g, "collect", store, excluded, base, N)
  BY <1>2, <1>3
<1>5. \A i \in 1..N : \A w \in G[i - 1] : WaveStep("collect", store, excluded, w, i) \in G[i]
  BY DEF WaveStep
<1>6. base \in G[0]
  OBVIOUS
<1> HIDE DEF g, base
<1>7. g[N] \in G[N]
  BY <1>4, <1>5, <1>6, WaveKeeps, ObjectCount
<1> QED BY <1>1, <1>7

\* Where the two shallow walks start, and what they answer.
DepthStart(wants) == [NothingWalked EXCEPT !.next = [i \in 1..Len(wants) |-> <<wants[i], 1>>]]
CutStart(wants) == [NothingWalked EXCEPT !.next = wants]
DepthAnswer(store, acc) ==
  shallow_result(store, acc, {o \in acc.commits : Range(parents(o)) \ acc.commits # {}})
CutAnswer(store, boundary, acc) ==
  shallow_result(store, acc, boundary \cap acc.commits)

LEMMA ShallowKeeps ==
  ASSUME NEW store, NEW wants, NEW depth, NEW G,
         DepthStart(wants) \in G[0],
         \A n \in 1..(2 * Cardinality(Objects)) : \A w \in G[n - 1] : ShallowWave(store, depth, w) \in G[n]
  PROVE  \E acc \in G[2 * Cardinality(Objects)] :
           collect_shallow(store, wants, depth) = DepthAnswer(store, acc)
<1> DEFINE N == 2 * Cardinality(Objects)
           base == DepthStart(wants)
           Is(f) == f = [n \in 0..N |-> IF n = 0 THEN base ELSE ShallowWave(store, depth, f[n - 1])]
           g == CHOOSE f : Is(f)
<1>0. N \in Nat
  BY ObjectCount
<1>1. collect_shallow(store, wants, depth) = DepthAnswer(store, g[N])
  BY Zenon DEF collect_shallow, DepthStart, DepthAnswer, ShallowWave, ShallowFold
<1>2. \A f : Is(f) <=> IsWave(f, "shallow", store, depth, base, N)
  BY DEF IsWave, WaveStep
<1>3. \E f : Is(f)
  <2>1. \E f : IsWave(f, "shallow", store, depth, base, N)
    <3> HIDE DEF base, N
    <3> QED BY <1>0, WaveExists
  <2> QED BY <1>2, <2>1
<1>4. IsWave(g, "shallow", store, depth, base, N)
  BY <1>2, <1>3
<1>5. \A i \in 1..N : \A w \in G[i - 1] : WaveStep("shallow", store, depth, w, i) \in G[i]
  BY DEF WaveStep
<1>6. base \in G[0]
  OBVIOUS
<1>7. g[N] \in G[N]
  <2> HIDE DEF g, base, N
  <2> QED BY <1>0, <1>4, <1>5, <1>6, WaveKeeps
<1> QED BY <1>1, <1>7

LEMMA BoundaryKeeps ==
  ASSUME NEW store, NEW wants, NEW boundary, NEW G,
         CutStart(wants) \in G[0],
         \A n \in 1..(2 * Cardinality(Objects)) : \A w \in G[n - 1] : BoundaryWave(store, boundary, w) \in G[n]
  PROVE  \E acc \in G[2 * Cardinality(Objects)] :
           collect_shallow_at(store, wants, boundary) = CutAnswer(store, boundary, acc)
<1> DEFINE N == 2 * Cardinality(Objects)
           base == CutStart(wants)
           Is(f) == f = [n \in 0..N |-> IF n = 0 THEN base ELSE BoundaryWave(store, boundary, f[n - 1])]
           g == CHOOSE f : Is(f)
<1>0. N \in Nat
  BY ObjectCount
<1>1. collect_shallow_at(store, wants, boundary) = CutAnswer(store, boundary, g[N])
  BY Zenon DEF collect_shallow_at, CutStart, CutAnswer, BoundaryWave, BoundaryFold
<1>2. \A f : Is(f) <=> IsWave(f, "boundary", store, boundary, base, N)
  BY DEF IsWave, WaveStep
<1>3. \E f : Is(f)
  <2>1. \E f : IsWave(f, "boundary", store, boundary, base, N)
    <3> HIDE DEF base, N
    <3> QED BY <1>0, WaveExists
  <2> QED BY <1>2, <2>1
<1>4. IsWave(g, "boundary", store, boundary, base, N)
  BY <1>2, <1>3
<1>5. \A i \in 1..N : \A w \in G[i - 1] : WaveStep("boundary", store, boundary, w, i) \in G[i]
  BY DEF WaveStep
<1>6. base \in G[0]
  OBVIOUS
<1>7. g[N] \in G[N]
  <2> HIDE DEF g, base, N
  <2> QED BY <1>0, <1>4, <1>5, <1>6, WaveKeeps
<1> QED BY <1>1, <1>7

LEMMA PassKeeps ==
  ASSUME NEW pack, Len(pack.entries) \in Nat, NEW G,
         FullFold(pack.entries,
              [resolved |-> {}, oids |-> {}, progressed |-> FALSE, lookups |-> 0,
               err |-> IF pack.corrupt THEN "malformed"
                       ELSE IF Len(pack.entries) > RecvLimits.max_objects THEN "bomb" ELSE "none"]) \in G[0],
         \A n \in 1..(Len(pack.entries) + 1) : \A w \in G[n - 1] : Pass(pack.entries, w, n) \in G[n]
  PROVE  unpack_pack(pack) \in G[Len(pack.entries) + 1]
<1> DEFINE N == Len(pack.entries) + 1
           start == [resolved |-> {}, oids |-> {}, progressed |-> FALSE, lookups |-> 0,
                     err |-> IF pack.corrupt THEN "malformed"
                             ELSE IF Len(pack.entries) > RecvLimits.max_objects THEN "bomb" ELSE "none"]
           base == FullFold(pack.entries, start)
           Is(f) == f = [n \in 0..N |-> IF n = 0 THEN base ELSE Pass(pack.entries, f[n - 1], n)]
           g == CHOOSE f : Is(f)
<1>0. N \in Nat
  OBVIOUS
<1>1. unpack_pack(pack) = g[N]
  BY Zenon DEF unpack_pack, FullFold
<1>6. base \in G[0]
  OBVIOUS
<1> HIDE DEF base
<1>2. \A f : Is(f) <=> IsWave(f, "pass", pack.entries, 0, base, N)
  BY DEF IsWave, WaveStep
<1>3. \E f : Is(f)
  <2>1. \E f : IsWave(f, "pass", pack.entries, 0, base, N)
    <3> HIDE DEF N
    <3> QED BY <1>0, WaveExists
  <2> QED BY <1>2, <2>1
<1>4. IsWave(g, "pass", pack.entries, 0, base, N)
  BY <1>2, <1>3
<1>5. \A i \in 1..N : \A w \in G[i - 1] : WaveStep("pass", pack.entries, 0, w, i) \in G[i]
  BY DEF WaveStep
<1>7. g[N] \in G[N]
  <2> HIDE DEF g, N
  <2> QED BY <1>0, <1>4, <1>5, <1>6, WaveKeeps
<1> QED BY <1>1, <1>7

------------------------------------------------------------------------------
(* The closure walk.                                                        *)

\* Objects can be numbered so that each is above what it refers to.
IsRank(r, S, k) ==
  r \in [S -> 1..k] /\ \A o \in S : \A x \in referenced(o) \cap S : r[x] < r[o]

LEMMA RankOn ==
  ASSUME NEW S \in SUBSET Objects
  PROVE  \E r : IsRank(r, S, Cardinality(S))
<1> DEFINE Bad == {k \in Nat : \E T \in SUBSET Objects : Cardinality(T) = k /\ ~\E r : IsRank(r, T, k)}
<1>0. IsFiniteSet(S) /\ Cardinality(S) \in Nat
  BY ObjectAssumption, FS_Subset, FS_CardinalityType
<1> SUFFICES ASSUME Bad # {} PROVE FALSE
  BY <1>0
<1> HIDE DEF Bad
<1>1. PICK k \in Bad : \A y \in Bad : k <= y
  BY LeastNat DEF Bad
<1>2. PICK T \in SUBSET Objects : Cardinality(T) = k /\ ~\E r : IsRank(r, T, k)
  BY <1>1 DEF Bad
<1>3. IsFiniteSet(T) /\ k \in Nat
  BY <1>1, <1>2, ObjectAssumption, FS_Subset DEF Bad
<1>4. T # {}
  <2> SUFFICES ASSUME T = {} PROVE FALSE
    OBVIOUS
  <2>1. IsRank([o \in {} |-> 1], {}, k)
    BY DEF IsRank
  <2> QED BY <2>1, <1>2
<1>5. PICK o \in T : referenced(o) \cap T = {}
  BY <1>4, ObjectAssumption
<1> DEFINE U == T \ {o}
<1>6. Cardinality(U) = k - 1 /\ k - 1 \in Nat
  <2>1. IsFiniteSet(U) /\ Cardinality(U) = k - 1
    BY <1>2, <1>3, FS_RemoveElement
  <2> QED BY <2>1, FS_CardinalityType
<1>7. k - 1 \notin Bad
  BY <1>1, <1>3
<1>8. PICK r : IsRank(r, U, k - 1)
  BY <1>6, <1>7 DEF Bad
<1> DEFINE g == [x \in T |-> IF x = o THEN 1 ELSE r[x] + 1]
<1>9. IsRank(g, T, k)
  <2>1. \A x \in U : r[x] \in 1..(k - 1)
    BY <1>8 DEF IsRank
  <2>2. g \in [T -> 1..k]
    BY <2>1, <1>3, <1>6
  <2>3. ASSUME NEW y \in T, NEW x \in referenced(y) \cap T PROVE g[x] < g[y]
    <3>1. y # o
      BY <1>5, <2>3
    <3>2. CASE x = o
      BY <3>1, <3>2, <2>1, <1>6
    <3>3. CASE x # o
      <4>1. r[x] < r[y] /\ r[x] \in Nat /\ r[y] \in Nat
        BY <1>8, <3>1, <3>3, <2>1, <2>3 DEF IsRank
      <4> QED BY <4>1, <3>1, <3>3
    <3> QED BY <3>2, <3>3
  <2> QED BY <2>2, <2>3 DEF IsRank
<1> QED BY <1>2, <1>9

LEMMA RankExists ==
  \E r \in [Objects -> 1..Cardinality(Objects)] :
     \A o \in Objects : \A x \in referenced(o) : x \in Objects /\ r[x] < r[o]
<1>1. PICK r : IsRank(r, Objects, Cardinality(Objects))
  BY RankOn
<1> QED BY <1>1, ObjectAssumption DEF IsRank

Walks == [out : SUBSET Objects, frontier : SUBSET Objects, missing : SUBSET Objects]

\* A walk that starts in a set that is closed under what objects refer to stays there.
LEMMA CollectWithin ==
  ASSUME NEW S, NEW store, NEW roots \in SUBSET S, NEW excluded, NEW start \in SUBSET S,
         \A o \in S : referenced(o) \subseteq S
  PROVE  LET w == collect_inner(store, roots, excluded, start) IN
         w.out \subseteq S /\ w.missing \subseteq S
<1> DEFINE N == Cardinality(Objects)
           Good == [out : SUBSET S, frontier : SUBSET S, missing : SUBSET S]
           G == [n \in 0..N |-> Good]
<1>1. [out |-> start, frontier |-> roots, missing |-> {}] \in G[0]
  BY ObjectCount
<1>2. ASSUME NEW n \in 1..N, NEW w \in G[n - 1] PROVE CollectWave(store, excluded, w) \in G[n]
  <2>1. n - 1 \in 0..N /\ n \in 0..N
    BY ObjectCount
  <2>2. w \in Good
    BY <2>1
  <2>3. CollectWave(store, excluded, w) \in Good
    BY <2>2 DEF CollectWave, push_unseen
  <2> QED BY <2>1, <2>3
<1> HIDE DEF G
<1>3. collect_inner(store, roots, excluded, start) \in G[N]
  BY <1>1, <1>2, CollectKeeps
<1>4. collect_inner(store, roots, excluded, start) \in Good
  BY <1>3, ObjectCount DEF G
<1> QED BY <1>4

\* The walk finds all that its roots need: what it takes is stored, and what an
\* object it takes refers to is taken, excluded or missing.
LEMMA CollectClosed ==
  ASSUME NEW store, NEW roots \in SUBSET Objects, NEW excluded, NEW start \in SUBSET Objects
  PROVE  LET w == collect_inner(store, roots, excluded, start)
             visited == w.out \cup excluded \cup w.missing
         IN  /\ w.out \subseteq Objects /\ w.missing \subseteq Objects
             /\ start \subseteq w.out
             /\ roots \subseteq visited
             /\ \A o \in w.out \ start : o \in store /\ referenced(o) \subseteq visited
             /\ w.missing \cap store = {}
<1> DEFINE N == Cardinality(Objects)
<1>0. PICK r \in [Objects -> 1..N] : \A o \in Objects : \A x \in referenced(o) : x \in Objects /\ r[x] < r[o]
  BY RankExists
<1> DEFINE Known(w) == w.out \cup excluded \cup w.missing \cup w.frontier
           Good(n) == {w \in Walks :
             /\ start \subseteq w.out
             /\ roots \subseteq Known(w)
             /\ \A o \in w.out \ start : o \in store /\ referenced(o) \subseteq Known(w)
             /\ w.missing \cap store = {}
             /\ \A o \in w.frontier \ (excluded \cup w.out) : r[o] <= N - n}
           G == [n \in 0..N |-> Good(n)]
<1>1. [out |-> start, frontier |-> roots, missing |-> {}] \in G[0]
  BY ObjectCount DEF Walks
<1>2. ASSUME NEW n \in 1..N, NEW w \in G[n - 1] PROVE CollectWave(store, excluded, w) \in G[n]
  <2>1. n - 1 \in 0..N /\ n \in 0..N /\ N \in Nat /\ n \in Nat
    BY ObjectCount
  <2>2. w \in Good(n - 1)
    BY <2>1
  <2> DEFINE batch == w.frontier \ (excluded \cup w.out)
             v == CollectWave(store, excluded, w)
  <2>3. CASE batch = {}
    <3>1. v = w
      BY <2>3 DEF CollectWave
    <3>2. w \in Good(n)
      BY <2>2, <2>3
    <3> QED BY <2>1, <3>1, <3>2
  <2>4. CASE batch # {}
    <3> DEFINE out == w.out \cup (batch \cap store)
               ahead == UNION {referenced(o) \ (excluded \cup out) : o \in batch \cap store}
    <3>1. v = [out |-> out, frontier |-> ahead, missing |-> w.missing \cup (batch \ store)]
      BY <2>4 DEF CollectWave, push_unseen
    <3>2. v.out = out /\ v.frontier = ahead /\ v.missing = w.missing \cup (batch \ store)
      BY <3>1
    <3>3. batch \subseteq Objects /\ out \subseteq Objects /\ ahead \subseteq Objects
      BY <2>2, ObjectAssumption DEF Walks
    <3>4. v \in Walks
      BY <3>1, <3>3, <2>2 DEF Walks
    <3>5. Known(w) \subseteq Known(v)
      BY <3>2
    <3>6. ASSUME NEW o \in v.out \ start PROVE o \in store /\ referenced(o) \subseteq Known(v)
      <4>1. CASE o \in w.out
        BY <4>1, <3>5, <2>2
      <4>2. CASE o \notin w.out
        <5>1. o \in batch \cap store
          BY <4>2, <3>2
        <5> QED BY <5>1, <3>2
      <4> QED BY <4>1, <4>2
    <3>7. ASSUME NEW x \in v.frontier PROVE r[x] <= N - n
      <4>1. PICK o \in batch \cap store : x \in referenced(o)
        BY <3>2
      <4>2. r[o] <= N - (n - 1) /\ r[o] \in Nat /\ r[x] \in Nat /\ r[x] < r[o]
        BY <4>1, <2>2, <3>3, <1>0
      <4> QED BY <4>2, <2>1
    <3>8. v \in Good(n)
      <4>1. start \subseteq v.out /\ roots \subseteq Known(v)
        BY <2>2, <3>2, <3>5
      <4>2. v.missing \cap store = {}
        BY <2>2, <3>2
      <4> HIDE DEF v, batch, out, ahead
      <4> QED BY <3>4, <3>6, <3>7, <4>1, <4>2
    <3> QED BY <2>1, <3>8
  <2> QED BY <2>3, <2>4
<1> DEFINE w == collect_inner(store, roots, excluded, start)
<1>3. w \in G[N]
  <2> HIDE DEF G
  <2> QED BY <1>1, <1>2, CollectKeeps
<1>4. w \in Good(N)
  BY <1>3, ObjectCount
<1> HIDE DEF w
<1>5. w.frontier \subseteq excluded \cup w.out
  <2> SUFFICES ASSUME NEW x \in w.frontier \ (excluded \cup w.out) PROVE FALSE
    OBVIOUS
  <2>1. x \in Objects /\ r[x] <= N - N
    BY <1>4 DEF Walks
  <2> QED BY <2>1, <1>0, ObjectCount
<1>6. Known(w) = w.out \cup excluded \cup w.missing
  BY <1>5
<1>7. w \in Walks
  BY <1>4
<1> QED BY <1>4, <1>6, <1>7 DEF Walks, w

------------------------------------------------------------------------------
(* The receiver's store.                                                    *)

\* An object that was checked refers to objects that were put, and so does a ref.
StoreInv ==
  gate = "receiver" =>
    /\ \A o \in cas \ strays : referenced(o) \subseteq cas \cup drops
    /\ \A k \in 1..Len(reflog) : reflog[k].target \in cas \cup drops

\* A closure holds its object, is closed, and is the least such set.
LEMMA ClosureOf ==
  ASSUME NEW t \in Objects
  PROVE  /\ t \in Closure(t)
         /\ \A o \in Closure(t) : referenced(o) \subseteq Closure(t)
         /\ \A S : t \in S /\ (\A o \in S : referenced(o) \subseteq S) => Closure(t) \subseteq S
<1> DEFINE w == collect_inner(Objects, {t}, {}, {})
<1>1. /\ w.out \subseteq Objects /\ w.missing \subseteq Objects
      /\ {} \subseteq w.out
      /\ {t} \subseteq w.out \cup {} \cup w.missing
      /\ \A o \in w.out \ {} : o \in Objects /\ referenced(o) \subseteq w.out \cup {} \cup w.missing
      /\ w.missing \cap Objects = {}
  <2>1. {t} \in SUBSET Objects /\ {} \in SUBSET Objects
    OBVIOUS
  <2> QED BY <2>1, CollectClosed, Zenon
<1>2. ASSUME NEW S, t \in S, \A o \in S : referenced(o) \subseteq S PROVE w.out \subseteq S
  BY <1>2, CollectWithin
<1> HIDE DEF w
<1>3. w.missing = {}
  BY <1>1
<1>4. Closure(t) = w.out
  BY DEF Closure, w
<1> QED BY <1>1, <1>2, <1>3, <1>4

\* What a ref points at was pushed to it.
LEMMA ViewPushed ==
  ASSUME reflog \in Seq(PushRecords), NEW r \in Refs, RefView[r] # NoOid
  PROVE  \E k \in 1..Len(reflog) : RefView[r] = reflog[k].target
<1> DEFINE moves == {k \in 1..Len(reflog) : reflog[k].ref = r}
<1>1. moves # {} /\ RefView[r] = reflog[Max(moves)].target
  BY DEF RefView
<1>2. Len(reflog) \in Nat /\ moves \in SUBSET (1..Len(reflog))
  OBVIOUS
<1>3. Max(moves) \in 1..Len(reflog)
  <2> HIDE DEF moves
  <2> QED BY <1>1, <1>2, Greatest
<1> QED BY <1>1, <1>3

LEMMA StoreCloses == ASSUME PushInv, StoreInv PROVE RefsCloseable
<1> SUFFICES ASSUME gate = "receiver", NEW r \in Refs, RefView[r] # NoOid,
                    Closure(RefView[r]) \cap (strays \cup drops) = {}
             PROVE  Closure(RefView[r]) \subseteq cas
  BY DEF RefsCloseable
<1> DEFINE t == RefView[r]
           C == Closure(t)
           S == C \cap cas
<1>1. t \in Objects
  BY ViewTyped, ObjectAssumption DEF PushInv, Views
<1>2. t \in cas \cup drops
  BY ViewPushed DEF PushInv, StoreInv
<1> HIDE DEF t
<1>3. t \in C /\ (\A o \in C : referenced(o) \subseteq C)
  BY <1>1, ClosureOf
<1>4. C \cap (strays \cup drops) = {}
  BY DEF t
<1>5. t \in S
  BY <1>2, <1>3, <1>4
<1>6. ASSUME NEW o \in S PROVE referenced(o) \subseteq S
  <2>1. referenced(o) \subseteq cas \cup drops
    BY <1>4 DEF StoreInv
  <2> HIDE DEF C
  <2> QED BY <2>1, <1>3, <1>4
<1>7. C \subseteq S
  BY <1>1, <1>5, <1>6, ClosureOf
<1> HIDE DEF C
<1>8. C \subseteq cas
  BY <1>7
<1> QED BY <1>8 DEF C, t

\* A push that is accepted found all that its target needs, in the pack or the store.
LEMMA VerdictWalks ==
  ASSUME NEW pack, NEW u, NEW ref, NEW target \in Targets, NEW expected, NEW chain,
         receive_verdict(pack, u, ref, target, expected, chain) = "none"
  PROVE  /\ gate = "receiver"
         /\ target \in u.oids \cup cas
         /\ \A o \in collect_inner(u.oids, {target}, {}, {}).out :
              o \in u.oids /\ referenced(o) \subseteq u.oids \cup cas
<1> DEFINE w == collect_inner(u.oids, {target}, {}, {})
<1>1. gate = "receiver" /\ target \in u.oids \cup cas
  BY DEF receive_verdict, admit_write
<1>2. target \in u.oids => target_reachable(target, u.oids) = "none"
  BY DEF receive_verdict
<1>3. target \in u.oids => w.missing \subseteq cas
  BY <1>2 DEF target_reachable
<1>4. /\ {target} \subseteq w.out \cup {} \cup w.missing
      /\ \A o \in w.out \ {} : o \in u.oids /\ referenced(o) \subseteq w.out \cup {} \cup w.missing
  <2>1. {target} \in SUBSET Objects
    BY ObjectAssumption
  <2> QED BY <2>1, CollectClosed
<1>5. CASE target \in u.oids
  <2> HIDE DEF w
  <2>1. \A o \in w.out : o \in u.oids /\ referenced(o) \subseteq u.oids \cup cas
    BY <1>3, <1>4, <1>5
  <2> QED BY <1>1, <2>1 DEF w
<1>6. CASE target \notin u.oids
  <2> DEFINE N == Cardinality(Objects)
             Good == [out : {{}}, frontier : SUBSET {target}, missing : SUBSET {target}]
             G == [n \in 0..N |-> Good]
  <2>1. [out |-> {}, frontier |-> {target}, missing |-> {}] \in G[0]
    BY ObjectCount
  <2>2. ASSUME NEW n \in 1..N, NEW x \in G[n - 1] PROVE CollectWave(u.oids, {}, x) \in G[n]
    <3>1. n - 1 \in 0..N /\ n \in 0..N
      BY ObjectCount
    <3>2. x \in Good
      BY <3>1
    <3>3. x.frontier \cap u.oids = {} /\ x.out = {}
      BY <3>2, <1>6
    <3>4. CollectWave(u.oids, {}, x) \in Good
      BY <3>2, <3>3 DEF CollectWave
    <3> QED BY <3>1, <3>4
  <2> HIDE DEF G
  <2>3. w \in G[N]
    BY <2>1, <2>2, CollectKeeps
  <2>4. w.out = {}
    <3> HIDE DEF w
    <3>1. w \in Good
      BY <2>3, ObjectCount DEF G
    <3> QED BY <3>1
  <2> QED BY <1>1, <2>4
<1> QED BY <1>5, <1>6

LEMMA StoreStep == ASSUME PushInv, StoreInv, [GitNext]_gitVars PROVE StoreInv'
<1>1. ASSUME UNCHANGED <<gate, cas, reflog, strays, drops>> PROVE StoreInv'
  BY <1>1 DEF StoreInv
<1>2. ASSUME NEW c \in Clients, NEW pack \in Packs, Receive(c, pack) PROVE StoreInv'
  <2> DEFINE u == unpack_pack(pack)
  <2>1. PICK ref \in Refs, target \in Targets, chain \in {<<>>, <<"ana">>} :
          /\ receive_verdict(pack, u, ref, target, client[c].adv[ref], chain) = "none"
          /\ \E failed \in SUBSET (u.oids \ cas) :
               cas' = cas \cup (u.oids \ failed) /\ drops' = drops \cup failed
          /\ strays' = strays \cup (u.oids \ collect_inner(u.oids, {target}, {}, {}).out)
          /\ record_ref_update(ref, target, client[c].adv[ref])
    BY <1>2 DEF Receive
  <2> HIDE DEF u
  <2> DEFINE taken == collect_inner(u.oids, {target}, {}, {}).out
  <2>2. /\ gate = "receiver"
        /\ target \in u.oids \cup cas
        /\ \A o \in taken : o \in u.oids /\ referenced(o) \subseteq u.oids \cup cas
    BY <2>1, VerdictWalks
  <2>3. cas \cup u.oids \cup drops \subseteq cas' \cup drops' /\ cas' \subseteq cas \cup u.oids
    BY <2>1
  <2>4. strays' = strays \cup (u.oids \ taken)
    BY <2>1
  <2> HIDE DEF taken
  <2>5. \A o \in cas' \ strays' : referenced(o) \subseteq cas' \cup drops'
    <3> SUFFICES ASSUME NEW o \in cas' \ strays' PROVE referenced(o) \subseteq cas' \cup drops'
      OBVIOUS
    <3>1. CASE o \in cas
      BY <3>1, <2>2, <2>3, <2>4 DEF StoreInv
    <3>2. CASE o \notin cas
      BY <3>2, <2>2, <2>3, <2>4
    <3> QED BY <3>1, <3>2
  <2>6. \A k \in 1..Len(reflog') : reflog'[k].target \in cas' \cup drops'
    <3> DEFINE e == [ref |-> ref, target |-> target, expected |-> client[c].adv[ref]]
    <3>1. reflog' = Append(reflog, e)
      BY <2>1 DEF record_ref_update
    <3>2. reflog \in Seq(PushRecords)
      BY DEF PushInv
    <3> SUFFICES ASSUME NEW k \in 1..Len(reflog') PROVE reflog'[k].target \in cas' \cup drops'
      OBVIOUS
    <3>3. Len(reflog') = Len(reflog) + 1 /\ Len(reflog) \in Nat
      BY <3>1, <3>2
    <3>4. CASE k <= Len(reflog)
      <4>1. k \in 1..Len(reflog) /\ reflog'[k] = reflog[k]
        BY <3>1, <3>2, <3>3, <3>4
      <4> QED BY <4>1, <2>2, <2>3 DEF StoreInv
    <3>5. CASE k > Len(reflog)
      <4>1. reflog'[k] = e
        BY <3>1, <3>2, <3>3, <3>5
      <4> QED BY <4>1, <2>2, <2>3
    <3> QED BY <3>3, <3>4, <3>5
  <2> QED BY <2>5, <2>6 DEF StoreInv
<1>3. ASSUME NEW c \in Clients, NEW ref \in Refs, NEW target \in Targets, NEW chain,
             PushOrdered(c, ref, target, chain)
      PROVE  StoreInv'
  BY <1>3 DEF StoreInv, PushOrdered
<1>4. CASE UNCHANGED gitVars
  BY <1>1, <1>4 DEF gitVars
<1>5. ASSUME NEW c \in Clients,
             Advertise(c) \/ Fetch(c) \/ (\E depth \in Depths : Deepen(c, depth)) \/ FetchShallow(c) \/ FetchMore(c)
      PROVE  StoreInv'
  <2>1. UNCHANGED <<gate, cas, reflog, strays, drops>>
    BY <1>5, Zenon DEF Advertise, Fetch, Deepen, FetchShallow, FetchMore
  <2> QED BY <1>1, <2>1
<1> QED BY <1>2, <1>3, <1>4, <1>5 DEF GitNext

------------------------------------------------------------------------------
(* Shallow walks.                                                           *)

LEMMA RangeOf ==
  ASSUME NEW X, NEW s \in Seq(X), NEW t \in Seq(X), NEW x \in X
  PROVE  /\ Range(s \o t) = Range(s) \cup Range(t)
         /\ Range(Append(s, x)) = Range(s) \cup {x}
<1>1. ASSUME NEW i \in DOMAIN s PROVE s[i] \in Range(s \o t)
  <2>1. i \in DOMAIN (s \o t) /\ (s \o t)[i] = s[i]
    OBVIOUS
  <2> QED BY <2>1 DEF Range
<1>2. ASSUME NEW i \in DOMAIN t PROVE t[i] \in Range(s \o t)
  <2>1. Len(s) + i \in DOMAIN (s \o t) /\ (s \o t)[Len(s) + i] = t[i]
    OBVIOUS
  <2> QED BY <2>1 DEF Range
<1>3. ASSUME NEW i \in DOMAIN (s \o t) PROVE (s \o t)[i] \in Range(s) \cup Range(t)
  <2>1. CASE i <= Len(s)
    <3>1. i \in DOMAIN s /\ (s \o t)[i] = s[i]
      BY <2>1
    <3> QED BY <3>1 DEF Range
  <2>2. CASE i > Len(s)
    <3>1. i - Len(s) \in DOMAIN t /\ (s \o t)[i] = t[i - Len(s)]
      BY <2>2
    <3> QED BY <3>1 DEF Range
  <2> QED BY <2>1, <2>2
<1>4. Range(s \o t) = Range(s) \cup Range(t)
  BY <1>1, <1>2, <1>3 DEF Range
<1>5. ASSUME NEW i \in DOMAIN s PROVE s[i] \in Range(Append(s, x))
  <2>1. i \in DOMAIN Append(s, x) /\ Append(s, x)[i] = s[i]
    OBVIOUS
  <2> QED BY <2>1 DEF Range
<1>6. x \in Range(Append(s, x))
  <2>1. Len(s) + 1 \in DOMAIN Append(s, x) /\ Append(s, x)[Len(s) + 1] = x
    OBVIOUS
  <2> QED BY <2>1 DEF Range
<1>7. ASSUME NEW i \in DOMAIN Append(s, x) PROVE Append(s, x)[i] \in Range(s) \cup {x}
  <2>1. CASE i <= Len(s)
    <3>1. i \in DOMAIN s /\ Append(s, x)[i] = s[i]
      BY <2>1
    <3> QED BY <3>1 DEF Range
  <2>2. CASE i > Len(s)
    <3>1. Append(s, x)[i] = x
      BY <2>2
    <3> QED BY <3>1
  <2> QED BY <2>1, <2>2
<1>8. Range(Append(s, x)) = Range(s) \cup {x}
  BY <1>5, <1>6, <1>7 DEF Range
<1> QED BY <1>4, <1>8

\* What a commit and a tag refer to.
LEMMA LinksOf ==
  ASSUME NEW o \in Objects
  PROVE  /\ referenced(o) \subseteq Objects
         /\ Kind[o] = "commit" =>
              /\ Head(Links[o]) \in Objects
              /\ parents(o) \in Seq(Objects)
              /\ referenced(o) = {Head(Links[o])} \cup Range(parents(o))
              /\ \A x \in Range(parents(o)) : x \in Objects /\ Kind[x] = "commit"
         /\ Kind[o] = "tag" => Head(Links[o]) \in Objects /\ referenced(o) = {Head(Links[o])}
<1> DEFINE l == Links[o]
<1>1. l \in Seq(Objects \cup Gitlinks) /\ referenced(o) \subseteq Objects
  BY ObjectAssumption
<1>2. CASE Kind[o] = "commit"
  <2>1. referenced(o) = Range(l) /\ parents(o) = Tail(l) /\ l # <<>>
    BY <1>2, ObjectAssumption DEF referenced, parents
  <2>2. 1 \in DOMAIN l /\ Head(l) = l[1]
    BY <1>1, <2>1
  <2>3. Head(l) \in Range(l)
    BY <2>2 DEF Range
  <2>4. Len(Tail(l)) = Len(l) - 1 /\ \A i \in 1..Len(Tail(l)) : Tail(l)[i] = l[i + 1] /\ i + 1 \in DOMAIN l
    BY <1>1, <2>1
  <2>5. DOMAIN Tail(l) = 1..Len(Tail(l)) /\ Len(Tail(l)) \in Nat
    BY <1>1, <2>1
  <2>6. \A i \in 1..Len(Tail(l)) : Tail(l)[i] \in Objects
    BY <1>1, <2>1, <2>4 DEF Range
  <2>7. Tail(l) \in Seq(Objects)
    <3>1. Tail(l) \in Seq(Objects \cup Gitlinks)
      BY <1>1, <2>1
    <3> DEFINE t == Tail(l)
    <3>2. t \in Seq(Objects \cup Gitlinks) /\ \A i \in 1..Len(t) : t[i] \in Objects
      BY <3>1, <2>6
    <3> HIDE DEF t
    <3>3. t \in Seq(Objects)
      BY <3>2, ElementOfSeq, SeqDef
    <3> QED BY <3>3 DEF t
  <2>8. Range(l) = {Head(l)} \cup Range(Tail(l))
    <3>1. ASSUME NEW i \in DOMAIN l PROVE l[i] \in {Head(l)} \cup Range(Tail(l))
      <4>1. CASE i = 1
        BY <4>1, <2>2
      <4>2. CASE i # 1
        <5>1. i - 1 \in 1..Len(Tail(l)) /\ (i - 1) + 1 = i
          BY <4>2, <1>1, <2>4
        <5>2. Tail(l)[i - 1] = l[i]
          BY <5>1, <2>4
        <5> QED BY <5>1, <5>2, <2>5 DEF Range
      <4> QED BY <4>1, <4>2
    <3> QED BY <3>1, <2>3, <2>4, <2>5 DEF Range
  <2> HIDE DEF l
  <2>9. \A x \in Range(parents(o)) : x \in Objects /\ Kind[x] = "commit"
    <3>1. \A x \in Range(parents(o)) : Kind[x] = "commit"
      BY <1>2, ObjectAssumption
    <3>2. Range(parents(o)) \subseteq referenced(o)
      BY <2>1, <2>8
    <3> QED BY <1>1, <3>1, <3>2
  <2>10. Head(l) \in Objects
    BY <1>1, <2>1, <2>3
  <2> QED BY <1>1, <1>2, <2>1, <2>7, <2>8, <2>9, <2>10 DEF l
<1>3. CASE Kind[o] = "tag"
  <2>1. referenced(o) = Range(l) /\ Len(l) = 1
    BY <1>3, ObjectAssumption DEF referenced
  <2>2. DOMAIN l = {1} /\ Head(l) = l[1]
    BY <1>1, <2>1
  <2>3. Range(l) = {Head(l)}
    BY <2>2 DEF Range
  <2> QED BY <1>1, <1>3, <2>1, <2>3
<1> QED BY <1>1, <1>2, <1>3

\* Closed under the peeling of tags and the parents of the commits expanded.
ClosedUnder(S, E) ==
  /\ \A o \in E \cap S : Range(parents(o)) \subseteq S
  /\ \A o \in S : Kind[o] = "tag" => Head(Links[o]) \in S

\* A walk from `wants` that expanded the commits E, took the commits C, the tags
\* T and the roots R, missed M and has P ahead of it: nothing it needs is lost,
\* and it holds nothing that it did not need.
Walked(E, C, T, R, M, P, wants) ==
  /\ C \cup T \cup R \cup P \subseteq Objects
  /\ E \subseteq C
  /\ \A o \in C : Kind[o] = "commit"
  /\ \A o \in T : Kind[o] = "tag"
  /\ \A o \in R : Kind[o] \notin {"commit", "tag"}
  /\ wants \subseteq C \cup T \cup R \cup M \cup P
  /\ \A o \in E : Range(parents(o)) \subseteq C \cup T \cup R \cup M \cup P
  /\ \A o \in T : Head(Links[o]) \in C \cup T \cup R \cup M \cup P
  /\ \A S \in SUBSET Objects : wants \subseteq S /\ ClosedUnder(S, E) => C \cup T \cup R \cup P \subseteq S

LEMMA WalkStarts ==
  ASSUME NEW wants \in SUBSET Objects
  PROVE  Walked({}, {}, {}, {}, {}, wants, wants)
BY DEF Walked

\* One object is looked at: it is missing, seen before, or of one of the kinds.
LEMMA WalkSkips ==
  ASSUME NEW E, NEW C, NEW T, NEW R, NEW M, NEW P, NEW wants, NEW o \in P, NEW Q,
         Walked(E, C, T, R, M, P, wants), Q \subseteq P, P \subseteq Q \cup {o}
  PROVE  /\ Walked(E, C, T, R, M \cup {o}, Q, wants)
         /\ o \in C => Walked(E, C, T, R, M, Q, wants)
         /\ Kind[o] = "commit" => Walked(E, C \cup {o}, T, R, M, Q, wants)
         /\ Kind[o] \notin {"commit", "tag"} => Walked(E, C, T, R \cup {o}, M, Q, wants)
<1>1. Walked(E, C, T, R, M \cup {o}, Q, wants)
  BY DEF Walked
<1>2. o \in C => Walked(E, C, T, R, M, Q, wants)
  BY DEF Walked
<1>3. Kind[o] = "commit" => Walked(E, C \cup {o}, T, R, M, Q, wants)
  BY DEF Walked
<1>4. Kind[o] \notin {"commit", "tag"} => Walked(E, C, T, R \cup {o}, M, Q, wants)
  BY DEF Walked
<1> QED BY <1>1, <1>2, <1>3, <1>4

LEMMA WalkExpands ==
  ASSUME NEW E, NEW C, NEW T, NEW R, NEW M, NEW P, NEW wants, NEW o \in P, NEW Q,
         Walked(E, C, T, R, M, P, wants), Kind[o] = "commit",
         Q \subseteq P \cup Range(parents(o)), P \cup Range(parents(o)) \subseteq Q \cup {o}
  PROVE  Walked(E \cup {o}, C \cup {o}, T, R, M, Q, wants)
<1>1. o \in Objects /\ Range(parents(o)) \subseteq Objects
  BY LinksOf DEF Walked
<1> DEFINE ps == Range(parents(o))
<1>2. ASSUME NEW S \in SUBSET Objects, wants \subseteq S, ClosedUnder(S, E \cup {o})
      PROVE  C \cup {o} \cup T \cup R \cup Q \subseteq S
  <2>1. ClosedUnder(S, E)
    BY <1>2 DEF ClosedUnder
  <2>2. C \cup T \cup R \cup P \subseteq S
    BY <2>1, <1>2 DEF Walked
  <2>3. ps \subseteq S
    BY <1>2, <2>2 DEF ClosedUnder
  <2> QED BY <2>2, <2>3
<1>3. ps \subseteq C \cup {o} \cup T \cup R \cup M \cup Q
  OBVIOUS
<1> HIDE DEF ps
<1>4. C \cup T \cup R \cup M \cup P \subseteq C \cup {o} \cup T \cup R \cup M \cup Q
  OBVIOUS
<1>5. \A x \in E \cup {o} : Range(parents(x)) \subseteq C \cup {o} \cup T \cup R \cup M \cup Q
  BY <1>3, <1>4 DEF Walked, ps
<1> QED BY <1>1, <1>2, <1>4, <1>5 DEF Walked

LEMMA WalkPeels ==
  ASSUME NEW E, NEW C, NEW T, NEW R, NEW M, NEW P, NEW wants, NEW o \in P, NEW Q,
         Walked(E, C, T, R, M, P, wants), Kind[o] = "tag",
         Q \subseteq P \cup {Head(Links[o])}, P \cup {Head(Links[o])} \subseteq Q \cup {o}
  PROVE  Walked(E, C, T \cup {o}, R, M, Q, wants)
<1>1. o \in Objects /\ Head(Links[o]) \in Objects
  BY LinksOf DEF Walked
<1>2. ASSUME NEW S \in SUBSET Objects, wants \subseteq S, ClosedUnder(S, E)
      PROVE  C \cup T \cup {o} \cup R \cup Q \subseteq S
  <2>1. C \cup T \cup R \cup P \subseteq S
    BY <1>2 DEF Walked
  <2>2. Head(Links[o]) \in S
    BY <1>2, <2>1 DEF ClosedUnder
  <2> QED BY <2>1, <2>2
<1>3. C \cup T \cup R \cup M \cup P \cup {Head(Links[o])} \subseteq C \cup T \cup {o} \cup R \cup M \cup Q
  OBVIOUS
<1> QED BY <1>1, <1>2, <1>3 DEF Walked

Accs(X) == [commits : SUBSET Objects, tags : SUBSET Objects, trees : SUBSET Objects, roots : SUBSET Objects,
            next : Seq(X), missing : SUBSET Objects]

WalkGood(wants, a, E, P) ==
  /\ a.trees = {Head(Links[x]) : x \in a.commits}
  /\ Walked(E, a.commits, a.tags, a.roots, a.missing, P, wants)

\* One entry of the frontier of a walk that is cut at a boundary.
LEMMA BoundaryStepWalks ==
  ASSUME NEW store, NEW boundary, NEW wants, NEW a \in Accs(Objects), NEW o \in Objects, NEW rest,
         WalkGood(wants, a, a.commits \ boundary, Range(a.next) \cup rest \cup {o})
  PROVE  LET b == BoundaryStep(store, boundary, a, o) IN
         /\ b \in Accs(Objects)
         /\ WalkGood(wants, b, b.commits \ boundary, Range(b.next) \cup rest)
         /\ Range(b.next) \subseteq Range(a.next) \cup referenced(o)
<1> DEFINE b == BoundaryStep(store, boundary, a, o)
           E == a.commits \ boundary
           P == Range(a.next) \cup rest \cup {o}
           Same == Range(a.next) \cup rest
           Result == /\ b \in Accs(Objects)
                     /\ WalkGood(wants, b, b.commits \ boundary, Range(b.next) \cup rest)
                     /\ Range(b.next) \subseteq Range(a.next) \cup referenced(o)
<1>0. /\ a.trees = {Head(Links[x]) : x \in a.commits}
      /\ Walked(E, a.commits, a.tags, a.roots, a.missing, P, wants)
      /\ o \in P /\ Same \subseteq P /\ P \subseteq Same \cup {o}
  BY DEF WalkGood
<1> HIDE DEF E, P, Same
<1>6. /\ Walked(E, a.commits, a.tags, a.roots, a.missing \cup {o}, Same, wants)
      /\ o \in a.commits => Walked(E, a.commits, a.tags, a.roots, a.missing, Same, wants)
      /\ Kind[o] = "commit" => Walked(E, a.commits \cup {o}, a.tags, a.roots, a.missing, Same, wants)
      /\ Kind[o] \notin {"commit", "tag"} =>
           Walked(E, a.commits, a.tags, a.roots \cup {o}, a.missing, Same, wants)
  BY <1>0, WalkSkips
<1>1. CASE o \notin store
  <2>1. b = [a EXCEPT !.missing = @ \cup {o}]
    BY <1>1 DEF BoundaryStep
  <2>2. /\ b \in Accs(Objects) /\ b.trees = a.trees /\ b.commits = a.commits /\ b.tags = a.tags
        /\ b.roots = a.roots /\ b.next = a.next /\ b.missing = a.missing \cup {o}
    BY <2>1 DEF Accs
  <2> HIDE DEF b
  <2>3. Walked(E, b.commits, b.tags, b.roots, b.missing, Same, wants)
    BY <1>6, <2>2
  <2> QED BY <1>0, <2>2, <2>3 DEF WalkGood, E, Same, b
<1>2. CASE o \in store /\ Kind[o] = "commit" /\ o \in a.commits
  <2>1. b = a
    BY <1>2 DEF BoundaryStep
  <2> HIDE DEF b
  <2>3. Walked(E, a.commits, a.tags, a.roots, a.missing, Same, wants)
    BY <1>6, <1>2
  <2> QED BY <1>0, <2>1, <2>3 DEF WalkGood, E, Same, b
<1>3. CASE o \in store /\ Kind[o] = "commit" /\ o \notin a.commits
  <2>0. Head(Links[o]) \in Objects /\ parents(o) \in Seq(Objects) /\ Range(parents(o)) \subseteq referenced(o)
    BY <1>3, LinksOf
  <2> DEFINE nx == IF o \in boundary THEN a.next ELSE a.next \o parents(o)
  <2>1. b = [a EXCEPT !.commits = @ \cup {o}, !.trees = @ \cup {Head(Links[o])}, !.next = nx]
    BY <1>3 DEF BoundaryStep
  <2>2. /\ b \in Accs(Objects) /\ b.trees = a.trees \cup {Head(Links[o])} /\ b.commits = a.commits \cup {o}
        /\ b.tags = a.tags /\ b.roots = a.roots /\ b.missing = a.missing
        /\ b.next = IF o \in boundary THEN a.next ELSE a.next \o parents(o)
    <3>1. a.next \in Seq(Objects)
      BY DEF Accs
    <3>2. nx \in Seq(Objects)
      BY <2>0, <3>1
    <3>3. b.next = nx
      BY <2>1 DEF Accs
    <3> HIDE DEF nx
    <3>4. /\ b \in Accs(Objects) /\ b.trees = a.trees \cup {Head(Links[o])} /\ b.commits = a.commits \cup {o}
          /\ b.tags = a.tags /\ b.roots = a.roots /\ b.missing = a.missing
      <4> HIDE DEF b
      <4> QED BY <2>0, <2>1, <3>2 DEF Accs
    <3> QED BY <3>3, <3>4 DEF nx
  <2>3. a.next \in Seq(Objects)
    BY DEF Accs
  <2> HIDE DEF b
  <2>4. b.trees = {Head(Links[x]) : x \in b.commits}
    BY <1>0, <2>2
  <2>5. CASE o \in boundary
    <3>1. Walked(E, b.commits, b.tags, b.roots, b.missing, Same, wants)
      BY <1>6, <1>3, <2>2
    <3>2. b.next = a.next /\ b.commits \ boundary = E
      BY <2>2, <2>5 DEF E
    <3> QED BY <2>2, <2>4, <3>1, <3>2 DEF WalkGood, Same, b
  <2>6. CASE o \notin boundary
    <3>1. Range(b.next) = Range(a.next) \cup Range(parents(o))
      BY <2>0, <2>2, <2>3, <2>6, RangeOf
    <3> DEFINE Q == Range(b.next) \cup rest
    <3>2. Q \subseteq P \cup Range(parents(o)) /\ P \cup Range(parents(o)) \subseteq Q \cup {o}
      BY <1>0, <3>1 DEF P
    <3> HIDE DEF Q
    <3>3. Walked(E \cup {o}, b.commits, b.tags, b.roots, b.missing, Q, wants)
      BY <1>0, <1>3, <2>2, <3>2, WalkExpands
    <3>4. b.commits \ boundary = E \cup {o}
      BY <2>2, <2>6 DEF E
    <3> QED BY <2>0, <2>2, <2>4, <3>1, <3>3, <3>4 DEF WalkGood, Q, b
  <2> QED BY <2>5, <2>6
<1>4. CASE o \in store /\ Kind[o] = "tag"
  <2>0. Head(Links[o]) \in Objects /\ referenced(o) = {Head(Links[o])}
    BY <1>4, LinksOf
  <2>1. b = [a EXCEPT !.tags = @ \cup {o}, !.next = Append(@, Head(Links[o]))]
    BY <1>4 DEF BoundaryStep
  <2>2. /\ b \in Accs(Objects) /\ b.trees = a.trees /\ b.commits = a.commits
        /\ b.tags = a.tags \cup {o} /\ b.roots = a.roots /\ b.missing = a.missing
        /\ b.next = Append(a.next, Head(Links[o]))
    <3>1. a.next \in Seq(Objects)
      BY DEF Accs
    <3>2. Append(a.next, Head(Links[o])) \in Seq(Objects)
      BY <2>0, <3>1
    <3> QED BY <2>0, <2>1, <3>2 DEF Accs
  <2>3. a.next \in Seq(Objects)
    BY DEF Accs
  <2> HIDE DEF b
  <2>4. Range(b.next) = Range(a.next) \cup {Head(Links[o])}
    BY <2>0, <2>2, <2>3, RangeOf
  <2> DEFINE Q == Range(b.next) \cup rest
  <2>5. Q \subseteq P \cup {Head(Links[o])} /\ P \cup {Head(Links[o])} \subseteq Q \cup {o}
    BY <1>0, <2>4 DEF P
  <2> HIDE DEF Q
  <2>6. Walked(E, b.commits, b.tags, b.roots, b.missing, Q, wants)
    BY <1>0, <1>4, <2>2, <2>5, WalkPeels
  <2> QED BY <1>0, <2>0, <2>2, <2>4, <2>6 DEF WalkGood, Q, E, b
<1>5. CASE o \in store /\ Kind[o] \notin {"commit", "tag"}
  <2>1. b = [a EXCEPT !.roots = @ \cup {o}]
    BY <1>5 DEF BoundaryStep
  <2>2. /\ b \in Accs(Objects) /\ b.trees = a.trees /\ b.commits = a.commits /\ b.tags = a.tags
        /\ b.roots = a.roots \cup {o} /\ b.next = a.next /\ b.missing = a.missing
    BY <2>1 DEF Accs
  <2> HIDE DEF b
  <2>3. Walked(E, b.commits, b.tags, b.roots, b.missing, Same, wants)
    BY <1>6, <1>5, <2>2
  <2> QED BY <1>0, <2>2, <2>3 DEF WalkGood, E, Same, b
<1> QED BY <1>1, <1>2, <1>3, <1>4, <1>5

\* What is left of a frontier after i entries.
LEMMA FrontierShrinks ==
  ASSUME NEW s, Len(s) \in Nat, NEW i \in 1..Len(s)
  PROVE  {s[j] : j \in ((i - 1) + 1)..Len(s)} = {s[j] : j \in (i + 1)..Len(s)} \cup {s[i]}
<1>1. \A j \in ((i - 1) + 1)..Len(s) : j = i \/ j \in (i + 1)..Len(s)
  OBVIOUS
<1>2. i \in ((i - 1) + 1)..Len(s) /\ \A j \in (i + 1)..Len(s) : j \in ((i - 1) + 1)..Len(s)
  OBVIOUS
<1> QED BY <1>1, <1>2

\* A walk cut at a boundary ends, with all that it needs.
LEMMA BoundaryWalk ==
  ASSUME NEW store, NEW wants \in Seq(Objects), NEW boundary
  PROVE  \E acc \in Accs(Objects) :
           /\ collect_shallow_at(store, wants, boundary) = CutAnswer(store, boundary, acc)
           /\ WalkGood(Range(wants), acc, acc.commits \ boundary, {})
<1> DEFINE N == Cardinality(Objects)
           W == Range(wants)
<1>0. PICK r \in [Objects -> 1..N] : \A o \in Objects : \A x \in referenced(o) : x \in Objects /\ r[x] < r[o]
  BY RankExists
<1>1. N \in Nat
  BY ObjectCount
<1> DEFINE Good(n) == {a \in Accs(Objects) :
             /\ WalkGood(W, a, a.commits \ boundary, Range(a.next))
             /\ \A x \in Range(a.next) : r[x] <= N - n}
           G == [n \in 0..(2 * N) |-> Good(n)]
<1>2. CutStart(wants) \in G[0]
  <2> DEFINE a == CutStart(wants)
  <2>1. /\ a \in Accs(Objects) /\ a.commits = {} /\ a.tags = {} /\ a.trees = {} /\ a.roots = {}
        /\ a.missing = {} /\ a.next = wants
    BY DEF CutStart, NothingWalked, Accs
  <2>2. W \in SUBSET Objects
    BY DEF Range
  <2> HIDE DEF a
  <2>3. WalkGood(W, a, a.commits \ boundary, Range(a.next))
    <3>1. Walked({}, {}, {}, {}, {}, W, W)
      BY <2>2, WalkStarts
    <3>2. a.commits \ boundary = {}
      BY <2>1
    <3> QED BY <2>1, <3>1, <3>2 DEF WalkGood
  <2>4. \A x \in Range(a.next) : r[x] <= N - 0
    BY <2>1, <2>2, <1>0, <1>1
  <2>5. a \in Good(0)
    BY <2>1, <2>3, <2>4
  <2>6. a \in G[0]
    BY <2>5, <1>1
  <2> QED BY <2>6 DEF a
<1>3. ASSUME NEW n \in 1..(2 * N), NEW w \in G[n - 1] PROVE BoundaryWave(store, boundary, w) \in G[n]
  <2>1. n - 1 \in 0..(2 * N) /\ n \in 0..(2 * N) /\ n \in Nat
    BY <1>1
  <2>2. w \in Good(n - 1)
    BY <2>1
  <2> DEFINE s == w.next
             L == Len(s)
             Rest(i) == {s[j] : j \in (i + 1)..L}
             F == [i \in 0..L |-> {a \in Accs(Objects) :
                    /\ WalkGood(W, a, a.commits \ boundary, Range(a.next) \cup Rest(i))
                    /\ \A x \in Range(a.next) : r[x] <= N - n}]
             base == [w EXCEPT !.next = <<>>]
  <2>3. s \in Seq(Objects) /\ L \in Nat /\ DOMAIN s = 1..L
    BY <2>2 DEF Accs
  <2>4. base \in F[0]
    <3>1. /\ base \in Accs(Objects) /\ base.commits = w.commits /\ base.tags = w.tags /\ base.trees = w.trees
          /\ base.roots = w.roots /\ base.missing = w.missing /\ base.next = <<>>
      <4>1. w \in Accs(Objects) /\ <<>> \in Seq(Objects)
        BY <2>2
      <4>2. base = [w EXCEPT !.next = <<>>]
        OBVIOUS
      <4> HIDE DEF base, s
      <4> QED BY <4>1, <4>2 DEF Accs
    <3>2. Range(<<>>) = {}
      BY DEF Range
    <3>3. Rest(0) = Range(s)
      BY <2>3 DEF Range
    <3> HIDE DEF base
    <3>4. WalkGood(W, base, base.commits \ boundary, Range(base.next) \cup Rest(0))
      <4>1. Range(base.next) \cup Rest(0) = Range(s)
        BY <3>1, <3>2, <3>3
      <4> QED BY <4>1, <3>1, <2>2 DEF WalkGood
    <3>5. \A x \in Range(base.next) : r[x] <= N - n
      BY <3>1, <3>2
    <3>6. 0 \in 0..L
      BY <2>3
    <3> QED BY <3>1, <3>4, <3>5, <3>6
  <2>5. ASSUME NEW i \in 1..L, NEW a \in F[i - 1] PROVE BoundaryStep(store, boundary, a, s[i]) \in F[i]
    <3>1. i - 1 \in 0..L /\ i \in 0..L
      BY <2>3
    <3>2. /\ a \in Accs(Objects)
          /\ WalkGood(W, a, a.commits \ boundary, Range(a.next) \cup Rest(i - 1))
          /\ \A x \in Range(a.next) : r[x] <= N - n
      BY <3>1
    <3>3. s[i] \in Objects /\ s[i] \in Range(s)
      <4>1. i \in DOMAIN s
        BY <2>3
      <4> HIDE DEF s
      <4> QED BY <4>1, <2>3 DEF Range
    <3>4. Rest(i - 1) = Rest(i) \cup {s[i]}
      BY <2>3, FrontierShrinks
    <3> DEFINE b == BoundaryStep(store, boundary, a, s[i])
               rest == Rest(i)
    <3>5. Range(a.next) \cup Rest(i - 1) = Range(a.next) \cup rest \cup {s[i]}
      BY <3>4
    <3>6. WalkGood(W, a, a.commits \ boundary, Range(a.next) \cup rest \cup {s[i]})
      BY <3>2, <3>5
    <3> HIDE DEF rest
    <3>7. /\ b \in Accs(Objects)
          /\ WalkGood(W, b, b.commits \ boundary, Range(b.next) \cup rest)
          /\ Range(b.next) \subseteq Range(a.next) \cup referenced(s[i])
      BY <3>2, <3>3, <3>6, BoundaryStepWalks
    <3> HIDE DEF b
    <3>8. ASSUME NEW x \in Range(b.next) PROVE r[x] <= N - n
      <4>1. CASE x \in Range(a.next)
        BY <4>1, <3>2
      <4>2. CASE x \in referenced(s[i])
        <5>1. r[s[i]] <= N - (n - 1)
          BY <2>2, <3>3
        <5>2. r[x] < r[s[i]] /\ r[x] \in Nat /\ r[s[i]] \in Nat
          BY <1>0, <3>3, <4>2
        <5> QED BY <5>1, <5>2, <1>1, <2>1
      <4> QED BY <4>1, <4>2, <3>7
    <3> QED BY <3>1, <3>7, <3>8 DEF rest, b
  <2>6. BoundaryWave(store, boundary, w) \in F[L]
    <3> HIDE DEF F, base
    <3>1. BoundaryFold(store, boundary, base, s) \in F[L]
      <4> HIDE DEF s
      <4> QED BY <2>3, <2>4, <2>5, FoldBoundary
    <3> QED BY <3>1 DEF BoundaryWave, base
  <2> DEFINE v == BoundaryWave(store, boundary, w)
  <2>7. /\ v \in Accs(Objects)
        /\ WalkGood(W, v, v.commits \ boundary, Range(v.next) \cup Rest(L))
        /\ \A x \in Range(v.next) : r[x] <= N - n
    <3> HIDE DEF v
    <3>1. v \in F[L] /\ L \in 0..L
      BY <2>3, <2>6 DEF v
    <3> QED BY <3>1
  <2>8. Rest(L) = {}
    BY <2>3
  <2> HIDE DEF v
  <2>9. Range(v.next) \cup Rest(L) = Range(v.next)
    BY <2>8
  <2>10. v \in Good(n)
    BY <2>7, <2>9
  <2> QED BY <2>1, <2>10 DEF v
<1>4. PICK acc \in G[2 * N] : collect_shallow_at(store, wants, boundary) = CutAnswer(store, boundary, acc)
  <2>1. \A n \in 1..(2 * Cardinality(Objects)) : \A w \in G[n - 1] : BoundaryWave(store, boundary, w) \in G[n]
    BY <1>3
  <2> HIDE DEF G
  <2> QED BY <1>2, <2>1, BoundaryKeeps
<1>5. acc \in Good(2 * N)
  BY <1>1
<1>6. Range(acc.next) = {}
  <2> SUFFICES ASSUME NEW x \in Range(acc.next) PROVE FALSE
    OBVIOUS
  <2>1. r[x] <= N - 2 * N
    BY <1>5
  <2>2. x \in Objects
    BY <1>5 DEF Accs, Range
  <2> QED BY <2>1, <2>2, <1>0, <1>1
<1>7. WalkGood(W, acc, acc.commits \ boundary, {})
  BY <1>5, <1>6
<1> QED BY <1>4, <1>5, <1>7

\* The objects of a frontier whose entries carry their depth.
Items == Objects \X Nat
Ahead(s) == {x[1] : x \in Range(s)}

LEMMA AheadOf ==
  ASSUME NEW s \in Seq(Items), NEW t \in Seq(Items), NEW x \in Items
  PROVE  Ahead(s \o t) = Ahead(s) \cup Ahead(t) /\ Ahead(Append(s, x)) = Ahead(s) \cup {x[1]}
<1>1. Range(s \o t) = Range(s) \cup Range(t) /\ Range(Append(s, x)) = Range(s) \cup {x}
  BY RangeOf
<1> QED BY <1>1 DEF Ahead

LEMMA AheadAt ==
  ASSUME NEW s \in Seq(Objects), NEW d \in Nat
  PROVE  LET t == [i \in 1..Len(s) |-> <<s[i], d>>] IN t \in Seq(Items) /\ Ahead(t) = Range(s)
<1> DEFINE t == [i \in 1..Len(s) |-> <<s[i], d>>]
<1>1. Len(s) \in Nat /\ DOMAIN s = 1..Len(s) /\ \A i \in 1..Len(s) : s[i] \in Objects
  OBVIOUS
<1>2. t \in Seq(Items)
  BY <1>1 DEF Items
<1>3. DOMAIN t = 1..Len(s) /\ \A i \in 1..Len(s) : t[i] = <<s[i], d>>
  OBVIOUS
<1> HIDE DEF t
<1>4. Range(t) = {<<s[i], d>> : i \in 1..Len(s)}
  BY <1>3 DEF Range
<1>5. Ahead(t) = {s[i] : i \in 1..Len(s)}
  <2>1. ASSUME NEW y \in Ahead(t) PROVE \E i \in 1..Len(s) : y = s[i]
    <3>1. PICK x \in Range(t) : y = x[1]
      BY DEF Ahead
    <3>2. PICK i \in 1..Len(s) : x = <<s[i], d>>
      BY <1>4
    <3> QED BY <3>1, <3>2
  <2>2. ASSUME NEW i \in 1..Len(s) PROVE s[i] \in Ahead(t)
    <3>1. <<s[i], d>> \in Range(t) /\ <<s[i], d>>[1] = s[i]
      BY <1>4
    <3> QED BY <3>1 DEF Ahead
  <2> QED BY <2>1, <2>2
<1> QED BY <1>1, <1>2, <1>5 DEF Range, t

\* One entry of the frontier of a walk to a depth.
LEMMA ShallowStepWalks ==
  ASSUME NEW store, NEW depth, NEW wants, NEW a \in Accs(Items), NEW item \in Items, NEW rest,
         NEW E \in SUBSET Objects,
         WalkGood(wants, a, E, Ahead(a.next) \cup rest \cup {item[1]})
  PROVE  LET b == ShallowStep(store, depth, a, item) IN
         /\ b \in Accs(Items)
         /\ \E D \in SUBSET Objects : WalkGood(wants, b, D, Ahead(b.next) \cup rest)
         /\ Ahead(b.next) \subseteq Ahead(a.next) \cup referenced(item[1])
<1> DEFINE b == ShallowStep(store, depth, a, item)
           o == item[1]
           d == item[2]
           P == Ahead(a.next) \cup rest \cup {o}
           Same == Ahead(a.next) \cup rest
<1>0. /\ a.trees = {Head(Links[x]) : x \in a.commits}
      /\ Walked(E, a.commits, a.tags, a.roots, a.missing, P, wants)
      /\ o \in P /\ Same \subseteq P /\ P \subseteq Same \cup {o}
      /\ o \in Objects /\ d \in Nat
      /\ a.next \in Seq(Items)
  BY DEF WalkGood, Items, Accs
<1>7. b = IF o \notin store THEN [a EXCEPT !.missing = @ \cup {o}]
          ELSE CASE Kind[o] = "commit" /\ o \in a.commits -> a
                 [] Kind[o] = "commit" /\ o \notin a.commits ->
                      [a EXCEPT !.commits = @ \cup {o}, !.trees = @ \cup {Head(Links[o])},
                                !.next = IF d < depth
                                         THEN @ \o [i \in 1..Len(parents(o)) |-> <<parents(o)[i], d + 1>>] ELSE @]
                 [] Kind[o] = "tag" -> [a EXCEPT !.tags = @ \cup {o}, !.next = Append(@, <<Head(Links[o]), d>>)]
                 [] OTHER -> [a EXCEPT !.roots = @ \cup {o}]
  BY DEF ShallowStep
<1> HIDE DEF P, Same, o, d, b
<1>6. /\ Walked(E, a.commits, a.tags, a.roots, a.missing \cup {o}, Same, wants)
      /\ o \in a.commits => Walked(E, a.commits, a.tags, a.roots, a.missing, Same, wants)
      /\ Kind[o] = "commit" => Walked(E, a.commits \cup {o}, a.tags, a.roots, a.missing, Same, wants)
      /\ Kind[o] \notin {"commit", "tag"} =>
           Walked(E, a.commits, a.tags, a.roots \cup {o}, a.missing, Same, wants)
  BY <1>0, WalkSkips
<1> DEFINE Goal == /\ b \in Accs(Items)
                   /\ \E D \in SUBSET Objects : WalkGood(wants, b, D, Ahead(b.next) \cup rest)
                   /\ Ahead(b.next) \subseteq Ahead(a.next) \cup referenced(o)
<1>1. CASE o \notin store
  <2>1. b = [a EXCEPT !.missing = @ \cup {o}]
    BY <1>1, <1>7
  <2>2. /\ b \in Accs(Items) /\ b.trees = a.trees /\ b.commits = a.commits /\ b.tags = a.tags
        /\ b.roots = a.roots /\ b.next = a.next /\ b.missing = a.missing \cup {o}
    BY <2>1, <1>0 DEF Accs
  <2>3. Walked(E, b.commits, b.tags, b.roots, b.missing, Same, wants)
    BY <1>6, <2>2
  <2>4. WalkGood(wants, b, E, Ahead(b.next) \cup rest)
    BY <1>0, <2>2, <2>3 DEF WalkGood, Same
  <2>5. Goal
    BY <2>2, <2>4
  <2> QED BY <2>5 DEF b, o
<1>2. CASE o \in store /\ Kind[o] = "commit" /\ o \in a.commits
  <2>1. b = a
    BY <1>2, <1>7
  <2>3. Walked(E, a.commits, a.tags, a.roots, a.missing, Same, wants)
    BY <1>6, <1>2
  <2>4. WalkGood(wants, b, E, Ahead(b.next) \cup rest)
    BY <1>0, <2>1, <2>3 DEF WalkGood, Same
  <2>5. Goal
    BY <2>1, <2>4
  <2> QED BY <2>5 DEF b, o
<1>3. CASE o \in store /\ Kind[o] = "commit" /\ o \notin a.commits
  <2>0. /\ Head(Links[o]) \in Objects /\ parents(o) \in Seq(Objects)
        /\ Range(parents(o)) \subseteq referenced(o)
    BY <1>0, <1>3, LinksOf
  <2> DEFINE more == [i \in 1..Len(parents(o)) |-> <<parents(o)[i], d + 1>>]
             nx == IF d < depth THEN a.next \o more ELSE a.next
  <2>1. b = [a EXCEPT !.commits = @ \cup {o}, !.trees = @ \cup {Head(Links[o])}, !.next = nx]
    BY <1>3, <1>7
  <2>2. more \in Seq(Items) /\ Ahead(more) = Range(parents(o))
    <3>1. d + 1 \in Nat
      BY <1>0
    <3> QED BY <2>0, <3>1, AheadAt
  <2> HIDE DEF more
  <2>3. nx \in Seq(Items)
    BY <1>0, <2>2
  <2>4. /\ b \in Accs(Items) /\ b.trees = a.trees \cup {Head(Links[o])} /\ b.commits = a.commits \cup {o}
        /\ b.tags = a.tags /\ b.roots = a.roots /\ b.missing = a.missing /\ b.next = nx
    <3> HIDE DEF nx
    <3> QED BY <1>0, <2>0, <2>1, <2>3 DEF Accs
  <2>5. b.trees = {Head(Links[x]) : x \in b.commits}
    BY <1>0, <2>4
  <2>6. CASE ~(d < depth)
    <3>1. Walked(E, b.commits, b.tags, b.roots, b.missing, Same, wants)
      BY <1>6, <1>3, <2>4
    <3>2. b.next = a.next
      BY <2>4, <2>6
    <3>3. WalkGood(wants, b, E, Ahead(b.next) \cup rest)
      BY <2>5, <3>1, <3>2 DEF WalkGood, Same
    <3>4. Goal
      BY <2>4, <3>2, <3>3
    <3> QED BY <3>4 DEF b, o
  <2>7. CASE d < depth
    <3>1. Ahead(b.next) = Ahead(a.next) \cup Range(parents(o))
      <4>1. b.next = a.next \o more
        BY <2>4, <2>7
      <4>2. <<o, d>> \in Items
        BY <1>0 DEF Items
      <4> QED BY <1>0, <2>2, <4>1, <4>2, AheadOf
    <3> DEFINE Q == Ahead(b.next) \cup rest
    <3>2. Q \subseteq P \cup Range(parents(o)) /\ P \cup Range(parents(o)) \subseteq Q \cup {o}
      BY <1>0, <3>1 DEF P
    <3> HIDE DEF Q
    <3>3. Walked(E \cup {o}, b.commits, b.tags, b.roots, b.missing, Q, wants)
      BY <1>0, <1>3, <2>4, <3>2, WalkExpands
    <3>4. WalkGood(wants, b, E \cup {o}, Ahead(b.next) \cup rest) /\ E \cup {o} \in SUBSET Objects
      BY <1>0, <2>5, <3>3 DEF WalkGood, Q
    <3>5. Goal
      BY <2>0, <2>4, <3>1, <3>4
    <3> QED BY <3>5 DEF b, o
  <2> QED BY <2>6, <2>7
<1>4. CASE o \in store /\ Kind[o] = "tag"
  <2>0. Head(Links[o]) \in Objects /\ referenced(o) = {Head(Links[o])}
    BY <1>0, <1>4, LinksOf
  <2> DEFINE y == <<Head(Links[o]), d>>
             nx == Append(a.next, y)
  <2>1. b = [a EXCEPT !.tags = @ \cup {o}, !.next = nx]
    BY <1>4, <1>7
  <2>2. y \in Items /\ y[1] = Head(Links[o])
    BY <1>0, <2>0 DEF Items
  <2> HIDE DEF y
  <2>3. nx \in Seq(Items) /\ Ahead(nx) = Ahead(a.next) \cup {Head(Links[o])}
    BY <1>0, <2>2, AheadOf
  <2> HIDE DEF nx
  <2>4. /\ b \in Accs(Items) /\ b.trees = a.trees /\ b.commits = a.commits
        /\ b.tags = a.tags \cup {o} /\ b.roots = a.roots /\ b.missing = a.missing /\ b.next = nx
    BY <1>0, <2>1, <2>3 DEF Accs
  <2> DEFINE Q == Ahead(b.next) \cup rest
  <2>5. Q \subseteq P \cup {Head(Links[o])} /\ P \cup {Head(Links[o])} \subseteq Q \cup {o}
    BY <1>0, <2>3, <2>4 DEF P
  <2> HIDE DEF Q
  <2>6. Walked(E, b.commits, b.tags, b.roots, b.missing, Q, wants)
    BY <1>0, <1>4, <2>4, <2>5, WalkPeels
  <2>7. WalkGood(wants, b, E, Ahead(b.next) \cup rest)
    BY <1>0, <2>4, <2>6 DEF WalkGood, Q
  <2>8. Goal
    BY <2>0, <2>3, <2>4, <2>7
  <2> QED BY <2>8 DEF b, o
<1>5. CASE o \in store /\ Kind[o] \notin {"commit", "tag"}
  <2>1. b = [a EXCEPT !.roots = @ \cup {o}]
    BY <1>5, <1>7
  <2>2. /\ b \in Accs(Items) /\ b.trees = a.trees /\ b.commits = a.commits /\ b.tags = a.tags
        /\ b.roots = a.roots \cup {o} /\ b.next = a.next /\ b.missing = a.missing
    BY <2>1, <1>0 DEF Accs
  <2>3. Walked(E, b.commits, b.tags, b.roots, b.missing, Same, wants)
    BY <1>6, <1>5, <2>2
  <2>4. WalkGood(wants, b, E, Ahead(b.next) \cup rest)
    BY <1>0, <2>2, <2>3 DEF WalkGood, Same
  <2>5. Goal
    BY <2>2, <2>4
  <2> QED BY <2>5 DEF b, o
<1> QED BY <1>1, <1>2, <1>3, <1>4, <1>5

DepthGood(wants, a, P) == \E E \in SUBSET Objects : WalkGood(wants, a, E, P)

\* A walk to a depth ends, with all that it needs.
LEMMA DepthWalk ==
  ASSUME NEW store, NEW wants \in Seq(Objects), NEW depth
  PROVE  \E acc \in Accs(Items) :
           /\ collect_shallow(store, wants, depth) = DepthAnswer(store, acc)
           /\ DepthGood(Range(wants), acc, {})
<1> DEFINE N == Cardinality(Objects)
           W == Range(wants)
<1>0. PICK r \in [Objects -> 1..N] : \A o \in Objects : \A x \in referenced(o) : x \in Objects /\ r[x] < r[o]
  BY RankExists
<1>1. N \in Nat
  BY ObjectCount
<1> DEFINE Good(n) == {a \in Accs(Items) :
             /\ DepthGood(W, a, Ahead(a.next))
             /\ \A x \in Ahead(a.next) : r[x] <= N - n}
           G == [n \in 0..(2 * N) |-> Good(n)]
<1>2. DepthStart(wants) \in G[0]
  <2> DEFINE a == DepthStart(wants)
             nx == [i \in 1..Len(wants) |-> <<wants[i], 1>>]
  <2>1. nx \in Seq(Items) /\ Ahead(nx) = W
    BY AheadAt
  <2>2. a = [NothingWalked EXCEPT !.next = nx]
    BY DEF DepthStart
  <2> HIDE DEF nx, a
  <2>3. /\ a \in Accs(Items) /\ a.commits = {} /\ a.tags = {} /\ a.trees = {} /\ a.roots = {}
        /\ a.missing = {} /\ a.next = nx
    BY <2>1, <2>2 DEF NothingWalked, Accs
  <2>4. W \in SUBSET Objects
    BY DEF Range
  <2>5. DepthGood(W, a, Ahead(a.next))
    <3>1. Walked({}, {}, {}, {}, {}, W, W)
      BY <2>4, WalkStarts
    <3>2. WalkGood(W, a, {}, Ahead(a.next))
      BY <2>1, <2>3, <3>1 DEF WalkGood
    <3> QED BY <3>2 DEF DepthGood
  <2>6. \A x \in Ahead(a.next) : r[x] <= N - 0
    BY <2>1, <2>3, <2>4, <1>0, <1>1
  <2>7. a \in Good(0)
    BY <2>3, <2>5, <2>6
  <2>8. a \in G[0]
    BY <2>7, <1>1
  <2> QED BY <2>8 DEF a
<1>3. ASSUME NEW n \in 1..(2 * N), NEW w \in G[n - 1] PROVE ShallowWave(store, depth, w) \in G[n]
  <2>1. n - 1 \in 0..(2 * N) /\ n \in 0..(2 * N) /\ n \in Nat
    BY <1>1
  <2>2. w \in Good(n - 1)
    BY <2>1
  <2> DEFINE s == w.next
             L == Len(s)
             dd == IF depth = 0 THEN 1 ELSE depth
             Rest(i) == {s[j] : j \in (i + 1)..L}
             Todo(i) == {x[1] : x \in Rest(i)}
             F == [i \in 0..L |-> {a \in Accs(Items) :
                    /\ DepthGood(W, a, Ahead(a.next) \cup Todo(i))
                    /\ \A x \in Ahead(a.next) : r[x] <= N - n}]
             base == [w EXCEPT !.next = <<>>]
  <2> HIDE DEF dd
  <2>3. s \in Seq(Items) /\ L \in Nat /\ DOMAIN s = 1..L
    BY <2>2 DEF Accs
  <2>4. base \in F[0]
    <3>1. /\ base \in Accs(Items) /\ base.commits = w.commits /\ base.tags = w.tags /\ base.trees = w.trees
          /\ base.roots = w.roots /\ base.missing = w.missing /\ base.next = <<>>
      <4>1. w \in Accs(Items) /\ <<>> \in Seq(Items)
        BY <2>2
      <4>2. base = [w EXCEPT !.next = <<>>]
        OBVIOUS
      <4> HIDE DEF base, s
      <4> QED BY <4>1, <4>2 DEF Accs
    <3>2. Ahead(<<>>) = {}
      BY DEF Ahead, Range
    <3>3. Todo(0) = Ahead(s)
      BY <2>3 DEF Range, Ahead
    <3> HIDE DEF base
    <3>4. DepthGood(W, base, Ahead(base.next) \cup Todo(0))
      <4>1. Ahead(base.next) \cup Todo(0) = Ahead(s)
        BY <3>1, <3>2, <3>3
      <4>2. DepthGood(W, w, Ahead(s))
        BY <2>2
      <4>3. DepthGood(W, base, Ahead(s))
        BY <4>2, <3>1 DEF DepthGood, WalkGood
      <4> QED BY <4>1, <4>3
    <3>5. \A x \in Ahead(base.next) : r[x] <= N - n
      BY <3>1, <3>2
    <3>6. 0 \in 0..L
      BY <2>3
    <3> HIDE DEF Todo
    <3> QED BY <3>1, <3>4, <3>5, <3>6
  <2>5. ASSUME NEW i \in 1..L, NEW a \in F[i - 1] PROVE ShallowStep(store, dd, a, s[i]) \in F[i]
    <3>1. i - 1 \in 0..L /\ i \in 0..L
      BY <2>3
    <3>2. /\ a \in Accs(Items)
          /\ DepthGood(W, a, Ahead(a.next) \cup Todo(i - 1))
          /\ \A x \in Ahead(a.next) : r[x] <= N - n
      BY <3>1
    <3>3. s[i] \in Items /\ s[i][1] \in Ahead(s) /\ s[i][1] \in Objects
      <4>1. i \in DOMAIN s
        BY <2>3
      <4> HIDE DEF s
      <4>2. s[i] \in Items /\ s[i] \in Range(s)
        BY <4>1, <2>3 DEF Range
      <4> QED BY <4>2 DEF Ahead, Items
    <3>4. Todo(i - 1) = Todo(i) \cup {s[i][1]}
      <4>1. Rest(i - 1) = Rest(i) \cup {s[i]}
        BY <2>3, FrontierShrinks
      <4> HIDE DEF Rest
      <4> QED BY <4>1
    <3> DEFINE b == ShallowStep(store, dd, a, s[i])
               rest == Todo(i)
    <3>5. Ahead(a.next) \cup Todo(i - 1) = Ahead(a.next) \cup rest \cup {s[i][1]}
      BY <3>4
    <3> HIDE DEF rest
    <3>6. PICK E \in SUBSET Objects : WalkGood(W, a, E, Ahead(a.next) \cup rest \cup {s[i][1]})
      BY <3>2, <3>5 DEF DepthGood
    <3>7. /\ b \in Accs(Items)
          /\ \E D \in SUBSET Objects : WalkGood(W, b, D, Ahead(b.next) \cup rest)
          /\ Ahead(b.next) \subseteq Ahead(a.next) \cup referenced(s[i][1])
      <4> HIDE DEF s
      <4> QED BY <3>2, <3>3, <3>6, ShallowStepWalks
    <3> HIDE DEF b
    <3>8. ASSUME NEW x \in Ahead(b.next) PROVE r[x] <= N - n
      <4> DEFINE o == s[i][1]
      <4>1. CASE x \in Ahead(a.next)
        BY <4>1, <3>2
      <4>2. CASE x \in referenced(o)
        <5>1. r[o] <= N - (n - 1)
          BY <2>2, <3>3
        <5>2. r[x] < r[o] /\ r[x] \in Nat /\ r[o] \in Nat
          BY <1>0, <3>3, <4>2
        <5> QED BY <5>1, <5>2, <1>1, <2>1
      <4> QED BY <4>1, <4>2, <3>7
    <3>9. DepthGood(W, b, Ahead(b.next) \cup Todo(i))
      BY <3>7 DEF DepthGood, rest
    <3>10. b \in F[i]
      <4> HIDE DEF Todo
      <4> QED BY <3>1, <3>7, <3>8, <3>9
    <3> QED BY <3>10 DEF b
  <2>6. ShallowWave(store, depth, w) \in F[L]
    <3> HIDE DEF F, base
    <3>1. ShallowFold(store, dd, base, s) \in F[L]
      <4> HIDE DEF s
      <4> QED BY <2>3, <2>4, <2>5, FoldShallow
    <3> QED BY <3>1 DEF ShallowWave, base, dd
  <2> DEFINE v == ShallowWave(store, depth, w)
  <2>7. /\ v \in Accs(Items)
        /\ DepthGood(W, v, Ahead(v.next) \cup Todo(L))
        /\ \A x \in Ahead(v.next) : r[x] <= N - n
    <3> HIDE DEF v
    <3>1. v \in F[L] /\ L \in 0..L
      BY <2>3, <2>6 DEF v
    <3> QED BY <3>1
  <2>8. Todo(L) = {}
    BY <2>3
  <2> HIDE DEF v
  <2>9. Ahead(v.next) \cup Todo(L) = Ahead(v.next)
    BY <2>8
  <2>10. v \in Good(n)
    BY <2>7, <2>9
  <2> QED BY <2>1, <2>10 DEF v
<1>4. PICK acc \in G[2 * N] : collect_shallow(store, wants, depth) = DepthAnswer(store, acc)
  <2>1. \A n \in 1..(2 * Cardinality(Objects)) : \A w \in G[n - 1] : ShallowWave(store, depth, w) \in G[n]
    BY <1>3
  <2> HIDE DEF G
  <2> QED BY <1>2, <2>1, ShallowKeeps
<1>5. acc \in Good(2 * N)
  BY <1>1
<1>6. Ahead(acc.next) = {}
  <2> SUFFICES ASSUME NEW x \in Ahead(acc.next) PROVE FALSE
    OBVIOUS
  <2>1. r[x] <= N - 2 * N
    BY <1>5
  <2>2. x \in Objects
    <3>1. acc.next \in Seq(Items)
      BY <1>5 DEF Accs
    <3> QED BY <3>1 DEF Ahead, Range, Items
  <2> QED BY <2>1, <2>2, <1>0, <1>1
<1>7. DepthGood(W, acc, {})
  BY <1>5, <1>6
<1> QED BY <1>4, <1>5, <1>7

------------------------------------------------------------------------------
(* What clients are served.                                                 *)

\* The trees of the commits walked are served whole.
LEMMA ResultWhole ==
  ASSUME NEW X, NEW acc \in Accs(X), NEW store, NEW wants, NEW E, NEW B, WalkGood(wants, acc, E, {})
  PROVE  LET res == shallow_result(store, acc, B) IN
         /\ res.commits = acc.commits /\ res.boundary = B
         /\ res.ok =>
              /\ acc.missing = {}
              /\ res.oids \subseteq Objects
              /\ acc.commits \cup acc.tags \cup acc.roots \subseteq res.oids
              /\ \A o \in acc.commits : Head(Links[o]) \in res.oids
              /\ \A o \in res.oids \ (acc.commits \cup acc.tags) : referenced(o) \subseteq res.oids
<1> DEFINE roots == acc.trees \cup acc.roots
           start == acc.commits \cup acc.tags
           walk == collect_inner(store, roots, {}, start)
           res == shallow_result(store, acc, B)
<1>1. roots \in SUBSET Objects /\ start \in SUBSET Objects
  BY DEF Accs
<1>2. res = [ok |-> acc.missing = {} /\ walk.missing = {}, oids |-> walk.out, commits |-> acc.commits,
            boundary |-> B]
  BY DEF shallow_result
<1> HIDE DEF roots, start
<1>3. /\ walk.out \subseteq Objects /\ walk.missing \subseteq Objects
      /\ start \subseteq walk.out
      /\ roots \subseteq walk.out \cup {} \cup walk.missing
      /\ \A o \in walk.out \ start : o \in store /\ referenced(o) \subseteq walk.out \cup {} \cup walk.missing
      /\ walk.missing \cap store = {}
  BY <1>1, CollectClosed, Zenon
<1> HIDE DEF walk, res
<1>4. /\ res.commits = acc.commits /\ res.oids = walk.out /\ res.boundary = B
      /\ res.ok <=> acc.missing = {} /\ walk.missing = {}
  BY <1>2
<1>5. acc.trees = {Head(Links[x]) : x \in acc.commits}
  BY DEF WalkGood
<1>6. ASSUME res.ok
      PROVE  /\ acc.missing = {}
             /\ res.oids \subseteq Objects
             /\ acc.commits \cup acc.tags \cup acc.roots \subseteq res.oids
             /\ \A o \in acc.commits : Head(Links[o]) \in res.oids
             /\ \A o \in res.oids \ (acc.commits \cup acc.tags) : referenced(o) \subseteq res.oids
  <2>1. acc.missing = {} /\ walk.missing = {} /\ res.oids = walk.out
    BY <1>4, <1>6
  <2>2. roots \subseteq walk.out /\ start \subseteq walk.out /\ walk.out \subseteq Objects
    BY <1>3, <2>1
  <2>3. acc.commits \cup acc.tags \cup acc.roots \cup acc.trees \subseteq walk.out
    BY <2>2 DEF roots, start
  <2>4. \A o \in walk.out \ (acc.commits \cup acc.tags) : referenced(o) \subseteq walk.out
    BY <1>3, <2>1 DEF start
  <2> QED BY <1>5, <2>1, <2>2, <2>3, <2>4
<1> QED BY <1>4, <1>6 DEF res

\* A fetch that is cut at a boundary leaves no hole above it.
LEMMA CutWhole ==
  ASSUME NEW store, NEW wants \in Seq(Objects), NEW boundary,
         collect_shallow_at(store, wants, boundary).ok
  PROVE  LET served == collect_shallow_at(store, wants, boundary) IN
         /\ served.oids \subseteq Objects
         /\ Range(wants) \subseteq served.oids
         /\ served.commits \subseteq Objects /\ \A o \in served.commits : Kind[o] = "commit"
         /\ served.boundary = boundary \cap served.commits
         /\ \A o \in served.oids : \/ o \in served.boundary /\ Head(Links[o]) \in served.oids
                                   \/ referenced(o) \subseteq served.oids
         /\ \E T, R : Walked(served.commits \ boundary, served.commits, T, R, {}, {}, Range(wants))
<1> DEFINE served == collect_shallow_at(store, wants, boundary)
           W == Range(wants)
<1>1. PICK acc \in Accs(Objects) :
        served = CutAnswer(store, boundary, acc) /\ WalkGood(W, acc, acc.commits \ boundary, {})
  BY BoundaryWalk
<1> DEFINE B == boundary \cap acc.commits
           res == shallow_result(store, acc, B)
<1>2. served = res
  BY <1>1 DEF CutAnswer
<1> HIDE DEF B
<1>9. served.boundary = boundary \cap acc.commits
  BY <1>1, <1>2, ResultWhole DEF B
<1>3. /\ res.commits = acc.commits
      /\ acc.missing = {}
      /\ res.oids \subseteq Objects
      /\ acc.commits \cup acc.tags \cup acc.roots \subseteq res.oids
      /\ \A o \in acc.commits : Head(Links[o]) \in res.oids
      /\ \A o \in res.oids \ (acc.commits \cup acc.tags) : referenced(o) \subseteq res.oids
  <2>1. res.ok
    BY <1>2
  <2> QED BY <2>1, <1>1, ResultWhole
<1> HIDE DEF res, served
<1>4. Walked(acc.commits \ boundary, acc.commits, acc.tags, acc.roots, {}, {}, W)
  BY <1>1, <1>3 DEF WalkGood
<1>5. W \subseteq served.oids
  BY <1>2, <1>3, <1>4 DEF Walked
<1>6. ASSUME NEW o \in served.oids
      PROVE  \/ o \in served.boundary /\ Head(Links[o]) \in served.oids
             \/ referenced(o) \subseteq served.oids
  <2>0. o \in Objects
    BY <1>2, <1>3
  <2>1. CASE o \notin acc.commits \cup acc.tags
    BY <2>1, <1>2, <1>3
  <2>2. CASE o \in acc.commits /\ o \in boundary
    BY <2>2, <1>2, <1>3, <1>9
  <2>3. CASE o \in acc.commits /\ o \notin boundary
    <3>1. Kind[o] = "commit" /\ Range(parents(o)) \subseteq acc.commits \cup acc.tags \cup acc.roots
      BY <2>3, <1>4 DEF Walked
    <3>2. referenced(o) = {Head(Links[o])} \cup Range(parents(o))
      BY <2>0, <3>1, LinksOf
    <3> QED BY <1>2, <1>3, <2>3, <3>1, <3>2
  <2>4. CASE o \in acc.tags
    <3>1. Kind[o] = "tag" /\ Head(Links[o]) \in acc.commits \cup acc.tags \cup acc.roots
      BY <2>4, <1>4 DEF Walked
    <3>2. referenced(o) = {Head(Links[o])}
      BY <2>0, <3>1, LinksOf
    <3> QED BY <1>2, <1>3, <3>1, <3>2
  <2> QED BY <2>1, <2>2, <2>3, <2>4
<1>7. served.commits \subseteq Objects /\ \A o \in served.commits : Kind[o] = "commit"
  BY <1>2, <1>3, <1>4 DEF Walked
<1>8. Walked(served.commits \ boundary, served.commits, acc.tags, acc.roots, {}, {}, W)
  BY <1>2, <1>3, <1>4
<1> QED BY <1>2, <1>3, <1>5, <1>6, <1>7, <1>8, <1>9 DEF served

\* What round 1 of a shallow clone tells the client, whatever the store holds by round 2.
Agreed(wants, K, B) ==
  /\ K \subseteq Objects /\ \A o \in K : Kind[o] = "commit"
  /\ B = {o \in K : Range(parents(o)) \ K # {}}
  /\ \E V \in SUBSET Objects :
       /\ Range(wants) \subseteq V
       /\ \A o \in V : (Kind[o] = "commit" => o \in K) /\ (Kind[o] = "tag" => Head(Links[o]) \in V)
       /\ K \subseteq V
  /\ \A S \in SUBSET Objects : Range(wants) \subseteq S /\ ClosedUnder(S, K \ B) => K \subseteq S

LEMMA DepthAgrees ==
  ASSUME NEW store, NEW wants \in Seq(Objects), NEW depth,
         collect_shallow(store, wants, depth).ok
  PROVE  LET found == collect_shallow(store, wants, depth) IN Agreed(wants, found.commits, found.boundary)
<1> DEFINE found == collect_shallow(store, wants, depth)
           W == Range(wants)
<1>1. PICK acc \in Accs(Items) : found = DepthAnswer(store, acc) /\ DepthGood(W, acc, {})
  BY DepthWalk
<1> DEFINE K == acc.commits
           B == {o \in K : Range(parents(o)) \ K # {}}
           res == shallow_result(store, acc, B)
<1>2. found = res
  BY <1>1 DEF DepthAnswer
<1>3. PICK E \in SUBSET Objects : WalkGood(W, acc, E, {})
  BY <1>1 DEF DepthGood
<1>4. res.commits = K /\ acc.missing = {} /\ res.boundary = B
  <2>1. res.ok
    BY <1>2
  <2> HIDE DEF B
  <2> QED BY <2>1, <1>3, ResultWhole
<1> HIDE DEF res, found
<1> DEFINE T == acc.tags
           R == acc.roots
           V == K \cup T \cup R
<1>5. Walked(E, K, T, R, {}, {}, W)
  BY <1>3, <1>4 DEF WalkGood
<1> HIDE DEF K, T, R
<1>6. K \subseteq Objects /\ \A o \in K : Kind[o] = "commit"
  BY <1>5 DEF Walked
<1>7. /\ V \in SUBSET Objects /\ W \subseteq V /\ K \subseteq V
      /\ \A o \in V : (Kind[o] = "commit" => o \in K) /\ (Kind[o] = "tag" => Head(Links[o]) \in V)
  BY <1>5 DEF Walked
<1>8. E \subseteq K \ B
  <2> SUFFICES ASSUME NEW o \in E PROVE o \in K /\ Range(parents(o)) \subseteq K
    OBVIOUS
  <2>1. o \in K /\ Range(parents(o)) \subseteq V
    BY <1>5 DEF Walked
  <2>2. \A x \in Range(parents(o)) : Kind[x] = "commit"
    BY <2>1, <1>6, LinksOf
  <2> QED BY <2>1, <2>2, <1>7
<1>9. ASSUME NEW S \in SUBSET Objects, W \subseteq S, ClosedUnder(S, K \ B) PROVE K \subseteq S
  <2>1. ClosedUnder(S, E)
    BY <1>8, <1>9 DEF ClosedUnder
  <2> QED BY <1>5, <1>9, <2>1 DEF Walked
<1> HIDE DEF V
<1>10. Agreed(wants, K, B)
  BY <1>6, <1>7, <1>9 DEF Agreed
<1> QED BY <1>2, <1>4, <1>10 DEF found

LEMMA CutAgrees ==
  ASSUME NEW store, NEW wants \in Seq(Objects), NEW K, NEW B, Agreed(wants, K, B),
         collect_shallow_at(store, wants, B).ok
  PROVE  LET served == collect_shallow_at(store, wants, B) IN
         served.commits = K /\ served.boundary = B
<1> DEFINE served == collect_shallow_at(store, wants, B)
           C == served.commits
           W == Range(wants)
<1>1. /\ C \subseteq Objects /\ \A o \in C : Kind[o] = "commit"
      /\ served.boundary = B \cap C
      /\ \E T, R : Walked(C \ B, C, T, R, {}, {}, W)
  <2> HIDE DEF W
  <2>1. /\ served.oids \subseteq Objects
        /\ W \subseteq served.oids
        /\ served.commits \subseteq Objects /\ \A o \in served.commits : Kind[o] = "commit"
        /\ served.boundary = B \cap served.commits
        /\ \A o \in served.oids : \/ o \in served.boundary /\ Head(Links[o]) \in served.oids
                                  \/ referenced(o) \subseteq served.oids
        /\ \E T, R : Walked(served.commits \ B, served.commits, T, R, {}, {}, W)
    BY CutWhole, Zenon DEF W
  <2> QED BY <2>1
<1> HIDE DEF C
<1>2. PICK T, R : Walked(C \ B, C, T, R, {}, {}, W)
  BY <1>1
<1>3. PICK V \in SUBSET Objects :
       /\ W \subseteq V
       /\ \A o \in V : (Kind[o] = "commit" => o \in K) /\ (Kind[o] = "tag" => Head(Links[o]) \in V)
       /\ K \subseteq V
  BY DEF Agreed
<1>4. B \subseteq K /\ \A o \in K \ B : Range(parents(o)) \subseteq K
  BY DEF Agreed
<1>5. C \subseteq K
  <2>1. ClosedUnder(V, C \ B)
    <3>1. ASSUME NEW o \in (C \ B) \cap V PROVE Range(parents(o)) \subseteq V
      BY <1>1, <1>3, <1>4
    <3> QED BY <3>1, <1>3 DEF ClosedUnder
  <2>2. C \subseteq V
    BY <1>2, <1>3, <2>1 DEF Walked
  <2> QED BY <1>1, <1>3, <2>2
<1>6. K \subseteq C
  <2> DEFINE S == C \cup T \cup R
  <2>1. S \in SUBSET Objects /\ W \subseteq S
    BY <1>2 DEF Walked
  <2>2. \A o \in S : (Kind[o] = "commit" => o \in C) /\ (Kind[o] = "tag" => Head(Links[o]) \in S)
    BY <1>2 DEF Walked
  <2>3. \A o \in C \ B : Range(parents(o)) \subseteq S
    BY <1>2 DEF Walked
  <2> HIDE DEF S
  <2>4. \A o \in K : Kind[o] = "commit"
    BY DEF Agreed
  <2>5. ClosedUnder(S, K \ B)
    BY <2>2, <2>3, <2>4 DEF ClosedUnder
  <2>6. K \subseteq S
    BY <2>1, <2>5 DEF Agreed
  <2> QED BY <2>2, <2>4, <2>6
<1>7. C = K
  BY <1>5, <1>6
<1>8. served.boundary = B
  BY <1>1, <1>4, <1>7
<1> QED BY <1>7, <1>8 DEF C

\* A clone, or a fetch by a client that has all that its commits need.
LEMMA ServeWhole ==
  ASSUME NEW store, NEW wants \in SUBSET Objects, NEW S \in SUBSET Objects, NEW haves \in SUBSET S,
         \A o \in S : referenced(o) \subseteq S,
         serve_request(store, WantHave(wants, haves)).ok
  PROVE  LET served == serve_request(store, WantHave(wants, haves)) IN
         /\ served.oids \subseteq Objects /\ served.boundary = {}
         /\ wants \subseteq served.oids \cup S
         /\ \A o \in served.oids : referenced(o) \subseteq served.oids \cup S
<1> DEFINE excluded == collect_inner(store, haves, {}, {}).out
           walk == collect_inner(store, wants, excluded, {})
           served == serve_request(store, WantHave(wants, haves))
<1>1. served = [ok |-> walk.missing = {}, oids |-> walk.out, boundary |-> {}]
  BY DEF serve_request, WantHave
<1>2. excluded \subseteq S
  <2>1. haves \in SUBSET S /\ {} \in SUBSET S
    OBVIOUS
  <2> QED BY <2>1, CollectWithin
<1> HIDE DEF excluded
<1>3. /\ walk.out \subseteq Objects /\ walk.missing \subseteq Objects
      /\ {} \subseteq walk.out
      /\ wants \subseteq walk.out \cup excluded \cup walk.missing
      /\ \A o \in walk.out \ {} : o \in store /\ referenced(o) \subseteq walk.out \cup excluded \cup walk.missing
      /\ walk.missing \cap store = {}
  <2>1. {} \in SUBSET Objects
    OBVIOUS
  <2> QED BY <2>1, CollectClosed, Zenon
<1> HIDE DEF walk, served
<1>4. served.ok
  BY DEF served
<1>5. walk.missing = {} /\ served.oids = walk.out /\ served.boundary = {}
  BY <1>1, <1>4
<1>6. /\ served.oids \subseteq Objects /\ served.boundary = {}
      /\ wants \subseteq served.oids \cup S
      /\ \A o \in served.oids : referenced(o) \subseteq served.oids \cup S
  BY <1>2, <1>3, <1>5
<1> QED BY <1>6 DEF served

Asks == [wants : Seq(Objects), boundary : SUBSET Objects, commits : SUBSET Objects, depth : Depths]
ClientStates == [adv : Views, objs : SUBSET Objects, wants : SUBSET Objects, shallow : SUBSET Objects,
                 asked : SUBSET Asks]

\* A client has no hole above its shallow commits, and asks what round 1 told it.
Whole(k) ==
  /\ k.wants \subseteq k.objs
  /\ \A o \in k.objs : (IF o \in k.shallow THEN {Head(Links[o])} ELSE referenced(o)) \subseteq k.objs
  /\ \A o \in k.shallow : Kind[o] = "commit"
  /\ \A q \in k.asked : Agreed(q.wants, q.commits, q.boundary)

ClientInv ==
  /\ client \in [Clients -> ClientStates]
  /\ \A c \in Clients : Whole(client[c])

LEMMA TipsTyped ==
  ASSUME NEW c \in Clients, client[c].adv \in Views
  PROVE  tip_oids(c) \in Seq(Objects)
<1> DEFINE adv == client[c].adv
           L == Len(RefNames)
           G == [n \in 0..L |-> Seq(Objects)]
<1>1. RefNames \in Seq(Refs) /\ L \in Nat /\ DOMAIN RefNames = 1..L
  BY ObjectAssumption
<1>2. <<>> \in G[0]
  BY <1>1
<1>3. ASSUME NEW i \in 1..L, NEW a \in G[i - 1] PROVE AddTip(adv, a, RefNames[i]) \in G[i]
  <2>1. i - 1 \in 0..L /\ i \in 0..L /\ RefNames[i] \in Refs
    BY <1>1
  <2>2. adv[RefNames[i]] \in Targets \cup {NoOid}
    BY <2>1 DEF Views
  <2>3. a \in Seq(Objects)
    BY <2>1
  <2>4. AddTip(adv, a, RefNames[i]) \in Seq(Objects)
    BY <2>2, <2>3, ObjectAssumption DEF AddTip
  <2> QED BY <2>1, <2>4
<1>4. tip_oids(c) = TipFold(adv, <<>>, RefNames)
  BY DEF tip_oids, TipFold
<1> HIDE DEF G, adv
<1>5. TipFold(adv, <<>>, RefNames) \in G[L]
  BY <1>1, <1>2, <1>3, FoldTips
<1> QED BY <1>1, <1>4, <1>5 DEF G

\* A client that changes stays whole if what it becomes is.
LEMMA ClientMoves ==
  ASSUME ClientInv, NEW c \in Clients, NEW k \in ClientStates, Whole(k), client' = [client EXCEPT ![c] = k]
  PROVE  ClientInv'
BY DEF ClientInv

LEMMA AdvertiseKeeps == ASSUME PushInv, ClientInv, NEW c \in Clients, Advertise(c) PROVE ClientInv'
<1> DEFINE k == [client[c] EXCEPT !.adv = RefView]
<1>1. client[c] \in ClientStates /\ Whole(client[c])
  BY DEF ClientInv
<1>2. RefView \in Views
  BY ViewTyped DEF PushInv
<1>3. k \in ClientStates
  BY <1>1, <1>2 DEF ClientStates
<1>4. k.objs = client[c].objs /\ k.wants = client[c].wants /\ k.shallow = client[c].shallow /\ k.asked = client[c].asked
  BY <1>1 DEF ClientStates
<1>5. client' = [client EXCEPT ![c] = k]
  BY DEF Advertise
<1> HIDE DEF k
<1>6. Whole(k)
  BY <1>1, <1>4 DEF Whole
<1> QED BY <1>3, <1>5, <1>6, ClientMoves

LEMMA FetchKeeps == ASSUME ClientInv, NEW c \in Clients, Fetch(c) PROVE ClientInv'
<1> DEFINE commits == {o \in client[c].objs : Kind[o] = "commit"}
           wants == Range(tip_oids(c))
           served == serve_request(cas, WantHave(wants, commits))
           S == client[c].objs
           k == [client[c] EXCEPT !.objs = @ \cup served.oids, !.wants = @ \cup wants]
<1>1. client[c] \in ClientStates /\ Whole(client[c])
  BY DEF ClientInv
<1>2. S \in SUBSET Objects /\ client[c].adv \in Views
  BY <1>1 DEF ClientStates
<1>3. client[c].shallow = {} /\ client[c].asked = {} /\ served.ok
  BY DEF Fetch
<1>4. client' = [client EXCEPT ![c] = k]
  BY DEF Fetch
<1>5. wants \in SUBSET Objects /\ commits \in SUBSET S
  <2>1. tip_oids(c) \in Seq(Objects)
    BY <1>2, TipsTyped
  <2> QED BY <2>1 DEF Range
<1>6. \A o \in S : referenced(o) \subseteq S
  BY <1>1, <1>3 DEF Whole
<1> HIDE DEF S, commits, wants
<1>7. /\ served.oids \subseteq Objects
      /\ wants \subseteq served.oids \cup S
      /\ \A o \in served.oids : referenced(o) \subseteq served.oids \cup S
  BY <1>2, <1>3, <1>5, <1>6, ServeWhole
<1> HIDE DEF served
<1>8. k \in ClientStates
  BY <1>1, <1>5, <1>7 DEF ClientStates
<1>9. /\ k.objs = S \cup served.oids /\ k.wants = client[c].wants \cup wants
      /\ k.shallow = {} /\ k.asked = {}
  BY <1>1, <1>3 DEF ClientStates, S
<1> HIDE DEF k
<1>10. client[c].wants \subseteq S
  BY <1>1 DEF Whole, S
<1>11. Whole(k)
  BY <1>6, <1>7, <1>9, <1>10 DEF Whole
<1> QED BY <1>4, <1>8, <1>11, ClientMoves

LEMMA DeepenKeeps == ASSUME ClientInv, NEW c \in Clients, NEW depth \in Depths, Deepen(c, depth) PROVE ClientInv'
<1> DEFINE wants == tip_oids(c)
           found == collect_shallow(cas, wants, depth)
           q == [wants |-> wants, boundary |-> found.boundary, commits |-> found.commits, depth |-> depth]
           k == [client[c] EXCEPT !.asked = {q}]
<1>1. client[c] \in ClientStates /\ Whole(client[c])
  BY DEF ClientInv
<1>2. wants \in Seq(Objects)
  BY <1>1, TipsTyped DEF ClientStates
<1>3. found.ok /\ client' = [client EXCEPT ![c] = k]
  BY DEF Deepen
<1> HIDE DEF wants
<1>4. Agreed(wants, found.commits, found.boundary)
  BY <1>2, <1>3, DepthAgrees
<1> HIDE DEF found
<1>5. q \in Asks
  <2>1. found.commits \subseteq Objects /\ found.boundary \subseteq found.commits
    BY <1>4 DEF Agreed
  <2> QED BY <2>1, <1>2 DEF Asks
<1>6. Agreed(q.wants, q.commits, q.boundary)
  BY <1>4
<1> HIDE DEF q
<1>7. k \in ClientStates
  BY <1>1, <1>5 DEF ClientStates
<1>8. k.objs = client[c].objs /\ k.wants = client[c].wants /\ k.shallow = client[c].shallow /\ k.asked = {q}
  BY <1>1 DEF ClientStates
<1> HIDE DEF k
<1>9. Whole(k)
  BY <1>1, <1>6, <1>8 DEF Whole
<1> QED BY <1>3, <1>7, <1>9, ClientMoves

LEMMA FetchShallowKeeps == ASSUME ClientInv, NEW c \in Clients, FetchShallow(c) PROVE ClientInv'
<1>1. client[c] \in ClientStates /\ Whole(client[c])
  BY DEF ClientInv
<1> DEFINE Served(q) == IF q.boundary = {} THEN serve_request(cas, WantHave(Range(q.wants), {}))
                        ELSE collect_shallow_at(cas, q.wants, q.boundary)
<1>2. PICK q \in client[c].asked :
        /\ Served(q).ok
        /\ client' = [client EXCEPT ![c].objs = Served(q).oids, ![c].wants = Range(q.wants),
                                    ![c].shallow = Served(q).boundary, ![c].asked = {}]
  BY Zenon DEF FetchShallow
<1> DEFINE served == Served(q)
           W == Range(q.wants)
           k == [client[c] EXCEPT !.objs = served.oids, !.wants = W, !.shallow = served.boundary, !.asked = {}]
<1>3. served.ok /\ client' = [client EXCEPT ![c] = k]
  <2> HIDE DEF Served
  <2> QED BY <1>2
<1>4. q \in Asks /\ Agreed(q.wants, q.commits, q.boundary)
  BY <1>1 DEF ClientStates, Whole
<1>5. q.wants \in Seq(Objects) /\ W \in SUBSET Objects
  <2>1. q.wants \in Seq(Objects)
    BY <1>4 DEF Asks
  <2> QED BY <2>1 DEF Range
<1>6. /\ served.oids \subseteq Objects /\ served.boundary \subseteq Objects
      /\ W \subseteq served.oids
      /\ \A o \in served.boundary : Kind[o] = "commit"
      /\ \A o \in served.oids : \/ o \in served.boundary /\ Head(Links[o]) \in served.oids
                                \/ referenced(o) \subseteq served.oids
  <2>1. CASE q.boundary = {}
    <3> DEFINE full == serve_request(cas, WantHave(W, {}))
    <3>1. served = full
      BY <2>1
    <3>2. full.ok
      BY <1>3, <3>1
    <3>3. {} \in SUBSET Objects /\ {} \in SUBSET {} /\ \A o \in {} : referenced(o) \subseteq {}
      OBVIOUS
    <3> HIDE DEF W
    <3>4. /\ full.oids \subseteq Objects /\ full.boundary = {}
          /\ W \subseteq full.oids \cup {}
          /\ \A o \in full.oids : referenced(o) \subseteq full.oids \cup {}
      BY <1>5, <3>2, <3>3, ServeWhole, Zenon
    <3> HIDE DEF full, served
    <3> QED BY <3>1, <3>4
  <2>2. CASE q.boundary # {}
    <3> DEFINE cut == collect_shallow_at(cas, q.wants, q.boundary)
    <3>1. served = cut
      BY <2>2
    <3>2. cut.ok
      BY <1>3, <3>1
    <3>3. /\ cut.oids \subseteq Objects
          /\ Range(q.wants) \subseteq cut.oids
          /\ cut.commits \subseteq Objects /\ \A o \in cut.commits : Kind[o] = "commit"
          /\ cut.boundary = q.boundary \cap cut.commits
          /\ \A o \in cut.oids : \/ o \in cut.boundary /\ Head(Links[o]) \in cut.oids
                                 \/ referenced(o) \subseteq cut.oids
          /\ \E T, R : Walked(cut.commits \ q.boundary, cut.commits, T, R, {}, {}, Range(q.wants))
      BY <1>5, <3>2, CutWhole, Zenon
    <3> HIDE DEF cut, served
    <3> QED BY <3>1, <3>3
  <2> QED BY <2>1, <2>2
<1> HIDE DEF served, W
<1>7. k \in ClientStates
  BY <1>1, <1>5, <1>6 DEF ClientStates
<1>8. k.objs = served.oids /\ k.wants = W /\ k.shallow = served.boundary /\ k.asked = {}
  BY <1>1 DEF ClientStates
<1> HIDE DEF k
<1>9. ASSUME NEW o \in served.oids
      PROVE  (IF o \in served.boundary THEN {Head(Links[o])} ELSE referenced(o)) \subseteq served.oids
  <2>1. CASE o \in served.boundary
    <3>1. Kind[o] = "commit" /\ o \in Objects
      BY <1>6, <2>1
    <3>2. Head(Links[o]) \in referenced(o)
      BY <3>1, LinksOf
    <3> QED BY <1>6, <2>1, <3>2
  <2>2. CASE o \notin served.boundary
    BY <1>6, <2>2
  <2> QED BY <2>1, <2>2
<1>10. Whole(k)
  BY <1>6, <1>8, <1>9 DEF Whole
<1> QED BY <1>3, <1>7, <1>10, ClientMoves

LEMMA FetchMoreKeeps == ASSUME ClientInv, NEW c \in Clients, FetchMore(c) PROVE ClientInv'
<1> DEFINE tips == tip_oids(c)
           B == client[c].shallow
           S == client[c].objs
           cut == collect_shallow_at(cas, tips, B)
           k == [client[c] EXCEPT !.objs = @ \cup cut.oids, !.wants = @ \cup Range(tips)]
<1>1. client[c] \in ClientStates /\ Whole(client[c])
  BY DEF ClientInv
<1>2. tips \in Seq(Objects)
  BY <1>1, TipsTyped DEF ClientStates
<1>3. cut.ok /\ client' = [client EXCEPT ![c] = k]
  BY DEF FetchMore
<1> HIDE DEF tips, B
<1>4. /\ cut.oids \subseteq Objects
      /\ Range(tips) \subseteq cut.oids
      /\ cut.commits \subseteq Objects /\ \A o \in cut.commits : Kind[o] = "commit"
      /\ cut.boundary = B \cap cut.commits
      /\ \A o \in cut.oids : \/ o \in cut.boundary /\ Head(Links[o]) \in cut.oids
                             \/ referenced(o) \subseteq cut.oids
      /\ \E T, R : Walked(cut.commits \ B, cut.commits, T, R, {}, {}, Range(tips))
  BY <1>2, <1>3, CutWhole, Zenon
<1> HIDE DEF cut
<1>5. Range(tips) \subseteq Objects
  BY <1>4
<1>6. k \in ClientStates
  BY <1>1, <1>4, <1>5 DEF ClientStates
<1>7. k.objs = S \cup cut.oids /\ k.wants = client[c].wants \cup Range(tips) /\ k.shallow = B
      /\ k.asked = client[c].asked
  BY <1>1 DEF ClientStates, B
<1>8. /\ client[c].wants \subseteq S
      /\ \A o \in S : (IF o \in B THEN {Head(Links[o])} ELSE referenced(o)) \subseteq S
      /\ \A o \in B : Kind[o] = "commit"
      /\ \A q \in client[c].asked : Agreed(q.wants, q.commits, q.boundary)
  BY <1>1 DEF Whole, B
<1> HIDE DEF k, S
<1>9. ASSUME NEW o \in cut.oids
      PROVE  (IF o \in B THEN {Head(Links[o])} ELSE referenced(o)) \subseteq cut.oids
  <2>1. CASE o \in B
    <3>1. Kind[o] = "commit" /\ o \in Objects
      BY <1>4, <1>8, <2>1
    <3>2. Head(Links[o]) \in referenced(o)
      BY <3>1, LinksOf
    <3> QED BY <1>4, <2>1, <3>2
  <2>2. CASE o \notin B
    BY <1>4, <2>2
  <2> QED BY <2>1, <2>2
<1>10. Whole(k)
  <2>1. ASSUME NEW o \in k.objs
        PROVE  (IF o \in k.shallow THEN {Head(Links[o])} ELSE referenced(o)) \subseteq k.objs
    BY <1>7, <1>8, <1>9
  <2>2. k.wants \subseteq k.objs
    BY <1>4, <1>7, <1>8
  <2> QED BY <1>7, <1>8, <2>1, <2>2 DEF Whole
<1> QED BY <1>3, <1>6, <1>10, ClientMoves

LEMMA ClientStep == ASSUME PushInv, ClientInv, [GitNext]_gitVars PROVE ClientInv'
<1>1. ASSUME UNCHANGED client PROVE ClientInv'
  BY <1>1 DEF ClientInv
<1>2. ASSUME NEW c \in Clients, NEW pack \in Packs, Receive(c, pack) PROVE ClientInv'
  BY <1>1, <1>2 DEF Receive
<1>3. ASSUME NEW c \in Clients, NEW ref \in Refs, NEW target \in Targets, NEW chain,
             PushOrdered(c, ref, target, chain)
      PROVE  ClientInv'
  BY <1>1, <1>3 DEF PushOrdered
<1>4. CASE UNCHANGED gitVars
  BY <1>1, <1>4 DEF gitVars
<1> QED BY <1>2, <1>3, <1>4, AdvertiseKeeps, FetchKeeps, DeepenKeeps, FetchShallowKeeps, FetchMoreKeeps DEF GitNext

LEMMA ClientsServed == ASSUME ClientInv PROVE ClientWhole /\ RoundsAgree
<1>1. ClientWhole
  BY DEF ClientInv, Whole, ClientWhole
<1>2. ASSUME NEW c \in Clients, NEW q \in client[c].asked,
             collect_shallow_at(cas, q.wants, q.boundary).ok
      PROVE  LET served == collect_shallow_at(cas, q.wants, q.boundary) IN
             served.commits = q.commits /\ served.boundary = q.boundary
  <2>1. client[c] \in ClientStates /\ Whole(client[c])
    BY DEF ClientInv
  <2>2. q \in Asks /\ Agreed(q.wants, q.commits, q.boundary)
    BY <2>1 DEF ClientStates, Whole
  <2>3. q.wants \in Seq(Objects)
    BY <2>2 DEF Asks
  <2> QED BY <1>2, <2>2, <2>3, CutAgrees
<1> QED BY <1>1, <1>2 DEF RoundsAgree

------------------------------------------------------------------------------
(* Unpacking.                                                               *)

\* Entry i can be made once those of S are there.
Given(entries, i, S) ==
  \/ entries[i].kind = "full"
  \/ entries[i].kind = "ofs" /\ i - entries[i].base \in S
  \/ entries[i].kind = "ref" /\ (entries[i].base \in cas \/ \E j \in S : entries[j].obj = entries[i].base)

SetClosed(entries, S) == \A i \in 1..Len(entries) : Given(entries, i, S) => i \in S

Unpacks(entries) ==
  [resolved : SUBSET (1..Len(entries)), oids : SUBSET {entries[i].obj : i \in 1..Len(entries)},
   progressed : BOOLEAN, lookups : Nat, err : {"none", "bomb", "malformed", "lookups"}]

\* The objects are those of the entries resolved, which had to be, and the pack
\* is only called malformed when it cannot be derived.
UnpackGood(pack, a) ==
  /\ a \in Unpacks(pack.entries)
  /\ a.oids = {pack.entries[i].obj : i \in a.resolved}
  /\ \A S \in SUBSET (1..Len(pack.entries)) : SetClosed(pack.entries, S) => a.resolved \subseteq S
  /\ a.err = "malformed" => ~Derivable(pack)

LEMMA DerivableIs ==
  ASSUME NEW pack
  PROVE  Derivable(pack) <=> \A S \in SUBSET (1..Len(pack.entries)) :
                               SetClosed(pack.entries, S) => S = 1..Len(pack.entries)
BY DEF Derivable, SetClosed, Given

\* An entry that can be made is taken.
LEMMA FinalizeKeeps ==
  ASSUME NEW pack, NEW a, UnpackGood(pack, a), a.err = "none", NEW i \in 1..Len(pack.entries),
         Given(pack.entries, i, a.resolved)
  PROVE  LET b == finalize(a, i, pack.entries[i].obj) IN
         UnpackGood(pack, b) /\ b.resolved = a.resolved \cup {i} /\ b.progressed
<1> DEFINE entries == pack.entries
           o == entries[i].obj
           e == IF Cardinality(a.oids \cup {o}) > RecvLimits.max_inflated_bytes THEN "bomb" ELSE "none"
           b == finalize(a, i, o)
<1>1. b = [a EXCEPT !.resolved = @ \cup {i}, !.oids = @ \cup {o}, !.progressed = TRUE, !.err = e]
  BY DEF finalize, UnpackGood, Unpacks
<1>2. e \in {"none", "bomb"}
  OBVIOUS
<1> HIDE DEF e, b
<1>3. a \in Unpacks(entries)
  BY DEF UnpackGood
<1>4. o \in {entries[j].obj : j \in 1..Len(entries)}
  OBVIOUS
<1> HIDE DEF o
<1>5. /\ b.resolved = a.resolved \cup {i} /\ b.oids = a.oids \cup {o} /\ b.progressed = TRUE
      /\ b.err = e /\ b \in Unpacks(entries)
  BY <1>1, <1>2, <1>3, <1>4 DEF Unpacks
<1>6. b.oids = {entries[j].obj : j \in b.resolved}
  BY <1>5 DEF UnpackGood, o
<1>7. ASSUME NEW S \in SUBSET (1..Len(entries)), SetClosed(entries, S) PROVE b.resolved \subseteq S
  <2>1. a.resolved \subseteq S
    BY <1>7 DEF UnpackGood
  <2>2. Given(entries, i, S)
    BY <2>1 DEF Given
  <2>3. i \in S
    BY <1>7, <2>2 DEF SetClosed
  <2> QED BY <1>5, <2>1, <2>3
<1>8. UnpackGood(pack, b)
  BY <1>2, <1>5, <1>6, <1>7 DEF UnpackGood
<1> QED BY <1>5, <1>8 DEF b, o

\* A step that changes neither entries nor objects.
LEMMA UnpackSame ==
  ASSUME NEW pack, NEW a, NEW b, UnpackGood(pack, a), b \in Unpacks(pack.entries),
         b.resolved = a.resolved, b.oids = a.oids, b.err = "malformed" => ~Derivable(pack)
  PROVE  UnpackGood(pack, b)
BY DEF UnpackGood

\* The objects in full are taken wherever they stand.
LEMMA FullsTaken ==
  ASSUME NEW pack \in Packs, ~pack.corrupt, NEW a, a = FullFold(pack.entries,
              [resolved |-> {}, oids |-> {}, progressed |-> FALSE, lookups |-> 0,
               err |-> IF pack.corrupt THEN "malformed"
                       ELSE IF Len(pack.entries) > RecvLimits.max_objects THEN "bomb" ELSE "none"])
  PROVE  /\ UnpackGood(pack, a)
         /\ a.err = "none" => \A i \in 1..Len(pack.entries) : pack.entries[i].kind = "full" => i \in a.resolved
<1> DEFINE entries == pack.entries
           L == Len(entries)
           e == IF pack.corrupt THEN "malformed"
                ELSE IF Len(pack.entries) > RecvLimits.max_objects THEN "bomb" ELSE "none"
           base == [resolved |-> {}, oids |-> {}, progressed |-> FALSE, lookups |-> 0, err |-> e]
           Good(n, b) == UnpackGood(pack, b)
                         /\ (b.err = "none" => \A i \in 1..n : entries[i].kind = "full" => i \in b.resolved)
           G == [n \in 0..L |-> {b \in Unpacks(entries) : Good(n, b)}]
<1>1. L \in Nat /\ DOMAIN entries = 1..L
  BY PackAssumption
<1>2. e \in {"bomb", "none"}
  OBVIOUS
<1>3. base \in G[0]
  <2> HIDE DEF e
  <2>1. base \in Unpacks(entries) /\ base.resolved = {} /\ base.oids = {} /\ base.err = e
    BY <1>2 DEF Unpacks
  <2> HIDE DEF base
  <2>2. Good(0, base)
    BY <1>2, <2>1 DEF UnpackGood
  <2> HIDE DEF Good
  <2> QED BY <1>1, <2>1, <2>2
<1>4. ASSUME NEW n \in 1..L, NEW b \in G[n - 1] PROVE TakeFull(entries, b, n) \in G[n]
  <2>1. n - 1 \in 0..L /\ n \in 0..L
    BY <1>1
  <2>2. b \in Unpacks(entries) /\ Good(n - 1, b)
    BY <2>1
  <2>3. CASE b.err = "none" /\ entries[n].kind = "full"
    <3> DEFINE v == finalize(b, n, entries[n].obj)
    <3>1. UnpackGood(pack, v) /\ v.resolved = b.resolved \cup {n}
      <4>1. Given(entries, n, b.resolved)
        BY <2>3 DEF Given
      <4> QED BY <2>2, <2>3, <4>1, FinalizeKeeps
    <3> HIDE DEF v
    <3>2. Good(n, v) /\ v \in Unpacks(entries)
      BY <1>1, <2>2, <2>3, <3>1 DEF UnpackGood
    <3>3. TakeFull(entries, b, n) = v
      BY <2>3 DEF TakeFull, v
    <3> HIDE DEF Good
    <3> QED BY <2>1, <3>2, <3>3
  <2>4. CASE ~(b.err = "none" /\ entries[n].kind = "full")
    <3>1. Good(n, b)
      BY <1>1, <2>2, <2>4
    <3>2. TakeFull(entries, b, n) = b
      BY <2>4 DEF TakeFull
    <3> HIDE DEF Good
    <3> QED BY <2>1, <2>2, <3>1, <3>2
  <2> QED BY <2>3, <2>4
<1>5. a = FullFold(entries, base)
  OBVIOUS
<1>6. a \in G[L]
  <2> HIDE DEF G, base, entries
  <2> QED BY <1>1, <1>3, <1>4, <1>5, FoldFull
<1>7. Good(L, a)
  <2> HIDE DEF Good
  <2> QED BY <1>1, <1>6
<1> QED BY <1>7

\* A pass over entries from R: it adds some, or it tried all that it could.
PassGood(pack, R, b, tried) ==
  /\ UnpackGood(pack, b)
  /\ R \subseteq b.resolved
  /\ b.progressed => b.resolved # R
  /\ ~b.progressed => b.resolved = R /\ (b.err = "none" => tried)

InPack(entries, j, R) ==
  /\ entries[j].kind = "ofs" => j - entries[j].base \notin R
  /\ entries[j].kind = "ref" => \A k \in R : entries[k].obj # entries[j].base

\* A delta that points at itself or ahead can never be made.
LEMMA PointsAhead ==
  ASSUME NEW pack \in Packs, NEW i \in 1..Len(pack.entries), pack.entries[i].kind = "ofs",
         pack.entries[i].base = 0 \/ pack.entries[i].base >= i
  PROVE  ~Derivable(pack)
<1> DEFINE L == Len(pack.entries)
           S == (1..L) \ {i}
           back == pack.entries[i].base
<1>1. L \in Nat /\ DOMAIN pack.entries = 1..L
  BY PackAssumption
<1>2. back \in Nat
  BY <1>1, PackAssumption DEF Range
<1>3. i - back \notin S
  BY <1>1, <1>2
<1>4. ~Given(pack.entries, i, S)
  BY <1>3 DEF Given
<1>5. SetClosed(pack.entries, S)
  BY <1>4 DEF SetClosed
<1>6. S \in SUBSET (1..L) /\ S # 1..L
  OBVIOUS
<1> QED BY <1>5, <1>6, DerivableIs

LEMMA PackPass ==
  ASSUME NEW pack \in Packs, NEW a, UnpackGood(pack, a), a.err = "none", ~a.progressed
  PROVE  LET b == PackFold(pack.entries, a) IN
         PassGood(pack, a.resolved, b, \A j \in 1..Len(pack.entries) :
                    j \in a.resolved \/ InPack(pack.entries, j, a.resolved))
<1> DEFINE entries == pack.entries
           L == Len(entries)
           R == a.resolved
           Tried(n) == \A j \in 1..n : j \in R \/ InPack(entries, j, R)
           Good(n, b) == PassGood(pack, R, b, Tried(n))
           G == [n \in 0..L |-> {b \in Unpacks(entries) : Good(n, b)}]
<1>1. L \in Nat /\ DOMAIN entries = 1..L
  BY PackAssumption
<1>3. a \in G[0]
  <2>1. Good(0, a) /\ a \in Unpacks(entries)
    BY DEF PassGood, UnpackGood
  <2> HIDE DEF Good
  <2> QED BY <1>1, <2>1
<1>4. ASSUME NEW n \in 1..L, NEW b \in G[n - 1] PROVE ResolveInPack(entries, b, n) \in G[n]
  <2>1. n - 1 \in 0..L /\ n \in 0..L
    BY <1>1
  <2>2. b \in Unpacks(entries) /\ Good(n - 1, b)
    BY <2>1
  <2> DEFINE e == entries[n]
             v == ResolveInPack(entries, b, n)
  <2>3. \A j \in 1..n : j = n \/ j \in 1..(n - 1)
    BY <1>1
  <2>4. UnpackGood(pack, b) /\ b.oids = {entries[i].obj : i \in b.resolved}
    BY <2>2 DEF PassGood, UnpackGood
  <2>5. Good(n, v)
    <3>1. CASE b.err # "none" \/ n \in b.resolved
      <4>1. v = b
        BY <3>1 DEF ResolveInPack
      <4>2. Good(n, b)
        BY <2>2, <2>3, <3>1 DEF PassGood
      <4> QED BY <4>1, <4>2
    <3>2. CASE b.err = "none" /\ n \notin b.resolved /\ e.kind = "ofs" /\ (e.base = 0 \/ e.base >= n)
      <4>1. v = [b EXCEPT !.err = "malformed"]
        BY <3>2 DEF ResolveInPack
      <4>2. ~Derivable(pack)
        BY <3>2, PointsAhead
      <4> HIDE DEF v
      <4>3. /\ v \in Unpacks(entries) /\ v.resolved = b.resolved /\ v.oids = b.oids
            /\ v.err = "malformed" /\ v.progressed = b.progressed
        BY <2>2, <4>1 DEF Unpacks
      <4>4. UnpackGood(pack, v)
        BY <2>4, <4>2, <4>3, UnpackSame
      <4> QED BY <2>2, <4>3, <4>4 DEF PassGood
    <3>3. CASE /\ b.err = "none" /\ n \notin b.resolved /\ ~(e.kind = "ofs" /\ (e.base = 0 \/ e.base >= n))
               /\ \/ e.kind = "ofs" /\ n - e.base \in b.resolved
                  \/ e.kind = "ref" /\ e.base \in b.oids
      <4>1. v = finalize(b, n, e.obj)
        BY <3>3 DEF ResolveInPack
      <4>2. Given(entries, n, b.resolved)
        BY <2>4, <3>3 DEF Given
      <4>3. UnpackGood(pack, v) /\ v.resolved = b.resolved \cup {n} /\ v.progressed
        BY <2>4, <3>3, <4>1, <4>2, FinalizeKeeps
      <4> HIDE DEF v
      <4>4. R \subseteq b.resolved
        BY <2>2 DEF PassGood
      <4> QED BY <3>3, <4>3, <4>4 DEF PassGood
    <3>4. CASE /\ b.err = "none" /\ n \notin b.resolved /\ ~(e.kind = "ofs" /\ (e.base = 0 \/ e.base >= n))
               /\ ~(\/ e.kind = "ofs" /\ n - e.base \in b.resolved
                    \/ e.kind = "ref" /\ e.base \in b.oids)
      <4>1. v = b
        BY <3>4 DEF ResolveInPack
      <4>2. b.resolved = R => InPack(entries, n, R)
        BY <2>4, <3>4 DEF InPack
      <4>3. Good(n, b)
        BY <2>2, <2>3, <4>2 DEF PassGood
      <4> QED BY <4>1, <4>3
    <3> QED BY <3>1, <3>2, <3>3, <3>4
  <2>6. v \in Unpacks(entries)
    BY <2>5 DEF PassGood, UnpackGood
  <2> HIDE DEF Good, v
  <2>7. v \in G[n]
    BY <2>1, <2>5, <2>6
  <2> QED BY <2>7 DEF v
<1>6. PackFold(entries, a) \in G[L]
  <2> HIDE DEF G, entries
  <2> QED BY <1>1, <1>3, <1>4, FoldPack
<1>7. Good(L, PackFold(entries, a))
  <2> HIDE DEF Good
  <2> QED BY <1>1, <1>6
<1> QED BY <1>7

LEMMA CasPass ==
  ASSUME NEW pack \in Packs, NEW a, UnpackGood(pack, a), a.err = "none", ~a.progressed
  PROVE  LET b == CasFold(pack.entries, a) IN
         PassGood(pack, a.resolved, b, \A j \in 1..Len(pack.entries) :
                    j \in a.resolved \/ pack.entries[j].kind # "ref" \/ pack.entries[j].base \notin cas)
<1> DEFINE entries == pack.entries
           L == Len(entries)
           R == a.resolved
           Tried(n) == \A j \in 1..n : j \in R \/ entries[j].kind # "ref" \/ entries[j].base \notin cas
           Good(n, b) == PassGood(pack, R, b, Tried(n))
           G == [n \in 0..L |-> {b \in Unpacks(entries) : Good(n, b)}]
<1>1. L \in Nat /\ DOMAIN entries = 1..L
  BY PackAssumption
<1>3. a \in G[0]
  <2>1. Good(0, a) /\ a \in Unpacks(entries)
    BY DEF PassGood, UnpackGood
  <2> HIDE DEF Good
  <2> QED BY <1>1, <2>1
<1>4. ASSUME NEW n \in 1..L, NEW b \in G[n - 1] PROVE ResolveFromCas(entries, b, n) \in G[n]
  <2>1. n - 1 \in 0..L /\ n \in 0..L
    BY <1>1
  <2>2. b \in Unpacks(entries) /\ Good(n - 1, b)
    BY <2>1
  <2> DEFINE e == entries[n]
             asked == [b EXCEPT !.lookups = @ + 1]
             v == ResolveFromCas(entries, b, n)
  <2>3. \A j \in 1..n : j = n \/ j \in 1..(n - 1)
    BY <1>1
  <2>4. UnpackGood(pack, b)
    BY <2>2 DEF PassGood
  <2>5. /\ asked \in Unpacks(entries) /\ asked.resolved = b.resolved /\ asked.oids = b.oids
        /\ asked.err = b.err /\ asked.progressed = b.progressed
    BY <2>2 DEF Unpacks
  <2>6. v = IF b.err # "none" \/ n \in b.resolved \/ e.kind # "ref" THEN b
            ELSE IF asked.lookups > RecvLimits.max_cas_lookups THEN [b EXCEPT !.err = "lookups"]
            ELSE IF e.base \in cas THEN finalize(asked, n, e.obj)
            ELSE asked
    BY DEF ResolveFromCas
  <2> HIDE DEF asked, v
  <2>7. UnpackGood(pack, asked)
    BY <2>4, <2>5, UnpackSame DEF UnpackGood
  <2>8. Good(n, v)
    <3>1. CASE b.err # "none" \/ n \in b.resolved \/ e.kind # "ref"
      <4>1. v = b
        BY <2>6, <3>1
      <4>2. Good(n, b)
        BY <2>2, <2>3, <3>1 DEF PassGood
      <4> QED BY <4>1, <4>2
    <3>2. CASE /\ ~(b.err # "none" \/ n \in b.resolved \/ e.kind # "ref")
               /\ asked.lookups > RecvLimits.max_cas_lookups
      <4>1. v = [b EXCEPT !.err = "lookups"]
        BY <2>6, <3>2
      <4>2. /\ v \in Unpacks(entries) /\ v.resolved = b.resolved /\ v.oids = b.oids
            /\ v.err = "lookups" /\ v.progressed = b.progressed
        BY <2>2, <4>1 DEF Unpacks
      <4>3. UnpackGood(pack, v)
        BY <2>4, <4>2, UnpackSame
      <4> QED BY <2>2, <4>2, <4>3 DEF PassGood
    <3>3. CASE /\ ~(b.err # "none" \/ n \in b.resolved \/ e.kind # "ref")
               /\ ~(asked.lookups > RecvLimits.max_cas_lookups) /\ e.base \in cas
      <4>1. v = finalize(asked, n, e.obj)
        BY <2>6, <3>3
      <4>2. Given(entries, n, asked.resolved)
        BY <3>3 DEF Given
      <4>3. UnpackGood(pack, v) /\ v.resolved = asked.resolved \cup {n} /\ v.progressed
        BY <2>5, <2>7, <3>3, <4>1, <4>2, FinalizeKeeps
      <4>4. R \subseteq b.resolved
        BY <2>2 DEF PassGood
      <4> QED BY <2>5, <3>3, <4>3, <4>4 DEF PassGood
    <3>4. CASE /\ ~(b.err # "none" \/ n \in b.resolved \/ e.kind # "ref")
               /\ ~(asked.lookups > RecvLimits.max_cas_lookups) /\ e.base \notin cas
      <4>1. v = asked
        BY <2>6, <3>4
      <4>2. Good(n, asked)
        BY <2>2, <2>3, <2>5, <2>7, <3>4 DEF PassGood
      <4> QED BY <4>1, <4>2
    <3> QED BY <3>1, <3>2, <3>3, <3>4
  <2>9. v \in Unpacks(entries)
    BY <2>8 DEF PassGood, UnpackGood
  <2> HIDE DEF Good
  <2>10. v \in G[n]
    BY <2>1, <2>8, <2>9
  <2> QED BY <2>10 DEF v
<1>6. CasFold(entries, a) \in G[L]
  <2> HIDE DEF G, entries
  <2> QED BY <1>1, <1>3, <1>4, FoldCas
<1>7. Good(L, CasFold(entries, a))
  <2> HIDE DEF Good
  <2> QED BY <1>1, <1>6
<1> QED BY <1>7

\* After k passes without an error, at least k entries are resolved, or all.
PassesGood(pack, k, a) ==
  /\ UnpackGood(pack, a)
  /\ a.err = "none" =>
       /\ \A i \in 1..Len(pack.entries) : pack.entries[i].kind = "full" => i \in a.resolved
       /\ Cardinality(a.resolved) = Len(pack.entries) \/ Cardinality(a.resolved) >= k

LEMMA ResolvedCount ==
  ASSUME NEW n \in Nat, NEW R \in SUBSET (1..n)
  PROVE  /\ Cardinality(R) \in Nat /\ Cardinality(R) <= n
         /\ Cardinality(R) = n => R = 1..n
         /\ \A Q \in SUBSET (1..n) : R \subseteq Q /\ Q # R => Cardinality(Q) >= Cardinality(R) + 1
<1>1. IsFiniteSet(1..n) /\ Cardinality(1..n) = n
  BY FS_Interval
<1>2. \A Q \in SUBSET (1..n) : IsFiniteSet(Q) /\ Cardinality(Q) \in Nat /\ Cardinality(Q) <= n
                               /\ (Cardinality(Q) = n => Q = 1..n)
  BY <1>1, FS_Subset, FS_CardinalityType
<1>3. ASSUME NEW Q \in SUBSET (1..n), R \subseteq Q, Q # R PROVE Cardinality(Q) >= Cardinality(R) + 1
  <2>1. Cardinality(R) <= Cardinality(Q) /\ (Cardinality(R) = Cardinality(Q) => R = Q)
    BY <1>2, <1>3, FS_Subset
  <2> QED BY <1>2, <1>3, <2>1
<1> QED BY <1>2, <1>3

LEMMA PassKept ==
  ASSUME NEW pack \in Packs, NEW k \in Nat \ {0}, NEW a, PassesGood(pack, k - 1, a)
  PROVE  PassesGood(pack, k, Pass(pack.entries, a, k))
<1> DEFINE entries == pack.entries
           L == Len(entries)
           R == a.resolved
           v == Pass(entries, a, k)
           a0 == [a EXCEPT !.progressed = FALSE]
           packed == PackFold(entries, a0)
           thin == CasFold(entries, packed)
<1>1. L \in Nat /\ DOMAIN entries = 1..L
  BY PackAssumption
<1>2. UnpackGood(pack, a) /\ a \in Unpacks(entries) /\ R \in SUBSET (1..L)
  BY DEF PassesGood, UnpackGood, Unpacks
<1>3. v = IF a.err # "none" \/ Cardinality(R) = L THEN a
          ELSE IF k > RecvLimits.max_delta_passes THEN [a EXCEPT !.err = "bomb"]
          ELSE IF packed.err # "none" \/ packed.progressed THEN packed
          ELSE IF thin.err # "none" \/ thin.progressed THEN thin
          ELSE [a EXCEPT !.err = "malformed"]
  BY Zenon DEF Pass, PackFold, CasFold
<1>4. a0 \in Unpacks(entries) /\ a0.resolved = R /\ a0.oids = a.oids /\ a0.err = a.err /\ ~a0.progressed
  BY <1>2 DEF Unpacks
<1> HIDE DEF v, a0
<1>5. UnpackGood(pack, a0)
  BY <1>2, <1>4, UnpackSame DEF UnpackGood
<1>6. ASSUME a.err = "none", NEW b, NEW tried, PassGood(pack, R, b, tried), b.progressed,
             Cardinality(R) # L
      PROVE  PassesGood(pack, k, b)
  <2>1. UnpackGood(pack, b) /\ R \subseteq b.resolved /\ b.resolved # R
    BY <1>6 DEF PassGood
  <2>2. b.resolved \in SUBSET (1..L)
    BY <2>1 DEF UnpackGood, Unpacks
  <2>3. Cardinality(R) \in Nat /\ Cardinality(b.resolved) \in Nat /\ Cardinality(b.resolved) >= Cardinality(R) + 1
    BY <1>1, <1>2, <2>1, <2>2, ResolvedCount
  <2>4. Cardinality(R) >= k - 1
    BY <1>6 DEF PassesGood
  <2>5. Cardinality(b.resolved) >= k
    BY <2>3, <2>4
  <2> QED BY <1>6, <2>1, <2>5 DEF PassesGood
<1>7. CASE a.err # "none" \/ Cardinality(R) = L
  <2>1. v = a
    BY <1>3, <1>7
  <2>2. PassesGood(pack, k, a)
    BY <1>2, <1>7, Zenon DEF PassesGood
  <2>3. PassesGood(pack, k, v)
    BY <2>1, <2>2
  <2> QED BY <2>3 DEF v
<1>8. CASE a.err = "none" /\ Cardinality(R) # L
  <2> DEFINE TriedP == \A j \in 1..L : j \in R \/ InPack(entries, j, R)
             TriedC == \A j \in 1..L : j \in R \/ entries[j].kind # "ref" \/ entries[j].base \notin cas
  <2>1. PassGood(pack, R, packed, TriedP)
    <3> HIDE DEF R
    <3>1. LET b == PackFold(entries, a0) IN
         PassGood(pack, a0.resolved, b, \A j \in 1..L : j \in a0.resolved \/ InPack(entries, j, a0.resolved))
      BY <1>4, <1>5, <1>8, PackPass
    <3> QED BY <3>1, <1>4
  <2> HIDE DEF packed
  <2>2. CASE k > RecvLimits.max_delta_passes
    <3>1. v = [a EXCEPT !.err = "bomb"]
      BY <1>3, <1>8, <2>2
    <3>2. v \in Unpacks(entries) /\ v.resolved = R /\ v.oids = a.oids /\ v.err = "bomb"
      BY <1>2, <3>1 DEF Unpacks
    <3>3. UnpackGood(pack, v)
      BY <1>2, <3>2, UnpackSame
    <3>4. PassesGood(pack, k, v)
      BY <3>2, <3>3 DEF PassesGood
    <3> QED BY <3>4 DEF v
  <2>3. CASE ~(k > RecvLimits.max_delta_passes) /\ (packed.err # "none" \/ packed.progressed)
    <3>1. v = packed
      BY <1>3, <1>8, <2>3
    <3>2. PassesGood(pack, k, packed)
      <4>1. CASE packed.progressed
        BY <1>6, <1>8, <2>1, <4>1
      <4>2. CASE packed.err # "none"
        BY <2>1, <4>2 DEF PassesGood, PassGood
      <4> QED BY <2>3, <4>1, <4>2
    <3> QED BY <3>1, <3>2 DEF v
  <2>4. CASE ~(k > RecvLimits.max_delta_passes) /\ packed.err = "none" /\ ~packed.progressed
    <3>0. UnpackGood(pack, packed) /\ packed.resolved = R /\ TriedP
      BY <2>1, <2>4 DEF PassGood
    <3>1. PassGood(pack, R, thin, TriedC)
      <4> HIDE DEF R
      <4>1. LET b == CasFold(entries, packed) IN
            PassGood(pack, packed.resolved, b, \A j \in 1..L :
                       j \in packed.resolved \/ entries[j].kind # "ref" \/ entries[j].base \notin cas)
        BY <2>4, <3>0, CasPass
      <4> QED BY <4>1, <3>0
    <3> HIDE DEF thin
    <3>2. CASE thin.err # "none" \/ thin.progressed
      <4>1. v = thin
        BY <1>3, <1>8, <2>4, <3>2
      <4>2. PassesGood(pack, k, thin)
        <5>1. CASE thin.progressed
          BY <1>6, <1>8, <3>1, <5>1
        <5>2. CASE thin.err # "none"
          BY <3>1, <5>2 DEF PassesGood, PassGood
        <5> QED BY <3>2, <5>1, <5>2
      <4> QED BY <4>1, <4>2 DEF v
    <3>3. CASE thin.err = "none" /\ ~thin.progressed
      <4>1. v = [a EXCEPT !.err = "malformed"]
        BY <1>3, <1>8, <2>4, <3>3
      <4>2. v \in Unpacks(entries) /\ v.resolved = R /\ v.oids = a.oids /\ v.err = "malformed"
        BY <1>2, <4>1 DEF Unpacks
      <4>3. TriedC
        BY <3>1, <3>3 DEF PassGood
      <4>4. SetClosed(entries, R)
        <5> SUFFICES ASSUME NEW i \in 1..L, Given(entries, i, R), i \notin R PROVE FALSE
          BY DEF SetClosed
        <5>1. InPack(entries, i, R) /\ (entries[i].kind # "ref" \/ entries[i].base \notin cas)
          BY <3>0, <4>3
        <5>2. entries[i].kind # "full"
          BY <1>8 DEF PassesGood
        <5> QED BY <5>1, <5>2 DEF Given, InPack
      <4>5. R # 1..L
        <5>1. Cardinality(1..L) = L
          BY <1>1, FS_Interval
        <5> QED BY <1>8, <5>1
      <4>6. ~Derivable(pack)
        BY <1>2, <4>4, <4>5, DerivableIs
      <4>7. UnpackGood(pack, v)
        BY <1>2, <4>2, <4>6, UnpackSame
      <4>8. PassesGood(pack, k, v)
        BY <4>2, <4>7 DEF PassesGood
      <4> QED BY <4>8 DEF v
    <3> QED BY <3>2, <3>3
  <2> QED BY <2>2, <2>3, <2>4
<1> QED BY <1>7, <1>8

\* Unpacking decides whether a pack can be derived, unless a budget stops it.
LEMMA UnpackDecides == UnpackExact
<1> SUFFICES ASSUME NEW pack \in Packs, ~pack.corrupt
             PROVE  LET u == unpack_pack(pack) IN
                    /\ u.err \in ReceiveErrors \cup {"none"}
                    /\ u.err = "none" => Derivable(pack) /\ u.oids = {pack.entries[i].obj : i \in 1..Len(pack.entries)}
                    /\ u.err = "malformed" => ~Derivable(pack)
  BY DEF UnpackExact
<1> DEFINE entries == pack.entries
           L == Len(entries)
           u == unpack_pack(pack)
           start == [resolved |-> {}, oids |-> {}, progressed |-> FALSE, lookups |-> 0,
                     err |-> IF pack.corrupt THEN "malformed"
                             ELSE IF Len(pack.entries) > RecvLimits.max_objects THEN "bomb" ELSE "none"]
           Good(n) == {a \in Unpacks(entries) : PassesGood(pack, n, a)}
           G == [n \in 0..(L + 1) |-> Good(n)]
<1>1. L \in Nat /\ DOMAIN entries = 1..L
  BY PackAssumption
<1>2. FullFold(entries, start) \in G[0]
  <2> DEFINE a == FullFold(entries, start)
  <2>1. /\ UnpackGood(pack, a)
        /\ a.err = "none" => \A i \in 1..L : entries[i].kind = "full" => i \in a.resolved
    BY FullsTaken
  <2> HIDE DEF a
  <2>2. a.resolved \in SUBSET (1..L) /\ a \in Unpacks(entries)
    BY <2>1 DEF UnpackGood, Unpacks
  <2>3. Cardinality(a.resolved) \in Nat
    BY <1>1, <2>2, ResolvedCount
  <2>4. PassesGood(pack, 0, a)
    BY <2>1, <2>3 DEF PassesGood
  <2>5. a \in G[0]
    BY <1>1, <2>2, <2>4
  <2> QED BY <2>5 DEF a
<1>3. ASSUME NEW n \in 1..(L + 1), NEW a \in G[n - 1] PROVE Pass(entries, a, n) \in G[n]
  <2>1. n - 1 \in 0..(L + 1) /\ n \in 0..(L + 1) /\ n \in Nat \ {0}
    BY <1>1
  <2>2. PassesGood(pack, n - 1, a)
    BY <2>1
  <2>3. PassesGood(pack, n, Pass(entries, a, n))
    BY <2>1, <2>2, PassKept
  <2>4. Pass(entries, a, n) \in Unpacks(entries)
    BY <2>3 DEF PassesGood, UnpackGood
  <2> QED BY <2>1, <2>3, <2>4
<1>4. u \in G[L + 1]
  <2> HIDE DEF G
  <2> QED BY <1>1, <1>2, <1>3, PassKeeps
<1> HIDE DEF u
<1>5. PassesGood(pack, L + 1, u) /\ u \in Unpacks(entries)
  BY <1>1, <1>4
<1>6. u.err \in ReceiveErrors \cup {"none"} /\ u.resolved \in SUBSET (1..L)
  BY <1>5 DEF Unpacks, ReceiveErrors
<1>7. u.err = "malformed" => ~Derivable(pack)
  BY <1>5 DEF PassesGood, UnpackGood
<1>8. ASSUME u.err = "none"
      PROVE  Derivable(pack) /\ u.oids = {entries[i].obj : i \in 1..L}
  <2>1. Cardinality(u.resolved) \in Nat /\ Cardinality(u.resolved) <= L
        /\ (Cardinality(u.resolved) = L => u.resolved = 1..L)
    BY <1>1, <1>6, ResolvedCount
  <2>2. Cardinality(u.resolved) = L \/ Cardinality(u.resolved) >= L + 1
    BY <1>5, <1>8 DEF PassesGood
  <2>3. u.resolved = 1..L
    BY <1>1, <2>1, <2>2
  <2>4. u.oids = {entries[i].obj : i \in 1..L}
    BY <1>5, <2>3 DEF PassesGood, UnpackGood
  <2>5. \A S \in SUBSET (1..L) : SetClosed(entries, S) => S = 1..L
    BY <1>5, <2>3 DEF PassesGood, UnpackGood
  <2> QED BY <2>4, <2>5, DerivableIs
<1> QED BY <1>6, <1>7, <1>8 DEF u

------------------------------------------------------------------------------
(* The wire protocol.                                                       *)

\* For any well-formed objects, packs, refs, clients and limits: a pack unpacks
\* exactly when every delta has its base, in whatever order, unless a budget
\* stops it; a ref leads to nothing the store lacks, save through an object that
\* came along unchecked or whose put failed; a client never has a hole above its
\* shallow commits; and round 2 of a shallow clone selects the commits of round 1
\* whatever was pushed between them.
THEOREM WireCorrect == GitSpec => []WireSound
<1>1. GitInit => PushInv /\ StoreInv /\ ClientInv
  <2> SUFFICES ASSUME GitInit PROVE PushInv /\ StoreInv /\ ClientInv
    OBVIOUS
  <2>1. PushInv
    BY DEF GitInit, PushInv, NoLostPush, Views
  <2>2. StoreInv
    BY DEF GitInit, StoreInv
  <2>3. ClientInv
    <3> DEFINE k == [adv |-> [r \in Refs |-> NoOid], objs |-> {}, wants |-> {}, shallow |-> {}, asked |-> {}]
    <3>1. k \in ClientStates
      BY DEF ClientStates, Views
    <3>2. Whole(k)
      BY DEF Whole
    <3>3. client = [c \in Clients |-> k]
      BY DEF GitInit
    <3> HIDE DEF k
    <3> QED BY <3>1, <3>2, <3>3 DEF ClientInv
  <2> QED BY <2>1, <2>2, <2>3
<1>2. PushInv /\ StoreInv /\ ClientInv /\ [GitNext]_gitVars => (PushInv /\ StoreInv /\ ClientInv)'
  BY PushStep, StoreStep, ClientStep
<1>3. PushInv /\ StoreInv /\ ClientInv => WireSound
  BY UnpackDecides, StoreCloses, ClientsServed DEF WireSound
<1> QED BY <1>1, <1>2, <1>3, PTL DEF GitSpec
==============================================================================
