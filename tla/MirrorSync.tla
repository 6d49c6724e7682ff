----------------------------- MODULE MirrorSync -----------------------------
(***************************************************************************)
(* hugit-mirror: the forge-arbitrated two-way sync engine (sync/), the     *)
(* outbound queue (queue/) and the writer that pushes and verifies         *)
(* (outbound/writer.rs, outbound/live.rs).  The engine decides what goes   *)
(* out and books it as emitted; the bytes go out later, through the queue, *)
(* while GitHub users keep pushing to the same branches.  A tip is a       *)
(* member of Tips; History gives the commit graph git's fast-forward rule  *)
(* looks at.                                                               *)
(***************************************************************************)
EXTENDS Naturals, Sequences, FiniteSets, SequencesExt

CONSTANTS Branches,    \* the unprotected branch refs
          Main,        \* the protected ref
          Tips,        \* commit ids
          History,     \* History[t]: t and its ancestors
          NoTip,       \* absent ref, absent entry of a map
          Chains,      \* principal chains, by class of the acting principal
          QueueCap,    \* capacity of the outage queue
          ReflectBound,\* emissions one reflect pass may make
          MaxMirrorLog, MaxGitHubPushes, MaxMirrorCrashes \* bounds

ASSUME MirrorConstants == /\ NoTip \notin Tips /\ Main \notin Branches
                          /\ History \in [Tips -> SUBSET Tips]
                          /\ \A t \in Tips : t \in History[t]
                          /\ IsFiniteSet(Branches) /\ QueueCap \in Nat

VARIABLES mlog,      \* the forge's event log
          emitted,   \* emitted_outbound
          ingested,  \* ingested_inbound
          authority, \* AuthorityModel.authority
          ghub,      \* GitHub's refs
          mq,        \* OutageQueue.entries
          snap,      \* the last snapshot of the queue
          flying,    \* the entry drain has dequeued and is replicating
          reports,   \* PushReports of the running drain, oldest first
          arbitrated,\* history: the <<branch, GitHub tip>> pairs arbitrated
          counts     \* history: pushes, users' refs, moves, emissions

mirrorVars == <<mlog, emitted, ingested, authority, ghub, mq, snap, flying,
                reports, arbitrated, counts>>

MirrorRefs == Branches \cup {Main}
(* The side refs the engine mints: their name carries the preserved tip. *)
incident_ref_name(ref, tip) == <<"incidents", ref, tip>>
proposed_ref_name(tip) == <<"proposed", Main, tip>>
SideRefs == ({"incidents"} \X Branches \X Tips) \cup ({"proposed"} \X {Main} \X Tips)
ASSUME SideRefsApart == SideRefs \cap MirrorRefs = {} /\ NoTip \notin SideRefs \cup MirrorRefs
NoEntry == [seq |-> 0]
PrincipalClasses == {"human", "orchestrator", "worker", "model", "none"}

(* git's fast-forward rule: nothing that `old` reaches is lost. *)
FastForward(old, new) == old = NoTip \/ (new # NoTip /\ old \in History[new])

-----------------------------------------------------------------------------
(* The forge side: BidirSync over its log. *)

RefRecord(r, t) == [kind |-> "ref.update", ref |-> r, tip |-> t, by |-> "any"]
LandRecord(t, c) == [kind |-> "intent.landed", ref |-> Main, tip |-> t, by |-> c]
DenyRecord(c) == [kind |-> "authz.denied", ref |-> NoTip, tip |-> NoTip, by |-> c]

(* Replay: the last record that moves a ref gives its tip. *)
TipAt(log, at) == IF at = {} THEN NoTip ELSE log[Max(at)].tip
forge_tip(r) == TipAt(mlog, {i \in DOMAIN mlog : mlog[i].ref = r})

(* The raw-push recorder takes any attributed principal; an empty chain is   *)
(* refused before anything is written, so only attributed calls are steps.   *)
append_external_update(r, t) == mlog' = Append(mlog, RefRecord(r, t))

MirrorRoom == Len(mlog) < MaxMirrorLog

(* emits and moves are counted per ref, for the echo property. *)
Moved(r) == [counts EXCEPT !.moves[r] = @ + 1]
Emit(r, t) == emitted' = [emitted EXCEPT ![r] = t]

(* QueueEntry::new + OutageQueue::enqueue: at capacity the entry is handed   *)
(* back to the producer as an incident, and nothing already queued is lost.  *)
is_full == Len(mq) >= QueueCap
enqueue(r, t) ==
  mq' = IF is_full THEN mq
        ELSE Append(mq, [seq |-> counts.seqs + 1, ref |-> r, oid |-> t])
Enqueued(cs, r) ==
  [cs EXCEPT !.seqs = @ + 1, !.emits[r] = @ + 1,
             !.backpressure = @ + (IF is_full THEN 1 ELSE 0)]

ingest_github_push_direct(r, t) ==
  /\ append_external_update(r, t)
  /\ ingested' = [ingested EXCEPT ![r] = t]
  /\ counts' = Moved(r)

(* ingest_github_push: the protected ref is rerouted to a proposed ref; any  *)
(* other ref is recorded as an external change and noted as ingested.        *)
ingest_github_push(r, t) ==
  IF r = Main
  THEN /\ append_external_update(proposed_ref_name(t), t)
       /\ UNCHANGED <<ingested, counts>>
  ELSE /\ append_external_update(r, t)
       /\ ingested' = [ingested EXCEPT ![r] = t]
       /\ counts' = Moved(r)

(* The webhook of a GitHub user's push is what calls it. *)
Ingest ==
  /\ MirrorRoom
  /\ \E r \in MirrorRefs :
       /\ ghub[r] # NoTip /\ counts.user[r]
       /\ ingest_github_push(r, ghub[r])
  /\ UNCHANGED <<emitted, authority, ghub, mq, snap, flying, reports, arbitrated>>

(* The D14 matrix row for landing: the orchestrator alone. *)
authorize_land(c) == c = "orchestrator"

(* land_via_queue: a denial is audited on the log and changes nothing else. *)
land_via_queue(t, c) ==
  IF authorize_land(c)
  THEN /\ mlog' = Append(mlog, LandRecord(t, c))
       /\ authority' = [authority EXCEPT ![Main] = "Forge"]
       /\ counts' = Moved(Main)
  ELSE /\ mlog' = Append(mlog, DenyRecord(c))
       /\ UNCHANGED <<authority, counts>>

Land ==
  /\ MirrorRoom
  /\ \E t \in Tips, c \in Chains : land_via_queue(t, c)
  /\ UNCHANGED <<emitted, ingested, ghub, mq, snap, flying, reports, arbitrated>>

(* A forge-side branch update: recorded, booked as emitted, handed out. *)
mirror_out_forge_branch(r, t) ==
  /\ append_external_update(r, t)
  /\ Emit(r, t)

MirrorOut ==
  /\ MirrorRoom
  /\ \E r \in Branches, t \in Tips :
       /\ mirror_out_forge_branch(r, t)
       /\ enqueue(r, t)
       /\ counts' = Enqueued(Moved(r), r)
  /\ UNCHANGED <<ingested, authority, ghub, snap, flying, reports, arbitrated>>

(* converge_outbound: a tip that was already emitted is not emitted again. *)
converge_outbound_due(r) == forge_tip(r) # NoTip /\ emitted[r] # forge_tip(r)

ConvergeOutbound ==
  /\ \E r \in MirrorRefs :
       /\ converge_outbound_due(r)
       /\ counts.emits[r] <= MaxMirrorLog
       /\ Emit(r, forge_tip(r))
       /\ enqueue(r, forge_tip(r))
       /\ counts' = Enqueued(counts, r)
  /\ UNCHANGED <<mlog, ingested, authority, ghub, snap, flying, reports, arbitrated>>

(* converge_inbound: quiet when the observed tip is the one last emitted or  *)
(* the one last ingested, otherwise it is ingested as that branch.           *)
converge_inbound_due(r) ==
  ghub[r] # NoTip /\ emitted[r] # ghub[r] /\ ingested[r] # ghub[r]

ConvergeInbound ==
  /\ MirrorRoom
  /\ \E r \in Branches :
       converge_inbound_due(r) /\ ingest_github_push(r, ghub[r])
  /\ UNCHANGED <<emitted, authority, ghub, mq, snap, flying, reports, arbitrated>>

(* arbitrate_branch_divergence: the forge tip stays, the GitHub tip is kept  *)
(* under a side ref of its own, the forge is the arbiter of the branch.      *)
Arbitrate ==
  /\ MirrorRoom
  /\ \E r \in Branches :
       /\ ghub[r] # NoTip /\ forge_tip(r) # NoTip /\ ghub[r] # forge_tip(r)
       /\ append_external_update(incident_ref_name(r, ghub[r]), ghub[r])
       /\ authority' = [authority EXCEPT ![r] = "Forge"]
       /\ arbitrated' = arbitrated \cup {<<r, ghub[r]>>}
  /\ UNCHANGED <<emitted, ingested, ghub, mq, snap, flying, reports, counts>>

(* One reflect pass over the refs in `order`: the first foreign GitHub tip   *)
(* halts it, at most ReflectBound refs are emitted, an emitted tip is        *)
(* skipped.                                                                  *)
ReflectForeign(r) ==
  ghub[r] \notin {NoTip, emitted[r], forge_tip(r)}
ReflectOne(r, acc) ==
  IF acc.halted \/ Len(acc.out) >= ReflectBound THEN acc
  ELSE IF ReflectForeign(r) THEN [acc EXCEPT !.halted = TRUE]
  ELSE IF emitted[r] = forge_tip(r) THEN acc
  ELSE [acc EXCEPT !.out = Append(@, r)]
reflect_bounded(order) ==
  LET pass[i \in 0..Len(order)] ==
        IF i = 0 THEN [out |-> <<>>, halted |-> FALSE] ELSE ReflectOne(order[i], pass[i - 1])
  IN  pass[Len(order)]

Reflect ==
  /\ \E S \in SUBSET {r \in MirrorRefs : forge_tip(r) # NoTip} :
     \E order \in SetToSeqs(S) :
       LET out == reflect_bounded(order).out
           room == QueueCap - Len(mq)
       IN  /\ out # <<>>
           /\ \A r \in Range(out) : counts.emits[r] <= MaxMirrorLog
           /\ emitted' = [r \in MirrorRefs |->
                            IF r \in Range(out) THEN forge_tip(r) ELSE emitted[r]]
           /\ mq' = mq \o [i \in 1..(IF Len(out) <= room THEN Len(out) ELSE room) |->
                             [seq |-> counts.seqs + i, ref |-> out[i],
                              oid |-> forge_tip(out[i])]]
           /\ counts' = [counts EXCEPT
                           !.seqs = @ + Len(out),
                           !.emits = [r \in MirrorRefs |-> counts.emits[r] + (IF r \in Range(out) THEN 1 ELSE 0)],
                           !.backpressure = @ + (IF Len(out) > room THEN Len(out) - room ELSE 0)]
  /\ UNCHANGED <<mlog, ingested, authority, ghub, snap, flying, reports, arbitrated>>

-----------------------------------------------------------------------------
(* The outbound side: one drain at a time holds the queue. *)

Idle == flying = NoEntry

Report(e, verdict) ==
  reports' = Append(reports, [seq |-> e.seq, ref |-> e.ref, oid |-> e.oid, verdict |-> verdict])

(* drain takes the next entry off the queue and replicates it.               *)
(* LiveGitHubTarget::push_ref pushes ref:ref, i.e. the tip the forge's       *)
(* repository has NOW, without force; git refuses a push that is not a       *)
(* fast-forward, and the transport may fail.                                 *)
PushRef ==
  /\ Idle /\ mq # <<>>
  /\ mq' = Tail(mq)
  /\ LET e == Head(mq) IN
     \/ /\ FastForward(ghub[e.ref], forge_tip(e.ref))
        /\ ghub' = [ghub EXCEPT ![e.ref] = forge_tip(e.ref)]
        /\ flying' = e
        /\ UNCHANGED reports
     \/ Report(e, "rejected") /\ UNCHANGED <<ghub, flying>>
  /\ UNCHANGED <<mlog, emitted, ingested, authority, snap, arbitrated, counts>>

(* ls-remote reads what GitHub holds by then; replicate compares it with the *)
(* entry's oid.  A failed read is a rejection.                               *)
verify_push(expected, observed) == IF expected = observed THEN "verified" ELSE "diverged"
LsRemote ==
  /\ ~Idle
  /\ \/ Report(flying, verify_push(flying.oid, ghub[flying.ref]))
     \/ Report(flying, "rejected")
  /\ flying' = NoEntry
  /\ UNCHANGED <<mlog, emitted, ingested, authority, ghub, mq, snap, arbitrated, counts>>

(* The queue is serialised between drains, and restored from the last        *)
(* snapshot when the process comes back.                                     *)
Snapshot ==
  /\ Idle /\ snap # mq
  /\ snap' = mq
  /\ reports' = <<>>
  /\ UNCHANGED <<mlog, emitted, ingested, authority, ghub, mq, flying, arbitrated, counts>>

Restore(q) == q
MirrorCrash ==
  /\ counts.crashes < MaxMirrorCrashes
  /\ mq' = Restore(snap) /\ flying' = NoEntry /\ reports' = <<>>
  /\ counts' = [counts EXCEPT !.crashes = @ + 1]
  /\ UNCHANGED <<mlog, emitted, ingested, authority, ghub, snap, arbitrated>>

(* A GitHub user pushes, with or without force. *)
GitHubPush ==
  /\ counts.pushes < MaxGitHubPushes
  /\ \E r \in MirrorRefs, t \in Tips :
       /\ ghub[r] # t
       /\ ghub' = [ghub EXCEPT ![r] = t]
       /\ counts' = [counts EXCEPT !.pushes = @ + 1, !.user[r] = TRUE]
  /\ UNCHANGED <<mlog, emitted, ingested, authority, mq, snap, flying, reports, arbitrated>>

-----------------------------------------------------------------------------
MirrorInit ==
  /\ mlog = <<>>
  /\ emitted = [r \in MirrorRefs |-> NoTip] /\ ingested = [r \in MirrorRefs |-> NoTip]
  /\ authority = [r \in MirrorRefs |-> IF r = Main THEN "Forge" ELSE NoTip]
  /\ ghub = [r \in MirrorRefs |-> NoTip]
  /\ mq = <<>> /\ snap = <<>> /\ flying = NoEntry /\ reports = <<>>
  /\ arbitrated = {}
  /\ counts = [pushes |-> 0, crashes |-> 0, seqs |-> 0, backpressure |-> 0,
               moves |-> [r \in MirrorRefs |-> 0], user |-> [r \in MirrorRefs |-> FALSE],
               emits |-> [r \in MirrorRefs |-> 0]]

SyncNext == Ingest \/ Land \/ MirrorOut \/ ConvergeOutbound \/ ConvergeInbound
            \/ Arbitrate \/ Reflect
WriterNext == PushRef \/ LsRemote \/ Snapshot \/ MirrorCrash
MirrorNext == SyncNext \/ WriterNext \/ GitHubPush
MirrorSpec == MirrorInit /\ [][MirrorNext]_mirrorVars

-----------------------------------------------------------------------------
(***************************************************************************)
(* Properties                                                              *)
(***************************************************************************)

(* Rules 2 and 5: the forge's main is where the last authorised landing put  *)
(* it, whatever GitHub pushed or the engine arbitrated, and the forge is its *)
(* only authority.                                                           *)
MainOnlyLanded ==
  LET lands == {i \in DOMAIN mlog : mlog[i].kind = "intent.landed"}
  IN  /\ forge_tip(Main) = TipAt(mlog, lands)
      /\ \A i \in lands : mlog[i].by = "orchestrator"
      /\ authority[Main] = "Forge"

(* Rule 4: a GitHub tip that lost an arbitration is still at its incident    *)
(* ref, and the ref of the branch itself never took that tip from the        *)
(* arbitration (only an ingest, a forge update or a landing moves a ref).    *)
LosersKept ==
  /\ \A p \in arbitrated : forge_tip(incident_ref_name(p[1], p[2])) = p[2]
  /\ \A r \in MirrorRefs :
       counts.moves[r] = Cardinality({i \in DOMAIN mlog : mlog[i].ref = r})

MirrorArbitration == MainOnlyLanded /\ LosersKept

(* Rule 3, outbound: a ref is emitted at most once per move of its forge     *)
(* tip, whichever of converge_outbound, mirror_out_forge_branch and          *)
(* reflect_bounded runs first and in whatever order.                         *)
EmitOncePerMove == \A r \in MirrorRefs : counts.emits[r] <= counts.moves[r]

(* Rule 3, inbound: the engine never ingests as GitHub's a tip that only     *)
(* ever reached GitHub through its own writer: a branch GitHub users have    *)
(* not touched is never recorded from GitHub's side.                         *)
NoInboundEcho == \A r \in Branches : ~counts.user[r] => ingested[r] = NoTip

(* The queue keeps first-in first-out order across snapshots, crashes and    *)
(* restores, never passes its capacity, and loses nothing the last snapshot  *)
(* holds: it is still queued, in flight or reported.                         *)
Ascending(s) == \A i, j \in DOMAIN s : i < j => s[i].seq < s[j].seq
QueueInOrder ==
  LET run == reports \o (IF Idle THEN <<>> ELSE <<flying>>) \o mq
  IN  /\ Ascending(run) /\ Len(mq) <= QueueCap
      /\ \A i \in DOMAIN snap : \E j \in DOMAIN run : run[j].seq = snap[i].seq
      /\ Len(run) <= counts.seqs - counts.backpressure

(* The two-way sync: main moves only by landing and a losing tip is kept, a  *)
(* ref is emitted at most once per move, and the outage queue keeps its      *)
(* order across crashes and its bound.                                       *)
MirrorInSync == MirrorArbitration /\ EmitOncePerMove /\ QueueInOrder
=============================================================================
