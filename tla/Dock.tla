------------------------------- MODULE Dock -------------------------------
(***************************************************************************)
(* Worktree docks (hugit-cli, dock/): a dock is coined when a worktree is  *)
(* checked out, its cost samples are spooled on disk and flushed into the  *)
(* log, its commits and costs are attributed, it lands and it is closed.   *)
(* Every verb is a process of its own; a verb holds the log lock from the  *)
(* load to the atomic write, and everything it does outside that window is *)
(* a step that other verbs interleave with.                                *)
(***************************************************************************)
EXTENDS Naturals, Sequences, FiniteSets, SequencesExt

CONSTANTS Verbs,          \* processes
          RepoGitdirs,    \* gitdirs of main repositories
          WorktreeGitdirs,\* gitdirs with a `worktrees` path segment
          Branches,       \* a sequence: branches in byte order
          DockOrder,      \* a sequence: dock ids (gitdir, branch) in hash order
          Samples,        \* gateway samples: [run, dock, cost]
          Capacity,       \* SPOOL_CAPACITY
          Envs,           \* values of HUGIT_DOCK_ID: NoDock or a dock id
          MaxClock, MaxCommits, MaxOps

Gitdirs == RepoGitdirs \union WorktreeGitdirs
NoDock == <<>>

VARIABLES
  dlog,     \* the event log
  gone,     \* gitdirs whose directory is gone
  marker,   \* gitdirs that hold the hugit-dock marker
  tip,      \* the branch tip in git, per branch
  spool,    \* the spool file of each dock
  verb,     \* what each process is doing
  clock,    \* milliseconds
  ops,      \* verbs started so far (bound)
  taken,    \* samples the spool has accepted
  late      \* those accepted while a flush of their spool was under way

dockVars == <<dlog, gone, marker, tip, spool, verb, clock, ops, taken, late>>

Idle == [at |-> "idle"]

DockRecord(g, b, ts, p, parent) ==
  [kind |-> "dock.record", id |-> <<g, b>>, gitdir |-> g, branch |-> b,
   ts |-> ts, pid |-> p, parent |-> parent]
SampleRecord(s) ==
  [kind |-> "cost.sample", run |-> s.run, ts |-> s.ts, id |-> s.dock, cost |-> s.cost,
   intact |-> TRUE]
CommitRecord(b, oid) == [kind |-> "ref.update", branch |-> b, target |-> oid]
LandedRecord(id) == [kind |-> "dock.landed", id |-> id]
GhostRecord(id) == [kind |-> "dock.ghost", id |-> id]
ReconcileRecord(env, g) == [kind |-> "dock.reconcile", id |-> env, gitdir |-> g]
CloseRecord(lane) ==
  [kind |-> "dock.close", id |-> lane.id, cost |-> lane.cost, commits |-> lane.commits,
   bucket |-> lane.bucket]

OfKind(log, k) == SelectSeq(log, LAMBDA r: r.kind = k)
all_dock_payloads(log) == OfKind(log, "dock.record")
Has(log, k, id) == \E r \in ToSet(OfKind(log, k)): r.id = id

FirstWhere(s, Ok(_)) ==
  LET n == SelectInSeq(s, Ok) IN IF n = 0 THEN NoDock ELSE s[n]
find_payload_by_gitdir(log, g) ==
  FirstWhere(all_dock_payloads(log), LAMBDA r: r.gitdir = g)
find_dock_payload(log, id) == FirstWhere(all_dock_payloads(log), LAMBDA r: r.id = id)

----------------------------------------------------------------------------
(* Attribution: a pure reading of the log.                                 *)

\* The last record of each dock id is its view.
views(log) == {r.id: r \in ToSet(all_dock_payloads(log))}
ViewOf(log, id) == SelectLastInSubSeq(log, 1, Len(log), LAMBDA r: r.kind = "dock.record" /\ r.id = id)

state_of(log, id) ==
  IF log[ViewOf(log, id)].gitdir \in gone THEN "ghost"
  ELSE IF Has(log, "dock.close", id) THEN "closed" ELSE "open"

\* The lane of one sample.
sample_lane(log, s) ==
  IF ~s.intact THEN "tampered"
  ELSE IF s.id = NoDock THEN "unlabeled"
  ELSE IF s.id \notin views(log) THEN "reconciled"
  ELSE IF s.ts <= log[ViewOf(log, s.id)].ts THEN "late"
  ELSE "dock"

Cost(s) == FoldSeq(LAMBDA r, n: n + r.cost, 0, s)
LaneCost(log, lane) ==
  Cost(SelectSeq(OfKind(log, "cost.sample"), LAMBDA s: sample_lane(log, s) = lane))
DockCost(log, id) ==
  Cost(SelectSeq(OfKind(log, "cost.sample"),
                 LAMBDA s: s.id = id /\ sample_lane(log, s) = "dock"))

BranchCommits(log, b) ==
  Len(SelectSeq(log, LAMBDA r: r.kind = "ref.update" /\ r.branch = b))
Docks(log) == SelectSeq(DockOrder, LAMBDA id: id \in views(log))
OnBranch(log, b) ==
  SelectSeq(Docks(log), LAMBDA id: log[ViewOf(log, id)].branch = b)
repo_scope(log) ==
  FirstWhere(Docks(log), LAMBDA id: log[ViewOf(log, id)].gitdir \in RepoGitdirs)

\* One branch of the commit pass: the count goes to the first dock of the
\* branch that has none yet, or to the repository's dock when the branch has
\* no dock.
commit_pass(log, acc, b) ==
  LET n == BranchCommits(log, b)
      free == SelectSeq(OnBranch(log, b), LAMBDA id: acc.of[id] = 0)
  IN IF n = 0 THEN acc
     ELSE IF OnBranch(log, b) # <<>>
     THEN IF free = <<>> THEN acc ELSE [acc EXCEPT !.of[free[1]] = n]
     ELSE IF repo_scope(log) # NoDock
     THEN [acc EXCEPT !.of[repo_scope(log)] = @ + n, !.linked = Append(@, b)]
     ELSE [acc EXCEPT !.unlabeled = @ + n]

commits(log) ==
  FoldLeft(LAMBDA acc, b: commit_pass(log, acc, b),
           [of |-> [id \in ToSet(DockOrder) |-> 0], linked |-> <<>>, unlabeled |-> 0],
           Branches)

bucket_of(log, id) ==
  IF DockCost(log, id) = 0 THEN "unlabeled"
  ELSE IF \E o \in views(log): /\ log[ViewOf(log, o)].branch = log[ViewOf(log, id)].branch
                               /\ commits(log).of[o] > 0
  THEN "matched" ELSE "investigated"

attribute_on(log, id) ==
  [id |-> id, cost |-> DockCost(log, id), commits |-> commits(log).of[id],
   bucket |-> bucket_of(log, id)]

\* The insight of one branch sums the lanes of its docks.
compute_insights_on(log, b) ==
  [cost |-> FoldSeq(LAMBDA id, n: n + DockCost(log, id), 0, OnBranch(log, b)),
   matched |-> FoldSeq(LAMBDA id, n: n + IF bucket_of(log, id) = "matched"
                                         THEN DockCost(log, id) ELSE 0,
                       0, OnBranch(log, b))]

----------------------------------------------------------------------------
(* Verbs.                                                                  *)

Start(p) == verb[p] = Idle /\ ops < MaxOps /\ ops' = ops + 1
Goto(p, v) == verb' = [verb EXCEPT ![p] = v]
Finish(p) == Goto(p, Idle)
Quiet == UNCHANGED <<gone, marker, tip, spool, clock, taken, late>>

\* coin_dock up to the payload: a gitdir that has a marker and a record is
\* coined already; an env dock of another gitdir becomes the parent.
parent_of(log, g, env) ==
  IF env = NoDock THEN NoDock
  ELSE LET e == find_dock_payload(log, env)
       IN IF e # NoDock /\ e.gitdir = g THEN NoDock ELSE env

Coined(log, g) == g \in marker /\ find_payload_by_gitdir(log, g) # NoDock

coin_dock(p, g, b, env) ==
  IF Coined(dlog, g) THEN Finish(p)
  ELSE Goto(p, [at |-> "marker",
                payload |-> DockRecord(g, b, clock, p, parent_of(dlog, g, env))])

coin_inner(p, g, b, env) ==
  /\ Start(p) /\ g \notin gone
  /\ coin_dock(p, g, b, env)
  /\ UNCHANGED dlog /\ Quiet

CoinMarker(p) ==
  /\ verb[p].at = "marker"
  /\ \/ /\ verb[p].payload.gitdir \in gone     \* the write fails
        /\ Finish(p) /\ UNCHANGED marker
     \/ /\ verb[p].payload.gitdir \notin gone
        /\ marker' = marker \union {verb[p].payload.gitdir}
        /\ Goto(p, [verb[p] EXCEPT !.at = "append"])
  /\ UNCHANGED <<dlog, gone, tip, spool, clock, ops, taken, late>>

\* Under the log lock: the duplicate check compares whole payloads.
append_dock_record(p) ==
  /\ verb[p].at = "append"
  /\ dlog' = IF verb[p].payload \in ToSet(all_dock_payloads(dlog)) THEN dlog
             ELSE Append(dlog, verb[p].payload)
  /\ Finish(p) /\ UNCHANGED ops /\ Quiet

append_deduped(log, rec) ==
  IF \E r \in ToSet(log): r = rec THEN log ELSE Append(log, rec)

\* resolve: the env dock when it is this gitdir's, else the one record of the
\* gitdir, else coin; a mismatch of env and gitdir is recorded best-effort.
resolve(p, g, b, env) ==
  /\ Start(p) /\ g \notin gone
  /\ LET e == find_dock_payload(dlog, env)
         mine == SelectSeq(all_dock_payloads(dlog), LAMBDA r: r.gitdir = g)
         own == env # NoDock /\ e # NoDock /\ e.gitdir = g
     IN /\ dlog' \in IF env = NoDock \/ own THEN {dlog}
                     ELSE {dlog, append_deduped(dlog, ReconcileRecord(env, g))}
        /\ IF ~own /\ mine = <<>> /\ (g \in marker \/ g \in RepoGitdirs)
           THEN coin_dock(p, g, b, NoDock)
           ELSE Finish(p)
  /\ Quiet

\* mark_ghosts, run by `dock ls`: each dock whose gitdir is gone is recorded once.
mark_ghosts(p) ==
  /\ Start(p)
  /\ dlog' = FoldLeft(LAMBDA log, r: IF r.gitdir \in gone
                                     THEN append_deduped(log, GhostRecord(r.id)) ELSE log,
                      dlog, all_dock_payloads(dlog))
  /\ Finish(p) /\ Quiet

\* close_dock before the lock: a recorded close is replayed, otherwise the
\* lane is attributed from the log as it is now.
existing_close(log, id) == Has(log, "dock.close", id)

CloseRead(p, id) ==
  IF existing_close(dlog, id) \/ id \notin views(dlog) THEN Finish(p)
  ELSE Goto(p, [at |-> "close", lane |-> attribute_on(dlog, id), read |-> Len(dlog)])

run_close(p, id) ==
  /\ Start(p)
  /\ CloseRead(p, id)
  /\ UNCHANGED dlog /\ Quiet

\* Mutant: the close is not looked for again under the lock.
close_recheck_never(id) == FALSE

close_recheck(id) == existing_close(dlog, id)

close_dock(p) ==
  /\ verb[p].at = "close"
  /\ dlog' = IF close_recheck(verb[p].lane.id) THEN dlog
             ELSE Append(dlog, CloseRecord(verb[p].lane))
  /\ Finish(p) /\ UNCHANGED ops /\ Quiet

\* reconcile_ghosts closes the docks whose gitdir is gone.
reconcile_ghosts(p, id) ==
  /\ id \in views(dlog) /\ state_of(dlog, id) = "ghost"
  /\ run_close(p, id)

\* land_dock, under the lock: the recorded tip of the branch against the tip
\* in the worktree, and the acceptance check.
dock_tip(log, b) ==
  LET n == SelectLastInSeq(log, LAMBDA r: r.kind = "ref.update" /\ r.branch = b)
  IN IF n = 0 THEN 0 ELSE log[n].target

byte_identity(log, id) ==
  LET d == find_dock_payload(log, id)
      recorded == dock_tip(log, d.branch)
      observed == IF d.gitdir \in gone THEN 0 ELSE tip[d.branch]
  IN IF recorded = 0 \/ observed = 0 THEN "no_recorded_tip"
     ELSE IF recorded = observed THEN "verified" ELSE "diverged"

append_landed(log, id) ==
  IF Has(log, "dock.landed", id) THEN log ELSE Append(log, LandedRecord(id))

\* The lock is dropped after the write, and only a fresh landing goes on to
\* close the dock.
land_dock(p, id, accept) ==
  /\ Start(p)
  /\ find_dock_payload(dlog, id) # NoDock
  /\ dlog' = IF byte_identity(dlog, id) = "verified" /\ accept = "green"
             THEN append_landed(dlog, id) ELSE dlog
  /\ Goto(p, IF dlog' # dlog THEN [at |-> "landed", id |-> id] ELSE Idle)
  /\ Quiet

LandClose(p) ==
  /\ verb[p].at = "landed"
  /\ CloseRead(p, verb[p].id)
  /\ UNCHANGED <<dlog, ops>> /\ Quiet

----------------------------------------------------------------------------
(* The cost spool.                                                         *)

Flushing(id) == \E p \in Verbs: verb[p].at \in {"flush", "ack"} /\ verb[p].id = id

\* CostSpool::push; a full spool refuses the sample to its caller.
push(s) ==
  LET sample == [run |-> s.run, dock |-> s.dock, cost |-> s.cost, ts |-> clock]
  IN /\ s.run \notin taken
     /\ Len(spool[s.dock]) < Capacity
     /\ taken' = taken \union {s.run}
     /\ spool' = [spool EXCEPT ![s.dock] = Append(@, sample)]
     /\ late' = IF Flushing(s.dock) THEN late \union {s.run} ELSE late
     /\ UNCHANGED <<dlog, gone, marker, tip, verb, clock, ops>>

\* flush_dock: drain leaves the file in place.
drain(p, id) ==
  /\ Start(p) /\ spool[id] # <<>>
  /\ Goto(p, [at |-> "flush", id |-> id, todo |-> spool[id]])
  /\ UNCHANGED dlog /\ Quiet

sample_known(log, s) ==
  \E r \in ToSet(OfKind(log, "cost.sample")): r.run = s.run /\ r.ts = s.ts

\* Each sample is appended under the lock, unless its key is in the log; a
\* failed append ends the flush with the file kept.
append_cost_sample(p) ==
  LET s == Head(verb[p].todo)
      rest == Tail(verb[p].todo)
  IN /\ verb[p].at = "flush"
     /\ \/ /\ dlog' = IF sample_known(dlog, s) THEN dlog ELSE Append(dlog, SampleRecord(s))
           /\ Goto(p, IF rest = <<>> THEN [at |-> "ack", id |-> verb[p].id]
                      ELSE [verb[p] EXCEPT !.todo = rest])
        \/ Finish(p) /\ UNCHANGED dlog
     /\ UNCHANGED ops /\ Quiet

ack(p) ==
  /\ verb[p].at = "ack"
  /\ spool' = [spool EXCEPT ![verb[p].id] = <<>>]
  /\ Finish(p)
  /\ UNCHANGED <<dlog, gone, marker, tip, clock, ops, taken, late>>

----------------------------------------------------------------------------
(* Environment.                                                            *)

CrashVerb(p) ==
  /\ verb[p] # Idle
  /\ Finish(p) /\ UNCHANGED <<dlog, ops>> /\ Quiet

\* A commit moves the tip in git; the hook records it, now or never.
Commit(b) ==
  LET n == Len(SelectSeq(dlog, LAMBDA r: r.kind = "ref.update"))
  IN /\ n < MaxCommits
     /\ tip' = [tip EXCEPT ![b] = n + 1]
     /\ dlog' \in {dlog, Append(dlog, CommitRecord(b, n + 1))}
     /\ UNCHANGED <<gone, marker, spool, verb, clock, ops, taken, late>>

RemoveWorktree(g) ==
  /\ g \in WorktreeGitdirs \ gone
  /\ gone' = gone \union {g}
  /\ marker' = marker \ {g}
  /\ UNCHANGED <<dlog, tip, spool, verb, clock, ops, taken, late>>

Tick == /\ clock < MaxClock
        /\ clock' = clock + 1
        /\ UNCHANGED <<dlog, gone, marker, tip, spool, verb, ops, taken, late>>

DockBase ==
  /\ gone = {}
  /\ tip = [b \in ToSet(Branches) |-> 0]
  /\ spool = [id \in ToSet(DockOrder) \union {NoDock} |-> <<>>]
  /\ verb = [p \in Verbs |-> Idle]
  /\ clock = 1 /\ ops = 0 /\ taken = {} /\ late = {}

DockInit == DockBase /\ dlog = <<>> /\ marker = {}


Coining(p) ==
  \/ \E g \in Gitdirs, b \in ToSet(Branches), env \in Envs:
       <<g, b>> \in ToSet(DockOrder) /\ coin_inner(p, g, b, env)
  \/ CoinMarker(p) \/ append_dock_record(p)

Settling(p) ==
  \/ \E g \in Gitdirs, b \in ToSet(Branches), env \in Envs:
       <<g, b>> \in ToSet(DockOrder) /\ resolve(p, g, b, env)
  \/ mark_ghosts(p)
  \/ \E id \in ToSet(DockOrder):
       run_close(p, id) \/ reconcile_ghosts(p, id)
         \/ \E accept \in {"green", "red"}: land_dock(p, id, accept)
  \/ close_dock(p) \/ LandClose(p)

Spooling(p) ==
  \/ \E id \in DOMAIN spool: drain(p, id)
  \/ append_cost_sample(p) \/ ack(p)

DockNext ==
  \/ \E p \in Verbs: Coining(p) \/ Settling(p) \/ Spooling(p) \/ CrashVerb(p)
  \/ \E s \in Samples: push(s)
  \/ \E b \in ToSet(Branches): Commit(b)
  \/ \E g \in WorktreeGitdirs: RemoveWorktree(g)
  \/ Tick

DockSpec == DockInit /\ [][DockNext]_dockVars

----------------------------------------------------------------------------
(* Properties.                                                             *)

Count(log, k, id) == Len(SelectSeq(log, LAMBDA r: r.kind = k /\ r.id = id))

(* A dock is closed and landed at most once, however close, reconcile and   *)
(* land interleave, and the numbers a close records are the attribution of  *)
(* the log at one earlier moment when the dock was known.                   *)
SettledOnce ==
  /\ \A id \in ToSet(DockOrder):
       Count(dlog, "dock.close", id) <= 1 /\ Count(dlog, "dock.landed", id) <= 1
  /\ \A i \in 1..Len(dlog): dlog[i].kind = "dock.close" =>
       \E n \in 1..(i - 1):
         LET then == SubSeq(dlog, 1, n)
         IN /\ dlog[i].id \in views(then)
            /\ dlog[i] = CloseRecord(attribute_on(then, dlog[i].id))

(* A sample the spool took is in the spool or in the log, once, unless it   *)
(* arrived while a flush of the same spool was between drain and ack.       *)
Held(run) ==
  \/ \E id \in DOMAIN spool: \E t \in ToSet(spool[id]): t.run = run
  \/ \E r \in ToSet(OfKind(dlog, "cost.sample")): r.run = run

SamplesKept ==
  /\ \A run \in taken \ late: Held(run)
  /\ \A run \in taken:
       Len(SelectSeq(dlog, LAMBDA r: r.kind = "cost.sample" /\ r.run = run)) <= 1

(* Attribution counts every sample's cost in exactly one lane, and no       *)
(* commit twice.                                                            *)
AttributionExact ==
  /\ Cost(OfKind(dlog, "cost.sample"))
       = LaneCost(dlog, "tampered") + LaneCost(dlog, "unlabeled") + LaneCost(dlog, "reconciled")
         + LaneCost(dlog, "late")
         + FoldSeq(LAMBDA b, n: n + compute_insights_on(dlog, b).cost, 0, Branches)
  /\ FoldSeq(LAMBDA id, n: n + commits(dlog).of[id], 0, DockOrder) + commits(dlog).unlabeled
       <= Len(OfKind(dlog, "ref.update"))

(* "every sample and every commit ends up in exactly one lane/bucket" (the  *)
(* comment on attribute): no recorded commit is attributed nowhere.         *)
CommitsConserved ==
  FoldSeq(LAMBDA id, n: n + commits(dlog).of[id], 0, DockOrder) + commits(dlog).unlabeled
    = Len(OfKind(dlog, "ref.update"))

(* "at most ONE open dock per (gitdir, branch)" (the module's contract S1). *)
OneDock ==
  \A i, j \in 1..Len(dlog):
    dlog[i].kind = "dock.record" /\ dlog[j].kind = "dock.record" /\ dlog[i].id = dlog[j].id
    => i = j

(* "it NEVER silently drops a sample" (spool.rs): a sample pushed is in its  *)
(* spool or in the log.                                                     *)
NoSampleLost == \A run \in taken: Held(run)
=============================================================================
