------------------------------ MODULE Porcelain ------------------------------
(***************************************************************************)
(* The porcelain verbs that change the canonical event log: `hugit         *)
(* campaign`, `pr`, `land queue`, `intent new`, `verdict` and `ctx usage`. *)
(* A verb loads the log, decides and replaces the log while it holds the   *)
(* log's file lock, so a verb is one step here; what the lock is worth is  *)
(* the subject of FileLock.  `intent new` also keeps a store of its own    *)
(* under a second lock and is taken apart into its file operations.  A     *)
(* verb that refuses, or finds its work done, leaves the log as it is and  *)
(* is a stuttering step.                                                   *)
(***************************************************************************)
EXTENDS Naturals, Sequences, FiniteSets, SequencesExt

CONSTANTS
    Campaigns, Prs, Intents,
    Commits,            \* object ids the hooks may capture
    Panels,             \* the lens -> outcome maps reviewers submit
    Authors,            \* processes that run `intent new`
    Mixes,              \* bound: the verbs of a behaviour, by record kind, its authors,
                        \* and the length of the log at which they stop
    MaxCrashes          \* bound: crashes of authors

ASSUME PanelsAssumption ==
    \A p \in Panels : \A l \in DOMAIN p : p[l] \in {"approve", "fix_first", "reject"}

ASSUME IntentsAssumption == IsFiniteSet(Intents)

ASSUME BoundsAssumption ==
    MaxCrashes \in Nat /\ \A m \in Mixes : m.authors \subseteq Authors

VARIABLES
    log,                \* the canonical event log
    store,              \* .hugit/intents.json: intents, and those tagged with the log
    author,             \* per author: position in `intent new` and its copy of the store
    crashes,
    mix                 \* the member of Mixes of this behaviour

vars == <<log, store, author, crashes, mix>>

------------------------------------------------------------------------------
(* Projections of the log.                                                 *)

\* The log knows records of this kind.
HasKind(l, k) == \E j \in 1..Len(l) : l[j].kind = k

\* Where the records of a kind are that name x in their field f.
RecordsAt(l, k, f, x) == {j \in 1..Len(l) : l[j].kind = k /\ l[j][f] = x}

HasRecord(l, k, f, x) == RecordsAt(l, k, f, x) # {}

FirstRecord(l, at) == l[CHOOSE j \in at : \A k \in at : j <= k]

LastRecord(l, at) == l[CHOOSE j \in at : \A k \in at : k <= j]

campaign_opened(l, c) == HasRecord(l, "campaign.opened", "campaign", c)

campaign_abandoned(l, c) == HasRecord(l, "campaign.abandoned", "campaign", c)

campaign_is_sealed(l, c) == HasRecord(l, "campaign.closed", "campaign", c)

is_opened(l, p) == HasRecord(l, "pr.opened", "pr", p)

\* The latest pr.opened of a pull request that has one.
find_pr_opened(l, p) == LastRecord(l, RecordsAt(l, "pr.opened", "pr", p))

pr_is_landed(l, p) == HasRecord(l, "pr.landed", "pr", p)

is_abandoned(l, p) == HasRecord(l, "pr.abandoned", "pr", p)

\* The queue: where the log has a pr.queued whose pull request has not landed.
all_pr_queued(l) == {j \in 1..Len(l) : l[j].kind = "pr.queued" /\ ~pr_is_landed(l, l[j].pr)}

is_queued(l, p) == \E j \in all_pr_queued(l) : l[j].pr = p

\* What `pr list` says of a pull request.
pr_state(l, p) ==
    CASE pr_is_landed(l, p) -> "landed"
      [] ~pr_is_landed(l, p) /\ is_abandoned(l, p) -> "abandoned"
      [] ~pr_is_landed(l, p) /\ ~is_abandoned(l, p) /\ is_queued(l, p) -> "queued"
      [] OTHER -> "proposed"

\* What the campaign world says of it: a fold over the records, in which a
\* pr.queued without a campaign field is skipped.
pr_phase_step(c, phase, r) ==
    CASE r.kind = "pr.abandoned" ->
            IF phase[r.pr] \in {"none", "landed"} THEN phase ELSE [phase EXCEPT ![r.pr] = "abandoned"]
      [] r.kind = "pr.opened" /\ r.campaign = c ->
            IF phase[r.pr] = "none" THEN [phase EXCEPT ![r.pr] = "in_flight"] ELSE phase
      [] r.kind = "pr.landed" /\ r.campaign = c -> [phase EXCEPT ![r.pr] = "landed"]
      [] OTHER -> phase

pr_phases(l, c) ==
    LET after[n \in 0..Len(l)] ==
            IF n = 0 THEN [p \in Prs |-> "none"] ELSE pr_phase_step(c, after[n - 1], l[n])
    IN  after[Len(l)]

in_flight_prs(l, c) == {p \in Prs : pr_phases(l, c)[p] = "in_flight"}

intent_is_on_log(l, i) == HasRecord(l, "intent.landed", "intent", i)

intents_from_log(l) == {i \in Intents : intent_is_on_log(l, i)}

\* The campaign of an intent that has landed.
campaign_for_intent(l, i) ==
    FirstRecord(l, RecordsAt(l, "intent.landed", "intent", i)).campaign

\* New outcomes by lens over old ones.
overlay(new, old) ==
    [x \in DOMAIN new \cup DOMAIN old |-> IF x \in DOMAIN new THEN new[x] ELSE old[x]]

\* Ledger::from_records, its verdict part: each lens keeps its latest outcome.
lens_state(l, i) ==
    LET per_lens[n \in 0..Len(l)] ==
            IF n = 0 THEN <<>>
            ELSE IF l[n].kind = "verdict.recorded" /\ l[n].intent = i
            THEN overlay(l[n].claims, per_lens[n - 1]) ELSE per_lens[n - 1]
    IN  per_lens[Len(l)]

\* The ledger holds an intent rejected as long as some lens does not approve.
ledger_rejected(l, c) ==
    {i \in intents_from_log(l) :
        /\ campaign_for_intent(l, i) = c
        /\ \E x \in DOMAIN lens_state(l, i) : lens_state(l, i)[x] \in {"reject", "fix_first"}}

\* Captured hook events that moved a ref to this commit.
commit_ref_target_on_log(l, o) == HasRecord(l, "ref.update", "target", o)

------------------------------------------------------------------------------
(* Campaign verbs.                                                         *)

Room(kind) == kind \in mix.kinds /\ Len(log) < mix.room

Write(r) ==
    /\ Room(r.kind)
    /\ log' = Append(log, r)
    /\ UNCHANGED <<store, author, crashes, mix>>

CampaignOpen(c) ==
    /\ ~campaign_opened(log, c)
    /\ Write([kind |-> "campaign.opened", campaign |-> c])

\* `campaign close`: nothing in flight, unless the campaign was abandoned; no
\* rejected work, unless the caller allows it.  The seal records the count.
CampaignClose(c, allow_rejected) ==
    LET rejected == Cardinality(ledger_rejected(log, c)) IN
    /\ ~campaign_is_sealed(log, c)
    /\ campaign_opened(log, c)
    /\ in_flight_prs(log, c) = {} \/ campaign_abandoned(log, c)
    /\ rejected = 0 \/ allow_rejected
    /\ Write([kind |-> "campaign.closed", campaign |-> c, rejected |-> rejected])

CampaignAbandon(c) ==
    /\ ~campaign_is_sealed(log, c)
    /\ ~campaign_abandoned(log, c)
    /\ campaign_opened(log, c)
    /\ Write([kind |-> "campaign.abandoned", campaign |-> c])

------------------------------------------------------------------------------
(* Pull request verbs.                                                     *)

\* A campaign, or an intent, has to exist once the log knows any at all.
validate_campaign(l, c) == HasKind(l, "campaign.opened") => campaign_opened(l, c)

validate_intents(l, is) == HasKind(l, "intent.landed") => \A i \in is : intent_is_on_log(l, i)

validate_commits(l, os) == \A o \in os : commit_ref_target_on_log(l, o)

PrOpen(p, c, is, os) ==
    /\ ~campaign_is_sealed(log, c)
    /\ ~is_opened(log, p)
    /\ validate_campaign(log, c)
    /\ validate_intents(log, is)
    /\ validate_commits(log, os)
    /\ Write([kind |-> "pr.opened", pr |-> p, campaign |-> c, intents |-> is, commits |-> os])

\* The verbs on an existing pull request refuse a sealed campaign.
MayChange(p) == is_opened(log, p) /\ ~campaign_is_sealed(log, find_pr_opened(log, p).campaign)

Positions(l) == {l[j].order : j \in all_pr_queued(l)}

\* `pr queue`: the position is the length of the queue; Batch refuses a
\* position that is taken.
PrQueue(p) ==
    LET opened == find_pr_opened(log, p)
        order_index == Cardinality(all_pr_queued(log))
    IN
    /\ MayChange(p)
    /\ ~pr_is_landed(log, p)
    /\ opened.intents # {} \/ opened.commits # {}
    /\ ~is_queued(log, p)
    /\ order_index \notin Positions(log)
    /\ Write([kind |-> "pr.queued", pr |-> p, order |-> order_index])

\* The usage records that pay for a pull request.
UsageOf(l, opened) ==
    {j \in 1..Len(l) : l[j].kind = "ctx.usage" /\ l[j].target \in {opened.pr} \cup opened.intents}

\* capture_on_land: an envelope per intent, without cost, and one for the pull
\* request with the usage recorded so far.
capture_on_land(l, opened) ==
    l \o [j \in 1..Cardinality(opened.intents) |->
            [kind |-> "intent.envelope", intent |-> SetToSeq(opened.intents)[j],
             campaign |-> opened.campaign]]
      \o <<[kind |-> "pr.envelope", pr |-> opened.pr, campaign |-> opened.campaign,
            usage |-> UsageOf(l, opened)]>>

\* A landing names the campaign the pull request was opened in.
land_one(l, p) == [kind |-> "pr.landed", pr |-> p, campaign |-> find_pr_opened(l, p).campaign]

\* `pr land`: the land-confirm of a queued pull request, with its envelopes.
PrSettle(p) ==
    LET opened == find_pr_opened(log, p) IN
    /\ Room("pr.landed")
    /\ MayChange(p)
    /\ is_queued(log, p)
    /\ log' = capture_on_land(Append(log, land_one(log, p)), opened)
    /\ UNCHANGED <<store, author, crashes, mix>>

PrAbandon(p) ==
    /\ MayChange(p)
    /\ ~pr_is_landed(log, p)
    /\ ~is_abandoned(log, p)
    /\ Write([kind |-> "pr.abandoned", pr |-> p])

\* The queue of a `land queue`, of one campaign if it names one.
QueueMembers(l, scope) ==
    {j \in all_pr_queued(l) : scope \in {<<>>, <<find_pr_opened(l, l[j].pr).campaign>>}}

\* An enumeration of queue entries by their positions in the queue.
InQueueOrder(l, members) ==
    {f \in [1..Cardinality(members) -> members] :
        \A m, n \in 1..Cardinality(members) : m < n => l[f[m]].order < l[f[n]].order}

\* What is recorded of a union that failed.
record_union_fail(scope) == [kind |-> "queue.union_fail", scope |-> scope]

\* `land queue` lands what the union evaluation lets proceed, in queue order:
\* all of a green union.  Of a red one any part may, UnionQueue says which,
\* and the failure is recorded.
LandQueue(scope, proceeding, red) ==
    LET members == QueueMembers(log, scope)
        landing == {j \in members : log[j].pr \in proceeding}
    IN
    /\ Room("pr.landed")
    /\ members # {}
    /\ red \/ landing = members
    /\ \E f \in InQueueOrder(log, landing) :
          log' = log \o [m \in 1..Cardinality(landing) |-> land_one(log, log[f[m]].pr)]
                     \o IF red THEN <<record_union_fail(scope)>> ELSE <<>>
    /\ UNCHANGED <<store, author, crashes, mix>>

------------------------------------------------------------------------------
(* Verdicts, usage and hooks.                                              *)

\* The verdicts given on an intent; a new one is compared with the last.
find_existing_verdict(l, i) == RecordsAt(l, "verdict.recorded", "intent", i)

\* Mutant: a verdict may be given after the seal.
VerdictRecord_after_seal(i, claims) ==
    LET given == find_existing_verdict(log, i) IN
    /\ HasKind(log, "intent.landed") => intent_is_on_log(log, i)
    /\ given # {} => LastRecord(log, given).claims # claims
    /\ Write([kind |-> "verdict.recorded", intent |-> i, claims |-> claims])

\* `verdict record`, `approve` and `reject`: not for an unknown intent once the
\* log knows intents, not into a sealed campaign, not the latest one again.
VerdictRecord(i, claims) ==
    LET given == find_existing_verdict(log, i) IN
    /\ HasKind(log, "intent.landed") => intent_is_on_log(log, i)
    /\ intent_is_on_log(log, i) => ~campaign_is_sealed(log, campaign_for_intent(log, i))
    /\ given # {} => LastRecord(log, given).claims # claims
    /\ Write([kind |-> "verdict.recorded", intent |-> i, claims |-> claims])

CtxUsage(t) == Write([kind |-> "ctx.usage", target |-> t])

\* A hook event drained into the log (see CaptureDrain).
RefUpdate(o) == Write([kind |-> "ref.update", target |-> o])

------------------------------------------------------------------------------
(* `intent new`: the store lock spans everything after the first look at   *)
(* the seal; the log lock only land_intent.                                *)

Idle == [pc |-> "idle"]

SetAuthor(a, s) == author' = [author EXCEPT ![a] = s]

StoreFree == \A a \in Authors : author[a].pc \in {"idle", "checked"}

NewCheck(a, i, c, with_log) ==
    /\ Room("intent.landed")
    /\ author[a].pc = "idle"
    /\ ~campaign_is_sealed(log, c)
    /\ SetAuthor(a, [pc |-> "checked", intent |-> i, campaign |-> c, with_log |-> with_log])
    /\ UNCHANGED <<log, store, crashes, mix>>

NewLock(a) ==
    /\ author[a].pc = "checked"
    /\ StoreFree
    /\ SetAuthor(a, [pc |-> "locked", intent |-> author[a].intent, campaign |-> author[a].campaign,
                     with_log |-> author[a].with_log, copy |-> store])
    /\ UNCHANGED <<log, store, crashes, mix>>

\* Intents of the log that the store has missed are put into the store.
reconcile_store_from_log(s, l) ==
    LET missing == intents_from_log(l) \ s.ids IN
    [ids |-> s.ids \cup missing, sourced |-> s.sourced \cup missing]

NewReconcile(a) ==
    LET healed == IF author[a].with_log THEN reconcile_store_from_log(author[a].copy, log)
                                        ELSE author[a].copy
    IN
    /\ author[a].pc = "locked"
    /\ store' = IF healed # author[a].copy THEN healed ELSE store
    /\ SetAuthor(a, [author[a] EXCEPT !.pc = "reconciled", !.copy = healed])
    /\ UNCHANGED <<log, crashes, mix>>

\* Mutant: the seal is only looked at before the store lock is taken.
IntentRefused_never(a) == FALSE

\* land_intent, under the log lock: refuses a sealed campaign, lands an id once.
IntentRefused(a) == author[a].with_log /\ campaign_is_sealed(log, author[a].campaign)

land_intent(a) ==
    IF author[a].with_log /\ ~intent_is_on_log(log, author[a].intent)
    THEN Append(log, [kind |-> "intent.landed", intent |-> author[a].intent,
                      campaign |-> author[a].campaign])
    ELSE log

\* Refused, or already in the store: only the log can change.
NewExists(a) ==
    /\ author[a].pc = "reconciled"
    /\ IntentRefused(a) \/ author[a].intent \in author[a].copy.ids
    /\ log' = IF IntentRefused(a) THEN log ELSE land_intent(a)
    /\ SetAuthor(a, Idle)
    /\ UNCHANGED <<store, crashes, mix>>

NewLand(a) ==
    /\ author[a].pc = "reconciled"
    /\ ~IntentRefused(a)
    /\ author[a].intent \notin author[a].copy.ids
    /\ log' = land_intent(a)
    /\ SetAuthor(a, [author[a] EXCEPT !.pc = "landed"])
    /\ UNCHANGED <<store, crashes, mix>>

\* save_locked: the whole store is replaced by the author's copy.
NewSave(a) ==
    LET new == {author[a].intent} IN
    /\ author[a].pc = "landed"
    /\ store' = [ids |-> author[a].copy.ids \cup new,
                 sourced |-> author[a].copy.sourced \cup IF author[a].with_log THEN new ELSE {}]
    /\ SetAuthor(a, Idle)
    /\ UNCHANGED <<log, crashes, mix>>

\* A dead author's lock is reclaimed; what it has written stays.
NewCrash(a) ==
    /\ author[a].pc # "idle"
    /\ crashes < MaxCrashes
    /\ crashes' = crashes + 1
    /\ SetAuthor(a, Idle)
    /\ UNCHANGED <<log, store, mix>>

------------------------------------------------------------------------------
Init ==
    /\ log = <<>>
    /\ store = [ids |-> {}, sourced |-> {}]
    /\ author = [a \in Authors |-> Idle]
    /\ crashes = 0
    /\ mix \in Mixes

CampaignVerb(c) == CampaignOpen(c) \/ CampaignAbandon(c) \/ \E b \in BOOLEAN : CampaignClose(c, b)

PrVerb(p) ==
    \/ \E c \in Campaigns, is \in SUBSET Intents, os \in SUBSET Commits : PrOpen(p, c, is, os)
    \/ PrQueue(p)
    \/ PrSettle(p)
    \/ PrAbandon(p)

IntentNew(a) ==
    \/ \E i \in Intents, c \in Campaigns, b \in BOOLEAN : NewCheck(a, i, c, b)
    \/ NewLock(a)
    \/ NewReconcile(a)
    \/ NewExists(a)
    \/ NewLand(a)
    \/ NewSave(a)
    \/ NewCrash(a)

\* The campaign a `land queue` names, if it does.
Scopes == {<<>>} \cup {<<c>> : c \in Campaigns}

Verb ==
    \/ \E c \in Campaigns : CampaignVerb(c)
    \/ \E p \in Prs : PrVerb(p)
    \/ \E scope \in Scopes, ps \in SUBSET Prs, red \in BOOLEAN : LandQueue(scope, ps, red)
    \/ \E i \in Intents, p \in Panels : VerdictRecord(i, p)
    \/ \E t \in Prs \cup Intents : CtxUsage(t)
    \/ \E o \in Commits : RefUpdate(o)

Next == Verb \/ \E a \in mix.authors : IntentNew(a)

Spec == Init /\ [][Next]_vars

------------------------------------------------------------------------------
LogRecords ==
    [kind : {"campaign.opened", "campaign.abandoned"}, campaign : Campaigns]
    \cup [kind : {"campaign.closed"}, campaign : Campaigns, rejected : Nat]
    \cup [kind : {"pr.opened"}, pr : Prs, campaign : Campaigns,
          intents : SUBSET Intents, commits : SUBSET Commits]
    \cup [kind : {"pr.queued"}, pr : Prs, order : Nat]
    \cup [kind : {"pr.landed"}, pr : Prs, campaign : Campaigns]
    \cup [kind : {"pr.abandoned"}, pr : Prs]
    \cup [kind : {"queue.union_fail"}, scope : Scopes]
    \cup [kind : {"intent.landed"}, intent : Intents, campaign : Campaigns]
    \cup [kind : {"intent.envelope"}, intent : Intents, campaign : Campaigns]
    \cup [kind : {"pr.envelope"}, pr : Prs, campaign : Campaigns, usage : SUBSET Nat]
    \cup [kind : {"verdict.recorded"}, intent : Intents, claims : Panels]
    \cup [kind : {"ctx.usage"}, target : Prs \cup Intents]
    \cup [kind : {"ref.update"}, target : Commits]

\* The variables have their types.
TypeOK ==
    /\ \A j \in 1..Len(log) : log[j] \in LogRecords
    /\ store \in [ids : SUBSET Intents, sourced : SUBSET Intents]
    /\ DOMAIN author = Authors
    /\ crashes \in 0..MaxCrashes
    /\ mix \in Mixes

\* The records of log', past the end of log.
NewRecords == {log'[j] : j \in Len(log) + 1 .. Len(log')}

\* The campaign a record belongs to: its own field, that of the queue it is
\* about, or else that of its pull request or that of its intent.
RecordOf(l, r, c) ==
    IF "campaign" \in DOMAIN r THEN r.campaign = c
    ELSE \/ "scope" \in DOMAIN r /\ r.scope = <<c>>
         \/ "pr" \in DOMAIN r /\ is_opened(l, r.pr) /\ find_pr_opened(l, r.pr).campaign = c
         \/ "intent" \in DOMAIN r /\ intent_is_on_log(l, r.intent) /\ campaign_for_intent(l, r.intent) = c

\* seal_guard.rs: nothing is appended to a sealed campaign by any verb, also
\* not by one that looked at the seal before the campaign was closed.  The
\* exception is `land queue`, which lands what was queued before the seal and
\* records the union that failed.
SealHolds ==
    [][\A c \in Campaigns : campaign_is_sealed(log, c) =>
        \A r \in NewRecords : RecordOf(log', r, c) =>
            \/ r.kind = "queue.union_fail"
            \/ r.kind = "pr.landed" /\ is_queued(log, r.pr)]_vars

\* The same without the exception, as seal_guard.rs states it.
SealTerminal ==
    [][\A c \in Campaigns : campaign_is_sealed(log, c) =>
        \A r \in NewRecords : ~RecordOf(log', r, c)]_vars

\* A campaign that is closed without being abandoned leaves no pull request
\* open, and the rejected count in its seal stays what the ledger derives.
SealedSettled ==
    \A j \in 1..Len(log) : log[j].kind = "campaign.closed" =>
        /\ log[j].rejected = Cardinality(ledger_rejected(log, log[j].campaign))
        /\ \/ campaign_abandoned(log, log[j].campaign)
           \/ \A p \in Prs : is_opened(log, p) /\ find_pr_opened(log, p).campaign = log[j].campaign
                    => pr_is_landed(log, p) \/ is_abandoned(log, p)

\* `pr list` and the campaign world, two independent folds over the log, agree
\* on which pull requests have landed and which are abandoned.
PhasesAgree ==
    \A p \in Prs : is_opened(log, p) =>
        LET phase == pr_phases(log, find_pr_opened(log, p).campaign)[p] IN
        pr_state(log, p) = IF phase \in {"landed", "abandoned"} THEN phase
                           ELSE IF is_queued(log, p) THEN "queued" ELSE "proposed"

\* The queue is a batch the drain accepts: no two queued pull requests share a
\* position.  A pull request lands at most once, after it was queued, and into
\* the campaign it was opened in.
QueueSound ==
    /\ \A j, k \in all_pr_queued(log) : log[j].order = log[k].order => j = k
    /\ \A j \in 1..Len(log) : log[j].kind = "pr.landed" =>
        /\ \E k \in 1..j : log[k].kind = "pr.queued" /\ log[k].pr = log[j].pr
        /\ log[j].campaign = find_pr_opened(log, log[j].pr).campaign
        /\ \A k \in 1..j - 1 : ~(log[k].kind = "pr.landed" /\ log[k].pr = log[j].pr)

\* Ledger::from_records against its meaning: an intent is rejected when for some
\* lens the latest outcome anybody gave is not an approval.
LatestObjects(l, i) ==
    LET given == find_existing_verdict(l, i) IN
    \E j \in given : \E x \in DOMAIN l[j].claims :
        /\ l[j].claims[x] \in {"reject", "fix_first"}
        /\ \A k \in given : k > j => x \notin DOMAIN l[k].claims

LedgerLatest ==
    \A c \in Campaigns : ledger_rejected(log, c) =
        {i \in Intents :
            /\ \E j \in 1..Len(log) : log[j].kind = "intent.landed" /\ log[j].intent = i
                                    /\ log[j].campaign = c
            /\ LatestObjects(log, i)}

\* Whatever authors do at the same time and wherever they crash, the store
\* loses no intent, and tags with the log only intents the log holds.
StoreSound ==
    [][/\ store.ids \subseteq store'.ids
       /\ store'.sourced \subseteq intents_from_log(log')]_vars

\* The position `pr queue` computes for a pull request it may queue is free, so
\* it never refuses a queue that it built itself as corrupt.
QueueOrderFree ==
    \A p \in Prs :
        LET opened == find_pr_opened(log, p) IN
        /\ MayChange(p)
        /\ ~pr_is_landed(log, p) /\ ~is_queued(log, p)
        /\ opened.intents # {} \/ opened.commits # {}
        => Cardinality(all_pr_queued(log)) \notin Positions(log)

\* The views of one log agree, whatever the order of verbs: the two folds that
\* tell the phase of a pull request, the queue and what a drain accepts, the
\* seal of a campaign and the ledger's latest verdicts.
ViewsAgree == SealedSettled /\ PhasesAgree /\ QueueSound /\ LedgerLatest

\* What no verb may do: add to a sealed campaign (but for `land queue`, which
\* lands what was queued before the seal and records a failed union), drop an
\* intent from the store that several authors load and save, or tag one the log
\* does not hold.
VerbsKeep == SealHolds /\ StoreSound
==============================================================================
