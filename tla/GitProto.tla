------------------------------- MODULE GitProto -------------------------------
(***************************************************************************)
(* The git front: receive-pack ingests a pushed pack and moves a ref by    *)
(* compare-and-append; upload-pack serves clones, fetches and shallow      *)
(* clones from the same objects.  Object ids are the objects themselves.   *)
(***************************************************************************)
EXTENDS Naturals, Sequences, FiniteSets, Functions, SequencesExt

CONSTANTS
    Objects, Kind,      \* object ids; "commit", "tree", "blob" or "tag"
    Links,              \* per object: its tree and parents, entries, or target
    Gitlinks,           \* commits of other repositories that tree entries name
    Packs,              \* packs a client may send: [entries, bytes, corrupt]
    Targets,            \* objects a client points a ref at
    RefNames,           \* the ref names, sorted
    Clients,
    Depths,             \* depths asked of a shallow clone
    MaxPackBytes, MaxObjects, MaxInflated, MaxDeltaPasses, MaxCasLookups,
    MaxPushes, MaxDrops \* bounds: pushes that land, puts that fail

VARIABLES
    gate,               \* the flag is off, or who owns the log: "receiver" or "writer"
    cas,                \* the objects the store holds
    reflog,             \* the ref.update records of the log
    client,             \* per client: advertisement, objects, shallow commits
    strays,             \* objects stored without being checked for closure
    drops               \* objects whose put failed

gitVars == <<gate, cas, reflog, client, strays, drops>>

NoOid == "none"

ObjectKinds == {"commit", "tree", "blob", "tag"}

RecvLimits == [max_pack_bytes |-> MaxPackBytes, max_objects |-> MaxObjects, max_inflated_bytes |-> MaxInflated,
               max_delta_passes |-> MaxDeltaPasses, max_cas_lookups |-> MaxCasLookups]

ReceiveErrors == {"disabled", "unattributed", "oversized", "bomb", "malformed", "tampered", "unreachable",
                  "lookups", "stale"}

ASSUME KindAssumption == Kind \in [Objects -> ObjectKinds]

Refs == Range(RefNames)

referenced(o) == IF Kind[o] = "tree" THEN Range(Links[o]) \ Gitlinks ELSE Range(Links[o])

parents(o) == IF Kind[o] = "commit" THEN Tail(Links[o]) ELSE <<>>

\* Objects are well formed: a commit names a tree and then commits, a tag one
\* object.  They name one another by the hash of what they hold, never in a circle.
ASSUME ObjectAssumption ==
    /\ IsFiniteSet(Objects)
    /\ Links \in [Objects -> Seq(Objects \cup Gitlinks)]
    /\ \A o \in Objects :
        /\ referenced(o) \subseteq Objects
        /\ Kind[o] = "commit" => Links[o] # <<>> /\ \A p \in Range(parents(o)) : Kind[p] = "commit"
        /\ Kind[o] = "tag" => Len(Links[o]) = 1
    /\ \A S \in SUBSET Objects : S # {} => \E o \in S : referenced(o) \cap S = {}
    /\ Targets \subseteq Objects /\ RefNames \in Seq(Refs)

\* An entry is of one of three kinds; a delta on an earlier entry says how far back.
ASSUME PackAssumption ==
    \A pack \in Packs :
        /\ pack.entries \in Seq(Range(pack.entries))
        /\ pack.corrupt \in BOOLEAN
        /\ \A e \in Range(pack.entries) :
            e.kind \in {"full", "ofs", "ref"} /\ (e.kind = "ofs" => e.base \in Nat)

\* replay: the last record of a ref decides.
RefView == [r \in Refs |->
    LET moves == {k \in 1..Len(reflog) : reflog[k].ref = r} IN
    IF moves = {} THEN NoOid ELSE reflog[Max(moves)].target]

------------------------------------------------------------------------------
(* The closure walk, wave by wave.                                         *)

push_unseen(o, excluded, out) == referenced(o) \ (excluded \cup out)

\* Everything reachable from roots in store; `missing` is what strict walks fail on.
collect_inner(store, roots, excluded, start) ==
    LET wave[n \in 0..Cardinality(Objects)] ==
            IF n = 0 THEN [out |-> start, frontier |-> roots, missing |-> {}]
            ELSE LET w == wave[n - 1]
                     batch == w.frontier \ (excluded \cup w.out)
                     out == w.out \cup (batch \cap store)
                 IN  IF batch = {} THEN w ELSE
                     [out |-> out,
                      frontier |-> UNION {push_unseen(o, excluded, out) : o \in batch \cap store},
                      missing |-> w.missing \cup (batch \ store)]
    IN  wave[Cardinality(Objects)]

WantHave(wants, haves) == [wants |-> wants, haves |-> haves]

\* The haves are walked leniently, the wants strictly; nothing is left shallow.
serve_request(store, request) ==
    LET excluded == collect_inner(store, request.haves, {}, {}).out
        walk == collect_inner(store, request.wants, excluded, {})
    IN  [ok |-> walk.missing = {}, oids |-> walk.out, boundary |-> {}]

------------------------------------------------------------------------------
(* Shallow clones: round 1 finds the boundary of a depth, round 2 is cut   *)
(* at the boundary the client sends back.                                  *)

NothingWalked == [commits |-> {}, tags |-> {}, trees |-> {}, roots |-> {}, next |-> <<>>, missing |-> {}]

\* One entry of the frontier.  It is dropped when its commit was walked before.
ShallowStep(store, depth, acc, item) ==
    LET o == item[1] d == item[2] IN
    IF o \notin store THEN [acc EXCEPT !.missing = @ \cup {o}]
    ELSE CASE Kind[o] = "commit" /\ o \in acc.commits -> acc
           [] Kind[o] = "commit" /\ o \notin acc.commits ->
                [acc EXCEPT !.commits = @ \cup {o}, !.trees = @ \cup {Head(Links[o])},
                            !.next = IF d < depth
                                     THEN @ \o [i \in 1..Len(parents(o)) |-> <<parents(o)[i], d + 1>>] ELSE @]
           [] Kind[o] = "tag" -> [acc EXCEPT !.tags = @ \cup {o}, !.next = Append(@, <<Head(Links[o]), d>>)]
           [] OTHER -> [acc EXCEPT !.roots = @ \cup {o}]

\* Trees of the commits; the boundary is what the commits cut off.
shallow_result(store, acc, boundary) ==
    LET walk == collect_inner(store, acc.trees \cup acc.roots, {}, acc.commits \cup acc.tags) IN
    [ok |-> acc.missing = {} /\ walk.missing = {}, oids |-> walk.out, commits |-> acc.commits,
     boundary |-> boundary]

collect_shallow(store, wants, depth) ==
    LET wave[n \in 0..(2 * Cardinality(Objects))] ==
            IF n = 0 THEN [NothingWalked EXCEPT !.next = [i \in 1..Len(wants) |-> <<wants[i], 1>>]]
            ELSE LET w == wave[n - 1] IN
                 FoldLeft(LAMBDA acc, item : ShallowStep(store, IF depth = 0 THEN 1 ELSE depth, acc, item),
                          [w EXCEPT !.next = <<>>], w.next)
        acc == wave[2 * Cardinality(Objects)]
    IN  shallow_result(store, acc, {o \in acc.commits : Range(parents(o)) \ acc.commits # {}})

BoundaryStep(store, boundary, acc, o) ==
    IF o \notin store THEN [acc EXCEPT !.missing = @ \cup {o}]
    ELSE CASE Kind[o] = "commit" /\ o \in acc.commits -> acc
           [] Kind[o] = "commit" /\ o \notin acc.commits ->
                [acc EXCEPT !.commits = @ \cup {o}, !.trees = @ \cup {Head(Links[o])},
                            !.next = IF o \in boundary THEN @ ELSE @ \o parents(o)]
           [] Kind[o] = "tag" -> [acc EXCEPT !.tags = @ \cup {o}, !.next = Append(@, Head(Links[o]))]
           [] OTHER -> [acc EXCEPT !.roots = @ \cup {o}]

collect_shallow_at(store, wants, boundary) ==
    LET wave[n \in 0..(2 * Cardinality(Objects))] ==
            IF n = 0 THEN [NothingWalked EXCEPT !.next = wants]
            ELSE LET w == wave[n - 1] IN
                 FoldLeft(LAMBDA acc, o : BoundaryStep(store, boundary, acc, o),
                          [w EXCEPT !.next = <<>>], w.next)
        acc == wave[2 * Cardinality(Objects)]
    IN  shallow_result(store, acc, boundary \cap acc.commits)

------------------------------------------------------------------------------
(* Unpacking.  An entry is an object in full, a delta on an earlier entry  *)
(* or a delta on an object named by id.                                    *)

\* finalize: an object counts once towards the inflated total.
finalize(acc, i, o) ==
    [acc EXCEPT !.resolved = @ \cup {i}, !.oids = @ \cup {o}, !.progressed = TRUE,
                !.err = IF Cardinality(acc.oids \cup {o}) > RecvLimits.max_inflated_bytes THEN "bomb" ELSE @]

\* Objects in full are taken first, whatever their place in the pack.
TakeFull(entries, acc, i) ==
    IF acc.err = "none" /\ entries[i].kind = "full" THEN finalize(acc, i, entries[i].obj) ELSE acc

ResolveInPack(entries, acc, i) ==
    LET e == entries[i] IN
    IF acc.err # "none" \/ i \in acc.resolved THEN acc
    ELSE IF e.kind = "ofs" /\ (e.base = 0 \/ e.base >= i) THEN [acc EXCEPT !.err = "malformed"]
    ELSE IF \/ e.kind = "ofs" /\ i - e.base \in acc.resolved
            \/ e.kind = "ref" /\ e.base \in acc.oids
    THEN finalize(acc, i, e.obj)
    ELSE acc

\* A base that is not in the pack is read from the store, within the budget.
ResolveFromCas(entries, acc, i) ==
    LET e == entries[i]
        asked == [acc EXCEPT !.lookups = @ + 1]
    IN
    IF acc.err # "none" \/ i \in acc.resolved \/ e.kind # "ref" THEN acc
    ELSE IF asked.lookups > RecvLimits.max_cas_lookups THEN [acc EXCEPT !.err = "lookups"]
    ELSE IF e.base \in cas THEN finalize(asked, i, e.obj)
    ELSE asked

Over(entries, Step(_, _, _), acc) ==
    FoldLeft(LAMBDA a, i : Step(entries, a, i), acc, [i \in 1..Len(entries) |-> i])

\* The store is only asked when a pass over the pack resolves nothing.
Pass(entries, acc, n) ==
    LET packed == Over(entries, ResolveInPack, [acc EXCEPT !.progressed = FALSE])
        thin == Over(entries, ResolveFromCas, packed)
    IN
    IF acc.err # "none" \/ Cardinality(acc.resolved) = Len(entries) THEN acc
    ELSE IF n > RecvLimits.max_delta_passes THEN [acc EXCEPT !.err = "bomb"]
    ELSE IF packed.err # "none" \/ packed.progressed THEN packed
    ELSE IF thin.err # "none" \/ thin.progressed THEN thin
    ELSE [acc EXCEPT !.err = "malformed"]

unpack_pack(pack) ==
    LET entries == pack.entries
        start == [resolved |-> {}, oids |-> {}, progressed |-> FALSE, lookups |-> 0,
                  err |-> IF pack.corrupt THEN "malformed"
                          ELSE IF Len(entries) > RecvLimits.max_objects THEN "bomb" ELSE "none"]
        pass[n \in 0..(Len(entries) + 1)] ==
            IF n = 0 THEN Over(entries, TakeFull, start) ELSE Pass(entries, pass[n - 1], n)
    IN  pass[Len(entries) + 1]

------------------------------------------------------------------------------
(* receive_pack.                                                           *)

\* FlagGate.
admit_write == gate = "receiver"

\* The walk of the pushed objects; one that only the store holds ends it.
target_reachable(target, pushed) ==
    LET walk == collect_inner(pushed, {target}, {}, {}) IN
    IF walk.missing \subseteq cas
    THEN IF Cardinality(walk.missing) > RecvLimits.max_cas_lookups THEN "lookups" ELSE "none"
    ELSE "unreachable"

\* Mutant: a target that was pushed is not walked.
receive_verdict_unwalked(pack, u, ref, target, expected, chain) ==
    IF ~admit_write THEN "disabled"
    ELSE IF chain = <<>> THEN "unattributed"
    ELSE IF pack.bytes > RecvLimits.max_pack_bytes THEN "oversized"
    ELSE IF u.err # "none" THEN u.err
    ELSE IF target \notin u.oids \cup cas THEN "tampered"
    ELSE IF RefView[ref] # expected THEN "stale"
    ELSE "none"

\* Mutant: the ref moves whatever the client expected.
receive_verdict_forced(pack, u, ref, target, expected, chain) ==
    IF ~admit_write THEN "disabled"
    ELSE IF chain = <<>> THEN "unattributed"
    ELSE IF pack.bytes > RecvLimits.max_pack_bytes THEN "oversized"
    ELSE IF u.err # "none" THEN u.err
    ELSE IF target \notin u.oids \cup cas THEN "tampered"
    ELSE IF target \in u.oids /\ target_reachable(target, u.oids) # "none" THEN target_reachable(target, u.oids)
    ELSE "none"

\* Everything is decided before the first write.
receive_verdict(pack, u, ref, target, expected, chain) ==
    IF ~admit_write THEN "disabled"
    ELSE IF chain = <<>> THEN "unattributed"
    ELSE IF pack.bytes > RecvLimits.max_pack_bytes THEN "oversized"
    ELSE IF u.err # "none" THEN u.err
    ELSE IF target \notin u.oids \cup cas THEN "tampered"
    ELSE IF target \in u.oids /\ target_reachable(target, u.oids) # "none" THEN target_reachable(target, u.oids)
    ELSE IF RefView[ref] # expected THEN "stale"
    ELSE "none"

record_ref_update(ref, target, expected) ==
    reflog' = Append(reflog, [ref |-> ref, target |-> target, expected |-> expected])

\* store_objects puts every object of the pack, those the target does not reach
\* too; a put that fails is not reported.
Receive(c, pack) ==
    LET u == unpack_pack(pack) IN
    \E ref \in Refs, target \in Targets, chain \in {<<>>, <<"ana">>} :
        /\ receive_verdict(pack, u, ref, target, client[c].adv[ref], chain) = "none"
        /\ Len(reflog) < MaxPushes
        /\ \E failed \in SUBSET (u.oids \ cas) :
            /\ Cardinality(drops \cup failed) <= MaxDrops
            /\ cas' = cas \cup (u.oids \ failed)
            /\ drops' = drops \cup failed
        /\ strays' = strays \cup (u.oids \ collect_inner(u.oids, {target}, {}, {}).out)
        /\ record_ref_update(ref, target, client[c].adv[ref])
        /\ UNCHANGED <<gate, client>>

\* record_external_change: a raw push is attributed, and never an intent.
record_external_change(ref, target, expected, chain) ==
    /\ chain # <<>>
    /\ reflog' = Append(reflog, [ref |-> ref, target |-> target, expected |-> expected])

\* SerializedWriter::push: compare-and-append alone, the objects are elsewhere.
PushOrdered(c, ref, target, chain) ==
    /\ gate = "writer"
    /\ Len(reflog) < MaxPushes
    /\ RefView[ref] = client[c].adv[ref]
    /\ record_external_change(ref, target, client[c].adv[ref], chain)
    /\ UNCHANGED <<gate, cas, client, strays, drops>>

------------------------------------------------------------------------------
(* Clients.                                                                *)

\* ls-refs.
Advertise(c) ==
    /\ client' = [client EXCEPT ![c].adv = RefView]
    /\ UNCHANGED <<gate, cas, reflog, strays, drops>>

AddTip(adv, tips, r) == IF adv[r] = NoOid THEN tips ELSE Append(tips, adv[r])

\* The advertised tips, by ref name.
tip_oids(c) == FoldLeft(LAMBDA tips, r : AddTip(client[c].adv, tips, r), <<>>, RefNames)

\* A clone, or a fetch that has the client's commits as haves.
Fetch(c) ==
    LET commits == {o \in client[c].objs : Kind[o] = "commit"}
        served == serve_request(cas, WantHave(Range(tip_oids(c)), commits))
    IN
    /\ client[c].shallow = {} /\ client[c].asked = {}
    /\ tip_oids(c) # <<>>
    /\ served.ok
    /\ client' = [client EXCEPT ![c].objs = @ \cup served.oids, ![c].wants = @ \cup Range(tip_oids(c))]
    /\ UNCHANGED <<gate, cas, reflog, strays, drops>>

\* Round 1 of a shallow clone: `deepen`, answered by the boundary.
Deepen(c, depth) ==
    LET found == collect_shallow(cas, tip_oids(c), depth) IN
    /\ client[c].objs = {} /\ client[c].asked = {}
    /\ tip_oids(c) # <<>>
    /\ found.ok
    /\ client' = [client EXCEPT ![c].asked = {[wants |-> tip_oids(c), boundary |-> found.boundary,
                                               commits |-> found.commits, depth |-> depth]}]
    /\ UNCHANGED <<gate, cas, reflog, strays, drops>>

\* Round 2, and every later fetch of a shallow client: the walk is cut at the
\* commits the client names.
FetchShallow(c) == \E q \in client[c].asked :
    LET served == IF q.boundary = {} THEN serve_request(cas, WantHave(Range(q.wants), {}))
                  ELSE collect_shallow_at(cas, q.wants, q.boundary)
    IN
    /\ served.ok
    /\ client' = [client EXCEPT ![c].objs = served.oids, ![c].wants = Range(q.wants),
                                ![c].shallow = served.boundary, ![c].asked = {}]
    /\ UNCHANGED <<gate, cas, reflog, strays, drops>>

FetchMore(c) ==
    LET served == collect_shallow_at(cas, tip_oids(c), client[c].shallow) IN
    /\ client[c].shallow # {}
    /\ tip_oids(c) # <<>>
    /\ served.ok
    /\ client' = [client EXCEPT ![c].objs = @ \cup served.oids, ![c].wants = @ \cup Range(tip_oids(c))]
    /\ UNCHANGED <<gate, cas, reflog, strays, drops>>

GitInit ==
    /\ gate \in {"off", "receiver", "writer"}
    /\ cas = {}
    /\ reflog = <<>>
    /\ client = [c \in Clients |-> [adv |-> [r \in Refs |-> NoOid], objs |-> {}, wants |-> {},
                                    shallow |-> {}, asked |-> {}]]
    /\ strays = {}
    /\ drops = {}

GitNext == \E c \in Clients :
    \/ \E pack \in Packs : Receive(c, pack)
    \/ \E ref \in Refs, target \in Targets, chain \in {<<>>, <<"ana">>} : PushOrdered(c, ref, target, chain)
    \/ Advertise(c)
    \/ Fetch(c)
    \/ \E depth \in Depths : Deepen(c, depth)
    \/ FetchShallow(c)
    \/ FetchMore(c)

GitSpec == GitInit /\ [][GitNext]_gitVars

------------------------------------------------------------------------------
(* Properties.                                                             *)

\* What an object needs: all that is reachable from it.
Closure(o) == collect_inner(Objects, {o}, {}, {}).out

\* Everything can be derived from the pack and the store, in some order.
Derivable(pack) ==
    LET n == Len(pack.entries)
        Given(i, S) == LET e == pack.entries[i] IN
            \/ e.kind = "full"
            \/ e.kind = "ofs" /\ i - e.base \in S
            \/ e.kind = "ref" /\ (e.base \in cas \/ \E j \in S : pack.entries[j].obj = e.base)
    IN  \A S \in SUBSET (1..n) : (\A i \in 1..n : Given(i, S) => i \in S) => S = 1..n

\* Within the budgets, a pack unpacks exactly when every delta has its base
\* somewhere, whatever the order of its entries, and then yields all its objects.
UnpackExact ==
    \A pack \in {p \in Packs : ~p.corrupt} :
        LET u == unpack_pack(pack) IN
        /\ u.err \in ReceiveErrors \cup {"none"}
        /\ u.err = "none" => Derivable(pack) /\ u.oids = {pack.entries[i].obj : i \in 1..Len(pack.entries)}
        /\ u.err = "malformed" => ~Derivable(pack)

\* A ref leads to nothing the store does not hold, unless on the way there is an
\* object that came along in a pack unchecked or whose put failed.
RefsCloseable ==
    gate = "receiver" => \A r \in Refs : RefView[r] # NoOid =>
        \/ Closure(RefView[r]) \subseteq cas
        \/ Closure(RefView[r]) \cap (strays \cup drops) # {}

\* "its full closure present in (the delivered set with the CAS)".
RefsComplete == gate = "receiver" => \A r \in Refs : RefView[r] # NoOid => Closure(RefView[r]) \subseteq cas

\* Two clients that push to a ref at the same time: each record moves the ref
\* from the value its sender was shown.
NoLostPush ==
    \A n \in 1..Len(reflog) :
        LET earlier == {k \in 1..(n - 1) : reflog[k].ref = reflog[n].ref} IN
        reflog[n].expected = IF earlier = {} THEN NoOid ELSE reflog[Max(earlier)].target

\* A client is never left with a hole: what it asked for is there down to the
\* commits it knows to be shallow, after any sequence of clones and fetches.
ClientWhole ==
    \A c \in Clients :
        /\ client[c].wants \subseteq client[c].objs
        /\ \A o \in client[c].objs :
            (IF o \in client[c].shallow THEN {Head(Links[o])} ELSE referenced(o)) \subseteq client[c].objs

\* Both rounds of a shallow clone select the same commits.
RoundsAgree ==
    \A c \in Clients : \A q \in client[c].asked :
        LET served == collect_shallow_at(cas, q.wants, q.boundary) IN
        q.boundary # {} /\ served.ok => served.commits = q.commits /\ served.boundary = q.boundary

\* The wire protocol with its flag on: a pack unpacks exactly when it can, a ref
\* never leads to a hole the receiver could have seen, a client never ends with
\* one, and the two rounds of a shallow clone agree.
WireSound == gate # "off" => UnpackExact /\ RefsCloseable /\ ClientWhole /\ RoundsAgree

\* The commits at most depth - 1 steps below a tip, tags peeled.
Within(wants, depth) ==
    LET peel[n \in Nat] == IF n = 0 THEN wants
                           ELSE {IF Kind[o] = "tag" THEN Head(Links[o]) ELSE o : o \in peel[n - 1]}
        level[n \in Nat] == IF n = 0 THEN {} ELSE IF n = 1 THEN {o \in peel[Cardinality(Objects)] : Kind[o] = "commit"}
                            ELSE level[n - 1] \cup UNION {Range(parents(o)) : o \in level[n - 1]}
    IN  level[IF depth = 0 THEN 1 ELSE depth]

\* "commits are included through depth N".
DepthExact ==
    \A c \in Clients : \A q \in client[c].asked : q.commits = Within(Range(q.wants), q.depth)
==============================================================================
