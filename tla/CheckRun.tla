------------------------------- MODULE CheckRun -------------------------------
(***************************************************************************)
(* `hugit check run`: a check is looked up in the file-backed action cache *)
(* by the key of its inputs, executed when it is missing there, stored and *)
(* recorded on the log.  The inputs live in a workspace that other people  *)
(* edit at the same time.  Digests are injective here: an axis of the key  *)
(* is the value that is digested.                                          *)
(***************************************************************************)
EXTENDS Naturals, Sequences, FiniteSets, Functions, TLC

CONSTANTS
    CheckProcs,         \* processes that run checks
    Defs,               \* check definitions
    TreeFiles,          \* files below --root
    Globbed,            \* per definition: the tree files its glob set matches
    AncestorFiles,      \* per definition: the config files above --root it names
    EnvVars,            \* environment variables
    Allowed,            \* per definition: allowlisted and declared variables
    Reads,              \* per definition: the inputs its command really reads
    MaxEdits, MaxRuns, MaxFaults    \* bounds

VARIABLES
    world,              \* the content of every input now
    check,              \* per process: its position and what it holds
    cache,              \* the action cache file: key -> entry
    rows,               \* the check.recorded records of the log
    served,             \* every outcome that was reported, with the inputs it is for
    budget              \* edits, runs and faults so far

checkVars == <<world, check, cache, rows, served, budget>>

Inputs == TreeFiles \cup EnvVars \cup {"rustc"} \cup UNION {AncestorFiles[d] : d \in Defs}

ASSUME ReadsAssumption ==
    \A d \in Defs : Reads[d] \subseteq Globbed[d] \cup AncestorFiles[d] \cup Allowed[d] \cup {"rustc"}

\* A glob matches files below --root: no configuration above it, no variable.
ASSUME GlobAssumption ==
    \A d \in Defs : /\ Globbed[d] \cap (AncestorFiles[d] \cup Allowed[d] \cup {"rustc"}) = {}
                    /\ Allowed[d] \subseteq EnvVars

------------------------------------------------------------------------------
(* The key.                                                                *)

captured_hermetic_env(d, w) == Restrict(w, Allowed[d])

ancestor_config_digest(d, w) == Restrict(w, AncestorFiles[d])

compute_def_digest(d, env, ancestor) == [def |-> d, env_manifest |-> env, inputs |-> ancestor]

scoped_tree_root(d, w) == Restrict(w, Globbed[d])

compute_memo_key(tree, def_digest, toolchain) == <<tree, def_digest, toolchain>>

\* The key of a workspace that stands still.
derive_memo_key(d, w) ==
    compute_memo_key(scoped_tree_root(d, w),
                     compute_def_digest(d, captured_hermetic_env(d, w), ancestor_config_digest(d, w)),
                     w["rustc"])

\* The contents `new` where it has them, those of `old` elsewhere.
Over(new, old) == [i \in DOMAIN new \cup DOMAIN old |-> IF i \in DOMAIN new THEN new[i] ELSE old[i]]

\* What the command makes of its inputs: it fails on a bad one.
command(d, w) == IF \A i \in Reads[d] : w[i] = "good" THEN 0 ELSE 1

------------------------------------------------------------------------------
(* The cache file.  An entry carries the hash of its result, and the       *)
(* result the axes it was computed for.                                    *)

entry_self_hash(result) == result

verify_hit(key, result) == result.axes = key /\ result.memo_key = key

read_map(key) == key \in DOMAIN cache

\* Mutant: the hash an entry carries of its result is not checked.
FileAcLookup_unhashed(key) ==
    IF read_map(key) /\ verify_hit(key, cache[key].result) THEN {cache[key].result} ELSE {}

FileAcLookup(key) ==
    IF read_map(key) /\ entry_self_hash(cache[key].result) = cache[key].self_hash
                     /\ verify_hit(key, cache[key].result)
    THEN {cache[key].result} ELSE {}

FileAcStore(result) ==
    [key \in DOMAIN cache \cup {result.memo_key} |->
        IF key = result.memo_key THEN [result |-> result, self_hash |-> entry_self_hash(result)]
        ELSE cache[key]]

\* Damage to the file: it no longer parses and reads as empty, an exit code is
\* altered, or an entry turns up under another key.
FileAcDamage ==
    {<<>>}
    \cup {[cache EXCEPT ![k].result.exit = 1 - @] : k \in DOMAIN cache}
    \cup {[cache EXCEPT ![k[1]] = cache[k[2]]] : k \in (DOMAIN cache) \X (DOMAIN cache)}

------------------------------------------------------------------------------
(* The verb.                                                               *)

NoCheck == [pc |-> "idle"]

SetCheck(p, s) == check' = [check EXCEPT ![p] = s]

Spend(what) == budget' = [budget EXCEPT ![what] = @ + 1]

\* Environment, ancestor configuration and toolchain are captured first.
ResolveDef(p, d, store) ==
    LET env == captured_hermetic_env(d, world) IN
    /\ check[p].pc = "idle"
    /\ budget.runs < MaxRuns
    /\ SetCheck(p, [pc |-> "resolved", def |-> d, store |-> store, env |-> env,
                    def_digest |-> compute_def_digest(d, env, ancestor_config_digest(d, world)),
                    toolchain |-> world["rustc"], snap |-> world])
    /\ Spend("runs")
    /\ UNCHANGED <<world, cache, rows, served>>

SnapshotTree(p) ==
    LET s == check[p]
        tree == scoped_tree_root(s.def, world)
    IN
    /\ s.pc = "resolved"
    /\ SetCheck(p, [pc |-> "keyed", def |-> s.def, store |-> s.store, env |-> s.env, snap |-> Over(tree, s.snap),
                    key |-> compute_memo_key(tree, s.def_digest, s.toolchain)])
    /\ UNCHANGED <<world, cache, rows, served, budget>>

Outcome(s, pc, result, from_cache) ==
    [pc |-> pc, def |-> s.def, store |-> s.store, snap |-> s.snap, key |-> s.key,
     result |-> result, from_cache |-> from_cache]

\* run_memoized: a hit returns at once.
LookupHit(p) ==
    /\ check[p].pc = "keyed"
    /\ \E result \in FileAcLookup(check[p].key) :
        SetCheck(p, Outcome(check[p], "record", result, TRUE))
    /\ UNCHANGED <<world, cache, rows, served, budget>>

LookupMiss(p) ==
    /\ check[p].pc = "keyed"
    /\ FileAcLookup(check[p].key) = {}
    /\ SetCheck(p, [check[p] EXCEPT !.pc = "run"])
    /\ UNCHANGED <<world, cache, rows, served, budget>>

\* The command reads the workspace as it is now, and the captured environment.
Execute(p) ==
    LET s == check[p]
        seen == Over(s.env, world)
    IN
    /\ s.pc = "run"
    /\ SetCheck(p, Outcome(s, "store", [axes |-> s.key, memo_key |-> s.key,
                                        exit |-> command(s.def, seen), seen |-> seen], FALSE))
    /\ UNCHANGED <<world, cache, rows, served, budget>>

StoreResult(p) ==
    /\ check[p].pc = "store"
    /\ cache' = FileAcStore(check[p].result)
    /\ SetCheck(p, [check[p] EXCEPT !.pc = "record"])
    /\ UNCHANGED <<world, rows, served, budget>>

\* ac_busy, ac_error, exec_failed, check_timeout and log_busy: the verb ends, what
\* it has stored so far stays.
CheckFails(p) ==
    /\ check[p].pc \in {"keyed", "run", "store", "record"}
    /\ budget.faults < MaxFaults
    /\ SetCheck(p, NoCheck)
    /\ Spend("faults")
    /\ UNCHANGED <<world, cache, rows, served>>

check_already_recorded(key, cache_hit) ==
    \E j \in 1..Len(rows) : rows[j].memo_key = key /\ rows[j].cache_hit = cache_hit

\* record_on_log, under the log lock, and the report to the caller.
RecordOnLog(p) ==
    LET s == check[p] IN
    /\ s.pc = "record"
    /\ rows' = IF s.store /\ ~check_already_recorded(s.result.memo_key, s.from_cache)
               THEN Append(rows, [memo_key |-> s.result.memo_key, exit |-> s.result.exit,
                                  cache_hit |-> s.from_cache])
               ELSE rows
    /\ served' = served \cup {[def |-> s.def, key |-> s.key, snap |-> s.snap, result |-> s.result,
                               from_cache |-> s.from_cache, store |-> s.store]}
    /\ SetCheck(p, NoCheck)
    /\ UNCHANGED <<world, cache, budget>>

\* Somebody edits an input.
Edit(i) ==
    /\ budget.edits < MaxEdits
    /\ world' = [world EXCEPT ![i] = IF @ = "good" THEN "bad" ELSE "good"]
    /\ Spend("edits")
    /\ UNCHANGED <<check, cache, rows, served>>

DamageCache ==
    /\ budget.faults < MaxFaults
    /\ \E c \in FileAcDamage : cache' = c /\ c # cache
    /\ Spend("faults")
    /\ UNCHANGED <<world, check, rows, served>>

CheckInit ==
    /\ world = [i \in Inputs |-> "good"]
    /\ check = [p \in CheckProcs |-> NoCheck]
    /\ cache = <<>>
    /\ rows = <<>>
    /\ served = {}
    /\ budget = [edits |-> 0, runs |-> 0, faults |-> 0]

CheckVerb(p) ==
    \/ \E d \in Defs, store \in BOOLEAN : ResolveDef(p, d, store)
    \/ SnapshotTree(p)
    \/ LookupHit(p)
    \/ LookupMiss(p)
    \/ Execute(p)
    \/ StoreResult(p)
    \/ CheckFails(p)
    \/ RecordOnLog(p)

CheckNext == (\E p \in CheckProcs : CheckVerb(p)) \/ (\E i \in Inputs : Edit(i)) \/ DamageCache

CheckSpec == CheckInit /\ [][CheckNext]_checkVars

------------------------------------------------------------------------------
\* `check show`: the hits and executions among the rows.
aggregate_kpis ==
    [hits |-> Cardinality({j \in 1..Len(rows) : rows[j].cache_hit}),
     executed |-> Cardinality({j \in 1..Len(rows) : ~rows[j].cache_hit})]

\* A reported outcome is the command's verdict on the keyed inputs, whoever
\* executed it, whenever, and whatever happened to the cache file in between,
\* as long as the inputs stood still while it was executed.
VerdictOfInputs ==
    \A o \in served : derive_memo_key(o.def, o.result.seen) = o.key =>
        o.result.exit = command(o.def, o.snap)

\* The same without the condition: "any workspace edit is a MISS".
NoStaleHit ==
    \A o \in served : o.from_cache => o.result.exit = command(o.def, o.snap)

\* Runs that were repeated do not inflate the figures of `check show`: a key
\* counts once as executed and once as hit, and is counted if it was reported.
KpisStable ==
    LET keys(hit) == {o.result.memo_key : o \in {x \in served : x.store /\ x.from_cache = hit}} IN
    aggregate_kpis = [hits |-> Cardinality(keys(TRUE)), executed |-> Cardinality(keys(FALSE))]

\* A check's verdict follows from what it read, run or replayed, and what the
\* ledger counts of it does not depend on how it was obtained.
VerdictsHonest == VerdictOfInputs /\ KpisStable
==============================================================================
