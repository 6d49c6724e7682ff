-------------------------------- MODULE Gates --------------------------------
(***************************************************************************)
(* The gates that fail closed.  The house policy gates over a change and   *)
(* `hugit policy edit`, which switches one of them in the event log; the   *)
(* regeneration of a derived file and the gate that lets it land; and the  *)
(* secret broker of the fence, which signs for a leased runner and         *)
(* delivers the signature only.  The three share no state.                 *)
(***************************************************************************)
EXTENDS Naturals, Sequences, SequencesExt, FiniteSets

CONSTANTS
    Editors,            \* processes running `hugit policy edit`
    MaxPolicyEdits,     \* bound: records of the log
    MaxRegens,          \* bound: regenerations
    MaxOps              \* bound: operations asked of the broker

ASSUME EditorsAssumption == "free" \notin Editors

VARIABLES
    policyLog,          \* the policy.change records
    editor,             \* per editor: what it was asked, what it loaded
    policyLock,         \* who holds the log's lock
    decision,           \* the last change judged, with its verdict
    regen,              \* the regenerated tree and its reviews
    landed,             \* regenerations that landed, with the reviews there were
    regenAudit,         \* kinds of the gate's audit events
    broker,             \* the operation in flight
    lease,              \* the state the fabric holds the lease in
    ops                 \* ended operations

policyVars == <<policyLog, editor, policyLock, decision>>
regenVars == <<regen, landed, regenAudit>>
brokerVars == <<broker, lease, ops>>
gateVars == <<policyVars, regenVars, brokerVars>>

------------------------------------------------------------------------------
(* House gates.  A commit is signed off or not, has one parent or two (or  *)
(* no count was given), and its subject is a feat/fix or not.              *)

GateIds == {"dco", "changelog", "secrets"}
house_gates == [g \in GateIds |-> TRUE]

Commit == [signed : BOOLEAN, parents : {1, 2}, counted : BOOLEAN, feat : BOOLEAN]
CommitRange == {<<a>> : a \in Commit} \cup {<<a, b>> : a, b \in Commit}
EvalContext == [commits : CommitRange,
                changelog : {"unchanged", "no content", "empty", "entries"},
                file : {"clean", "secret", "no content"}]

parent_count(c) == IF c.counted THEN c.parents ELSE 1

dco_eval(ctx) ==
    IF \A i \in DOMAIN ctx.commits : parent_count(ctx.commits[i]) >= 2 \/ ctx.commits[i].signed
    THEN "Pass" ELSE "Fail"

changelog_eval(ctx) ==
    IF \/ ~\E i \in DOMAIN ctx.commits : ctx.commits[i].feat
       \/ ctx.changelog = "entries"
    THEN "Pass" ELSE "Fail"

\* A changed file without content cannot be scanned, the changelog included.
secrets_eval(ctx) == IF ctx.file = "no content" \/ ctx.changelog = "no content" THEN "Blocked"
                     ELSE IF ctx.file = "secret" THEN "Fail" ELSE "Pass"

\* The registry's entry of a gate is its evaluation.
registry(g, ctx) == IF g = "dco" THEN dco_eval(ctx)
                    ELSE IF g = "changelog" THEN changelog_eval(ctx) ELSE secrets_eval(ctx)

eval(gates, ctx) == [g \in {id \in GateIds : gates[id]} |-> registry(g, ctx)]

eval_closed(ids) == [g \in ids |-> "Blocked"]

landing_gate_check(up, gates, ctx) == IF up THEN eval(gates, ctx) ELSE eval_closed(GateIds)

any_blocks(outcomes) == \E g \in DOMAIN outcomes : outcomes[g] # "Pass"

NoDecision == [up |-> TRUE, blocks |-> TRUE]

\* `policy test` asks the house engine; a library caller may have lost its engine.
Judge(up, ctx) ==
    /\ decision = NoDecision
    /\ decision' = [up |-> up, ctx |-> ctx, blocks |-> any_blocks(landing_gate_check(up, house_gates, ctx))]
    /\ UNCHANGED <<policyLog, editor, policyLock>>

------------------------------------------------------------------------------
(* `hugit policy edit --gate G --enable | --disable --principal P`.        *)

Principals == {"user", "orchestrator", "unclassified"}

\* The gates in force are what the last record says, or the house's.
fold_gates(log) == IF log = <<>> THEN house_gates ELSE Last(log).new

IdleEditor == [pc |-> "idle", gate |-> "dco", enable |-> FALSE, principal |-> "user", log |-> <<>>]

\* Anyone but a human is refused before the log is opened.
edit_start(e, g, enable, p) ==
    /\ editor[e].pc = "idle"
    /\ Len(policyLog) < MaxPolicyEdits
    /\ editor' = [editor EXCEPT ![e] = IF p # "user" THEN IdleEditor
                    ELSE [IdleEditor EXCEPT !.pc = "lock", !.gate = g, !.enable = enable, !.principal = p]]
    /\ UNCHANGED <<policyLog, policyLock, decision>>

lock_and_load(e) ==
    /\ editor[e].pc = "lock"
    /\ policyLock = "free"
    /\ policyLock' = e
    /\ editor' = [editor EXCEPT ![e].pc = "append", ![e].log = policyLog]
    /\ UNCHANGED <<policyLog, decision>>

\* A gate that is already so changes nothing; otherwise the record holds both gate sets.
edit_append(e) ==
    LET s == editor[e]
        current == fold_gates(s.log)
    IN  /\ s.pc = "append"
        /\ policyLog' = IF current[s.gate] = s.enable THEN policyLog
                        ELSE Append(s.log, [old |-> current, new |-> [current EXCEPT ![s.gate] = s.enable],
                                            by |-> e, gate |-> s.gate, principal |-> s.principal])
        /\ policyLock' = "free"
        /\ editor' = [editor EXCEPT ![e] = IdleEditor]
        /\ UNCHANGED decision

PolicyInit ==
    /\ policyLog = <<>> /\ policyLock = "free"
    /\ editor = [e \in Editors |-> IdleEditor]
    /\ decision = NoDecision

JudgeNext == \E up \in BOOLEAN, ctx \in EvalContext : Judge(up, ctx)

EditNext == \E e \in Editors :
    \/ \E g \in GateIds, enable \in BOOLEAN, p \in Principals : edit_start(e, g, enable, p)
    \/ lock_and_load(e)
    \/ edit_append(e)

------------------------------------------------------------------------------
(* Regeneration.  A derived file is regenerated by its driver, reviewed,   *)
(* and lands through the gate.  A tree is named by a number.               *)

Paths == {"Cargo.lock", "pnpm-lock.yaml", "yarn.lock", "x.snap", "main.rs"}

classify(path) == CASE path \in {"Cargo.lock", "pnpm-lock.yaml", "yarn.lock"} -> "Lockfile"
                    [] path = "x.snap" -> "Snapshot"
                    [] OTHER -> "None"

driver_for(path) == IF path \in {"Cargo.lock", "pnpm-lock.yaml"} THEN path ELSE "none"

\* Every way a driver can fail is one refusal at the registry, and leaves the tree.
RegenError == {"FailClosed", "ToolNotFound", "Io"}
fail_closed_boundary(error) == IF error \in RegenError THEN "FailClosed" ELSE "no driver"

Models == {"sonnet", "opus"}

\* cargo generate-lockfile, pnpm install --lockfile-only: no tool, no start, a failing exit, or done.
run_driver(end) == CASE end = "no tool" -> "ToolNotFound"
                     [] end = "not started" -> "Io"
                     [] end = "failed" -> "FailClosed"
                     [] OTHER -> "ok"

regenerate(path, model, end) ==
    /\ regen.tree < MaxRegens
    /\ regen' = IF driver_for(path) # "none" /\ run_driver(end) = "ok"
                THEN [regen EXCEPT !.tree = @ + 1, !.path = path, !.model = model, !.error = "none"]
                ELSE [regen EXCEPT !.error = fail_closed_boundary(run_driver(end))]
    /\ UNCHANGED <<landed, regenAudit>>

Review(model, verdict) ==
    /\ regen.tree > 0
    /\ regen' = [regen EXCEPT !.reviews = @ \cup {[model |-> model, tree |-> regen.tree, verdict |-> verdict]}]
    /\ UNCHANGED <<landed, regenAudit>>

is_opted_in(scope, requested) == scope \in {"*", requested}

anti_smuggling(reproduced) == classify(regen.path) = "None" \/ ~reproduced

independence_defect_name(v, ref) == v.model = regen.model \/ ref # v.tree
independence_defect(v, ref) == v.model = regen.model \/ v.tree # regen.tree \/ ref # v.tree

BlockReason(scope, reproduced, repass, given, ref) ==
    IF ~is_opted_in(scope, "repo") THEN "not_opted_in"
    ELSE IF anti_smuggling(reproduced) THEN "false_derived_declaration"
    ELSE IF ~repass THEN "repass_failed"
    ELSE IF given = {} THEN "verdict_missing"
    ELSE LET v == CHOOSE w \in given : TRUE
         IN  IF independence_defect(v, ref) THEN "verdict_not_independent"
             ELSE IF v.verdict # "Approve" THEN "verdict_not_approved" ELSE "none"

\* land and block: the decision and its audit event go together.
Decided(reason) ==
    /\ landed' = IF reason = "none" THEN landed \cup {[regen EXCEPT !.error = "none"]} ELSE landed
    /\ regenAudit' = Append(regenAudit, IF reason = "none" THEN "landed" ELSE "blocked")

\* Gate.decide with at most one review and the reference to it the gate was given.
decide(scope, reproduced, repass, given, ref) ==
    /\ regen.tree > 0
    /\ Len(regenAudit) < MaxRegens
    /\ Decided(BlockReason(scope, reproduced, repass, given, ref))
    /\ UNCHANGED regen

RegenInit ==
    /\ regen = [tree |-> 0, path |-> "Cargo.lock", model |-> "sonnet", reviews |-> {}, error |-> "none"]
    /\ landed = {} /\ regenAudit = <<>>

RegenNext ==
    \/ \E path \in Paths, model \in Models, end \in {"no tool", "not started", "failed", "done"} :
        regenerate(path, model, end)
    \/ \E model \in Models, verdict \in {"Approve", "Reject"} : Review(model, verdict)
    \/ \E scope \in {"*", "repo", "other"}, reproduced, repass \in BOOLEAN,
          given \in {{}} \cup {{v} : v \in regen.reviews}, ref \in 1..MaxRegens :
        decide(scope, reproduced, repass, given, ref)

------------------------------------------------------------------------------
(* The broker.  The request carries the lease as the caller last saw it;   *)
(* the fabric may have released the lease since.                           *)

LeaseStates == {"held", "released"}
ResultPaths == {"inside", "absolute", "parent", "empty"}
Secrets == {"known", "unknown"}
BrokerError == {"ResultPathEscapes", "LeaseNotHeld", "UnknownSecret", "BrokerDown", "Box"}

result_path_escapes(path) == path \in {"absolute", "parent"}

IdleBroker == [pc |-> "idle", seen |-> "held", path |-> "inside", secret |-> "known",
               used |-> FALSE, delivered |-> FALSE]

EndOp(s, error) ==
    /\ ops' = Append(ops, [path |-> s.path, secret |-> s.secret, used |-> s.used, error |-> error,
                           seen |-> s.seen, delivered |-> s.delivered,
                           audit |-> IF error = "none" THEN "Completed" ELSE "FailedClosed"])
    /\ broker' = IdleBroker

\* execute_into_container up to the call of execute.
execute_into_container(path, secret) ==
    LET s == [IdleBroker EXCEPT !.seen = lease, !.path = path, !.secret = secret] IN
    /\ broker.pc = "idle"
    /\ Len(ops) < MaxOps
    /\ IF result_path_escapes(path) \/ path = "empty"
       THEN EndOp(s, "ResultPathEscapes")
       ELSE broker' = [s EXCEPT !.pc = "execute"] /\ UNCHANGED ops
    /\ UNCHANGED lease

\* The store has the secret, does not know it, or is unreachable.
execute(up) ==
    LET s == broker IN
    /\ s.pc = "execute"
    /\ IF s.seen # "held" THEN EndOp(s, "LeaseNotHeld")
       ELSE IF ~up THEN EndOp(s, "BrokerDown")
       ELSE IF s.secret = "unknown" THEN EndOp(s, "UnknownSecret")
       ELSE broker' = [s EXCEPT !.pc = "deliver", !.used = TRUE] /\ UNCHANGED ops
    /\ UNCHANGED lease

\* The command in the box writes the result, or fails before or after it wrote.
Deliver(wrote, ok) ==
    /\ broker.pc = "deliver"
    /\ ok => wrote
    /\ EndOp([broker EXCEPT !.delivered = wrote], IF ok THEN "none" ELSE "Box")
    /\ UNCHANGED lease

LeaseChanges == \E state \in LeaseStates \ {lease} : lease' = state /\ UNCHANGED <<broker, ops>>

\* report_is_clean over the tokens of a scan's report.
Tokens == {"env=0", "proc=0", "disk=0", "disk=1", "env=", "x=0"}
Keys == {"env=0", "proc=0", "disk=0"}
report_is_clean(tokens) ==
    /\ \A i \in DOMAIN tokens : tokens[i] \in Keys
    /\ Len(tokens) = 3
    /\ \A k \in Keys : \E i \in DOMAIN tokens : tokens[i] = k

BrokerInit == broker = IdleBroker /\ lease = "held" /\ ops = <<>>

BrokerNext ==
    \/ \E path \in ResultPaths, secret \in Secrets : execute_into_container(path, secret)
    \/ \E up \in BOOLEAN : execute(up)
    \/ \E wrote, ok \in BOOLEAN : Deliver(wrote, ok)
    \/ LeaseChanges

GatesInit == PolicyInit /\ RegenInit /\ BrokerInit

GatesStep ==
    \/ (JudgeNext \/ EditNext) /\ UNCHANGED <<regenVars, brokerVars>>
    \/ RegenNext /\ UNCHANGED <<policyVars, brokerVars>>
    \/ BrokerNext /\ UNCHANGED <<policyVars, regenVars>>

GatesSpec == GatesInit /\ [][GatesStep]_gateVars

------------------------------------------------------------------------------
(* Edits are a chain: each record's old gates are the new ones of the      *)
(* record before it, it switches one gate and no other, and a human made   *)
(* it: no two edits of one log lose each other.  A change is let through   *)
(* only by an engine that is there, with every commit that is not known to *)
(* be a merge signed off, a feature or fix with its changelog entry, and   *)
(* every changed file scanned and clean.                                   *)
PolicySound ==
    /\ \A i \in DOMAIN policyLog :
        /\ policyLog[i].old = IF i = 1 THEN house_gates ELSE policyLog[i - 1].new
        /\ \A g \in GateIds : (policyLog[i].new[g] # policyLog[i].old[g]) <=> (g = policyLog[i].gate)
        /\ policyLog[i].principal = "user"
    /\ Cardinality({e \in Editors : editor[e].pc = "append"}) <= 1
    /\ ~decision.blocks =>
        /\ decision.up
        /\ \A i \in DOMAIN decision.ctx.commits : LET c == decision.ctx.commits[i] IN
            /\ c.signed \/ (c.counted /\ c.parents = 2)
            /\ c.feat => decision.ctx.changelog = "entries"
        /\ decision.ctx.file = "clean" /\ decision.ctx.changelog # "no content"

(* What lands is a derived file some driver regenerated, and the very tree *)
(* that lands was approved by a model other than the one that made it,     *)
(* however many regenerations and reviews there were; each decision left   *)
(* one audit event.                                                        *)
RegenSound ==
    /\ \A r \in landed :
        /\ driver_for(r.path) # "none"
        /\ \E v \in r.reviews : v.tree = r.tree /\ v.model # r.model /\ v.verdict = "Approve"
    /\ landed # {} => \E i \in DOMAIN regenAudit : regenAudit[i] = "landed"

(* The secret is used only for a caller that saw its lease held, for a     *)
(* result inside the workspace, and a result is delivered only for a       *)
(* secret that was used; whatever else happens the operation ends refused. *)
(* An operation that succeeded delivered.  A scan is clean exactly when    *)
(* each of the three places was reported once, and empty.                  *)
BrokerSound ==
    /\ \A i \in DOMAIN ops :
        /\ ops[i].used => ops[i].seen = "held" /\ ops[i].path = "inside" /\ ops[i].secret = "known"
        /\ ops[i].delivered => ops[i].used
        /\ ops[i].error \in BrokerError \cup {"none"}
        /\ ops[i].audit = "Completed" => ops[i].used /\ ops[i].delivered
    /\ (ops # <<>> /\ Last(ops).delivered) => \A tokens \in SeqOf(Tokens, 3) :
        report_is_clean(tokens) <=> Len(tokens) = 3 /\ ToSet(tokens) = Keys

GatesSound == PolicySound /\ RegenSound /\ BrokerSound
==============================================================================
