------------------------------ MODULE Diagnosis ------------------------------
(***************************************************************************)
(* hugit-diag.  The bisection of a red history over memoized verdicts, the *)
(* statistics of flaky tests with their non-gating quarantine list, and    *)
(* the sealed experiment whose report is the only key to two features.     *)
(* The three share no state; each has a next-state relation of its own.    *)
(* A digest is modelled by the fields it is computed from.                 *)
(***************************************************************************)
EXTENDS Integers, Sequences, SequencesExt, FiniteSets

CONSTANTS
    MaxTrees,           \* bound: trees of a history
    Bases,              \* sizes of a diagnosis without the digits of its own size
    DIAGNOSIS_SIZE_BOUND,
    MIN_RUNS_FLAKY, MIN_RUNS_REAL, MIN_SAMPLE_N,
    MaxTestRuns,        \* bound: results fed to the collector
    MaxWaves,           \* bound: contributions offered to the experiment
    MaxAttempts         \* bound: promotions attempted

ASSUME DiagConstants ==
    /\ MaxTrees \in Nat /\ Bases \subseteq Nat /\ DIAGNOSIS_SIZE_BOUND \in Nat
    /\ MIN_RUNS_FLAKY \in Nat /\ MIN_RUNS_REAL \in Nat /\ MIN_SAMPLE_N \in Nat

VARIABLES
    bisect,             \* one call of on_red_signal: its history, window and readings
    verdicts,           \* the memo cache: the verdict recorded of each tree, if any
    stats,              \* what the collector counted for a test
    buffer,             \* contributions the experiment accepted
    corpus,             \* the corpus in hand, sealed
    report,             \* the gate report in hand
    gate,               \* the features that are on, each with the corpus it was granted on
    audit,              \* kinds of the audit events
    tries               \* ghost: contributions refused, promotions attempted, doctored reports

bisectVars == <<bisect, verdicts>>
flakeVars == <<stats>>
experimentVars == <<buffer, corpus, report, gate, audit, tries>>
diagVars == <<bisectVars, flakeVars, experimentVars>>

------------------------------------------------------------------------------
(* History and the oracle.  Trees are 0 to n - 1, tree 0 is the green      *)
(* baseline, and first is the first red one (n when the tip is green): the *)
(* queue lands in order, so red is a suffix.  The cache holds the true     *)
(* verdict of a tree or none, and may gain one while the search runs.      *)

History == {h \in [n : 0..MaxTrees, first : 1..MaxTrees] : h.first <= h.n \/ h.n = 0}

Truth(h, i) == IF i < h.first THEN "green" ELSE "red"

\* MemoizedCheckOracle.probe: a miss, and a lookup that fails, count as a red real execution.
probe(i, answered) ==
    IF answered /\ verdicts[i] # "none"
    THEN [verdict |-> verdicts[i], real |-> FALSE]
    ELSE [verdict |-> "red", real |-> TRUE]

BisectError == {"NoRedTip", "DiagnosisTooLarge"}

NoOutcome == [state |-> "idle", history |-> [n |-> 0, first |-> 1], lo |-> 1, hi |-> 0,
              path |-> <<>>, culprit |-> 0, error |-> "", size |-> 0]

RecordVerdict(i) ==
    /\ i < bisect.history.n
    /\ verdicts[i] = "none"
    /\ verdicts' = [verdicts EXCEPT ![i] = Truth(bisect.history, i)]
    /\ UNCHANGED bisect

\* on_red_signal and find_culprit up to the loop.
find_culprit(h) ==
    /\ bisect.state = "idle"
    /\ bisect' = IF h.n = 0
                 THEN [NoOutcome EXCEPT !.state = "done", !.error = "NoRedTip"]
                 ELSE [NoOutcome EXCEPT !.state = "search", !.history = h, !.hi = h.n]
    /\ UNCHANGED verdicts

mid == bisect.lo + (bisect.hi - bisect.lo) \div 2

\* One turn of the loop.
Halve(answer) == IF answer.verdict = "green"
                 THEN [bisect EXCEPT !.lo = mid + 1, !.path = Append(@, <<mid, answer>>)]
                 ELSE [bisect EXCEPT !.hi = mid, !.path = Append(@, <<mid, answer>>)]

Probe == \E answered \in BOOLEAN :
    /\ bisect.state = "search"
    /\ bisect.lo < bisect.hi
    /\ bisect' = Halve(probe(mid, answered))
    /\ UNCHANGED verdicts

Conclude ==
    /\ bisect.state = "search"
    /\ bisect.lo >= bisect.hi
    /\ bisect' = IF bisect.lo = bisect.history.n
                 THEN [bisect EXCEPT !.state = "done", !.error = "NoRedTip"]
                 ELSE [bisect EXCEPT !.state = "found", !.culprit = bisect.lo]
    /\ UNCHANGED verdicts

\* Of a number below 10^5, more than twelve times the bound of a diagnosis.
Digits(k) == IF k < 10 THEN 1 ELSE IF k < 100 THEN 2 ELSE IF k < 1000 THEN 3
             ELSE IF k < 10000 THEN 4 ELSE 5

MAX_ITERS == 8

\* The size a diagnosis states is part of what is measured: a fixed point, by iteration.
exact_serialized_size(base) ==
    LET stamped[i \in 0..MAX_ITERS] == IF i = 0 THEN 0 ELSE base + Digits(stamped[i - 1])
    IN  stamped[MAX_ITERS]

\* try_diagnose_with_suspects: the suspects decide how large the diagnosis is.
diagnose(base) ==
    LET size == exact_serialized_size(base) IN
    /\ bisect.state = "found"
    /\ bisect' = IF size > DIAGNOSIS_SIZE_BOUND
                 THEN [bisect EXCEPT !.state = "done", !.error = "DiagnosisTooLarge"]
                 ELSE [bisect EXCEPT !.state = "done", !.size = size]
    /\ UNCHANGED verdicts

BisectInit == bisect = NoOutcome /\ verdicts = [i \in 0..(MaxTrees - 1) |-> "none"]

BisectNext ==
    \/ \E h \in History : find_culprit(h)
    \/ \E i \in 0..(MaxTrees - 1) : RecordVerdict(i)
    \/ Probe
    \/ Conclude
    \/ \E base \in Bases : diagnose(base)

------------------------------------------------------------------------------
(* Flakes.  A test is classified by its counts; only a flaky one is listed *)
(* in quarantine, and a listed test does not gate.                         *)

run_count == stats.pass + stats.fail

classify_from_stats ==
    IF stats.pass = 0 /\ run_count >= MIN_RUNS_REAL THEN "Real"
    ELSE IF stats.pass > 0 /\ stats.fail > 0 /\ run_count >= MIN_RUNS_FLAKY THEN "Flaky"
    ELSE "Unknown"

quarantine_list == IF classify_from_stats = "Flaky" THEN {"test"} ELSE {}

\* FlakeCollector.record; the list at the time is kept with the counts.
RecordResult(exit) ==
    /\ run_count < MaxTestRuns
    /\ stats' = IF exit = 0 THEN [stats EXCEPT !.pass = @ + 1, !.listed = @ \cup quarantine_list]
                            ELSE [stats EXCEPT !.fail = @ + 1, !.listed = @ \cup quarantine_list]

FlakeInit == stats = [pass |-> 0, fail |-> 0, listed |-> {}]

FlakeNext == \E exit \in {0, 1} : RecordResult(exit)

------------------------------------------------------------------------------
(* The experiment: contributions are ingested, a corpus is sealed, a       *)
(* report is generated, and a promotion is attempted with a report, a      *)
(* corpus and an evaluator.                                                *)

SourceOrigin == {"hugit", "corelink-server"}
Datapoint == [source : SourceOrigin, disjoint : BOOLEAN, agree : BOOLEAN, degraded : BOOLEAN]

ExperimentEvent == {"promotion.authorized", "promotion.refused", "ingestion.rejected"}

emit_event(event) == audit' = Append(audit, event)

is_focus_eligible(source) == source = "hugit"

ingest(dp) ==
    /\ Len(buffer) + tries.ineligible < MaxWaves
    /\ IF is_focus_eligible(dp.source)
       THEN buffer' = Append(buffer, dp) /\ UNCHANGED <<audit, tries>>
       ELSE /\ emit_event("ingestion.rejected")
            /\ tries' = [tries EXCEPT !.ineligible = @ + 1]
            /\ UNCHANGED buffer
    /\ UNCHANGED <<corpus, report, gate>>

\* partition: the members that are not degraded, in their order.
evaluated_of(members) ==
    LET kept[i \in 0..Len(members)] ==
          IF i = 0 THEN <<>>
          ELSE IF members[i].degraded THEN kept[i - 1] ELSE Append(kept[i - 1], members[i])
    IN  kept[Len(members)]

seal_digest(members) == members

seal ==
    /\ corpus' = [evaluated |-> evaluated_of(buffer), digest |-> seal_digest(evaluated_of(buffer))]
    /\ UNCHANGED <<buffer, report, gate, audit, tries>>

SealIntact(c) == seal_digest(c.evaluated) = c.digest

\* A member is dropped after sealing; the digest stays as it was.
with_member_removed(i) ==
    /\ i \in 1..Len(corpus.evaluated)
    /\ corpus' = [corpus EXCEPT !.evaluated = RemoveAt(@, i)]
    /\ UNCHANGED <<buffer, report, gate, audit, tries>>

Dashboard(c) == [n |-> Len(c.evaluated),
                 disjoint |-> Cardinality({i \in DOMAIN c.evaluated : c.evaluated[i].disjoint}),
                 disagree |-> Cardinality({i \in DOMAIN c.evaluated : ~c.evaluated[i].agree})]

ReportVerdict(d) == IF d.n < MIN_SAMPLE_N THEN "Insufficient"
                    ELSE IF d.disjoint = d.n /\ d.disagree = 0 THEN "Pass" ELSE "Fail"

compute_body_digest(r) == <<r.verdict, r.n, r.disjoint, r.disagree, r.corpus_seal>>

WithBody(r) == [r EXCEPT !.body_digest = compute_body_digest(r)]

\* What the digest covers is digested as computed, whatever the corpus is worth by then.
generate ==
    LET d == Dashboard(corpus) IN
    /\ report' = WithBody([verdict |-> ReportVerdict(d), n |-> d.n, disjoint |-> d.disjoint,
                           disagree |-> d.disagree, corpus_seal |-> corpus.digest,
                           body_digest |-> <<>>])
    /\ tries' = [tries EXCEPT !.doctored = ~SealIntact(corpus)]
    /\ UNCHANGED <<buffer, corpus, gate, audit>>

forged_pass ==
    /\ report' = [report EXCEPT !.verdict = "Pass", !.n = IF @ < MIN_SAMPLE_N THEN MIN_SAMPLE_N ELSE @]
    /\ UNCHANGED <<buffer, corpus, gate, audit, tries>>

\* A report of one corpus shown with another, with the seal of the second not recomputed.
verify_unsealed(r, c) ==
    IF compute_body_digest(r) # r.body_digest THEN "Forged"
    ELSE IF r.corpus_seal # c.digest THEN "CorpusTampered"
    ELSE "Ok"
verify(r, c) ==
    IF compute_body_digest(r) # r.body_digest THEN "Forged"
    ELSE IF r.corpus_seal # c.digest THEN "CorpusTampered"
    ELSE IF ~SealIntact(c) THEN "CorpusTampered"
    ELSE "Ok"

Promotion == {"claims-as-oracle", "regen-promotion"}

\* attempt_promotion: every refusal is audited, and so is the promotion.
attempt_promotion(p, healthy) ==
    /\ tries.attempts < MaxAttempts
    /\ tries' = [tries EXCEPT !.attempts = @ + 1]
    /\ IF healthy /\ verify(report, corpus) = "Ok" /\ report.verdict = "Pass"
       THEN gate' = gate \cup {<<p, corpus.evaluated, tries.doctored>>} /\ emit_event("promotion.authorized")
       ELSE UNCHANGED gate /\ emit_event("promotion.refused")
    /\ UNCHANGED <<buffer, corpus, report>>

\* apply_regen_promotion: the gate's state decides whether a regeneration may re-pass.
apply_regen_promotion == \E g \in gate : g[1] = "regen-promotion"

NoReport == [verdict |-> "Insufficient", n |-> 0, disjoint |-> 0, disagree |-> 0,
             corpus_seal |-> <<>>, body_digest |-> <<"Insufficient", 0, 0, 0, <<>>>>]

ExperimentInit ==
    /\ buffer = <<>> /\ corpus = [evaluated |-> <<>>, digest |-> <<>>]
    /\ report = NoReport /\ gate = {} /\ audit = <<>>
    /\ tries = [ineligible |-> 0, attempts |-> 0, doctored |-> FALSE]

ExperimentNext ==
    \/ \E dp \in Datapoint : ingest(dp)
    \/ seal
    \/ \E i \in 1..MaxWaves : with_member_removed(i)
    \/ generate
    \/ forged_pass
    \/ \E p \in Promotion, healthy \in BOOLEAN : attempt_promotion(p, healthy)

DiagInit == BisectInit /\ FlakeInit /\ ExperimentInit

DiagStep ==
    \/ BisectNext /\ UNCHANGED <<flakeVars, experimentVars>>
    \/ FlakeNext /\ UNCHANGED <<bisectVars, experimentVars>>
    \/ ExperimentNext /\ UNCHANGED <<bisectVars, flakeVars>>

DiagSpec == DiagInit /\ [][DiagStep]_diagVars

------------------------------------------------------------------------------
Power2[k \in Nat] == IF k = 0 THEN 1 ELSE 2 * Power2[k - 1]

(* A bisection that blames a tree has probed it and read red, its diff is  *)
(* against a tree that really is green, and the blamed tree is the first   *)
(* red one unless its verdict was not to be had when it was probed, in     *)
(* which case it is an earlier one.  "No red tip" means that the tip is    *)
(* green (or that there is only the baseline).  It took at most the        *)
(* logarithm of the history in probes, and a diagnosis states its own size *)
(* exactly.                                                                *)
BlameSound == bisect.state = "done" =>
    LET h == bisect.history
        c == bisect.culprit
        read == {bisect.path[k] : k \in 1..Len(bisect.path)}
    IN  /\ bisect.error \in BisectError \cup {""}
        /\ bisect.error = "NoRedTip" => h.n <= 1 \/ h.first = h.n
        /\ bisect.error # "NoRedTip" =>
            /\ c \in 1..(h.n - 1)
            /\ c - 1 < h.first /\ c <= h.first
            /\ \E real \in BOOLEAN :
                /\ <<c, [verdict |-> "red", real |-> real]>> \in read
                /\ c < h.first => real
        /\ Len(bisect.path) > 0 => Power2[Len(bisect.path) - 1] < h.n
        /\ bisect.error = "" =>
            /\ bisect.size <= DIAGNOSIS_SIZE_BOUND
            /\ \E base \in Bases : bisect.size = base + Digits(bisect.size)

(* A test that has only ever failed is never listed in quarantine, whenever *)
(* the list is asked for, and a test that was listed once stays flaky.      *)
QuarantineSound == stats.listed \cup quarantine_list # {} =>
    stats.pass > 0 /\ stats.fail > 0 /\ classify_from_stats = "Flaky"

(* A feature is on only by a report about a corpus that was sealed from     *)
(* what was ingested and left nothing healthy out, that is large enough and *)
(* has neither an overlap nor a disagreement (a report that was generated   *)
(* from a corpus already cut is the one exception the gate cannot see), and *)
(* each attempt and each rejection left one audit event.                    *)
PromotionEarned ==
    /\ \A g \in gate :
        /\ \E k \in 0..Len(buffer) : g[2] = evaluated_of(SubSeq(buffer, 1, k))
        /\ \/ g[3]
           \/ /\ Len(g[2]) >= MIN_SAMPLE_N
              /\ \A i \in 1..Len(g[2]) : g[2][i].disjoint /\ g[2][i].agree
    /\ Len(audit) = tries.attempts + tries.ineligible
    /\ \A i \in 1..Len(audit) : audit[i] \in ExperimentEvent
    /\ \A p \in Promotion : (\E g \in gate : g[1] = p) =>
        \E i \in 1..Len(audit) : audit[i] = "promotion.authorized"
    /\ apply_regen_promotion => \E i \in 1..Len(audit) : audit[i] = "promotion.authorized"

DiagnosisSound == BlameSound /\ QuarantineSound /\ PromotionEarned
==============================================================================
