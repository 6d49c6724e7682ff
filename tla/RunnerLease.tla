----------------------------- MODULE RunnerLease -----------------------------
(***************************************************************************)
(* The client of the runner fabric: a check is dispatched on a lease that  *)
(* is acquired, used and closed with one call each, none of them retried.  *)
(* A box job executes on the lease and polls the result; an off-box job    *)
(* submits the trajectory it measured elsewhere, and the fabric signs the  *)
(* metrics it returns on close.  The fabric is external: it is modelled    *)
(* from the calls the client makes.                                        *)
(***************************************************************************)
EXTENDS Naturals, FiniteSets, FiniteSetsExt

CONSTANTS
    Jobs,               \* dispatches; each acquires a lease of its own
    Counts,             \* numbers of tool calls and of model turns of a run
    MaxProjected,       \* cap of projected events of a kind
    Tenant,             \* the tenant of the fabric's key, as configured
    MaxWireFaults       \* bound: calls that do not succeed

\* "other" is the lease or the tenant of somebody else.
ASSUME LeaseConstants ==
    /\ Counts \subseteq Nat /\ MaxProjected \in Nat \ {0}
    /\ "other" \notin Jobs \cup {Tenant}

VARIABLES
    job,                \* per job: path, position, what it has collected
    fabric,             \* per lease: what the fabric holds of it
    wire                \* calls that did not succeed, as <<job, call>>

leaseVars == <<job, fabric, wire>>

Metrics == [tools : Counts, turns : Counts]

NoMetrics == [tools |-> 0, turns |-> 0]

------------------------------------------------------------------------------
(* Calls.  A request or its answer is lost, refused (429, 503 or another   *)
(* status) or cannot be decoded.  What was only lost on the way back has   *)
(* taken effect.                                                           *)

Applied(fate) == fate \in {"ok", "unanswered", "garbled"}

Fates(call) == IF Cardinality(wire) < MaxWireFaults
               THEN {"ok", "unanswered", "garbled", "unsent", "refused"} ELSE {"ok"}

Travel(j, call, fate) == wire' = IF fate = "ok" THEN wire ELSE wire \cup {<<j, call>>}

SetJob(j, s) == job' = [job EXCEPT ![j] = s]

SetLease(j, fate, s) == fabric' = IF Applied(fate) THEN [fabric EXCEPT ![j] = s] ELSE fabric

------------------------------------------------------------------------------
(* dispatch_check and dispatch_attest_offbox.                              *)

\* The lease may be queued rather than held, and come without an ingest path.
Acquire(j) == \E fate \in Fates("acquire"), state \in {"held", "queued"}, ingest \in BOOLEAN :
    /\ job[j].pc = "start"
    /\ SetLease(j, fate, [fabric[j] EXCEPT !.state = state, !.ingest = ingest])
    /\ Travel(j, "acquire", fate)
    /\ SetJob(j, IF fate = "ok" THEN [job[j] EXCEPT !.pc = "use", !.state = state, !.ingest = ingest]
                                ELSE [job[j] EXCEPT !.pc = "done", !.error = "lease"])

\* exec_and_collect and attest_and_collect stop with an error, and the lease is closed.
CollectFails(j, error) == [job[j] EXCEPT !.pc = "close", !.error = error]

NotHeld(j) ==
    /\ job[j].pc = "use"
    /\ job[j].state # "held"
    /\ SetJob(j, CollectFails(j, "lease_not_held"))
    /\ UNCHANGED <<fabric, wire>>

Exec(j) == \E fate \in Fates("exec"), accepted \in BOOLEAN :
    /\ job[j].pc = "use" /\ job[j].path = "box" /\ job[j].state = "held"
    /\ SetLease(j, fate, [fabric[j] EXCEPT !.run = IF accepted THEN "running" ELSE @])
    /\ Travel(j, "exec", fate)
    /\ SetJob(j, IF fate # "ok" THEN CollectFails(j, "lease")
                 ELSE IF ~accepted THEN CollectFails(j, "run")
                 ELSE [job[j] EXCEPT !.pc = "poll"])

\* The box finishes the command when it likes.
BoxFinishes(j) == \E exit \in {0, 1} :
    /\ fabric[j].run = "running"
    /\ fabric' = [fabric EXCEPT ![j].run = "finished", ![j].exit = exit]
    /\ UNCHANGED <<job, wire>>

\* One poll; before the box has finished there is no envelope to decode.
PollMeta(j) == \E fate \in Fates("poll") :
    /\ job[j].pc = "poll"
    /\ Travel(j, "poll", fate)
    /\ SetJob(j, IF fate # "ok" THEN CollectFails(j, "lease")
                 ELSE IF fabric[j].run # "finished" THEN CollectFails(j, "run")
                 ELSE [job[j] EXCEPT !.pc = "close", !.exit = fabric[j].exit])
    /\ UNCHANGED fabric

\* At least one turn, and at most MaxProjected events of a kind.
project_intent_metrics(m) ==
    [tools |-> Min({m.tools, MaxProjected}), turns |-> Max({1, Min({m.turns, MaxProjected})})]

SubmitEnvelope(j) == \E fate \in Fates("submit") :
    /\ job[j].pc = "use" /\ job[j].path = "offbox" /\ job[j].state = "held"
    /\ IF job[j].ingest
       THEN /\ SetLease(j, fate, [fabric[j] EXCEPT !.metrics = project_intent_metrics(job[j].measured)])
            /\ Travel(j, "submit", fate)
            /\ SetJob(j, IF fate = "ok" THEN [job[j] EXCEPT !.pc = "close", !.exit = @] ELSE CollectFails(j, "lease"))
       ELSE SetJob(j, CollectFails(j, "no_envelope_ingest")) /\ UNCHANGED <<fabric, wire>>

\* The signature an answer carries: none, the one over this lease's metrics, or
\* one that the fabric made for another lease or tenant.
Signatures(j) ==
    {{}, {[lease |-> j, tenant |-> Tenant, metrics |-> fabric[j].metrics]}}
    \cup {{s} : s \in [lease : {"other"}, tenant : {Tenant}, metrics : Metrics]}
    \cup {{s} : s \in [lease : {j}, tenant : {"other"}, metrics : Metrics]}

\* Mutant: whatever the run was, its lease is closed by the exit code alone.
close_status_exit(j) == IF job[j].exit = 0 THEN "succeeded" ELSE "failed"

close_status(j) == IF job[j].error = "none" /\ job[j].exit = 0 THEN "succeeded" ELSE "failed"

\* The run's error wins over an error of the close.  The metrics in the answer
\* are believed as they come.
Close(j) == \E fate \in Fates("close"), sig \in Signatures(j), metrics \in Metrics :
    /\ job[j].pc = "close"
    /\ job[j].path = "box" => sig = {}
    /\ SetLease(j, fate, [fabric[j] EXCEPT !.state = "released", !.closed = close_status(j)])
    /\ Travel(j, "close", fate)
    /\ SetJob(j, IF job[j].error # "none" THEN [job[j] EXCEPT !.pc = "done"]
                 ELSE IF fate # "ok" THEN [job[j] EXCEPT !.pc = "done", !.error = "lease"]
                 ELSE [job[j] EXCEPT !.pc = "done", !.sig = sig, !.metrics = metrics])

LeaseInit ==
    /\ job \in [Jobs -> [path : {"box", "offbox"}, pc : {"start"}, state : {"none"}, ingest : {FALSE},
                         error : {"none"}, exit : {0, 1}, measured : Metrics, metrics : {NoMetrics},
                         sig : {{}}]]
    /\ \A j \in Jobs : job[j].path = "box" => job[j].exit = 0
    /\ fabric = [j \in Jobs |-> [state |-> "none", ingest |-> FALSE, run |-> "none", exit |-> 0,
                                 metrics |-> NoMetrics, closed |-> "none"]]
    /\ wire = {}

DispatchCheck(j) == Acquire(j) \/ NotHeld(j) \/ Exec(j) \/ PollMeta(j) \/ SubmitEnvelope(j) \/ Close(j)

LeaseNext == \E j \in Jobs : DispatchCheck(j) \/ BoxFinishes(j)

LeaseSpec == LeaseInit /\ [][LeaseNext]_leaseVars

------------------------------------------------------------------------------
(* What a finished dispatch reports.                                       *)

Succeeds(j) == job[j].pc = "done" /\ job[j].error = "none"

\* cost_attestation_verdict: the signature has to be over this lease, tenant
\* and the metrics that were returned.
verify_intent_metrics_sig(j, sig) ==
    /\ sig.lease = j
    /\ sig.tenant = Tenant
    /\ sig.metrics = job[j].metrics

cost_attestation_verdict(j) ==
    IF \E sig \in job[j].sig : verify_intent_metrics_sig(j, sig) THEN "attested" ELSE "unattested"

dispatch_reexec(j) ==
    IF Succeeds(j) THEN [reexecuted |-> TRUE, succeeded |-> job[j].exit = 0, cost |-> cost_attestation_verdict(j)]
    ELSE [reexecuted |-> FALSE, succeeded |-> FALSE, cost |-> "none"]

\* What the caller and the fabric believe of a run agrees: a reported verdict is
\* the one the box produced and the one the lease was closed with, a lease is
\* closed as succeeded only for a run that passed, and one that is still open
\* after the dispatch was cut off by a lost acquire or close.
LeaseHonest ==
    \A j \in Jobs :
        /\ Succeeds(j) => /\ fabric[j].closed = IF job[j].exit = 0 THEN "succeeded" ELSE "failed"
                          /\ job[j].path = "box" => fabric[j].run = "finished" /\ fabric[j].exit = job[j].exit
        /\ fabric[j].closed = "succeeded" =>
            IF job[j].path = "box" THEN fabric[j].run = "finished" /\ fabric[j].exit = 0 ELSE job[j].exit = 0
        /\ job[j].pc = "done" /\ fabric[j].state \in {"held", "queued"} =>
            {<<j, "acquire">>, <<j, "close">>} \cap wire # {}

\* A cost is attested only for a run that was executed again and whose measured
\* trajectory the fabric holds; below the cap the figures are the measured ones.
CostHonest ==
    \A j \in Jobs : dispatch_reexec(j).cost = "attested" =>
        /\ job[j].path = "offbox"
        /\ job[j].measured.turns \in 1..MaxProjected /\ job[j].measured.tools <= MaxProjected
            => job[j].metrics = job[j].measured /\ fabric[j].metrics = job[j].measured

\* A dispatched check reports what happened on its lease, at the cost the
\* fabric signed for that lease.
DispatchHonest == LeaseHonest /\ CostHonest
==============================================================================
