------------------------------ MODULE Envelope ------------------------------
(***************************************************************************)
(* The context envelope of an intent, session, PR or campaign: what the    *)
(* recorder collects, what close_envelope stores at each capture level,    *)
(* and the rollup of envelopes into PR and campaign cost records.          *)
(*                                                                         *)
(* Transcripts are sequences of events; a blob is <<kind, content>>, and   *)
(* its ref is the blob itself (content addressing).  Sums are checked      *)
(* against U64Max, which stands for u64::MAX.  A ratio is a pair.          *)
(***************************************************************************)
EXTENDS Integers, Sequences, SequencesExt, FiniteSetsExt

CONSTANTS NoRef, U64Max, MaxEvents, EnvelopeIds, MaxEnvelopes

\* No ref is told apart from an error by its value.
ASSUME EnvelopeAssumption ==
  NoRef \notin {"Store", "NotASessionAltitude", "TwoTranscriptViolation"}

VARIABLES
  recorder,    \* the TrajectoryRecorder
  closing,     \* the close in progress: its draft, level and step
  blobs,       \* what the cold store holds
  closed,      \* the envelope returned by the last close, or its error
  envs,        \* the intent envelopes of a PR, in order
  landedIds    \* its landed intents

recVars == <<recorder, closing, blobs, closed>>
rollVars == <<envs, landedIds>>
envelopeVars == <<recorder, closing, blobs, closed, envs, landedIds>>

-----------------------------------------------------------------------------
(* Recording. *)

CaptureLevel == <<"off", "metrics", "task", "full">>
AtLeast(level, what) ==
  \E i, j \in 1..4 : i >= j /\ CaptureLevel[i] = level /\ CaptureLevel[j] = what

\* A transcript stored before, whose ref a draft may bring.
Earlier == <<"raw", <<"earlier">>>>

TrajectoryRecorder == [raw |-> <<>>, task |-> <<>>, tools |-> 0, turns |-> 0, total |-> 0]

record_turn(r) == [r EXCEPT !.turns = @ + 1, !.raw = Append(@, "turn")]
record_tool_call(r) == [r EXCEPT !.tools = @ + 1, !.raw = Append(@, "tool")]
record_task_event(r) == [r EXCEPT !.raw = Append(@, "task"), !.task = Append(@, "task")]
add_tokens(r, n) == [r EXCEPT !.total = @ + n]

Record ==
  /\ closing = NoRef /\ closed = NoRef /\ blobs = {Earlier}
  /\ Len(recorder.raw) < MaxEvents
  /\ \/ recorder' = record_turn(recorder)
     \/ recorder' = record_tool_call(recorder)
     \/ recorder' = record_task_event(recorder)
     \/ recorder.total = 0 /\ recorder' = add_tokens(recorder, 1)
  /\ UNCHANGED <<closing, blobs, closed, envs, landedIds>>

ZeroMetrics == [tools |-> 0, turns |-> 0, total |-> 0]

finish(r) == [raw |-> r.raw, task |-> r.task,
              metrics |-> [tools |-> r.tools, turns |-> r.turns, total |-> r.total]]

-----------------------------------------------------------------------------
(* Closing.  A put may fail; what was put before stays. *)

\* The draft: the recording, refs the caller already has, a prompt or none.
EnvelopeDraft(altitude, raw_ref, task_ref, prompt) ==
  [altitude |-> altitude, rec |-> finish(recorder), raw_ref |-> raw_ref,
   task_ref |-> task_ref, prompt |-> prompt]

EnvelopeErrors == {"Store", "NotASessionAltitude", "TwoTranscriptViolation"}

close_session_refused(altitude, session) == session /\ altitude = "intent"

BeginClose ==
  /\ closing = NoRef /\ closed = NoRef
  /\ \E level \in {CaptureLevel[i] : i \in 1..4}, altitude \in {"intent", "pr"},
        session \in BOOLEAN, given \in {NoRef, Earlier}, prompt \in BOOLEAN :
       IF close_session_refused(altitude, session)
       THEN /\ closed' = [error |-> "NotASessionAltitude", of |-> NoRef]
            /\ UNCHANGED closing
       ELSE /\ closing' = [draft |-> EnvelopeDraft(altitude, given, NoRef, prompt),
                           level |-> level, step |-> "raw",
                           raw |-> given, task |-> NoRef, prompt |-> NoRef]
            /\ closed' = NoRef
  /\ UNCHANGED <<recorder, blobs, envs, landedIds>>

\* The blob a step stores, if it stores one: a ref the draft brings is kept as it
\* is, a transcript needs the level and an event, the prompt the full level.
ToPut(c) ==
  CASE c.step = "raw" /\ c.raw = NoRef /\ AtLeast(c.level, "full") /\ c.draft.rec.raw # <<>>
         -> <<"raw", c.draft.rec.raw>>
    [] c.step = "task" /\ AtLeast(c.level, "task") /\ c.draft.rec.task # <<>>
         -> <<"task", c.draft.rec.task>>
    [] c.step = "prompt" /\ AtLeast(c.level, "full") /\ c.draft.prompt
         -> <<"prompt", <<"prompt">>>>
    [] OTHER -> NoRef

NextStep == [raw |-> "task", task |-> "prompt", prompt |-> "seal"]

PutStep ==
  /\ closing # NoRef /\ closing.step # "seal"
  /\ \E stored \in BOOLEAN :
       LET blob == ToPut(closing)
           moved == [closing EXCEPT !.step = NextStep[closing.step]]
       IN  /\ stored \/ blob # NoRef
           /\ blobs' = IF stored /\ blob # NoRef THEN blobs \union {blob} ELSE blobs
           /\ IF ~stored
              THEN closing' = NoRef /\ closed' = [error |-> "Store", of |-> closing]
              ELSE /\ closing' = IF blob = NoRef THEN moved
                                 ELSE CASE closing.step = "raw" -> [moved EXCEPT !.raw = blob]
                                        [] closing.step = "task" -> [moved EXCEPT !.task = blob]
                                        [] OTHER -> [moved EXCEPT !.prompt = blob]
                   /\ UNCHANGED closed
  /\ UNCHANGED <<recorder, envs, landedIds>>

two_transcript_missing(c) == AtLeast(c.level, "full") /\ NoRef \in {c.raw, c.task}

ContextEnvelope(c) ==
  [altitude |-> c.draft.altitude, raw_ref |-> c.raw, task_ref |-> c.task,
   prompt_ref |-> c.prompt, summary |-> AtLeast(c.level, "task"),
   metrics |-> IF AtLeast(c.level, "metrics") THEN c.draft.rec.metrics ELSE ZeroMetrics]

\* The envelope itself is the last put; its ref is returned with it.
Seal ==
  /\ closing # NoRef /\ closing.step = "seal"
  /\ closing' = NoRef
  /\ IF two_transcript_missing(closing)
     THEN closed' = [error |-> "TwoTranscriptViolation", of |-> closing] /\ UNCHANGED blobs
     ELSE \/ /\ closed' = [error |-> NoRef, level |-> closing.level,
                           envelope |-> ContextEnvelope(closing)]
             /\ blobs' = blobs \union {<<"envelope", ContextEnvelope(closing)>>}
          \/ closed' = [error |-> "Store", of |-> closing] /\ UNCHANGED blobs
  /\ UNCHANGED <<recorder, envs, landedIds>>

\* The caller tries the same draft again after a store error.
RetryClose ==
  /\ closing = NoRef /\ closed # NoRef /\ closed.error = "Store"
  /\ closing' = [closed.of EXCEPT !.step = "raw", !.raw = closed.of.draft.raw_ref,
                                  !.task = NoRef, !.prompt = NoRef]
  /\ closed' = NoRef
  /\ UNCHANGED <<recorder, blobs, envs, landedIds>>

RecordNext == Record \/ BeginClose \/ RetryClose \/ PutStep \/ Seal

-----------------------------------------------------------------------------
(* Rolling up.  An envelope of an intent attempt is                        *)
(* [id, born, run, tokens].                                                *)

Overflow == NoRef   \* RollupError::Overflow

\* checked_add: an overflow is an error and stays one.
add(a, b) == IF a = Overflow \/ b = Overflow THEN Overflow
             ELSE IF a + b > U64Max THEN Overflow ELSE a + b

Total(seq) == FoldLeft(add, 0, seq)

group_attempts(es) == [id \in {e.id : e \in Range(es)} |-> SelectSeq(es, LAMBDA e : e.id = id)]

\* Latest birth, then greatest run id, then last position.
final_attempt_idx(group) ==
  CHOOSE i \in DOMAIN group : \A j \in DOMAIN group :
    \/ group[i].born > group[j].born
    \/ group[i].born = group[j].born /\ group[i].run > group[j].run
    \/ group[i].born = group[j].born /\ group[i].run = group[j].run /\ i >= j

ratio(n, d) == IF d = 0 THEN <<0, 1>> ELSE <<n, d>>

WorkOf(es, landed) ==
  LET groups == group_attempts(es)
      Final(id) == groups[id][final_attempt_idx(groups[id])]
  IN  SelectSeq(es, LAMBDA e : e.id \in landed /\ e = Final(e.id))

\* Everything that is not the final attempt of a landed intent.
WasteOf(es, landed) ==
  LET groups == group_attempts(es)
      Final(id) == groups[id][final_attempt_idx(groups[id])]
  IN  SelectSeq(es, LAMBDA e : e.id \notin landed \/ e # Final(e.id))

Tokens(es) == [i \in DOMAIN es |-> es[i].tokens]

pr_record(es, landed, orchestration, verdicts) ==
  LET groups   == group_attempts(es)
      work     == Total(Tokens(WorkOf(es, landed)))
      waste    == Total(Tokens(WasteOf(es, landed)))
      authored == DOMAIN groups \union landed
      first    == {id \in landed : id \notin DOMAIN groups \/ Len(groups[id]) <= 1}
  IN  IF Overflow \in {work, waste, add(work, orchestration)} THEN Overflow
      ELSE [work |-> work, waste |-> waste, orchestration |-> orchestration,
            total |-> add(work, orchestration), panels |-> verdicts,
            retried |-> FoldLeft(+, 0, [i \in DOMAIN SetToSeq(DOMAIN groups) |->
                          Len(groups[SetToSeq(DOMAIN groups)[i]]) - 1]),
            discarded |-> Cardinality(DOMAIN groups \ landed),
            intents |-> Cardinality(landed),
            yield |-> ratio(Cardinality(first), Cardinality(authored))]

\* Yields are weighted by the intents each PR authored.
campaign_rollup(prs) ==
  LET Field(f(_)) == Total([i \in DOMAIN prs |-> f(prs[i])])
      authored(p) == p.intents + p.discarded
  IN  IF Overflow \in {Field(LAMBDA p : p.work), Field(LAMBDA p : p.waste),
                       Field(LAMBDA p : p.orchestration), Field(LAMBDA p : p.total)}
      THEN Overflow
      ELSE [work |-> Field(LAMBDA p : p.work), waste |-> Field(LAMBDA p : p.waste),
            orchestration |-> Field(LAMBDA p : p.orchestration),
            total |-> add(Field(LAMBDA p : p.work), Field(LAMBDA p : p.orchestration)),
            yield |-> ratio(FoldLeft(+, 0, [i \in DOMAIN prs |->
                              (prs[i].yield[1] * authored(prs[i])) \div prs[i].yield[2]]),
                            FoldLeft(+, 0, [i \in DOMAIN prs |-> authored(prs[i])]))]

AddEnvelope ==
  /\ Len(envs) < MaxEnvelopes
  /\ \E id \in EnvelopeIds, born \in 1..2, run \in 1..2, n \in 1..2 :
       envs' = Append(envs, [id |-> id, born |-> born, run |-> run, tokens |-> n,
                             nth |-> Len(envs)])
  /\ UNCHANGED <<recVars, landedIds>>

LandId ==
  /\ \E id \in EnvelopeIds : landedIds' = landedIds \union {id}
  /\ landedIds' # landedIds
  /\ UNCHANGED <<recVars, envs>>

RollNext == AddEnvelope \/ LandId

EnvelopeInit ==
  /\ recorder = TrajectoryRecorder
  /\ closing = NoRef /\ blobs = {Earlier} /\ closed = NoRef
  /\ envs = <<>> /\ landedIds = {}

EnvelopeSpec == EnvelopeInit /\ [][RecordNext \/ RollNext]_envelopeVars

-----------------------------------------------------------------------------
(* Properties. *)

\* A close that succeeds returns an envelope whose every ref resolves, whatever
\* puts failed before it; it holds both transcripts at the full level, none of
\* them below the task level unless the caller brought it, and no metrics at off;
\* a close that fails stores no envelope (envelope/mod.rs close_envelope).
EnvelopeWhole ==
  /\ closed # NoRef => closed.error \in EnvelopeErrors \union {NoRef}
  /\ closed # NoRef /\ closed.error = NoRef =>
       LET e == closed.envelope
       IN  /\ {e.raw_ref, e.task_ref, e.prompt_ref} \subseteq blobs \union {NoRef}
           /\ closed.level = "full" => NoRef \notin {e.raw_ref, e.task_ref}
           /\ closed.level \in {"off", "metrics"} =>
                /\ e.task_ref = NoRef /\ e.prompt_ref = NoRef /\ ~e.summary
                /\ e.raw_ref \in {NoRef, Earlier}
           /\ closed.level = "off" => e.metrics = ZeroMetrics
  /\ \A b \in blobs : b[1] = "envelope" =>
       {b[2].raw_ref, b[2].task_ref, b[2].prompt_ref} \subseteq blobs \union {NoRef}

\* The decomposition counts every attempt once: work and waste add up to all the
\* tokens spent, an intent that landed contributes exactly its latest attempt to
\* work, a sum past u64 is an error and never wraps, and the campaign's figures
\* and yield are those of its intents taken together (rollup.rs pr_record,
\* campaign_rollup).
CostsConserved ==
  LET pr  == pr_record(envs, landedIds, 1, 0)
      all == FoldLeft(+, 0, Tokens(envs))
      two == <<pr, pr_record(<<>>, {"x", "y"}, 0, 0)>>
  IN  /\ pr = Overflow => all + 1 > U64Max
      /\ pr # Overflow =>
           /\ pr.work + pr.waste = all
           /\ pr.total = pr.work + 1
           /\ Len(WorkOf(envs, landedIds)) = Cardinality(landedIds \intersect {e.id : e \in Range(envs)})
           /\ \A e \in Range(WorkOf(envs, landedIds)), o \in Range(envs) :
                o.id = e.id => o.born <= e.born
           /\ pr.yield[1] <= pr.yield[2]
           /\ pr.retried + Cardinality({e.id : e \in Range(envs)}) = Len(envs)
           /\ LET c == campaign_rollup(two)
              IN  c # Overflow =>
                    /\ c.work = pr.work /\ c.total = pr.total
                    /\ c.yield[2] = pr.intents + pr.discarded + 2
                    /\ c.yield[1] = 2 + Cardinality({id \in landedIds :
                         Cardinality({i \in DOMAIN envs : envs[i].id = id}) <= 1})
=============================================================================
