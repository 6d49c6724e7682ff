------------------------------ MODULE ColdTier ------------------------------
(***************************************************************************)
(* Compaction of the event log into sealed cold ranges, recovery of the    *)
(* log after the hot store is lost, redaction of a record in place, and    *)
(* the intent and machine projections of the log.                          *)
(*                                                                         *)
(* tlog is the log of the hot Durable Object, tcold the cold object store. *)
(* A charter is a sequence of lines; a line is <<"text">> or the trailer   *)
(* <<"Intent-Id", id>>.                                                    *)
(***************************************************************************)
EXTENDS EventLog, FiniteSets

CONSTANTS Targets, Ids, Charters,
          HotBounds,        \* the bounds compact is called with
          MaxRecords        \* bound on the log

\* A charter is a sequence of lines.
ASSUME ColdAssumption ==
  /\ HotBounds \subseteq Nat
  /\ \A c \in Charters : c \in Seq({c[i] : i \in DOMAIN c})

VARIABLES tlog, tcold, charter   \* charter: seq of an intent.landed -> charter

coldVars == <<tlog, tcold, charter>>

-----------------------------------------------------------------------------
(* Cold ranges and compaction. *)

ColdRange(records) ==
  [start   |-> IF records = <<>> THEN 0 ELSE records[1].seq,
   end     |-> IF records = <<>> THEN 0 ELSE records[Len(records)].seq + 1,
   head    |-> head_hash(records),
   records |-> records]

\* The object key: two ranges with the same span and head share it.
key(range) == <<range.start, range.end, range.head>>

cold_put(cold, range) == {r \in cold : key(r) # key(range)} \union {range}

HotRemainder(log, bound) ==
  IF Len(log) <= bound THEN log ELSE SubSeq(log, Len(log) - bound + 1, Len(log))

CompactionReport(log, bound) ==
  LET sealed == IF Len(log) <= bound THEN 0 ELSE Len(log) - bound
  IN  [sealed_start |-> IF sealed = 0 THEN Len(log) ELSE 0,
       sealed_end   |-> IF sealed = 0 THEN Len(log) ELSE sealed,
       sealed_count |-> sealed,
       hot          |-> HotRemainder(log, bound)]

\* Mutant: seals one record of the hot remainder too few.
compact_short(log, bound, cold) ==
  IF ~verify_chain(log) \/ Len(log) <= bound THEN cold
  ELSE cold_put(cold, ColdRange(SubSeq(log, 2, Len(log) - bound)))

compact(log, bound, cold) ==
  IF ~verify_chain(log) \/ Len(log) <= bound THEN cold
  ELSE cold_put(cold, ColdRange(SubSeq(log, 1, Len(log) - bound)))

-----------------------------------------------------------------------------
(* Recovery. *)

Holding(cold, seq) == {r \in cold : seq \in r.start..(r.end - 1)}

\* Keys are listed in lexical order, by start and then by end, and a later
\* range overwrites the records of an earlier one.
Listed(cold, seq) ==
  LET After(a, b) == a.start > b.start \/ (a.start = b.start /\ a.end >= b.end)
      last == CHOOSE r \in Holding(cold, seq) : \A o \in Holding(cold, seq) : After(r, o)
  IN  last.records[seq - last.start + 1]

HasSeq(records, seq) == \E i \in DOMAIN records : records[i].seq = seq

BySeq(records, seq) == records[CHOOSE i \in DOMAIN records : records[i].seq = seq]

\* The hot tail fills what the cold tier leaves vacant, the mirror what is
\* missing below the highest sequence number seen.
SourceOf(cold, mirror, tail, seq) ==
  IF Holding(cold, seq) # {} THEN "cold"
  ELSE IF HasSeq(tail, seq) THEN "hot"
  ELSE IF HasSeq(mirror, seq) THEN "mirror"
  ELSE "nowhere"

RecordAt(cold, mirror, tail, seq) ==
  IF SourceOf(cold, mirror, tail, seq) = "cold" THEN Listed(cold, seq)
  ELSE IF SourceOf(cold, mirror, tail, seq) = "hot" THEN BySeq(tail, seq)
  ELSE BySeq(mirror, seq)

max_seq(cold, tail) ==
  LET ends == {r.end : r \in cold} \union {tail[i].seq + 1 : i \in DOMAIN tail} \union {0}
  IN  CHOOSE e \in ends : \A o \in ends : o <= e

NoMirror == <<>>

RecoveryError(what) == [ok |-> FALSE, why |-> what, records |-> <<>>, source |-> "nowhere"]

recover_with_sources(cold, mirror, tail) ==
  LET span    == max_seq(cold, tail)
      From(s) == SourceOf(cold, mirror, tail, s)
      records == [i \in 1..span |-> RecordAt(cold, mirror, tail, i - 1)]
  IN  IF \E s \in 0..(span - 1) : From(s) = "nowhere"
      THEN RecoveryError("IncompleteChain")
      ELSE IF ~verify_chain(records) THEN RecoveryError("Tamper")
      ELSE IF replay_unchecked(records) = None THEN RecoveryError("Replay")
      ELSE [ok |-> TRUE, why |-> "none", records |-> records,
            source |-> IF \E s \in 0..(span - 1) : From(s) = "mirror"
                       THEN "ColdTierWithMirror" ELSE "ColdTier"]

recover_with_mirror(cold, mirror) == recover_with_sources(cold, mirror, <<>>)
recover_from_cold(cold) == recover_with_mirror(cold, NoMirror)

-----------------------------------------------------------------------------
(* Redaction: the record keeps its hash, the marker commits to both. *)

RedactionCommitment(record, chain, payload) ==
  [seq |-> record.seq, original |-> record.this,
   redacted |-> compute_this_hash(record.prev, record.kind, chain, payload, record.seq)]

redact_record(record, chain, payload) ==
  [seq |-> record.seq, prev |-> record.prev, this |-> record.this, kind |-> record.kind,
   chain |-> chain, payload |-> payload]

-----------------------------------------------------------------------------
(* Projections. *)

\* The records of some kinds, in log order.
OfKinds(log, kinds) ==
  LET picked[n \in 0..Len(log)] ==
        IF n = 0 THEN <<>>
        ELSE IF log[n].kind \in kinds THEN Append(picked[n - 1], log[n])
        ELSE picked[n - 1]
  IN  picked[Len(log)]

\* The payload of an intent.landed has all its fields.
WellFormed(record) == None \notin {record.payload.intent, record.payload.ref, record.payload.target}

parse_intent(record) ==
  [seq |-> record.seq, intent_id |-> record.payload.intent, ref_name |-> record.payload.ref,
   target |-> record.payload.target, charter |-> charter[record.seq]]

Landed(log) == OfKinds(log, {"intent.landed"})

intents_from_records(log) ==
  [ok      |-> \A i \in DOMAIN Landed(log) : WellFormed(Landed(log)[i]),
   intents |-> [i \in DOMAIN Landed(log) |-> parse_intent(Landed(log)[i])]]

Trailer(id) == <<"Intent-Id", id>>

generate_message(intent) == intent.charter \o <<<<"text">>, Trailer(intent.intent_id)>>

GitCommit(intent) ==
  [seq |-> intent.seq, intent_id |-> intent.intent_id, ref_name |-> intent.ref_name,
   target |-> intent.target, message |-> generate_message(intent)]

\* The first line that carries the prefix.
intent_id_from_message(message) ==
  LET trailers == {i \in DOMAIN message : message[i][1] = "Intent-Id"}
  IN  IF trailers = {} THEN None
      ELSE message[CHOOSE i \in trailers : \A j \in trailers : i <= j][2]

is_raw_push(kind) == kind \in {"ref.update", "ref.delete"}

external_change_row(record) ==
  [seq |-> record.seq, kind |-> record.kind, ref_name |-> record.payload.ref,
   target |-> record.payload.target]

ProjectionRow(record) ==
  IF record.kind = "intent.landed"
  THEN [kind |-> "Intent", row |-> GitCommit(parse_intent(record))]
  ELSE [kind |-> "ExternalChange", row |-> external_change_row(record)]

\* One row for every record that touches a ref; the first malformed intent is an
\* error.
project_machine(log) ==
  LET rows == OfKinds(log, {"intent.landed", "ref.update", "ref.delete"})
  IN  [ok   |-> \A i \in DOMAIN rows : is_raw_push(rows[i].kind) \/ WellFormed(rows[i]),
       rows |-> [i \in DOMAIN rows |-> ProjectionRow(rows[i])]]

commits(machine) == OfKinds(machine, {"Intent"})

is_consistent_with(machine, intents) ==
  /\ Len(commits(machine)) = Len(intents)
  /\ \A i \in DOMAIN intents :
       LET c == commits(machine)[i].row
       IN  /\ c.seq = intents[i].seq
           /\ c.intent_id = intents[i].intent_id
           /\ c.ref_name = intents[i].ref_name
           /\ c.target = intents[i].target
           /\ intent_id_from_message(c.message) = intents[i].intent_id

-----------------------------------------------------------------------------
(* Steps. *)

ColdInit == tlog = <<>> /\ tcold = {} /\ charter = [s \in {} |-> <<>>]

ColdRoom == Len(tlog) < MaxRecords

\* submit appends the payload as it is given, with a ref and a target or not.
SubmitUpdate ==
  /\ ColdRoom
  /\ \E t \in Targets \union {None} :
       tlog' = append(tlog, "ref.update", <<"human">>,
                      [NoPayload EXCEPT !.ref = "r", !.target = t])
  /\ UNCHANGED <<tcold, charter>>

LandIntent ==
  /\ ColdRoom
  /\ \E id \in Ids, t \in Targets, c \in Charters :
       /\ ~already_landed(tlog, id)
       /\ tlog' = append(tlog, "intent.landed", <<"human">>, import_payload(id, "r", t))
       /\ charter' = ref_insert(charter, Len(tlog), c)
  /\ UNCHANGED tcold

\* The record is rewritten to the pseudonym and the commitment appended.
Redact ==
  /\ ColdRoom
  /\ \E s \in 0..(Len(tlog) - 1) :
       LET r == tlog[s + 1]
           c == RedactionCommitment(r, <<"model">>, r.payload)
       IN  /\ r.kind # "provenance.redaction"
           /\ r.chain # <<"model">>
           /\ tlog' = append([tlog EXCEPT ![s + 1] = redact_record(r, <<"model">>, r.payload)],
                             "provenance.redaction", <<"human">>,
                             [NoPayload EXCEPT !.redacts = <<c>>])
  /\ UNCHANGED <<tcold, charter>>

Compact ==
  /\ \E b \in HotBounds : tcold' = compact(tlog, b, tcold)
  /\ tcold' # tcold
  /\ UNCHANGED <<tlog, charter>>

HotTails(log) == {SubSeq(log, i, Len(log)) : i \in 1..(Len(log) + 1)}

\* The Durable Object is lost with some tail of its log still readable, and a
\* fresh one is seeded with what recovery returns; a refused recovery changes
\* nothing.
LoseHot ==
  /\ \E tail \in HotTails(tlog), mirror \in {NoMirror, tlog} :
       LET got == recover_with_sources(tcold, mirror, tail)
       IN  got.ok /\ tlog' = got.records
  /\ tlog' # tlog
  /\ charter' = [s \in DOMAIN charter \intersect (0..(Len(tlog') - 1)) |-> charter[s]]
  /\ UNCHANGED tcold

ColdNext == SubmitUpdate \/ LandIntent \/ Redact \/ Compact \/ LoseHot

-----------------------------------------------------------------------------
(* Properties. *)

Poisoned(records) == replay_unchecked(records) = None

\* A record sealed on one side of its redaction while the marker is on the other:
\* in clear with the marker among what is recovered, or redacted with the marker
\* lost.
SealedAcross(got) ==
  \E s \in 0..(Len(got) - 1) :
    /\ Holding(tcold, s) # {}
    /\ recompute(Listed(tcold, s)) #
         IF s \in DOMAIN collect_redactions(got)
         THEN collect_redactions(got)[s].redacted ELSE Listed(tcold, s).this

\* Compaction and recovery are lossless: whatever tail and mirror survive the
\* loss of the hot store, recovery yields the chain of the log up to the highest
\* record any source has, with its hashes unchanged and its content changed at
\* most where a redaction is itself lost with the tail; it refuses exactly when a
\* record is nowhere, a payload does not replay, or a range holds a record on one
\* side of its redaction and the marker is on the other (compaction/mod.rs
\* compact, recovery/mod.rs recover_with_sources).
RecoveryExact ==
  \A tail \in HotTails(tlog), mirror \in {NoMirror, tlog} :
    LET got  == recover_with_sources(tcold, mirror, tail)
        span == max_seq(tcold, tail)
        goal == SubSeq(tlog, 1, span)
        Held(s) == Holding(tcold, s) # {} \/ HasSeq(tail, s) \/ mirror # NoMirror
    IN  /\ span <= Len(tlog)
        /\ got.ok => /\ Len(got.records) = span
                     /\ \A i \in 1..span :
                          /\ got.records[i].this = goal[i].this
                          /\ got.records[i] # goal[i] =>
                               \E m \in (span + 1)..Len(tlog) :
                                 /\ tlog[m].kind = "provenance.redaction"
                                 /\ tlog[m].payload.redacts[1].seq = i - 1
        /\ got.why = "IncompleteChain" <=> \E s \in 0..(span - 1) : ~Held(s)
        /\ got.why = "Replay" => Poisoned(tlog)
        /\ got.why = "Tamper" <=> SealedAcross(goal) /\ \A s \in 0..(span - 1) : Held(s)

\* What a compaction leaves hot and what it has sealed are together the whole
\* log, whatever ranges were sealed before with another bound.
CompactedWhole ==
  verify_chain(tlog) => \A b \in HotBounds :
    LET report == CompactionReport(tlog, b)
        got    == recover_with_sources(compact(tlog, b, tcold), NoMirror, report.hot)
    IN  /\ report.sealed_count + Len(report.hot) = Len(tlog)
        /\ got.why # "IncompleteChain"
        /\ got.ok => Len(got.records) = Len(tlog)

\* The two altitudes of one log agree: the machine history carries exactly the
\* landed intents, in order and traceable by the trailer of their message, unless
\* a charter itself has a line that reads as a trailer (projection/mod.rs
\* is_consistent_with, intent_id_from_message).
AltitudesAgree ==
  LET model   == intents_from_records(tlog)
      machine == project_machine(tlog)
      intents == model.intents
      Quoting(i) == \E l \in DOMAIN intents[i].charter :
                      intents[i].charter[l][1] = "Intent-Id"
  IN  /\ model.ok = machine.ok
      /\ is_consistent_with(machine.rows, intents)
           <=> \A i \in DOMAIN intents :
                 Quoting(i) => intent_id_from_message(intents[i].charter) = intents[i].intent_id

\* The projection module calls its two zooms unable to disagree.
AltitudesNeverDisagree ==
  is_consistent_with(project_machine(tlog).rows, intents_from_records(tlog).intents)

\* A fresh store is never seeded with the clear content of a redacted record.
NoClearAfterLoss ==
  [][\A i \in DOMAIN tlog \intersect DOMAIN tlog' :
       tlog[i].chain = <<"model">> => tlog'[i].chain = <<"model">>]_coldVars
=============================================================================
