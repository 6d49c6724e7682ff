------------------------------ MODULE EventLog ------------------------------
(***************************************************************************)
(* The hash-chained event log of hugit-refstore, as operators: the record, *)
(* append, the authorization matrix and its audited denial, the chain      *)
(* verifier with its in-band redactions, replay into a ref state, the      *)
(* compensating event of an undo and the sidecar import.                   *)
(*                                                                         *)
(* A record is [seq, prev, this, kind, chain, payload].  The payload's     *)
(* JSON is reduced to the fields some reader of the log looks at.  SHA-256 *)
(* over the length-prefixed fields is an injective constructor: two hashes *)
(* are equal exactly when the hashed fields are (collision freedom).       *)
(* recorded_at is not hashed and no operator here reads it: left out.      *)
(***************************************************************************)
EXTENDS Integers, Sequences

CONSTANTS None,        \* an absent field, lookup or result
          IntentRefs   \* the refs inside refs/hugit/

Genesis == <<"genesis">>

\* An identity stands for the class prefix of "prefix:rest"; "bogus" stands for
\* every identity classify refuses (no colon, empty rest, unknown prefix).
Identities == {"human", "user", "orchestrator", "orch", "worker", "agent",
               "model", "bogus"}
PrincipalClasses == {"Human", "Orchestrator", "Worker", "Model"}

\* The payload of a record, with every field absent.  redacts holds at most one
\* commitment.
NoPayload == [ref |-> None, target |-> None, intent |-> None,
              inert |-> FALSE, redacts |-> <<>>]

-----------------------------------------------------------------------------
(* Hashing and appending. *)

compute_this_hash(prev, kind, chain, payload, seq) ==
  <<prev, kind, chain, payload, seq>>

\* Mutant: the hash of the first record.
head_hash_first(log) == IF log = <<>> THEN Genesis ELSE log[1].this

head_hash(log) == IF log = <<>> THEN Genesis ELSE log[Len(log)].this

NewRecord(log, kind, chain, payload) ==
  [seq |-> Len(log), prev |-> head_hash(log),
   this |-> compute_this_hash(head_hash(log), kind, chain, payload, Len(log)),
   kind |-> kind, chain |-> chain, payload |-> payload]

append(log, kind, chain, payload) ==
  Append(log, NewRecord(log, kind, chain, payload))

-----------------------------------------------------------------------------
(* Authorization. *)

classify(id) ==
  CASE id \in {"human", "user"} -> "Human"
    [] id \in {"orchestrator", "orch"} -> "Orchestrator"
    [] id \in {"worker", "agent"} -> "Worker"
    [] id = "model" -> "Model"
    [] OTHER -> None

matrix(class, endpoint) ==
  \/ endpoint = "Push"
  \/ endpoint = "Land" /\ class = "Orchestrator"
  \/ endpoint \in {"Undo", "Policy"} /\ class = "Human"

\* The acting principal is the tail of the chain; an empty chain or an
\* unclassifiable tail is refused.
authorize(chain, endpoint) ==
  /\ chain # <<>>
  /\ classify(chain[Len(chain)]) # None
  /\ matrix(classify(chain[Len(chain)]), endpoint)

\* AuditedGuard: what a denial leaves on the log.
audit_denial(log, chain) == append(log, "authz.denied", chain, NoPayload)

-----------------------------------------------------------------------------
(* The chain verifier. *)

\* Seq -> commitment; of several markers for one seq the last one counts.
collect_redactions(records) ==
  LET Markers(s) == {i \in 1..Len(records) :
                       /\ records[i].kind = "provenance.redaction"
                       /\ records[i].payload.redacts # <<>>
                       /\ records[i].payload.redacts[1].seq = s}
  IN  [s \in {s \in 0..(Len(records) - 1) : Markers(s) # {}} |->
         LET last == CHOOSE i \in Markers(s) : \A j \in Markers(s) : j <= i
         IN  records[last].payload.redacts[1]]

recompute(r) == compute_this_hash(r.prev, r.kind, r.chain, r.payload, r.seq)

ContentOK(r, redactions) ==
  IF r.seq \in DOMAIN redactions
    THEN /\ r.this = redactions[r.seq].original
         /\ recompute(r) = redactions[r.seq].redacted
    ELSE recompute(r) = r.this

verify_chain(records) ==
  LET redactions == collect_redactions(records)
  IN  \A i \in 1..Len(records) :
        /\ records[i].seq = i - 1
        /\ records[i].prev = IF i = 1 THEN Genesis ELSE records[i - 1].this
        /\ ContentOK(records[i], redactions)

-----------------------------------------------------------------------------
(* Replay.  The state is a partial function from ref names to targets;     *)
(* None is the BadPayload error, which nothing recovers from.              *)

EmptyRefs == [r \in {} |-> None]

ref_insert(refs, name, target) ==
  [r \in DOMAIN refs \union {name} |-> IF r = name THEN target ELSE refs[r]]

ref_remove(refs, name) == [r \in DOMAIN refs \ {name} |-> refs[r]]

replay_record(refs, rec) ==
  CASE rec.kind \in {"ref.update", "intent.landed"} ->
         IF rec.payload.inert THEN refs
         ELSE IF None \in {rec.payload.ref, rec.payload.target} THEN None
         ELSE ref_insert(refs, rec.payload.ref, rec.payload.target)
    [] rec.kind = "ref.delete" ->
         IF rec.payload.ref = None THEN None
         ELSE ref_remove(refs, rec.payload.ref)
    [] OTHER -> refs

replay_unchecked(records) ==
  LET after[n \in 0..Len(records)] ==
        IF n = 0 THEN EmptyRefs
        ELSE IF after[n - 1] = None THEN None
        ELSE replay_record(after[n - 1], records[n])
  IN  after[Len(records)]

ref_get(refs, name) == IF name \in DOMAIN refs THEN refs[name] ELSE None

-----------------------------------------------------------------------------
(* Undo: the event that compensates the one at seq target, or None when    *)
(* the request is refused (broken chain, out of range, a kind that touches *)
(* no ref, a payload without a ref, a prefix that does not replay).        *)

RefKinds == {"ref.update", "ref.delete", "intent.landed"}

compute_compensation(log, target) ==
  IF \/ ~verify_chain(log)
     \/ target >= Len(log)
     \/ log[target + 1].kind \notin RefKinds
     \/ log[target + 1].payload.ref = None
     \/ replay_unchecked(SubSeq(log, 1, target)) = None
  THEN None
  ELSE LET name  == log[target + 1].payload.ref
           prior == ref_get(replay_unchecked(SubSeq(log, 1, target)), name)
       IN  [kind    |-> IF prior = None THEN "ref.delete" ELSE "ref.update",
            payload |-> [NoPayload EXCEPT !.ref = name, !.target = prior]]

-----------------------------------------------------------------------------
(* Sidecar import. *)

\* Mutant: the last record is not looked at.
already_landed_but_last(log, intent) ==
  \E i \in 1..(Len(log) - 1) : /\ log[i].kind = "intent.landed"
                               /\ log[i].payload.intent = intent

already_landed(log, intent) ==
  \E i \in 1..Len(log) : /\ log[i].kind = "intent.landed"
                         /\ log[i].payload.intent = intent

\* Admissible iff the ref lies in refs/hugit/, the id is present and new; the
\* Push guard that follows allows every class, an unclassifiable tail included
\* (it counts as Worker).
import_admissible(log, intent, ref) ==
  /\ ref \in IntentRefs
  /\ intent # None
  /\ ~already_landed(log, intent)

import_payload(intent, ref, target) ==
  [NoPayload EXCEPT !.ref = ref, !.target = target, !.intent = intent]

-----------------------------------------------------------------------------
(* The whole effect of one call on a log.  A call appends its event when it *)
(* is authorized and admissible, leaves exactly one audit record when       *)
(* authorization refuses it, and nothing when it is refused for any other   *)
(* reason.                                                                  *)

\* Whether l admits the call at all: an undo needs something to compensate, an
\* import a ref in the intent namespace and a new id.
Admits(l, c) ==
  /\ c.verb = "undo" => compute_compensation(l, c.target) # None
  /\ c.verb = "import" => import_admissible(l, c.payload.intent, c.payload.ref)

\* The event an admitted call wants appended to l.
Wanted(l, c) ==
  CASE c.verb = "submit" -> [kind |-> c.kind, payload |-> c.payload]
    [] c.verb = "undo"   -> compute_compensation(l, c.target)
    [] c.verb = "import" ->
         [kind |-> "intent.landed",
          payload |-> import_payload(c.payload.intent, c.payload.ref,
                                     c.payload.target)]

Permitted(c) ==
  \/ c.verb = "import"
  \/ authorize(c.chain, IF c.verb = "undo" THEN "Undo" ELSE "Push")

Effect(l, c) ==
  IF ~Admits(l, c) THEN l
  ELSE IF Permitted(c)
    THEN append(l, Wanted(l, c).kind, c.chain, Wanted(l, c).payload)
    ELSE audit_denial(l, c.chain)
=============================================================================
