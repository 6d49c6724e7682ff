---------------------------- MODULE LedgerViews ----------------------------
(***************************************************************************)
(* The ledger's read models over the event log (fleet state, live watch,   *)
(* deep links), the redaction every displayed text goes through, and the   *)
(* journals an agent resumes from.                                         *)
(*                                                                         *)
(* A text is a sequence of tokens and a token is its shape: what the       *)
(* secret scanner can tell about it (length class, hex, entropy band,      *)
(* path form, the digest prefix before it).  An id is a pair of a text and *)
(* a number that tells apart ids of one shape.                             *)
(***************************************************************************)
EXTENDS Integers, Sequences, SequencesExt, FiniteSetsExt

CONSTANTS ViewIds, MaxViewEvents,
          Horizon, MaxNow, JournalKeys, NoTime

ASSUME JournalAssumption ==
  /\ Horizon \in Nat
  /\ \A k \in JournalKeys :
       k \in [tenant: Seq(STRING), workspace: Seq(STRING), intent: Seq(STRING)]

VARIABLES vlog, lines, latency,       \* the log read, and the watch display
          journals, now, resumed      \* the journal store, the clock, last resume

viewVars == <<vlog, lines, latency>>
journalVars == <<journals, now, resumed>>

-----------------------------------------------------------------------------
(* Redaction. *)

\* marker: a structural secret (marker, known prefix, bearer, sk-, PEM header,
\* password in a URL or after a keyword).  short: below the scanned length.
\* digest: 40 or 64 hex digits, with a digest algorithm before its colon or
\* not.  hexrun: lower-case hex of another length.  path_*: separators and a
\* path alphabet, too many class changes, or a secret-like segment.  word_*:
\* by entropy, below 4.0, from 4.0, from 4.5.  ulid: 26 Crockford letters, whose
\* entropy is at least 4.0.
Shapes == {"marker", "short", "digest", "algo_digest", "hexrun", "path_plain",
           "path_dense", "path_secret", "word_low", "word_mid", "word_high", "ulid"}

ASSUME ViewAssumption == \A id \in ViewIds : ToSet(id[1]) \subseteq Shapes

is_structural_secret(text) == \E i \in DOMAIN text : text[i] = "marker"

PathVerdict(shape) ==
  CASE shape = "path_plain" -> "Survive"
    [] shape \in {"path_dense", "path_secret"} -> "Redact"
    [] OTHER -> "NotAPath"

high_entropy_token(text) ==
  \E i \in DOMAIN text :
    \/ text[i] \in {"digest", "hexrun", "word_mid", "word_high", "ulid"}
    \/ PathVerdict(text[i]) = "Redact"

is_secret(text) == is_structural_secret(text) \/ high_entropy_token(text)

REDACTED == <<<<"redacted">>, 0>>

apply(id) == IF is_secret(id[1]) THEN REDACTED ELSE id

\* The gate on identifiers that are stored: one token, digests and ULIDs pass.
is_safe_identifier_shape(text) ==
  \/ text = <<>>
  \/ /\ ~is_structural_secret(text)
     /\ Len(text) = 1
     /\ text[1] \notin {"hexrun", "word_high"}

-----------------------------------------------------------------------------
(* The fleet. *)

Records(kinds) == SelectSeq(vlog, LAMBDA e : e.kind \in kinds)
WsKinds == {"ws.state.active", "ws.state.closed", "ws.state.other"}

workspace_state(kind) ==
  CASE kind = "ws.state.active" -> "Active"
    [] kind = "ws.state.closed" -> "Closed"
    [] OTHER -> "Idle"

LastOf(kinds, Same(_)) ==
  LET at == {i \in DOMAIN vlog : vlog[i].ok /\ vlog[i].kind \in kinds /\ Same(vlog[i])}
  IN  IF at = {} THEN 0 ELSE Max(at)

WorkspacesOf(log) == {log[i].id : i \in {i \in DOMAIN log : log[i].ok /\ log[i].kind \in WsKinds}}

\* Keyed by the raw id; what is displayed is redacted afterwards.
workspaces ==
  [id \in WorkspacesOf(vlog) |->
     workspace_state(vlog[LastOf(WsKinds, LAMBDA e : e.id = id)].kind)]

\* A completion or failure counts only after the latest assignment.
AgentState(id) ==
  LET from == LastOf({"agent.assigned"}, LAMBDA e : e.id = id)
      done == {i \in (from + 1)..Len(vlog) :
                 vlog[i].ok /\ vlog[i].id = id
                 /\ vlog[i].kind \in {"agent.completed", "agent.failed"}}
  IN  IF done = {} THEN "Assigned"
      ELSE IF vlog[Max(done)].kind = "agent.completed" THEN "Completed" ELSE "Failed"

agents ==
  LET ids == {vlog[i].id : i \in {i \in DOMAIN vlog :
                                   vlog[i].ok /\ vlog[i].kind = "agent.assigned"}}
  IN  [id \in ids |-> AgentState(id)]

git_activity == SelectSeq(vlog, LAMBDA e : e.ok /\ e.kind \in {"ref.update", "ref.delete"})

\* The first of the three markers a payload carries.
qualifier(e) ==
  CASE "checkout" \in e.marks -> "checkout"
    [] "attempt" \in e.marks -> "attempt"
    [] "merged_from" \in e.marks -> "merge"
    [] OTHER -> "none"

git_activity_entry(e) == [target |-> apply(e.id), seq |-> e.seq, qualifier |-> qualifier(e)]

FleetState ==
  [workspaces |-> {<<apply(id), workspaces[id]>> : id \in DOMAIN workspaces},
   shown      |-> Cardinality(DOMAIN workspaces),
   agents     |-> {<<apply(id), agents[id]>> : id \in DOMAIN agents},
   activity   |-> [i \in DOMAIN git_activity |-> git_activity_entry(git_activity[i])],
   last_seq   |-> IF vlog = <<>> THEN 0 ELSE Last(vlog).seq,
   events     |-> Len(vlog),
   malformed  |-> Cardinality({i \in DOMAIN vlog : ~vlog[i].ok})]

-----------------------------------------------------------------------------
(* Deep links and watch. *)

\* The first landing of the id; its target is redacted.
resolve(id) ==
  LET at == {i \in DOMAIN vlog : vlog[i].ok /\ vlog[i].kind = "intent.landed" /\ vlog[i].id = id}
  IN  IF at = {} THEN NoTime ELSE [seq |-> vlog[Min(at)].seq, target |-> apply(vlog[Min(at)].id)]

event_class(kind) ==
  CASE kind = "intent.landed" -> "Landing"
    [] kind = "verdict.recorded" -> "Verdict"
    [] kind = "policy.changed" -> "PolicyChange"
    [] kind \in WsKinds -> "WsState"
    [] kind \in {"ref.update", "ref.delete"} -> "GitActivity"
    [] OTHER -> "Other"

WatchLine(e) == [class |-> event_class(e.kind), seq |-> e.seq, text |-> apply(e.id)]

record_latency(table, class, ms) == [table EXCEPT ![class] = Append(@, ms)]

\* The samples in ascending order.
sort_unstable(samples) ==
  LET at == 1..Len(samples)
      order == CHOOSE p \in Bijection(at, at) :
                 \A i, j \in at : i < j => samples[p[i]] <= samples[p[j]]
  IN  [i \in at |-> samples[order[i]]]

\* The sample of rank ceil(0.95 n).
p95(samples) ==
  IF samples = <<>> THEN 0
  ELSE sort_unstable(samples)[(95 * Len(samples) + 99) \div 100]

EventClasses == {"Landing", "Verdict", "PolicyChange", "WsState", "GitActivity", "Other"}
ViewKinds == WsKinds \union {"agent.assigned", "agent.completed", "agent.failed",
                             "ref.update", "intent.landed", "verdict.recorded"}

\* One record is logged and the watch display processes it.
Process ==
  /\ Len(vlog) < MaxViewEvents
  /\ \E kind \in ViewKinds, id \in ViewIds, ok \in BOOLEAN, ms \in {1, 2} :
       LET marks == IF kind = "ref.update" THEN {"attempt", "merged_from"} ELSE {}
           e     == [kind |-> kind, id |-> id, ok |-> ok, seq |-> Len(vlog), marks |-> marks]
       IN  /\ ok \/ kind = "ref.update"
           /\ ms = 1 \/ kind = "ref.update"
           /\ vlog' = Append(vlog, e)
           /\ lines' = Append(lines, WatchLine(e))
           /\ latency' = record_latency(latency, event_class(kind), ms)
  /\ UNCHANGED journalVars

-----------------------------------------------------------------------------
(* Journals.  A key's parts are sequences of characters. *)

storage_key(k) == k.tenant \o <<":">> \o k.workspace \o <<":">> \o k.intent

put(store, journal) ==
  [s \in DOMAIN store \union {storage_key(journal.key)} |->
     IF s = storage_key(journal.key) THEN journal ELSE store[s]]

open(store, k) ==
  IF storage_key(k) \notin DOMAIN store THEN NoTime
  ELSE IF store[storage_key(k)].key.tenant # k.tenant THEN NoTime
  ELSE store[storage_key(k)]

last_recorded_at(journal) ==
  IF journal.entries = <<>> THEN NoTime ELSE Last(journal.entries).at

\* saturating_sub: a last entry in the future is of age zero.
check_horizon(last, at) ==
  IF (IF at > last THEN at - last ELSE 0) <= Horizon THEN "WithinHorizon" ELSE "BeyondHorizon"

ctx_resume(store, k, at) ==
  LET j == open(store, k)
  IN  IF j = NoTime THEN [error |-> "NotFound", key |-> k, entries |-> <<>>]
      ELSE IF last_recorded_at(j) = NoTime
      THEN [error |-> "EmptyJournal", key |-> k, entries |-> <<>>]
      ELSE IF check_horizon(last_recorded_at(j), at) # "WithinHorizon"
      THEN [error |-> "BeyondHorizon", key |-> k, entries |-> <<>>]
      ELSE [error |-> "none", key |-> j.key, entries |-> j.entries]

NewJournal ==
  /\ \E k \in JournalKeys : journals' = put(journals, [key |-> k, entries |-> <<>>])
  /\ UNCHANGED <<viewVars, now, resumed>>

\* append numbers the entry and stamps it with the caller's clock, which may be
\* ahead of the reader's.
AppendEntry ==
  /\ \E k \in JournalKeys, at \in now..(now + 1) :
       LET j == open(journals, k)
       IN  /\ j # NoTime /\ j.key = k /\ Len(j.entries) < 2
           /\ journals' = put(journals, [j EXCEPT !.entries =
                            Append(@, [seq |-> Len(j.entries) + 1, at |-> at, of |-> k])])
  /\ UNCHANGED <<viewVars, now, resumed>>

Tick ==
  /\ now < MaxNow /\ now' = now + 1
  /\ UNCHANGED <<viewVars, journals, resumed>>

Resume ==
  /\ \E k \in JournalKeys : resumed' = [asked |-> k, at |-> now, got |-> ctx_resume(journals, k, now)]
  /\ UNCHANGED <<viewVars, journals, now>>

JournalNext == NewJournal \/ AppendEntry \/ Tick \/ Resume

ViewInit ==
  /\ vlog = <<>> /\ lines = <<>> /\ latency = [c \in EventClasses |-> <<>>]
  /\ journals = [s \in {} |-> NoTime] /\ now = 0 /\ resumed = NoTime

ViewSpec == ViewInit /\ [][Process \/ JournalNext]_<<viewVars, journalVars>>

-----------------------------------------------------------------------------
(* Properties. *)

\* No view shows a token that would be redacted on its own, wherever in a text it
\* stands, and redaction never merges two workspaces or agents: each raw id has
\* one row with the state of its latest well-formed event (redact.rs apply,
\* fleet/mod.rs from_records, deeplink.rs resolve, watch/mod.rs process).
ViewsScrubbedAndExact ==
  LET f == FleetState
      Shown == {r[1] : r \in f.workspaces} \union {r[1] : r \in f.agents}
                 \union {f.activity[i].target : i \in DOMAIN f.activity}
                 \union {lines[i].text : i \in DOMAIN lines}
                 \union {resolve(id).target : id \in {id \in ViewIds : resolve(id) # NoTime}}
  IN  /\ \A s \in Shown : s # REDACTED => \A i \in DOMAIN s[1] : ~is_secret(<<s[1][i]>>)
      /\ f.shown = Cardinality({vlog[i].id : i \in {i \in DOMAIN vlog :
                                  vlog[i].ok /\ vlog[i].kind \in WsKinds}})
      /\ \A i \in DOMAIN vlog :
           (/\ vlog[i].ok /\ vlog[i].kind \in WsKinds
            /\ \A j \in (i + 1)..Len(vlog) : vlog[j].id = vlog[i].id => vlog[j].kind \notin WsKinds)
             => workspaces[vlog[i].id] = workspace_state(vlog[i].kind)
      /\ \A id \in DOMAIN agents : agents[id] # "Assigned" =>
           \E i, j \in DOMAIN vlog : /\ i < j /\ vlog[i].id = id /\ vlog[j].id = id
                                     /\ vlog[i].kind = "agent.assigned"
                                     /\ vlog[j].kind \in {"agent.completed", "agent.failed"}
      /\ \A id \in ViewIds : is_safe_identifier_shape(id[1]) => ~is_structural_secret(id[1])

\* The latency figure is a sample at least 95 of 100 samples do not exceed
\* (watch/mod.rs p95).
LatencyHonest ==
  \A c \in EventClasses :
    LET s == latency[c]
        under == Cardinality({i \in DOMAIN s : s[i] <= p95(s)})
    IN  s # <<>> => /\ 100 * under >= 95 * Len(s)
                    /\ p95(s) \in {s[i] : i \in DOMAIN s}

\* A resume hands back a journal of the asking tenant, not older than the horizon
\* at that time and not empty; it is the journal of the workspace and intent asked
\* for unless a part of some key contains the separator (journal/persist.rs open,
\* journal/resume.rs ctx_resume).
ResumeSound ==
  LET Plain(part) == \A i \in DOMAIN part : part[i] # ":"
  IN  resumed # NoTime /\ resumed.got.error = "none" =>
        /\ resumed.got.key.tenant = resumed.asked.tenant
        /\ resumed.got.entries # <<>>
        /\ resumed.at <= Last(resumed.got.entries).at + Horizon
        /\ \A i \in DOMAIN resumed.got.entries :
             /\ resumed.got.entries[i].seq = i
             /\ resumed.got.entries[i].of = resumed.got.key
        /\ (\A k \in {resumed.asked, resumed.got.key} :
              Plain(k.tenant) /\ Plain(k.workspace) /\ Plain(k.intent))
             => resumed.got.key = resumed.asked

\* "Cross-tenant collisions are impossible because the tenant_id is always
\* included": a store that holds a journal under a key opens it for that key.
KeysApart ==
  \A j, k \in JournalKeys : storage_key(j) = storage_key(k) => j = k
=============================================================================
