---------------------------- MODULE MirrorImport ----------------------------
(***************************************************************************)
(* hugit-mirror: cold-seeding a fresh mirror with a resume cursor          *)
(* (bootstrap/), the two disaster recoveries (dr/), importing commit       *)
(* history with an idempotency cursor (import/history, import/resume), LFS *)
(* objects (import/lfs) and pull requests as proposed intents              *)
(* (import/prissue).  A hash stands for the content it is the hash of.     *)
(***************************************************************************)
EXTENDS Naturals, Sequences, FiniteSets, SequencesExt

CONSTANTS SeedRefs,    \* the refs to seed, a sequence
          Hashes,      \* object hashes
          Commits,     \* commit oids, enough for every source history
          Urls,        \* source urls of pull requests and issues
          MaxSource,   \* length of the source history
          MaxRounds    \* import rounds, seed interruptions

NoHash == "nohash"
(* Refs to seed have different names. *)
ASSUME ImportConstants ==
  /\ NoHash \notin Hashes \cup Commits
  /\ SeedRefs \in Seq(Range(SeedRefs)) /\ IsInjective(SeedRefs)

VARIABLES units,    \* SeedUnits: the source's hash of each ref
          copy,     \* the hash the fresh mirror holds per ref
          progress, \* SeedProgress: last_verified, pack_offset, verified_refs
          seed,     \* outcome of cold_seed, or where it is
          mirrorOk, \* recovery outcome
          source,   \* the source repository's commits, oldest first
          cursor,   \* ImportCursor
          events,   \* the git.commit events on the log
          rewrites, \* history: the source was force-pushed
          lfsOut, prOut, rounds

seedVars == <<units, copy, progress, seed, mirrorOk>>
historyVars == <<source, cursor, events, rewrites>>
importVars == <<units, copy, progress, seed, mirrorOk, source, cursor, events,
                rewrites, lfsOut, prOut, rounds>>

-----------------------------------------------------------------------------
(* cold_seed: the loop is at unit seed.at; a verified unit is skipped.       *)
SeedProgressNew == [last |-> 0, offset |-> 0, verified |-> {}]
record(p, k) == [last |-> k, offset |-> k, verified |-> p.verified \cup {SeedRefs[k]}]
is_verified(p, k) == SeedRefs[k] \in p.verified

SeedStart ==
  /\ seed.state \in {"fresh", "interrupted"} /\ rounds < MaxRounds
  /\ seed' = [state |-> "running", at |-> 1]
  /\ UNCHANGED <<units, copy, progress, mirrorOk, historyVars, lfsOut, prOut, rounds>>

(* The mirror reports back the hash it holds: what was sent, or something    *)
(* else; the push may also fail, which leaves the cursor to resume from.     *)
SeedUnit_trusting(k, reported) ==
  /\ progress' = record(progress, k)
  /\ seed' = [seed EXCEPT !.at = k + 1]

SeedUnit(k, reported) ==
  IF reported = units[SeedRefs[k]]
  THEN /\ progress' = record(progress, k)
       /\ seed' = [seed EXCEPT !.at = k + 1]
  ELSE /\ seed' = [state |-> "mismatch", at |-> k]
       /\ UNCHANGED progress

cold_seed ==
  /\ seed.state = "running"
  /\ LET k == seed.at IN
     \/ /\ k > Len(SeedRefs)
        /\ seed' = [state |-> "complete", at |-> Cardinality(progress.verified)]
        /\ UNCHANGED <<copy, progress, rounds>>
     \/ /\ k <= Len(SeedRefs) /\ is_verified(progress, k)
        /\ seed' = [seed EXCEPT !.at = k + 1]
        /\ UNCHANGED <<copy, progress, rounds>>
     \/ /\ k <= Len(SeedRefs) /\ ~is_verified(progress, k)
        /\ \E h \in Hashes :
             copy' = [copy EXCEPT ![SeedRefs[k]] = h] /\ SeedUnit(k, h)
        /\ UNCHANGED rounds
     \/ /\ k <= Len(SeedRefs) /\ ~is_verified(progress, k)
        /\ seed' = [state |-> "interrupted", at |-> k]
        /\ rounds' = rounds + 1
        /\ UNCHANGED <<copy, progress>>
  /\ UNCHANGED <<units, mirrorOk, historyVars, lfsOut, prOut>>

(* GitHub is lost (revocation, deletion, rename) and re-seeded from the      *)
(* substrate; or the substrate is lost and rebuilt from a mirror that works. *)
(* Every unit is read back, the first difference ends the recovery.          *)
detect_github_loss(probe) ==
  IF probe = "ok" THEN "none"
  ELSE IF probe = "auth" THEN "AppRevocation" ELSE "RepoDeletionOrRename"
recovery_source(kind) ==
  IF kind = "SubstrateLoss" THEN "VerifiedMirror" ELSE "HugitSubstrate"
Recovery(kind, verified, ok) == [kind |-> kind, verified |-> verified, ok |-> ok]
NotLost == Recovery("none", 0, FALSE)
RecoveredTo(kind, readback) ==
  LET bad == {k \in DOMAIN SeedRefs : readback[SeedRefs[k]] # units[SeedRefs[k]]}
  IN  Recovery(kind, IF bad = {} THEN Len(SeedRefs)
                     ELSE (CHOOSE k \in bad : \A j \in bad : k <= j) - 1,
               bad = {})

recover_github_loss ==
  /\ mirrorOk = NotLost /\ seed.state = "complete"
  /\ \E probe \in {"auth", "notfound"}, readback \in [Range(SeedRefs) -> Hashes] :
       /\ copy' = readback
       /\ mirrorOk' = RecoveredTo(detect_github_loss(probe), readback)
  /\ UNCHANGED <<units, progress, seed, historyVars, lfsOut, prOut, rounds>>

recover_substrate_loss ==
  /\ mirrorOk = NotLost /\ seed.state = "complete"
  /\ \E working \in BOOLEAN, readback \in [Range(SeedRefs) -> Hashes] :
       /\ copy' = readback
       /\ mirrorOk' = IF working THEN RecoveredTo("SubstrateLoss", readback)
                      ELSE Recovery("SubstrateLoss", 0, FALSE)
  /\ UNCHANGED <<units, progress, seed, historyVars, lfsOut, prOut, rounds>>

-----------------------------------------------------------------------------
(* History import *)
NewCursor == [oid |-> NoHash, seq |-> 0]
advance(c, batch) == [oid |-> Last(batch), seq |-> c.seq + Len(batch)]

(* compute_idempotency: what is still to be imported. *)
compute_idempotency(c, oids) ==
  IF c.oid = NoHash \/ c.oid \notin Range(oids) THEN oids
  ELSE SubSeq(oids, (CHOOSE i \in DOMAIN oids : oids[i] = c.oid) + 1, Len(oids))

(* import_commits reads, verifies and projects one commit after another onto *)
(* the chain; the first object that is missing, of another kind, or whose    *)
(* recomputed oid differs fails the whole batch.                             *)
ObjectAnswers == {"commit", "corrupt", "missing", "other kind", "other oid", "truncated"}
read_git_object(answer) == answer \in {"commit", "corrupt"}
verify_byte_identity(answer) == answer # "corrupt"
parse_commit_meta(oid) == oid
project_commit_to_event(oid, seq) == [kind |-> "git.commit", oid |-> parse_commit_meta(oid), seq |-> seq]
import_commits(batch, c) ==
  [i \in DOMAIN batch |-> project_commit_to_event(batch[i], c.seq + i)]
import_as_change_event(e) == e.kind \notin {"intent", "proposed_intent", "synthesized_intent"}

(* One import round takes a prefix of what is due (the import times out      *)
(* after it) and saves the cursor; a batch that fails writes nothing.        *)
ImportRound ==
  /\ rounds < MaxRounds
  /\ LET due == compute_idempotency(cursor, source) IN
       \E n \in 1..Len(due) : \E answers \in [1..n -> ObjectAnswers] :
         LET batch == SubSeq(due, 1, n)
             good == \A i \in 1..n : read_git_object(answers[i]) /\ verify_byte_identity(answers[i])
         IN  /\ events' = IF good THEN events \o import_commits(batch, cursor) ELSE events
             /\ cursor' = IF good THEN advance(cursor, batch) ELSE cursor
  /\ rounds' = rounds + 1
  /\ UNCHANGED <<seedVars, source, rewrites, lfsOut, prOut>>

(* The source gains a commit, or is force-pushed to another history. *)
SourceCommit ==
  /\ Len(source) < MaxSource
  /\ \E c \in Commits \ Range(source) : source' = Append(source, c)
  /\ UNCHANGED <<seedVars, cursor, events, rewrites, lfsOut, prOut, rounds>>
SourceRewrite ==
  /\ rewrites = 0 /\ Len(source) = MaxSource
  /\ \E c \in Commits \ Range(source) : source' = Append(Front(source), c)
  /\ rewrites' = 1
  /\ UNCHANGED <<seedVars, cursor, events, lfsOut, prOut, rounds>>

-----------------------------------------------------------------------------
(* LFS: the batch endpoint answers per object; the bytes fetched are checked *)
(* against the pointer's size, then its hash.                                *)
LfsErrors == {"NotAPointer", "MalformedPointer", "FetchFailed", "Sha256Mismatch",
              "SizeMismatch", "CredentialsAbsent"}
parse_lfs_pointer(blob) ==
  IF ~blob.marked THEN "NotAPointer"
  ELSE IF ~(blob.oid /\ blob.size /\ blob.hex) THEN "MalformedPointer" ELSE "ok"
verify_lfs_object(p, bytes) ==
  IF bytes.size # p.size THEN "SizeMismatch"
  ELSE IF bytes.sha # p.sha THEN "Sha256Mismatch" ELSE "ok"
parse_batch_response(answer) ==
  IF \E i \in DOMAIN answer : ~answer[i].usable THEN <<>> ELSE answer
NoBytes == "none"
LfsResult(res, p, bytes) == [res |-> res, ptr |-> p, bytes |-> bytes]
materialize_lfs_via_batch(p, answer, served) ==
  LET acts == parse_batch_response(answer)
      mine == {i \in DOMAIN acts : acts[i].sha = p.sha}
  IN  IF mine = {} THEN LfsResult("FetchFailed", p, NoBytes)
      ELSE LET bytes == served[acts[CHOOSE i \in mine : \A j \in mine : i <= j].href]
               v == verify_lfs_object(p, bytes)
           IN  LfsResult(v, p, IF v = "ok" THEN bytes ELSE NoBytes)

LfsObjects == [sha : Hashes, size : 1..2]
MaterializeLfs ==
  /\ lfsOut.res = "none"
  /\ \E p \in LfsObjects, b1, b2 \in LfsObjects, usable \in BOOLEAN, s \in Hashes,
        blob \in [marked : BOOLEAN, oid : {TRUE}, size : {TRUE}, hex : BOOLEAN] :
       lfsOut' = IF parse_lfs_pointer(blob) # "ok" THEN LfsResult(parse_lfs_pointer(blob), p, NoBytes)
                 ELSE materialize_lfs_via_batch(p, <<[sha |-> s, href |-> 1, usable |-> TRUE],
                                                     [sha |-> p.sha, href |-> 2, usable |-> usable]>>,
                                                <<b1, b2>>)
  /\ UNCHANGED <<seedVars, historyVars, prOut, rounds>>

(* Pull requests and issues: one proposed, non-authoritative intent per      *)
(* source url, the first occurrence wins, an empty url is skipped.           *)
to_proposed_intent(pr) == [id |-> <<"proposed", pr.url>>, n |-> pr.n, authoritative |-> FALSE]
import_prissue_batch(prs) ==
  LET new(i) == prs[i].url # "" /\ \A j \in 1..(i - 1) : prs[j].url # prs[i].url
      out[i \in 0..Len(prs)] ==
        IF i = 0 THEN <<>>
        ELSE IF new(i) THEN Append(out[i - 1], to_proposed_intent(prs[i])) ELSE out[i - 1]
  IN  out[Len(prs)]
ImportPrs ==
  /\ prOut.res = "none"
  /\ \E u \in [1..3 -> Urls \cup {""}] :
       LET prs == [i \in 1..3 |-> [url |-> u[i], n |-> i]]
       IN  prOut' = [res |-> "ok", prs |-> prs, out |-> import_prissue_batch(prs)]
  /\ UNCHANGED <<seedVars, historyVars, lfsOut, rounds>>

-----------------------------------------------------------------------------
ImportInit ==
  /\ units \in [Range(SeedRefs) -> Hashes]
  /\ copy = [r \in Range(SeedRefs) |-> NoHash]
  /\ progress = SeedProgressNew
  /\ seed = [state |-> "fresh", at |-> 0] /\ mirrorOk = NotLost
  /\ source = <<>> /\ cursor = NewCursor /\ events = <<>> /\ rewrites = 0
  /\ lfsOut = LfsResult("none", NoBytes, NoBytes)
  /\ prOut = [res |-> "none", prs |-> <<>>, out |-> <<>>] /\ rounds = 0

SeedNext == SeedStart \/ cold_seed \/ recover_github_loss \/ recover_substrate_loss
HistoryNext == ImportRound \/ SourceCommit \/ SourceRewrite

ImportNext == SeedNext \/ HistoryNext \/ MaterializeLfs \/ ImportPrs
ImportSpec == ImportInit /\ [][ImportNext]_importVars

-----------------------------------------------------------------------------
(* A seed that reports Complete, after whatever interruptions and resumes,   *)
(* leaves a mirror that holds the source's hash for every ref; a recovery    *)
(* that reports success has read every ref back identical.                   *)
SeedExact ==
  /\ \A r \in progress.verified : mirrorOk.kind = "none" => copy[r] = units[r]
  /\ seed.state = "complete" =>
       seed.at = Len(SeedRefs) /\ progress.verified = Range(SeedRefs)
  /\ (mirrorOk.kind # "none" /\ mirrorOk.ok) =>
       copy = units /\ recovery_source(mirrorOk.kind) # "none"

(* Resumed as often as it takes, the import writes every source commit once, *)
(* in source order, with contiguous sequence numbers; only a rewritten       *)
(* source is imported again.                                                 *)
ImportExact ==
  /\ \A i \in DOMAIN events : events[i].seq = i /\ import_as_change_event(events[i])
  /\ rewrites = 0 => [i \in DOMAIN events |-> events[i].oid] = SubSeq(source, 1, Len(events))
  /\ rewrites = 0 => cursor.seq = Len(events)

(* An LFS object is materialised only as the exact bytes its pointer names,  *)
(* whatever the endpoint lists and serves; a batch of imported PRs yields    *)
(* one proposal per url and none is authoritative.                           *)
FetchedExact ==
  /\ lfsOut.res \in LfsErrors \cup {"none", "ok"}
  /\ lfsOut.res = "ok" => lfsOut.bytes = [sha |-> lfsOut.ptr.sha, size |-> lfsOut.ptr.size]
  /\ prOut.res = "ok" =>
       /\ \A i, j \in DOMAIN prOut.out : prOut.out[i].id = prOut.out[j].id => i = j
       /\ \A e \in Range(prOut.out) : ~e.authoritative
       /\ {e.id[2] : e \in Range(prOut.out)} = {p.url : p \in Range(prOut.prs)} \ {""}

SeedAndImport == SeedExact /\ ImportExact /\ FetchedExact
=============================================================================
