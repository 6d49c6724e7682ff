---------------------------- MODULE MirrorStatus ----------------------------
(***************************************************************************)
(* What the App and the mirror tell the outside.                           *)
(*                                                                         *)
(* hugit-app and the GitHub credentials of hugit-mirror: the durable       *)
(* revocation ledger, the webhook processor, the persistence adapter with  *)
(* its halted set, and AppAuth's token cache, in one process that may      *)
(* crash and restart while tokens are being minted.  Time is counted in    *)
(* units of the refresh skew (five minutes).                               *)
(*                                                                         *)
(* hugit-mirror's outputs: check results posted to GitHub with bounded     *)
(* retries (status/emitter.rs, status/backoff.rs, hugit-app checks.rs),    *)
(* the badge with its age (status/badge.rs), writes held through an outage *)
(* (outage/), the poll that finds a divergence (poll/), and its            *)
(* classification and repair (divergence/, refops/).                       *)
(***************************************************************************)
EXTENDS Naturals, Sequences, FiniteSets, SequencesExt, FiniteSetsExt

CONSTANTS Insts,       \* installation ids
          Unsafe,      \* the ones that are no safe path component
          Deliveries,  \* webhook delivery ids
          Minters,     \* threads that mint
          TrueTtl,     \* how long GitHub honours a token
          MaxClock, MaxRestarts

NoInst == "none"
REFRESH_SKEW == 1
FALLBACK_TTL == 11

ASSUME AppConstants == /\ Unsafe \subseteq Insts /\ NoInst \notin Insts
                       /\ TrueTtl \in Nat /\ TrueTtl > FALLBACK_TTL

VARIABLES dir,        \* tombstone files on disk
          index,      \* RevocationLedger.index, in memory
          slots,      \* WebhookProcessor.token_store
          halted,     \* PersistenceAdapter.halted
          stored,     \* webhook envelopes in the store, by delivery
          tokenCache, \* AppAuth.cache
          mint,       \* what each minting thread is doing
          clock,
          restarts,
          handed,     \* history: the last token handed out
          late        \* history: events persisted for an installation halted before

appVars == <<dir, index, slots, halted, stored, tokenCache, mint, clock,
             restarts, handed, late>>

NoToken == [inst |-> NoInst, refresh |-> 0, expiry |-> 0]
IdleMint == [inst |-> NoInst, clean |-> TRUE]

-----------------------------------------------------------------------------
(* RevocationLedger *)
is_safe_id(i) == i \notin Unsafe
is_revoked(i) == is_safe_id(i) /\ i \in index

(* handle_uninstall zeroes the token slot, writes the tombstone, then adds   *)
(* the id to the index.  The write may fail and the ledger refuses an unsafe *)
(* id; either way the uninstall is reported and the caller halts processing. *)
ZeroSlot(i) == slots' = [slots EXCEPT ![i] = IF @ = "absent" THEN "absent" ELSE "zeroed"]

revoke(i) ==
  /\ is_safe_id(i)
  /\ dir' = dir \cup {i} /\ index' = index \cup {i}

Uninstall ==
  /\ \E i \in Insts :
       /\ ZeroSlot(i)
       /\ revoke(i) \/ UNCHANGED <<dir, index>>
       /\ halted' = halted \cup {i}
  /\ UNCHANGED <<stored, tokenCache, mint, clock, restarts, handed, late>>

store_token ==
  /\ \E i \in Insts : slots[i] # "token" /\ slots' = [slots EXCEPT ![i] = "token"]
  /\ UNCHANGED <<dir, index, halted, stored, tokenCache, mint, clock, restarts, handed, late>>

(* ingest_webhook: an unsigned or mis-signed delivery is rejected; a valid   *)
(* one is persisted under its delivery id unless its installation is halted. *)
(* The same delivery may come again.                                         *)
verify_x_hub_signature_256(secret, header, matches) == secret /\ header /\ matches
persist_event(d, i) ==
  /\ i \notin halted
  /\ stored' = stored \cup {d}
  /\ late' = (late \/ i \in halted)

Webhook ==
  /\ \E d \in Deliveries, i \in Insts, secret, header, matches \in BOOLEAN :
       /\ verify_x_hub_signature_256(secret, header, matches)
       /\ persist_event(d, i)
  /\ UNCHANGED <<dir, index, slots, halted, tokenCache, mint, clock, restarts, handed>>

-----------------------------------------------------------------------------
(* AppAuth *)
cached_if_fresh(i) == tokenCache.inst = i /\ clock < tokenCache.refresh

Hand(t, clean) ==
  handed' = [inst |-> t.inst, alive |-> clock < t.expiry, clean |-> clean]

(* The gate is checked first, then the cache; only then does the thread sign *)
(* and go out for a token.  `clean`: the installation was not revoked when   *)
(* the call came in.                                                         *)
MintGate_cache_first(m, i) ==
  IF cached_if_fresh(i)
  THEN Hand(tokenCache, ~is_revoked(i)) /\ UNCHANGED mint
  ELSE /\ ~is_revoked(i)
       /\ mint' = [mint EXCEPT ![m] = [inst |-> i, clean |-> TRUE]]
       /\ UNCHANGED handed

MintGate(m, i) ==
  /\ ~is_revoked(i)
  /\ IF cached_if_fresh(i)
     THEN Hand(tokenCache, ~is_revoked(i)) /\ UNCHANGED mint
     ELSE /\ mint' = [mint EXCEPT ![m] = [inst |-> i, clean |-> ~is_revoked(i)]]
          /\ UNCHANGED handed

mint_with_transport ==
  /\ \E m \in Minters, i \in Insts : mint[m] = IdleMint /\ MintGate(m, i)
  /\ UNCHANGED <<dir, index, slots, halted, stored, tokenCache, clock, restarts, late>>

(* expires_at when it parses, a fallback when it does not; refreshed a skew  *)
(* before that.                                                              *)
refresh_after(parsed) == clock + (IF parsed THEN TrueTtl ELSE FALLBACK_TTL) - REFRESH_SKEW

(* exchange_and_cache looks at the cache again (another thread may have      *)
(* filled it), then posts; a 404, another status or a body that does not     *)
(* decode is an error and caches nothing.                                    *)
exchange_and_cache ==
  /\ \E m \in Minters :
       /\ mint[m] # IdleMint
       /\ mint' = [mint EXCEPT ![m] = IdleMint]
       /\ \/ /\ cached_if_fresh(mint[m].inst)
             /\ Hand(tokenCache, mint[m].clean)
             /\ UNCHANGED tokenCache
          \/ /\ ~cached_if_fresh(mint[m].inst)
             /\ \E parsed \in BOOLEAN :
                  LET t == [inst |-> mint[m].inst, expiry |-> clock + TrueTtl,
                            refresh |-> refresh_after(parsed)]
                  IN  tokenCache' = t /\ Hand(t, mint[m].clean)
          \/ ~cached_if_fresh(mint[m].inst) /\ UNCHANGED <<tokenCache, handed>>
  /\ UNCHANGED <<dir, index, slots, halted, stored, clock, restarts, late>>

AppTick ==
  /\ \E d \in {1, TrueTtl - REFRESH_SKEW} : clock' = clock + d
  /\ clock' <= MaxClock
  /\ UNCHANGED <<dir, index, slots, halted, stored, tokenCache, mint, restarts, handed, late>>

(* A restart scans the tombstones and seeds the halted set from them; tokens *)
(* and envelopes held in memory are gone.                                    *)
RevocationLedger_open == {i \in dir : is_safe_id(i)}
AppRestart ==
  /\ restarts < MaxRestarts /\ restarts' = restarts + 1
  /\ index' = RevocationLedger_open
  /\ halted' = RevocationLedger_open
  /\ slots' = [i \in Insts |-> "absent"] /\ stored' = {}
  /\ tokenCache' = NoToken /\ mint' = [m \in Minters |-> IdleMint]
  /\ UNCHANGED <<dir, clock, handed, late>>

AppInit ==
  /\ dir = {} /\ index = {} /\ halted = {} /\ stored = {}
  /\ slots = [i \in Insts |-> "absent"]
  /\ tokenCache = NoToken /\ mint = [m \in Minters |-> IdleMint]
  /\ clock = 0 /\ restarts = 0 /\ late = FALSE
  /\ handed = [inst |-> NoInst, alive |-> TRUE, clean |-> TRUE]

AppNext == Uninstall \/ store_token \/ Webhook \/ mint_with_transport
           \/ exchange_and_cache \/ AppTick \/ AppRestart

-----------------------------------------------------------------------------
(* An installation with a tombstone on disk is refused: its id is in the     *)
(* index the gate and the halted set are read from, restart or not, no event *)
(* of it was persisted after it was halted, and no call that came in after   *)
(* the revocation was given a token, from the cache or from GitHub.          *)
RevokeSticks == dir \subseteq index /\ dir \subseteq halted /\ ~late /\ handed.clean

(* Every token handed out is one GitHub still honours, whether its expiry    *)
(* was parsed or guessed and however old the cached copy is; and nothing in  *)
(* the cache would be handed out past its expiry.                            *)
TokensLive ==
  /\ handed.alive
  /\ tokenCache.inst # NoInst => tokenCache.refresh < tokenCache.expiry

CredentialsHonest == RevokeSticks /\ TokensLive

(* "a revoked installation NEVER mints": no token is handed out for an       *)
(* installation whose tombstone is already written.                          *)
RevokedNeverMints == [][handed' # handed => handed'.inst \notin dir]_appVars

-----------------------------------------------------------------------------
(* The outputs of the mirror. *)

CONSTANTS MaxRetries,   \* BackoffConfig.max_retries
          HoldCap,      \* capacity of the durable queue
          MaxHeld,      \* writes produced
          Stale,        \* STALENESS_BOUND, in ticks
          MaxAge,       \* clock bound
          PollInterval, PollSla,
          StatusRefs, StatusTips

NoStatusTip == "absent"
ASSUME StatusConstants == /\ MaxRetries \in Nat /\ HoldCap \in Nat \ {0}
                          /\ PollInterval \in Nat \ {0} /\ PollSla \in Nat
                          /\ NoStatusTip \notin StatusTips

VARIABLES attempts, \* HTTP status of every attempt of the running emit
          emit,     \* its outcome
          held,     \* DurableQueue.items
          offered,  \* history: writes accepted, in order
          drained,  \* history: DrainOutcomes
          now, badge, known,
          forge, mirror \* RefTips of both sides

emitVars == <<attempts, emit>>
holdVars == <<held, offered, drained>>
badgeVars == <<now, badge, known>>
tipVars == <<forge, mirror>>
statusVars == <<attempts, emit, held, offered, drained, now, badge, known, forge, mirror>>

-----------------------------------------------------------------------------
(* StatusEmitter::project, StatusBackoff::run_with_responses *)
project(result) == IF ~result.key \/ ~result.sha THEN "InvalidResult"
                   ELSE IF result.exit = 0 THEN "success" ELSE "failure"
conclusion_to_status_state(status, conclusion) ==
  IF status # "completed" THEN "pending"
  ELSE IF conclusion \in {"failure", "timed_out", "cancelled"} THEN "failure"
  ELSE IF conclusion \in {"action_required", "none"} THEN "error" ELSE "success"
classify_response(code) == code = 200

EmitCheck ==
  /\ emit = [state |-> "idle"]
  /\ \E r \in [key : BOOLEAN, sha : BOOLEAN, exit : 0..1], token \in BOOLEAN :
       emit' = IF ~token THEN [state |-> "token revoked"]
               ELSE IF project(r) = "InvalidResult" THEN [state |-> "invalid"]
               ELSE [state |-> "sending", exit |-> r.exit, conclusion |-> project(r)]
  /\ UNCHANGED <<attempts, holdVars, badgeVars, tipVars>>

RetriesLeft(n) == n < MaxRetries + 1
SendCheck ==
  /\ emit.state = "sending"
  /\ IF RetriesLeft(Len(attempts))
     THEN \E code \in {200, 429, 500, 404} :
            /\ attempts' = Append(attempts, code)
            /\ emit' = IF classify_response(code) THEN [emit EXCEPT !.state = "posted"] ELSE emit
     ELSE emit' = [emit EXCEPT !.state = "terminal"] /\ UNCHANGED attempts
  /\ UNCHANGED <<holdVars, badgeVars, tipVars>>

-----------------------------------------------------------------------------
(* outage: writes are held in order, up to a capacity, and drained with a    *)
(* gap incident that covers exactly what was held.                           *)
is_outage(signal) == signal \in {"RateLimited", "ServerError"}
HoldWrite ==
  /\ Len(offered) < MaxHeld
  /\ \E signal \in {"RateLimited", "ServerError", "Recovered"} : is_outage(signal)
  /\ IF Len(held) >= HoldCap THEN UNCHANGED <<held, offered>>
     ELSE /\ held' = Append(held, Len(offered) + 1)
          /\ offered' = Append(offered, Len(offered) + 1)
  /\ UNCHANGED <<drained, emitVars, badgeVars, tipVars>>

drain_to_verified(q) ==
  [items |-> q, from |-> IF q = <<>> THEN 0 ELSE Head(q),
   to |-> IF q = <<>> THEN 0 ELSE Last(q), count |-> Len(q)]
DrainHeld ==
  /\ Len(drained) < MaxHeld
  /\ drained' = Append(drained, drain_to_verified(held))
  /\ held' = <<>>
  /\ UNCHANGED <<offered, emitVars, badgeVars, tipVars>>

-----------------------------------------------------------------------------
(* badge: fresh only when it is live and young; the last known value is      *)
(* always shown as stale.                                                    *)
from_live(s, at) == [status |-> s, at |-> at, fresh |-> now - at <= Stale,
                     api_down |-> FALSE, last_known |-> FALSE]
from_last_known(s, at) == [status |-> s, at |-> at, fresh |-> FALSE,
                           api_down |-> TRUE, last_known |-> TRUE]
unknown_api_down == [status |-> "unknown", at |-> 0, fresh |-> FALSE,
                     api_down |-> TRUE, last_known |-> FALSE]
NoBadge == [status |-> "none", at |-> 0, fresh |-> FALSE, api_down |-> FALSE, last_known |-> FALSE]

StatusArrives ==
  /\ \E s \in {"passing", "failing", "pending"} : known' = [status |-> s, at |-> now]
  /\ UNCHANGED <<now, badge, emitVars, holdVars, tipVars>>
RenderBadge ==
  /\ \/ known.status # "none" /\ badge' = from_live(known.status, known.at)
     \/ known.status # "none" /\ badge' = from_last_known(known.status, known.at)
     \/ known.status = "none" /\ badge' = unknown_api_down
  /\ UNCHANGED <<now, known, emitVars, holdVars, tipVars>>
StatusTick ==
  /\ now < MaxAge /\ now' = now + 1 /\ badge' = NoBadge
  /\ UNCHANGED <<known, emitVars, holdVars, tipVars>>

-----------------------------------------------------------------------------
(* poll: the first tick at or after the divergence finds it. *)
detected_at(at) == ((at + PollInterval - 1) \div PollInterval) * PollInterval
within_sla(at) == detected_at(at) - at <= PollSla /\ PollInterval <= PollSla

(* refops and divergence: every ref that differs, orphans on either side     *)
(* included, is divergent; the repair writes the forge's value.              *)
diff_ref_tips ==
  {r \in StatusRefs : forge[r] # NoStatusTip /\ mirror[r] # forge[r]}
    \cup {r \in StatusRefs : mirror[r] # NoStatusTip /\ forge[r] = NoStatusTip}
classify(undecidable, f, m) ==
  IF undecidable THEN "Degraded" ELSE IF f = m THEN "Synced" ELSE "Divergent"
resolve(undecidable, f, m, origin) ==
  IF classify(undecidable, f, m) = "Synced" THEN [repair |-> FALSE]
  ELSE [repair |-> TRUE, tip |-> f, mirror_write |-> origin = "MirrorSide"]
apply(tips, r, t) == [tips EXCEPT ![r] = t]

ForgeOp ==
  /\ \E r \in StatusRefs, t \in StatusTips \cup {NoStatusTip} : forge' = apply(forge, r, t)
  /\ UNCHANGED <<mirror, emitVars, holdVars, badgeVars>>
MirrorOp ==
  /\ \E r \in StatusRefs, t \in StatusTips \cup {NoStatusTip} : mirror' = apply(mirror, r, t)
  /\ UNCHANGED <<forge, emitVars, holdVars, badgeVars>>
RepairAll ==
  /\ diff_ref_tips # {}
  /\ mirror' = [r \in StatusRefs |->
                  IF r \in diff_ref_tips
                  THEN resolve(FALSE, forge[r], mirror[r], "Unobserved").tip ELSE mirror[r]]
  /\ UNCHANGED <<forge, emitVars, holdVars, badgeVars>>

-----------------------------------------------------------------------------
StatusInit ==
  /\ attempts = <<>> /\ emit = [state |-> "idle"]
  /\ held = <<>> /\ offered = <<>> /\ drained = <<>>
  /\ now = 0 /\ badge = NoBadge /\ known = [status |-> "none", at |-> 0]
  /\ forge = [r \in StatusRefs |-> NoStatusTip] /\ mirror = forge

EmitNext == EmitCheck \/ SendCheck
HoldNext == HoldWrite \/ DrainHeld
BadgeNext == StatusArrives \/ RenderBadge \/ StatusTick
TipNext == ForgeOp \/ MirrorOp \/ RepairAll
StatusNext == EmitNext \/ HoldNext \/ BadgeNext \/ TipNext

AccountsNext == (AppNext /\ UNCHANGED statusVars) \/ (StatusNext /\ UNCHANGED appVars)
AccountsSpec == AppInit /\ StatusInit /\ [][AccountsNext]_<<appVars, statusVars>>

-----------------------------------------------------------------------------
(* A check result is posted once the first attempt succeeds and given up     *)
(* only after every allowed attempt failed; a failing check is never posted  *)
(* as a success.                                                             *)
RetriesHonest ==
  /\ emit.state = "posted" =>
       /\ classify_response(Last(attempts))
       /\ \A i \in 1..(Len(attempts) - 1) : ~classify_response(attempts[i])
       /\ conclusion_to_status_state("completed", emit.conclusion) = "success" <=> emit.exit = 0
  /\ emit.state = "terminal" =>
       /\ Len(attempts) = MaxRetries + 1
       /\ \A i \in DOMAIN attempts : ~classify_response(attempts[i])

(* What was accepted during outages comes out exactly once and in order over *)
(* all the drains, and each gap incident names the window it covers.         *)
HeldInOrder ==
  LET out == FlattenSeq([i \in DOMAIN drained |-> drained[i].items])
  IN  /\ out \o held = offered
      /\ \A i \in DOMAIN drained :
           drained[i].count > 0 => drained[i].to - drained[i].from + 1 = drained[i].count

(* A badge is fresh only for data read live within the bound, and a poll     *)
(* interval that satisfies its service level never misses it, whatever the   *)
(* moment of the divergence.                                                 *)
BadgeHonest ==
  /\ badge.fresh => ~badge.api_down /\ now - badge.at <= Stale
  /\ PollInterval <= PollSla => within_sla(now) /\ detected_at(now) >= now

(* The diff finds every ref on which the two sides differ, so applying the   *)
(* forge-authoritative repair to it leaves them identical.                   *)
DiffComplete == (diff_ref_tips = {}) <=> (forge = mirror)

StatusHonest == RetriesHonest /\ HeldInOrder /\ BadgeHonest /\ DiffComplete

(* What the App and the status outputs tell: no token for an installation    *)
(* that was revoked before the call or past its expiry, no status counted as *)
(* posted that was not, no write lost in an outage, and no badge or tip      *)
(* comparison greener than what is known.                                    *)
AccountsHonest == CredentialsHonest /\ StatusHonest
=============================================================================
