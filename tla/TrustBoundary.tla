---------------------------- MODULE TrustBoundary ---------------------------
(***************************************************************************)
(* The boundaries hugit-invariants keeps: tenants of one memo store (x1),  *)
(* releases and promotions that must verify (x8, x2), one identity per     *)
(* check result and intent across the phases (x9), and the smart layer     *)
(* that fails closed in the middle of an operation (x11).                  *)
(*                                                                         *)
(* A signature is [by, over]: it verifies under the key it was made with   *)
(* and over the fields it covers.  HMAC and SHA-256 do not collide, and    *)
(* tenants have distinct secrets.                                          *)
(***************************************************************************)
EXTENDS Integers, Sequences, FiniteSets

CONSTANTS Tenants, BaseKeys, Payloads,   \* of the memo store
          Digests, Signers, ReleaseKey,  \* of the transparency log
          MemoKeys, Logicals,            \* of check results and intents
          Nil,
          MaxSteps                       \* bound on audit events and log entries

ASSUME TrustConstants ==
  /\ "platform" \notin Tenants
  /\ Nil \notin {"ForgedKey", "CollisionWouldPoison", "NoMemo", "EvidenceMismatch",
                 "Divergence", "Collision"}

VARIABLES entries, audit, admitted,   \* the memo store, its audit, what was admitted
          shared,                     \* the shared registry
          tlogEntries, boots,         \* the transparency log, boots that served
          gateOk, promotions,         \* the regen gate, chains promoted
          memo, served, registry, bound,  \* x9; bound: every binding ever made
          workspace, window           \* x11: bytes delivered, objects written

tenantVars == <<entries, audit, admitted, shared>>
releaseVars == <<tlogEntries, boots, gateOk, promotions>>
identityVars == <<memo, served, registry, bound>>
smartVars == <<workspace, window>>
trustVars == <<tenantVars, releaseVars, identityVars, smartVars>>

Put(map, k, v) == [x \in DOMAIN map \union {k} |-> IF x = k THEN v ELSE map[x]]

-----------------------------------------------------------------------------
(* Tenants. *)

namespaced_key(tenant, base) == <<tenant, base>>

AuditEvent(tenant, ok, alert) == [tenant |-> tenant, admitted |-> ok, alert |-> alert]

admit_refused(tenant, base, claimed, bytes) ==
  LET derived == namespaced_key(tenant, base)
  IN  IF claimed # derived THEN "ForgedKey"
      ELSE IF derived \in DOMAIN entries /\ entries[derived] # bytes THEN "CollisionWouldPoison"
      ELSE Nil

admit(tenant, base, claimed, bytes) ==
  /\ IF admit_refused(tenant, base, claimed, bytes) # Nil
     THEN /\ audit' = Append(audit, AuditEvent(tenant, FALSE, TRUE))
          /\ UNCHANGED <<entries, admitted>>
     ELSE /\ entries' = Put(entries, namespaced_key(tenant, base), bytes)
          /\ admitted' = admitted \union {<<tenant, base, bytes>>}
          /\ audit' = Append(audit, AuditEvent(tenant, TRUE, FALSE))
  /\ UNCHANGED shared

lookup_result(tenant, base) ==
  LET physical == namespaced_key(tenant, base)
  IN  IF physical \in DOMAIN entries THEN entries[physical] ELSE "Miss"

lookup(tenant, base) ==
  /\ audit' = Append(audit, AuditEvent(tenant, lookup_result(tenant, base) # "Miss", FALSE))
  /\ UNCHANGED <<entries, admitted, shared>>

\* Producer and runner are replaced by the platform's, the signature dropped.
anonymize(chain) == [tree |-> chain.tree, runner |-> "platform", principal |-> "platform",
                     sig |-> Nil]

publish_shared(tenant, base, bytes) ==
  /\ shared' = Put(shared, base, [bytes |-> bytes,
                 chain |-> anonymize([tree |-> bytes, runner |-> tenant, principal |-> tenant,
                                      sig |-> [by |-> tenant, over |-> bytes]])])
  /\ UNCHANGED <<entries, audit, admitted>>

TenantNext ==
  /\ Len(audit) < MaxSteps
  /\ \E t \in Tenants, b \in BaseKeys :
       \/ \E u \in Tenants, p \in Payloads : admit(t, b, namespaced_key(u, b), p)
       \/ lookup(t, b)
       \/ \E p \in Payloads : b \notin DOMAIN shared /\ publish_shared(t, b, p)

-----------------------------------------------------------------------------
(* Releases: signed, published, found by digest, verified at boot. *)

sign_release(key, digest) == [digest |-> digest, tree |-> digest,
                              sig |-> [by |-> key, over |-> digest]]

\* Any signed release is appended, whoever signed it.
publish(release) ==
  /\ Len(tlogEntries) < MaxSteps
  /\ tlogEntries' = Append(tlogEntries, release)
  /\ UNCHANGED <<boots, gateOk, promotions>>

\* The first entry with the digest.
find_by_digest(digest) ==
  LET at == {i \in DOMAIN tlogEntries : tlogEntries[i].digest = digest}
  IN  IF at = {} THEN Nil ELSE tlogEntries[CHOOSE i \in at : \A j \in at : i <= j]

entry_verifies(entry) == entry.sig.by = ReleaseKey /\ entry.sig.over = entry.tree

locate_and_verify(digest) ==
  LET entry == find_by_digest(digest) IN entry # Nil /\ entry_verifies(entry)

boot_self_verify(digest) ==
  /\ boots' = IF locate_and_verify(digest) THEN boots \union {digest} ELSE boots
  /\ UNCHANGED <<tlogEntries, gateOk, promotions>>

\* Every link resolves, then the signature, then the gate.
require_links(chain) == chain.tree # Nil /\ chain.principal # Nil
verify_signature(chain) == chain.sig # Nil /\ chain.sig.by = ReleaseKey /\ chain.sig.over = chain.tree
resolve_chain(chain) == require_links(chain) /\ verify_signature(chain)

promote(chain) ==
  /\ promotions' = IF resolve_chain(chain) /\ gateOk
                   THEN promotions \union {[chain |-> chain, gate |-> gateOk]} ELSE promotions
  /\ UNCHANGED <<tlogEntries, boots, gateOk>>

Regate == gateOk' = ~gateOk /\ UNCHANGED <<tlogEntries, boots, promotions>>

Chains == {[tree |-> d, principal |-> p, sig |-> s] :
             d \in Digests \union {Nil}, p \in {"human", Nil},
             s \in {Nil} \union [by : Signers, over : Digests]}

ReleaseNext ==
  \/ \E d \in Digests, k \in Signers : publish(sign_release(k, d))
  \/ \E d \in Digests : boot_self_verify(d)
  \/ \E c \in Chains : promote(c)
  \/ Regate

-----------------------------------------------------------------------------
(* One identity per result and per intent. *)

memoize(key, result) ==
  /\ memo' = Put(memo, key, result)
  /\ UNCHANGED <<served, registry, bound>>

serve_refused(key, candidate) ==
  IF key \notin DOMAIN memo THEN "NoMemo"
  ELSE IF memo[key] # candidate THEN "EvidenceMismatch" ELSE Nil

serve_evidence(key, candidate) ==
  /\ serve_refused(key, candidate) = Nil
  /\ served' = [key |-> key, bytes |-> candidate, memo |-> memo[key]]
  /\ UNCHANGED <<memo, registry, bound>>

\* reconcile_intent, then bind: an id keeps the logical intent it was bound to.
register_refused(logical, sidecar, native) ==
  IF sidecar # native THEN "Divergence"
  ELSE IF sidecar \in DOMAIN registry /\ registry[sidecar] # logical THEN "Collision" ELSE Nil

register_one_lifecycle(logical, sidecar, native) ==
  /\ register_refused(logical, sidecar, native) = Nil
  /\ registry' = Put(registry, sidecar, logical)
  /\ bound' = bound \union {<<sidecar, logical>>}
  /\ UNCHANGED <<memo, served>>

IdentityNext ==
  \/ \E k \in MemoKeys, r \in Payloads : memoize(k, r) \/ serve_evidence(k, r)
  \/ \E l \in Logicals, s, n \in MemoKeys : register_one_lifecycle(l, s, n)

-----------------------------------------------------------------------------
(* The smart layer. *)

Credential == <<"credential">>
public_signature(message) == <<"sha256", Credential, message>>

\* A fault in the middle of the operation delivers nothing.
broker_op(fault) ==
  /\ workspace' = IF fault THEN workspace ELSE workspace \union {public_signature("m")}
  /\ UNCHANGED window

write_object(id, fault) ==
  /\ Len(window) < MaxSteps
  /\ window' = Append(window, [id |-> id, fault |-> fault,
                               provenance |-> IF fault THEN "Absent" ELSE "Present"])
  /\ UNCHANGED workspace

scan_degradation_window_writes ==
  LET during == {i \in DOMAIN window : window[i].fault}
  IN  [objects |-> Cardinality(during),
       absent  |-> Cardinality({i \in during : window[i].provenance = "Absent"})]

SmartNext == \E fault \in BOOLEAN :
               broker_op(fault) \/ \E id \in Digests : write_object(id, fault)

-----------------------------------------------------------------------------

Empty == [x \in {} |-> Nil]

TrustInit ==
  /\ entries = Empty /\ audit = <<>> /\ admitted = {} /\ shared = Empty
  /\ tlogEntries = <<>> /\ boots = {} /\ gateOk = FALSE /\ promotions = {}
  /\ memo = Empty /\ served = Nil /\ registry = Empty /\ bound = {}
  /\ workspace = {} /\ window = <<>>

TrustNext ==
  \/ TenantNext /\ UNCHANGED <<releaseVars, identityVars, smartVars>>
  \/ ReleaseNext /\ UNCHANGED <<tenantVars, identityVars, smartVars>>
  \/ IdentityNext /\ UNCHANGED <<tenantVars, releaseVars, smartVars>>
  \/ SmartNext /\ UNCHANGED <<tenantVars, releaseVars, identityVars>>

TrustSpec == TrustInit /\ [][TrustNext]_trustVars

\* Nothing crosses a boundary, whatever the others did before: a tenant reads
\* under a key only the first bytes it admitted there itself, every refusal left
\* an alert, the registry names no tenant; only a digest the release key signed
\* boots and only a complete signed chain was promoted while the gate was open;
\* evidence is the memo, an id has one logical intent; no credential reached the
\* workspace and no object of a fault window claims provenance (x1/isolation.rs,
\* x8/boot.rs, x2/attest.rs, x9/identity.rs, x11/lib.rs).
BoundariesHold ==
  /\ \A t \in Tenants, b \in BaseKeys :
       LET got == lookup_result(t, b)
       IN  /\ got # "Miss" => <<t, b, got>> \in admitted
           /\ \A p \in Payloads : <<t, b, p>> \in admitted => got = p
  /\ \A i \in DOMAIN audit : audit[i].alert => ~audit[i].admitted
  /\ \A b \in DOMAIN shared : /\ shared[b].chain.runner \notin Tenants
                              /\ shared[b].chain.principal \notin Tenants
                              /\ shared[b].chain.sig = Nil
  /\ \A d \in boots : \E i \in DOMAIN tlogEntries :
       tlogEntries[i].digest = d /\ tlogEntries[i].sig = [by |-> ReleaseKey, over |-> d]
  /\ \A p \in promotions : /\ p.gate /\ p.chain.principal # Nil
                           /\ p.chain.sig = [by |-> ReleaseKey, over |-> p.chain.tree]
  /\ served # Nil => served.bytes = served.memo
  /\ \A x, y \in bound : x[1] = y[1] => x[2] = y[2]
  /\ Credential \notin workspace
  /\ scan_degradation_window_writes.absent = scan_degradation_window_writes.objects
=============================================================================
