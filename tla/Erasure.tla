------------------------------ MODULE Erasure -------------------------------
(***************************************************************************)
(* Erasing a datum everywhere it was copied to (hugit-invariants x7, x12), *)
(* and what a reader still resolves afterwards (x13, x14).  Four stores    *)
(* hold copies: content-addressed objects, which links of the log point    *)
(* at, the context store, the sealed corpus behind the regen gate, and a   *)
(* mirror outside, for which only an obligation is kept.  The object store *)
(* of x7, x12, x14 and the chain store of x13 are the same two maps.       *)
(*                                                                         *)
(* An object's bytes are the set of data it contains; a content hash is a  *)
(* name the caller gives, the store does not recompute it.                 *)
(***************************************************************************)
EXTENDS ColdTier

CONSTANTS ObjectHashes,   \* content hashes
          Datum,          \* the datum to erase (the needle of the scans)
          MaxLinks        \* bound on object.link records

\* A content hash and a replayed state are no absent values.
ASSUME ErasureAssumption == None \notin ObjectHashes /\ None # EmptyRefs

VARIABLES live, tombs,          \* hash -> data it contains; the erased hashes
          links,                \* the log of object.link records
          context, corpus,      \* key -> data, for both stores
          gate,                 \* the RegenGate the corpus vouches for
          obligation,           \* outcome of the mirror obligation
          attest,               \* [tree, sig]: the attestation over the log's tree
          relinked              \* a record was rewritten in place

erasureVars == <<live, tombs, links, context, corpus, gate, obligation, attest, relinked>>

OBJECT_LINK_KIND == "object.link"
Without(map, k) == [x \in DOMAIN map \ {k} |-> map[x]]
With(map, k, v) == [x \in DOMAIN map \union {k} |-> IF x = k THEN v ELSE map[x]]

\* Live bytes first, then the tombstone.
store_resolve(h) ==
  IF h \in DOMAIN live THEN "Live" ELSE IF h \in tombs THEN "Tombstone" ELSE "Missing"

link_target(record) == IF record.kind = OBJECT_LINK_KIND THEN record.payload.target ELSE None

scan_orphans == {i \in DOMAIN links : link_target(links[i]) # None
                                      /\ store_resolve(link_target(links[i])) = "Missing"}

Rehash(r) == compute_this_hash(r.prev, r.kind, r.chain, r.payload, r.seq)

detect_silent_relink(r) == IF Rehash(r) # r.this THEN link_target(r) ELSE None

datum_absent(map) == \A k \in DOMAIN map : Datum \notin map[k]

MirrorObligationOutcome == {"Discharged", "Residual", "Blank"}  \* Blank: empty disclosure
is_honestly_resolved == obligation # "Blank"

-----------------------------------------------------------------------------
(* The cascade's scan and the exit proof. *)

CascadeAbsenceScan(h) ==
  [cas |-> h \notin DOMAIN live, orphans |-> scan_orphans = {},
   chain |-> verify_chain(links), context |-> datum_absent(context),
   mirror |-> is_honestly_resolved, corpus |-> datum_absent(corpus)]

fully_erased(h) == LET s == CascadeAbsenceScan(h) IN \A field \in DOMAIN s : s[field]

\* The exit proof lists its obligations and names their class in the schema.
ExitProofValid(classes) ==
  /\ obligation # "Blank"
  /\ "mirror_erasure_obligation" \in classes

is_independently_verifiable_over_tombstone(h) ==
  verify_chain(links) /\ store_resolve(h) = "Tombstone"

-----------------------------------------------------------------------------
(* Attestation: a signature covers the fields it was made over. *)

\* The signed tree is the set of live objects.
tree_of == DOMAIN live
sign_attestation(tree) == [tree |-> tree, sig |-> tree]
verify_attestation(a) == IF a.sig = None THEN "Unsigned"
                         ELSE IF a.sig # a.tree THEN "SignatureMismatch" ELSE "ok"

-----------------------------------------------------------------------------
(* Reading down: links after a compaction, a mirror round trip, an erasure. *)

resolve_link(h) == IF store_resolve(h) = "Missing" THEN "Dangling" ELSE "Found"

IntegrityReport ==
  LET at(what) == {i \in DOMAIN links : store_resolve(link_target(links[i])) = what}
  IN  [total |-> Len(links), live |-> Cardinality(at("Live")),
       tombstoned |-> Cardinality(at("Tombstone")), dangling |-> Cardinality(at("Missing"))]

\* Cold ranges and hot remainder put together again; the cold tier must also
\* recover on its own.
simulate_compaction_and_recovery(records, bound) ==
  LET cold   == compact(records, bound, {})
      sealed == IF cold = {} THEN <<>> ELSE (CHOOSE r \in cold : TRUE).records
      all    == sealed \o HotRemainder(records, bound)
  IN  IF verify_chain(all) /\ recover_from_cold(cold).ok THEN all ELSE <<None>>

\* The legs a human follows: the plain object whatever the layer does, a deep
\* link or a why only through a healthy layer, else an honest refusal.
raw_commit_view(object) == IF object \in DOMAIN live THEN "ViaPlainGit" ELSE "LayerUnavailable"

follow(h) == CASE store_resolve(h) = "Live" -> "Target"
               [] store_resolve(h) = "Tombstone" -> "Tombstone"
               [] OTHER -> "Broken"

human_can_always_follow(ids) == ids # {} /\ \A h \in ids : follow(h) # "Broken"

-----------------------------------------------------------------------------
(* Actions. *)

ErasureInit ==
  /\ live = <<>> /\ tombs = {} /\ links = <<>>
  /\ context = [k \in {"k"} |-> {Datum}] /\ corpus = [d \in {"d"} |-> {Datum}]
  /\ gate = [repass |-> TRUE, indep |-> TRUE]
  /\ obligation = "Blank" /\ attest = [tree |-> {}, sig |-> None] /\ relinked = FALSE

StorePut ==
  /\ \E h \in ObjectHashes, data \in {{}, {Datum}} : live' = With(live, h, data)
  /\ UNCHANGED <<tombs, links, context, corpus, gate, obligation, attest, relinked>>

\* A link is recorded to an object the store knows.
RecordLink ==
  /\ Len(links) < MaxLinks /\ ~relinked
  /\ \E h \in DOMAIN live \union tombs :
       links' = append(links, OBJECT_LINK_KIND, <<"human">>, [NoPayload EXCEPT !.target = h])
  /\ UNCHANGED <<live, tombs, context, corpus, gate, obligation, attest, relinked>>

\* Mutant: the bytes go, nothing takes their place.
StoreErase_bare ==
  /\ \E h \in ObjectHashes : live' = Without(live, h)
  /\ UNCHANGED <<tombs, links, context, corpus, gate, obligation, attest, relinked>>

StoreErase ==
  /\ \E h \in ObjectHashes : live' = Without(live, h) /\ tombs' = tombs \union {h}
  /\ UNCHANGED <<links, context, corpus, gate, obligation, attest, relinked>>

repointed(r, h) == [r EXCEPT !.payload = [NoPayload EXCEPT !.target = h]]

\* A record is repointed in place, its hash left as it was.
SilentRelink ==
  /\ ~relinked
  /\ \E i \in DOMAIN links, h \in ObjectHashes :
       /\ h # link_target(links[i])
       /\ links' = [links EXCEPT ![i] = repointed(links[i], h)]
  /\ relinked' = TRUE
  /\ UNCHANGED <<live, tombs, context, corpus, gate, obligation, attest>>

Purge ==
  /\ context' = Without(context, "k")
  /\ UNCHANGED <<live, tombs, links, corpus, gate, obligation, attest, relinked>>

\* An unknown datapoint is an error; an erased one re-pins the gate shut.
erase_datapoint ==
  /\ "d" \in DOMAIN corpus
  /\ corpus' = Without(corpus, "d")
  /\ gate' = [repass |-> FALSE, indep |-> FALSE]
  /\ UNCHANGED <<live, tombs, links, context, obligation, attest, relinked>>

MirrorAnswers ==
  /\ obligation' \in MirrorObligationOutcome
  /\ UNCHANGED <<live, tombs, links, context, corpus, gate, attest, relinked>>

reseal_attestation ==
  /\ attest' = sign_attestation(tree_of)
  /\ UNCHANGED <<live, tombs, links, context, corpus, gate, obligation, relinked>>

ErasureNext == StorePut \/ RecordLink \/ StoreErase \/ SilentRelink \/ Purge
               \/ erase_datapoint \/ MirrorAnswers \/ reseal_attestation

-----------------------------------------------------------------------------
(* Properties. *)

\* However the steps of the cascade interleave with writes: no link dangles and
\* the chain verifies as long as nobody rewrote a record; a rewritten record is
\* found and keeps the cascade from being called complete; a complete cascade
\* leaves the datum in no store the scan covers and its object a tombstone if it
\* was ever linked; the corpus that lost a datapoint vouches for nothing
\* (x7/cascade.rs scan_cascade_absence, erase_datapoint; x12/erasure.rs
\* verify_after_erasure, ExitProof::validate; x13, x14 resolution).
ErasureSound ==
  /\ ~relinked => /\ scan_orphans = {} /\ verify_chain(links)
                  /\ human_can_always_follow({link_target(links[i]) : i \in DOMAIN links}
                                               \union DOMAIN live) \/ links = <<>>
                  /\ \A b \in {0, 1} : simulate_compaction_and_recovery(links, b) = links
  /\ relinked => /\ \E i \in DOMAIN links : detect_silent_relink(links[i]) # None
                 /\ ~verify_chain(links)
  /\ \A h \in ObjectHashes : fully_erased(h) =>
       /\ ~relinked /\ datum_absent(context) /\ datum_absent(corpus)
       /\ (\E i \in DOMAIN links : link_target(links[i]) = h)
            => is_independently_verifiable_over_tombstone(h)
       /\ ExitProofValid({"mirror_erasure_obligation"})
  /\ "d" \notin DOMAIN corpus => ~gate.repass
  /\ IntegrityReport.total
       = IntegrityReport.live + IntegrityReport.tombstoned + IntegrityReport.dangling
  /\ \A h \in ObjectHashes : raw_commit_view(h) = "ViaPlainGit" => resolve_link(h) = "Found"
  /\ attest.sig # None => verify_attestation(attest) = "ok"

\* "The live bytes are removed": an erased object stays erased.
ErasedStaysErased == \A h \in tombs : h \notin DOMAIN live
=============================================================================
