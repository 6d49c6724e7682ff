------------------------------ MODULE MCLedger ------------------------------
(***************************************************************************)
(* The stores around the log: the cold tier and recovery, the lock set     *)
(* with its writer state, the cold blob store, envelopes and their         *)
(* rollups, the views and the resume journals, the erasure cascade, the    *)
(* trust boundaries, and the docks that attribute commits and costs.  They *)
(* share no state, so a behaviour exercises one of them, chosen in the     *)
(* initial state; docks in two parts, "settle" (coined, reconciled, landed *)
(* and closed) and "spool" (samples of their gateways, flushed).           *)
(***************************************************************************)
EXTENDS Erasure, LockSets, ColdBlobs, Envelope, LedgerViews, TrustBoundary

CONSTANT Verbs

VARIABLES part, dlog, gone, marker, tip, spool, verb, clock, ops, taken, late

dockVars == <<dlog, gone, marker, tip, spool, verb, clock, ops, taken, late>>
ledgerVars == <<part, coldVars, lockVars, blobVars, envelopeVars, viewVars, journalVars,
                erasureVars, trustVars, dockVars>>

GatewaySamples == {[run |-> "r1", dock |-> <<"main", "m">>, cost |-> 2],
                   [run |-> "r2", dock |-> <<"main", "m">>, cost |-> 3]}

\* Two branches, a dock on the main repository and one on a worktree.
D == INSTANCE Dock WITH
  RepoGitdirs <- {"main"}, WorktreeGitdirs <- {"wt"}, Branches <- <<"a", "m">>,
  DockOrder <- <<<<"wt", "m">>, <<"main", "m">>>>, Samples <- GatewaySamples,
  Envs <- {<<>>, <<"main", "m">>}, Capacity <- 2, MaxClock <- 2, MaxCommits <- 2,
  MaxOps <- 3

\* A charter that carries a trailer line of its own.
MCCharters == {<<<<"text">>>>, <<<<"text">>, <<"Intent-Id", "i2">>>>}

MCViewIds == {<<<<"short">>, 1>>, <<<<"path_plain", "word_mid">>, 1>>,
              <<<<"path_plain", "word_mid">>, 2>>}

Key(t, w, i) == [tenant |-> t, workspace |-> w, intent |-> i]

\* Parts that may contain the separator of the storage key.
MCJournalKeys == {Key(<<"t">>, <<"w">>, <<"i", ":", "x">>),
                  Key(<<"t">>, <<"w", ":", "i">>, <<"x">>),
                  Key(<<"t", ":", "w">>, <<"i">>, <<"x">>)}

Parts == {"cold", "locks", "blobs", "record", "roll", "views", "journal",
          "erasure", "tenants", "releases", "identity", "smart", "settle", "spool"}

\* The part "spool" may start with a dock already coined.
Coined(p) == D!DockRecord("main", "m", 1, p, D!NoDock)

LedgerInit ==
  /\ part \in Parts
  /\ ColdInit /\ LockInit /\ BlobInit /\ EnvelopeInit /\ ViewInit
  /\ ErasureInit /\ TrustInit
  /\ part # "blobs" => backend = "memory" /\ pidOf = [w \in BlobWriters |-> 1]
  /\ D!DockBase
  /\ \/ dlog = <<>> /\ marker = {}
     \/ part = "spool" /\ (\E p \in Verbs : dlog = <<Coined(p)>>) /\ marker = {"main"}

Others(mine) ==
  /\ mine # "cold" => UNCHANGED coldVars
  /\ mine # "locks" => UNCHANGED lockVars
  /\ mine # "blobs" => UNCHANGED blobVars
  /\ mine # "record" => UNCHANGED recVars
  /\ mine # "roll" => UNCHANGED rollVars
  /\ mine # "views" => UNCHANGED viewVars
  /\ mine # "journal" => UNCHANGED journalVars
  /\ mine # "erasure" => UNCHANGED erasureVars
  /\ mine # "tenants" => UNCHANGED tenantVars
  /\ mine # "releases" => UNCHANGED releaseVars
  /\ mine # "identity" => UNCHANGED identityVars
  /\ mine # "smart" => UNCHANGED smartVars
  /\ mine \notin {"settle", "spool"} => UNCHANGED dockVars
  /\ UNCHANGED part

\* Commits of the part "settle" come before the first ref.update.
Settle ==
  \/ \E p \in Verbs : D!Coining(p) \/ D!Settling(p) \/ D!CrashVerb(p)
  \/ D!OfKind(dlog, "ref.update") = <<>> /\ \E b \in {"a", "m"} : D!Commit(b)
  \/ D!RemoveWorktree("wt")
\* Commits of the part "spool" are on the branch of its dock.
Spool ==
  \/ \E p \in Verbs : D!Spooling(p) \/ D!CrashVerb(p)
  \/ D!Tick
  \/ \E s \in GatewaySamples : D!push(s)
  \/ D!Commit("m")

LedgerNext ==
  \/ part = "cold" /\ ColdNext /\ Others("cold")
  \/ part = "locks" /\ LockNext /\ Others("locks")
  \/ part = "blobs" /\ BlobNext /\ Others("blobs")
  \/ part = "record" /\ RecordNext /\ Others("record")
  \/ part = "roll" /\ RollNext /\ Others("roll")
  \/ part = "views" /\ Process /\ Others("views")
  \/ part = "journal" /\ JournalNext /\ Others("journal")
  \/ part = "erasure" /\ ErasureNext /\ Others("erasure")
  \/ part = "tenants" /\ TenantNext /\ Others("tenants")
  \/ part = "releases" /\ ReleaseNext /\ Others("releases")
  \/ part = "identity" /\ IdentityNext /\ Others("identity")
  \/ part = "smart" /\ SmartNext /\ Others("smart")
  \/ part = "settle" /\ Settle /\ Others("settle")
  \/ part = "spool" /\ Spool /\ Others("spool")

LedgerSpec == LedgerInit /\ [][LedgerNext]_ledgerVars

Symmetry == Permutations(Verbs)

-----------------------------------------------------------------------------
(* Properties. *)

\* What was recorded stays: the log recovered from the cold tier is the log
\* and its two altitudes agree, acknowledged blobs are found again, and
\* envelopes point at them.
RecordKept ==
  RecoveryExact /\ CompactedWhole /\ AltitudesAgree /\ AckedKept /\ EnvelopeWhole

\* What a reader is shown: scrubbed and exact views, honest latencies, a
\* resume that continues the right journal, nothing of an erased datum, and
\* nothing of another tenant, an unsigned release or another's identity.
ViewsHonest ==
  /\ ViewsScrubbedAndExact /\ LatencyHonest /\ ResumeSound /\ ErasureSound
  /\ BoundariesHold

\* What was spent adds up: envelopes roll up to the costs of what was billed,
\* and docks account for what they are given, one settlement per dock, every
\* accepted sample in the log or in the spool (but for those that arrive while
\* a flush is under way), and no cost or commit counted twice.
AccountsAddUp == CostsConserved /\ D!SettledOnce /\ D!SamplesKept /\ D!AttributionExact
=============================================================================
