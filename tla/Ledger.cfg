CONSTANTS
  None = None
  IntentRefs = {"r"}
  Targets = {"t1"}
  Ids = {"i1"}
  Charters <- MCCharters
  HotBounds = {0, 1}
  MaxRecords = 3
  Clients = {c1, c2}
  Requests = {1, 2, 3}
  MAX_HELD_LOCKS = 2
  Nobody = Nobody
  BlobWriters = {"w1", "w2"}
  BlobPids = {1, 2}
  NoRef = NoRef
  U64Max = 4
  MaxEvents = 2
  EnvelopeIds = {"a", "b"}
  MaxEnvelopes = 3
  NoTime = NoTime
  Horizon = 1
  MaxNow = 3
  MaxViewEvents = 3
  ViewIds <- MCViewIds
  JournalKeys <- MCJournalKeys
  ObjectHashes = {"h1", "h2"}
  Datum = "s"
  MaxLinks = 2
  Tenants = {"t1", "t2"}
  BaseKeys = {"k1"}
  Payloads = {"p1", "p2"}
  Digests = {"d1", "d2"}
  Signers = {"rel", "other"}
  ReleaseKey = "rel"
  MemoKeys = {"m1", "m2"}
  Logicals = {"l1", "l2"}
  Nil = Nil
  MaxSteps = 3
  Verbs = {v1, v2}
SPECIFICATION LedgerSpec
SYMMETRY Symmetry
INVARIANTS
  
  DisabledMeansQuiet
  
  
CHECK_DEADLOCK FALSE
