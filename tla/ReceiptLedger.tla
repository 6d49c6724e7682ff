--------------------------- MODULE ReceiptLedger ---------------------------
(***************************************************************************)
(* What capture promises for a published receipt: it is pending until it   *)
(* is either recorded in the log or rejected to a dead letter; never both, *)
(* never dropped, never taken back.                                        *)
(***************************************************************************)
CONSTANTS Receipts, Recordable, Rejectable

VARIABLES pending, recorded, rejected

lvars == <<pending, recorded, rejected>>

LInit == pending = {} /\ recorded = {} /\ rejected = {}

LPublish(r) ==
  /\ r \notin pending \union recorded \union rejected
  /\ pending' = pending \union {r}
  /\ UNCHANGED <<recorded, rejected>>

LRecord(r) ==
  /\ r \in pending \intersect Recordable
  /\ pending' = pending \ {r}
  /\ recorded' = recorded \union {r}
  /\ UNCHANGED rejected

LReject(r) ==
  /\ r \in pending \intersect Rejectable
  /\ pending' = pending \ {r}
  /\ rejected' = rejected \union {r}
  /\ UNCHANGED recorded

LNext == \E r \in Receipts : LPublish(r) \/ LRecord(r) \/ LReject(r)

LSpec == LInit /\ [][LNext]_lvars
=============================================================================
