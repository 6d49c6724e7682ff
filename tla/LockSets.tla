------------------------------ MODULE LockSets ------------------------------
(***************************************************************************)
(* The experimental coordinator: ordered sets of native file locks, the    *)
(* shared admission lock on the writer-state file, and disabling writers.  *)
(*                                                                         *)
(* A request is a number: the order of LockRequest is its class's order    *)
(* and then its key's, and the lock's file is a function of both.  Every   *)
(* lock is tried, never waited for.  A process that dies loses its locks.  *)
(***************************************************************************)
EXTENDS Integers, Sequences, FiniteSets

CONSTANTS Clients, Requests,
          MAX_HELD_LOCKS,
          Nobody

ASSUME LockSetConstants ==
  Nobody \notin Clients /\ Requests \subseteq Nat /\ MAX_HELD_LOCKS \in Nat

VARIABLES
  held,        \* client -> the requests its lock set holds, in order
  admission,   \* client -> its set keeps the shared lock on writer-state
  pending,     \* client -> try_acquire holds it and has not kept it yet
  want,        \* client -> the request try_acquire is working on
  apc,         \* client -> the step of try_acquire, or of the set's drop
  answer,      \* client -> the last answer of try_acquire
  wstate,      \* writer-state: "Active", "Disabled", "Torn"
  disabler     \* who holds writer-state exclusively in try_disable

lockVars == <<held, admission, pending, want, apc, answer, wstate, disabler>>

CoordinationErrors == {"InvalidWriterState", "WritersDisabled", "OutOfOrder",
                       "TooManyLocks", "Busy"}
Admitted(c) == admission[c] \/ pending[c]
Holds(c, r) == \E i \in DOMAIN held[c] : held[c][i] = r
LastLock(s) == s[Len(s)]

LockInit ==
  /\ held = [c \in Clients |-> <<>>]
  /\ admission = [c \in Clients |-> FALSE]
  /\ pending = [c \in Clients |-> FALSE]
  /\ want = [c \in Clients |-> 0]
  /\ apc = [c \in Clients |-> "idle"]
  /\ answer = [c \in Clients |-> "ok"]
  /\ wstate = "Active"
  /\ disabler = Nobody

\* An answer ends the call; the pending admission goes with the call's frame.
Answer(c, what) ==
  /\ answer' = [answer EXCEPT ![c] = what]
  /\ apc' = [apc EXCEPT ![c] = "idle"]
  /\ pending' = [pending EXCEPT ![c] = FALSE]

-----------------------------------------------------------------------------
(* try_acquire: the checks on the set, the admission, the lock. *)

refused(c, r) ==
  IF Len(held[c]) >= MAX_HELD_LOCKS THEN "TooManyLocks"
  ELSE IF held[c] # <<>> /\ r <= LastLock(held[c]) THEN "OutOfOrder" ELSE "ok"

try_acquire(c, r) ==
  /\ apc[c] = "idle" /\ disabler # c
  /\ IF refused(c, r) # "ok"
     THEN Answer(c, refused(c, r)) /\ UNCHANGED want
     ELSE /\ want' = [want EXCEPT ![c] = r]
          /\ apc' = [apc EXCEPT ![c] = IF admission[c] THEN "read" ELSE "admit"]
          /\ UNCHANGED <<answer, pending>>
  /\ UNCHANGED <<held, admission, wstate, disabler>>

\* try_lock_shared on writer-state.
Admit(c) ==
  /\ apc[c] = "admit"
  /\ IF disabler # Nobody THEN Answer(c, "Busy")
     ELSE /\ pending' = [pending EXCEPT ![c] = TRUE]
          /\ apc' = [apc EXCEPT ![c] = "read"]
          /\ UNCHANGED answer
  /\ UNCHANGED <<held, admission, want, wstate, disabler>>

read_writer_state(c) ==
  /\ apc[c] = "read"
  /\ CASE wstate = "Active" -> /\ apc' = [apc EXCEPT ![c] = "lock"]
                               /\ UNCHANGED <<answer, pending>>
       [] wstate = "Disabled" -> Answer(c, "WritersDisabled")
       [] OTHER -> Answer(c, "InvalidWriterState")
  /\ UNCHANGED <<held, admission, want, wstate, disabler>>

\* Mutant: the admission of the first lock is not kept.
LockFile_unadmitted(c) ==
  /\ apc[c] = "lock"
  /\ IF \E d \in Clients : Holds(d, want[c])
     THEN Answer(c, "Busy") /\ UNCHANGED <<held, admission>>
     ELSE /\ held' = [held EXCEPT ![c] = Append(@, want[c])]
          /\ Answer(c, "ok") /\ UNCHANGED admission
  /\ UNCHANGED <<want, wstate, disabler>>

LockFile(c) ==
  /\ apc[c] = "lock"
  /\ IF \E d \in Clients : Holds(d, want[c])
     THEN Answer(c, "Busy") /\ UNCHANGED <<held, admission>>
     ELSE /\ held' = [held EXCEPT ![c] = Append(@, want[c])]
          /\ admission' = [admission EXCEPT ![c] = TRUE]
          /\ Answer(c, "ok")
  /\ UNCHANGED <<want, wstate, disabler>>

release_last(c) ==
  /\ apc[c] = "idle" /\ held[c] # <<>>
  /\ held' = [held EXCEPT ![c] = SubSeq(@, 1, Len(@) - 1)]
  /\ admission' = [admission EXCEPT ![c] = Len(held[c]) > 1]
  /\ UNCHANGED <<pending, want, apc, answer, wstate, disabler>>

\* Dropping a set unlocks its leases one by one from the first, the admission
\* last; a process that dies loses everything at once.
DropSet(c) ==
  /\ apc[c] = "dropping" \/ (apc[c] = "idle" /\ held[c] # <<>>)
  /\ IF held[c] # <<>>
     THEN /\ held' = [held EXCEPT ![c] = Tail(@)]
          /\ apc' = [apc EXCEPT ![c] = "dropping"]
          /\ UNCHANGED admission
     ELSE /\ admission' = [admission EXCEPT ![c] = FALSE]
          /\ apc' = [apc EXCEPT ![c] = "idle"]
          /\ UNCHANGED held
  /\ UNCHANGED <<pending, want, answer, wstate, disabler>>

Die(c) ==
  /\ apc[c] # "idle" \/ held[c] # <<>> \/ disabler = c
  /\ held' = [held EXCEPT ![c] = <<>>]
  /\ admission' = [admission EXCEPT ![c] = FALSE]
  /\ pending' = [pending EXCEPT ![c] = FALSE]
  /\ apc' = [apc EXCEPT ![c] = "idle"]
  /\ disabler' = IF disabler = c THEN Nobody ELSE disabler
  /\ wstate' \in IF disabler = c /\ wstate = "Active" THEN {"Active", "Torn"} ELSE {wstate}
  /\ UNCHANGED <<want, answer>>

-----------------------------------------------------------------------------
(* try_disable. *)

\* Takes the exclusive lock, which fails with Busy while anyone is admitted, and
\* reads the state; anything but the two states is refused.
try_disable(c) ==
  /\ apc[c] = "idle" /\ disabler = Nobody
  /\ \A d \in Clients : ~Admitted(d)
  /\ wstate # "Torn"
  /\ disabler' = c
  /\ UNCHANGED <<held, admission, pending, want, apc, answer, wstate>>

WriteDisabled(c) ==
  /\ disabler = c
  /\ wstate' = "Disabled"
  /\ disabler' = Nobody
  /\ UNCHANGED <<held, admission, pending, want, apc, answer>>

LockNext ==
  \E c \in Clients :
    \/ \E r \in Requests : try_acquire(c, r)
    \/ Admit(c) \/ read_writer_state(c) \/ LockFile(c)
    \/ release_last(c) \/ DropSet(c) \/ Die(c)
    \/ try_disable(c) \/ WriteDisabled(c)

LockSpec == LockInit /\ [][LockNext]_lockVars

-----------------------------------------------------------------------------
(* Properties. *)

\* Whatever calls, drops and deaths interleave, no two sets hold one lock, a set
\* is taken in ascending order and within its cap, and while any lock is held the
\* writers are active: a successful try_disable means every writer has left and
\* none comes back (coordination.rs try_acquire, release_last, try_disable).
DisabledMeansQuiet ==
  /\ \A c \in Clients :
       /\ answer[c] \in CoordinationErrors \union {"ok"}
       /\ held[c] # <<>> => admission[c] /\ wstate = "Active"
       /\ Len(held[c]) <= MAX_HELD_LOCKS
       /\ \A i, j \in DOMAIN held[c] : i < j => held[c][i] < held[c][j]
       /\ \A d \in Clients \ {c}, r \in Requests : ~(Holds(c, r) /\ Holds(d, r))
  /\ disabler # Nobody => \A c \in Clients : ~Admitted(c)
=============================================================================
