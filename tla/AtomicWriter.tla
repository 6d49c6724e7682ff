---------------------------- MODULE AtomicWriter ----------------------------
(***************************************************************************)
(* What the serialized writer promises: the log only ever changes by the   *)
(* whole effect of one call, computed from the very log that call extends. *)
(***************************************************************************)
CONSTANTS Calls,          \* the calls callers make
          InitialLogs,    \* the logs a writer may start from
          Effect(_, _)    \* Effect(l, c): the log after call c on log l

VARIABLE log

Init == log \in InitialLogs

Next == \E c \in Calls : log' = Effect(log, c)

Spec == Init /\ [][Next]_log
=============================================================================
