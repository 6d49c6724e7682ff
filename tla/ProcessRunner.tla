---------------------------- MODULE ProcessRunner ----------------------------
(***************************************************************************)
(* The local execution of a check: `sh -c <command>` is polled until it    *)
(* exits or its deadline passes; at the deadline the processes it has left *)
(* are enumerated from /proc, verified once more and killed one by one.    *)
(* The command forks and exits, and the system reuses process ids, while   *)
(* this happens.                                                           *)
(***************************************************************************)
EXTENDS Naturals, FiniteSets

CONSTANTS
    Pids,               \* process ids, Root among them
    Root,               \* the shell that was spawned
    MaxRecycled         \* bound: ids taken over by strangers

ASSUME PidsAssumption ==
    IsFiniteSet(Pids) /\ Root \in Pids /\ {"init", "none"} \cap Pids = {}

VARIABLES
    parent,             \* per id: its parent, "init", or "none" if no such process
    mine,               \* ids of processes the command started
    phase,              \* position of the runner
    descendants,        \* the ids it has enumerated, and then those verified
    late,               \* command processes forked after the enumeration
    adrift,             \* command processes whose line to Root was cut by an exit
    window,             \* ids recycled between verification and signal
    struck              \* strangers that were killed

procVars == <<parent, mine, phase, descendants, late, adrift, window, struck>>

Alive(pr) == {p \in Pids : pr[p] # "none"}

\* Ids with p above them, climbing at most as many steps as there are ids.
ppid_of(pr, p) == pr[p]

Above(pr, p) ==
    LET climb[n \in 0..Cardinality(Pids)] ==
            IF n = 0 THEN {p}
            ELSE climb[n - 1] \cup {ppid_of(pr, q) : q \in climb[n - 1] \cap Pids}
    IN (climb[Cardinality(Pids)] \cap Pids) \ {p}

is_descendant_of(pr, p) == p # Root /\ p \in Alive(pr) /\ Root \in Above(pr, p)

linux_descendant_pids(pr) == {p \in Pids : is_descendant_of(pr, p)}

\* The processes of a set are gone, and their children belong to init.
Without(pr, gone) ==
    [p \in Pids |-> IF p \in gone THEN "none" ELSE IF pr[p] \in gone THEN "init" ELSE pr[p]]

------------------------------------------------------------------------------
(* The command and the system.                                             *)

Fork(p, q) ==
    /\ p \in mine \cap Alive(parent)
    /\ q \notin Alive(parent) \cup {Root}
    /\ parent' = [parent EXCEPT ![q] = p]
    /\ mine' = mine \cup {q}
    /\ late' = IF phase = "poll" THEN late \ {q} ELSE late \cup {q}
    /\ adrift' = IF p \in adrift THEN adrift \cup {q} ELSE adrift \ {q}
    /\ UNCHANGED <<phase, descendants, window, struck>>

Exit(p) ==
    LET below == {q \in mine : q \in Alive(parent) /\ p \in Above(parent, q)} IN
    /\ p \in mine \cap Alive(parent)
    /\ parent' = Without(parent, {p})
    /\ mine' = mine \ {p}
    /\ adrift' = (adrift \cup below) \ {p}
    /\ UNCHANGED <<phase, descendants, late, window, struck>>

\* A stranger gets an id that is free.
Recycle(q) ==
    /\ q \notin Alive(parent) \cup {Root}
    /\ Cardinality(Alive(parent) \ mine) < MaxRecycled
    /\ parent' = [parent EXCEPT ![q] = "init"]
    /\ window' = IF phase = "verified" THEN window \cup {q} ELSE window
    /\ UNCHANGED <<mine, phase, descendants, late, adrift, struck>>

------------------------------------------------------------------------------
(* The runner.                                                             *)

\* try_wait sees the shell's exit; the drain threads are joined.
TryWait ==
    /\ phase = "poll"
    /\ Root \notin Alive(parent)
    /\ phase' = "join"
    /\ UNCHANGED <<parent, mine, descendants, late, adrift, window, struck>>

\* The drain threads end when nobody holds the pipes any more.
Join ==
    /\ phase = "join"
    /\ mine = {}
    /\ phase' = "exited"
    /\ UNCHANGED <<parent, mine, descendants, late, adrift, window, struck>>

\* kill_group: enumerate, verify, kill, and only then kill and reap the shell.
Deadline ==
    /\ phase = "poll"
    /\ Root \in Alive(parent)
    /\ phase' = "scanned"
    /\ descendants' = linux_descendant_pids(parent)
    /\ UNCHANGED <<parent, mine, late, adrift, window, struck>>

\* Mutant: the shell is killed before its descendants are verified.
Verify_after_root ==
    /\ phase = "scanned"
    /\ parent' = Without(parent, {Root})
    /\ mine' = mine \ {Root}
    /\ descendants' = {p \in descendants : is_descendant_of(parent', p)}
    /\ phase' = "verified"
    /\ UNCHANGED <<late, adrift, window, struck>>

Verify ==
    /\ phase = "scanned"
    /\ descendants' = {p \in descendants : is_descendant_of(parent, p)}
    /\ phase' = "verified"
    /\ UNCHANGED <<parent, mine, late, adrift, window, struck>>

reap_pids ==
    /\ phase = "verified"
    /\ parent' = Without(parent, descendants)
    /\ mine' = mine \ descendants
    /\ struck' = struck \cup (descendants \cap (Alive(parent) \ mine))
    /\ phase' = "swept"
    /\ UNCHANGED <<descendants, late, adrift, window>>

KillRoot ==
    /\ phase = "swept"
    /\ parent' = Without(parent, {Root})
    /\ mine' = mine \ {Root}
    /\ phase' = "timeout"
    /\ UNCHANGED <<descendants, late, adrift, window, struck>>

ProcInit ==
    /\ parent = [p \in Pids |-> IF p = Root THEN "init" ELSE "none"]
    /\ mine = {Root}
    /\ phase = "poll"
    /\ descendants = {}
    /\ late = {}
    /\ adrift = {}
    /\ window = {}
    /\ struck = {}

ProcNext ==
    \/ \E p, q \in Pids : Fork(p, q)
    \/ \E p \in Pids : Exit(p)
    \/ \E q \in Pids : Recycle(q)
    \/ TryWait
    \/ Join
    \/ Deadline
    \/ Verify
    \/ reap_pids
    \/ KillRoot

ProcSpec == ProcInit /\ [][ProcNext]_procVars

------------------------------------------------------------------------------
\* "A check timeout must NEVER be able to signal anything beyond its own
\* command's subtree": a stranger is hit only if it got its id in the moment
\* between the verification and the signal, the window reap_pids admits.
\* And nothing outlives the deadline except what was forked after the
\* enumeration or had lost its line to the shell.
SweepExact ==
    /\ struck \subseteq window
    /\ phase = "timeout" => mine \subseteq late \cup adrift

\* The shell has exited on its own, so "the pipes are already at EOF and the
\* join is immediate".
JoinImmediate == phase = "join" => mine = {}
==============================================================================
