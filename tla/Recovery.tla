------------------------------ MODULE Recovery ------------------------------
(***************************************************************************)
(* What the recovery job of a new cluster promises, without the steps of   *)
(* an attempt, what a failed one leaves on disk, the checks and the move   *)
(* of pg_wal: a data directory is handed over in one step, and PostgreSQL  *)
(* works on it until the recovery ends or is abandoned.                    *)
(***************************************************************************)
EXTENDS Naturals

VARIABLES
    sources,   \* the archives the cluster may be recovered from, one or none
    target,    \* the time to recover to, 0 for the end
    taken,     \* the backups taken there so far, by their time
    data,      \* the data directory handed over, as a set of at most one
    replayed,  \* archives WAL files were replayed from
    phase      \* "recovering" or "recovered"

vars == <<sources, target, taken, data, replayed, phase>>

Init ==
    /\ data = {} /\ replayed = {} /\ phase = "recovering"

\* A backup that has been taken, and before the target, is handed over whole.
HandOver ==
    /\ phase = "recovering" /\ data = {}
    /\ \E a \in sources, b \in taken :
          /\ target > 0 => b <= target
          /\ data' = {[from |-> a, backup |-> b]}
    /\ UNCHANGED <<sources, target, taken, replayed, phase>>

\* WAL files are replayed on it, from where it came.
Replay ==
    /\ phase = "recovering"
    /\ \E d \in data : replayed' = replayed \cup {d.from}
    /\ UNCHANGED <<sources, target, taken, data, phase>>

Complete ==
    /\ phase = "recovering" /\ replayed # {}
    /\ phase' = "recovered"
    /\ UNCHANGED <<sources, target, taken, data, replayed>>

\* The attempt dies: another one starts from nothing.
Abandon ==
    /\ phase = "recovering"
    /\ data' = {} /\ replayed' = {}
    /\ UNCHANGED <<sources, target, taken, phase>>

TakeBackup ==
    /\ taken \subseteq taken'
    /\ UNCHANGED <<sources, target, data, replayed, phase>>

Next == HandOver \/ Replay \/ Complete \/ Abandon \/ TakeBackup

Spec == Init /\ [][Next]_vars

=============================================================================
