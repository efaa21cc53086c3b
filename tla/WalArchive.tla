----------------------------- MODULE WalArchive -----------------------------
(***************************************************************************)
(* What the WAL service of a pod promises to PostgreSQL, without spool,    *)
(* parallel transfers, flags, crashes and retries: a file of this pod is   *)
(* acknowledged once it is stored, and what is delivered was stored.       *)
(***************************************************************************)

VARIABLES
    pending,       \* files PostgreSQL keeps until they are acknowledged
    acknowledged,  \* files PostgreSQL may recycle
    stored,        \* files in the archive of the cluster
    upstream,      \* files in the archive of the cluster it was made from
    answer         \* the file delivered and not yet taken, as a set of at most one

vars == <<pending, acknowledged, stored, upstream, answer>>

Init ==
    /\ pending = {} /\ acknowledged = {} /\ answer = {}

\* PostgreSQL completes a file.
Produce ==
    /\ \E w \in pending' : pending' = pending \cup {w}
    /\ UNCHANGED <<acknowledged, stored, upstream, answer>>

\* A file gets into the archive, from this pod or from another one.
Store ==
    /\ \E w \in stored' : stored' = stored \cup {w}
    /\ UNCHANGED <<pending, acknowledged, upstream, answer>>

StoreUpstream ==
    /\ \E w \in upstream' : upstream' = upstream \cup {w}
    /\ UNCHANGED <<pending, acknowledged, stored, answer>>

Acknowledge ==
    /\ \E w \in pending \cap stored :
          /\ pending' = pending \ {w}
          /\ acknowledged' = acknowledged \cup {w}
    /\ UNCHANGED <<stored, upstream, answer>>

Deliver ==
    /\ answer = {}
    /\ \E w \in stored \cup upstream : answer' = {w}
    /\ UNCHANGED <<pending, acknowledged, stored, upstream>>

Take ==
    /\ answer' = {}
    /\ UNCHANGED <<pending, acknowledged, stored, upstream>>

Next == Produce \/ Store \/ StoreUpstream \/ Acknowledge \/ Deliver \/ Take

Spec == Init /\ [][Next]_vars

=============================================================================
