---- MODULE MC_Lifecycle ----
(* Pods and Jobs of Clusters with each shape of sources. *)
EXTENDS Lifecycle

Plugin(store) ==
    [name |-> PluginName, enabled |-> TRUE,
     parameters |-> [k \in {"barmanObjectName"} |-> store]]

Cluster(archive, recovery, replica) ==
    [name |-> "c",
     plugins |-> IF archive = "" THEN <<>> ELSE <<Plugin(archive)>>,
     externalClusters |-> [a |-> Plugin("a"), b |-> Plugin("b"), streamed |-> NoPlugin],
     recoverySource |-> recovery, replicaSource |-> replica]

\* The definition of an object by the operator: the scratch volume is mounted twice.
\* Another plugin may have injected the volume of the sockets.
Mounts ==
    <<[name |-> "pgdata", path |-> "/pgdata"],
      [name |-> "scratch-data", path |-> "/run"],
      [name |-> "scratch-data", path |-> "/controller"]>>

PodSpec(container, otherPlugin) ==
    [containers |-> [c \in {container} |->
        [env |-> [v \in {"PGDATA", "POD_NAME"} |-> [from |-> "postgres", version |-> 0]],
         mounts |-> IF otherPlugin THEN Append(Mounts, PluginMount) ELSE Mounts]],
     initContainers |->
        <<[name |-> "bootstrap-controller", env |-> <<>>, resources |-> {}, args |-> {},
           mounts |-> <<>>]>>,
     volumes |-> [v \in {"pgdata", "scratch-data"}
                          \cup (IF otherPlugin THEN {"plugins"} ELSE {}) |-> {}]]

Request(kind, cluster, role, spec) ==
    [kind |-> kind, cluster |-> cluster, role |-> role, spec |-> spec]

MCRequests ==
    {Request("Pod", c, "postgres", PodSpec("postgres", FALSE)) :
        c \in {Cluster("a", "", ""), Cluster("", "b", ""), Cluster("", "b", "b"),
               Cluster("a", "b", ""), Cluster("", "", ""), Cluster("", "streamed", "a")}}
    \cup {Request("Pod", Cluster("b", "", "a"), "postgres", PodSpec("postgres", TRUE))}
    \cup {Request("Job", c, r, PodSpec(r, FALSE)) :
             c \in {Cluster("a", "b", ""), Cluster("a", "streamed", "")},
             r \in {"full-recovery", "snapshot-recovery", "join"}}
    \cup {Request("Job", Cluster("a", "b", ""), "full-recovery", PodSpec("main", FALSE))}

MCStoreEnv ==
    [a |-> {"PGDATA", "REGION", "SPOOL_DIRECTORY"}, b |-> {"REGION", "PROXY"}]
====
