---- MODULE MC_RestoreJob ----
(* Clusters with each shape of the list of plugins and of the sources. *)
EXTENDS RestoreJob

MCParameters(store, server) ==
    IF server = "absent" THEN [k \in {"barmanObjectName"} |-> store]
    ELSE [k \in {"barmanObjectName", "serverName"} |->
              IF k = "serverName" THEN server ELSE store]

Plugin(enabled, store, server) ==
    [name |-> PluginName, enabled |-> enabled, parameters |-> MCParameters(store, server)]

OtherPlugin == [name |-> "other", enabled |-> TRUE, parameters |-> <<>>]

External ==
    [origin |-> Plugin(TRUE, "a", "origin"),
     unnamed |-> Plugin(TRUE, "a", "absent"),
     dr |-> Plugin(TRUE, "b", "dr"),
     streamed |-> NoPlugin,
     lost |-> Plugin(TRUE, "gone", "origin")]

Base ==
    [name |-> "c", plugins |-> <<Plugin(TRUE, "b", "absent")>>, externalClusters |-> External,
     recoverySource |-> "origin", replicaSource |-> "", walStorage |-> TRUE,
     checkEnabled |-> TRUE, targetTime |-> 0]

MCClusters ==
    {[Base EXCEPT !.plugins = p] :
        p \in {<<>>, <<OtherPlugin>>,
               <<Plugin(TRUE, "b", "dr")>>,
               <<Plugin(TRUE, "a", "c"), OtherPlugin>>,
               <<Plugin(TRUE, "b", "dr"), Plugin(FALSE, "b", "c")>>}}
    \cup {[Base EXCEPT !.recoverySource = s] : s \in {"unnamed", "streamed", "lost", ""}}
    \cup {[Base EXCEPT !.replicaSource = s] : s \in {"dr", "streamed"}}
    \cup {[Base EXCEPT !.targetTime = 1], [Base EXCEPT !.walStorage = FALSE],
          [Base EXCEPT !.plugins = <<Plugin(TRUE, "b", "dr")>>, !.checkEnabled = FALSE]}

MCUsed == {[store |-> "a", server |-> "origin"], [store |-> "b", server |-> "dr"]}
====
