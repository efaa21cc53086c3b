---------------------------- MODULE PluginConfig ----------------------------
(***************************************************************************)
(* The configuration every component derives from the Cluster object:      *)
(* internal/cnpgi/operator/config/config.go.                               *)
(*                                                                         *)
(* A Cluster is a record.  Its plugins are a sequence, its external        *)
(* clusters a function from names to the plugin they are reached with, and *)
(* the parameters of a plugin a function from the keys that are present.   *)
(***************************************************************************)
EXTENDS Naturals, Sequences, FiniteSetsExt

PluginName == "barman-cloud.cloudnative-pg.io"

\* An external cluster reached without a plugin, or not found.
NoPlugin == [name |-> "", enabled |-> FALSE, parameters |-> <<>>]

\* Reading a Go map: a missing key is the empty string.
Parameter(parameters, key) ==
    IF key \in DOMAIN parameters THEN parameters[key] ELSE ""

\* The last entry of that name, enabled or not.
NewPlugin(cluster, pluginName) ==
    LET matching == {i \in DOMAIN cluster.plugins : cluster.plugins[i].name = pluginName}
    IN  IF matching = {} THEN NoPlugin ELSE cluster.plugins[Max(matching)]

\* The name under which a cluster archives: the serverName of the last enabled
\* entry that has one (even an empty one), or the name of the Cluster.
ServerName(cluster) ==
    LET named == {i \in DOMAIN cluster.plugins :
                     /\ cluster.plugins[i].enabled
                     /\ cluster.plugins[i].name = PluginName
                     /\ "serverName" \in DOMAIN cluster.plugins[i].parameters}
    IN  IF named = {} THEN cluster.name
        ELSE cluster.plugins[Max(named)].parameters["serverName"]

\* The plugin of an external cluster; an empty name stands for a Cluster that
\* has no such source.
SourcePlugin(cluster, source) ==
    IF source \in DOMAIN cluster.externalClusters
    THEN cluster.externalClusters[source] ELSE NoPlugin

getRecoverySourcePlugin(cluster) == SourcePlugin(cluster, cluster.recoverySource)

getReplicaSourcePlugin(cluster) == SourcePlugin(cluster, cluster.replicaSource)

\* The object store and the server name of a source, when this plugin serves it.
\* A plugin without parameters (a nil map) counts for no source at all.
SourceArchive(cluster, plugin) ==
    IF plugin.name # PluginName \/ DOMAIN plugin.parameters = {}
    THEN [store |-> "", server |-> ""]
    ELSE [store |-> Parameter(plugin.parameters, "barmanObjectName"),
          server |-> IF Parameter(plugin.parameters, "serverName") = "" THEN cluster.name
                     ELSE Parameter(plugin.parameters, "serverName")]

\* Three archives: the one the cluster writes, the one it is restored from and
\* the one a designated primary follows.
NewFromCluster(cluster) ==
    [archive |-> [store |-> Parameter(NewPlugin(cluster, PluginName).parameters,
                                      "barmanObjectName"),
                  server |-> ServerName(cluster)],
     recovery |-> SourceArchive(cluster, getRecoverySourcePlugin(cluster)),
     replicaSource |-> SourceArchive(cluster, getReplicaSourcePlugin(cluster))]

\* A configuration that refers to no object store at all is rejected.
Validate(configuration) ==
    \E a \in {configuration.archive, configuration.recovery, configuration.replicaSource} :
        a.store # ""

=============================================================================
