----------------------------- MODULE Lifecycle -----------------------------
(***************************************************************************)
(* The lifecycle hook: internal/cnpgi/operator/lifecycle.go, with the      *)
(* certificates, environment and resources it collects from the            *)
(* ObjectStores (lifecycle_*.go).                                          *)
(*                                                                         *)
(* The operator hands over the definition of a Pod or of a Job and applies *)
(* the patch that comes back.  A Pod is evaluated (what would it look like *)
(* today?) and created through the same hook, so that a new Pod goes       *)
(* through it twice.  The hook reads the ObjectStores one Get at a time,   *)
(* some of them up to four times, while users edit them.                   *)
(*                                                                         *)
(* What an ObjectStore contributes is known by its version.  Environment   *)
(* variables are a function from names to where their value comes from,    *)
(* volumes a function from names to the secrets projected into them.       *)
(***************************************************************************)
EXTENDS PluginConfig, SequencesExt

CONSTANTS
    Requests,    \* what the operator may work on: a Cluster and an object of it
    StoreNames,  \* names of ObjectStores
    StoreEnv,    \* for each of them, the variables its sidecar configuration sets
    MaxEdits     \* bound: times a user writes or deletes an ObjectStore

\* The definition of an object, as far as the hook looks at it.
IsSpec(spec) ==
    /\ spec = [containers |-> spec.containers, initContainers |-> spec.initContainers,
               volumes |-> spec.volumes]
    /\ spec.containers = [c \in DOMAIN spec.containers |->
                             [env |-> spec.containers[c].env,
                              mounts |-> spec.containers[c].mounts]]
    /\ spec.initContainers \in Seq(ToSet(spec.initContainers))
    /\ spec.volumes = [v \in DOMAIN spec.volumes |-> spec.volumes[v]]

ASSUME ConstantsAssumption ==
    /\ \A r \in Requests : IsSpec(r.spec)
    /\ StoreEnv \in [StoreNames -> SUBSET STRING]
    /\ MaxEdits \in Nat

\* The ObjectStores a Cluster may refer to, existing or not.
ASSUME ReferencesAssumption ==
    \A r \in Requests :
        LET c == NewFromCluster(r.cluster)
        IN  {c.archive.store, c.recovery.store, c.replicaSource.store}
                \subseteq StoreNames \cup {""}

\* PostgreSQL's container as the operator defines it: it mounts volumes of the object,
\* the shared paths among them; a volume mounted twice is at a shared path the second
\* time; the data directory is set, and no variable comes from an ObjectStore.
DefinitionOK(spec, main) ==
    LET mounts == spec.containers[main].mounts
        env == spec.containers[main].env
        At(path) == {i \in DOMAIN mounts : mounts[i].path = path}
    IN  /\ mounts \in Seq([name : DOMAIN spec.volumes, path : STRING])
        /\ At("/pgdata") # {} /\ At("/controller") # {}
        /\ "plugins" \in DOMAIN spec.volumes => At("/plugins") # {}
        /\ \A i \in At("/pgdata") \cup At("/controller") \cup At("/plugins") :
              \A j \in DOMAIN mounts : mounts[j].name = mounts[i].name => j <= i
        /\ "PGDATA" \in DOMAIN env
        /\ \A v \in DOMAIN env : env[v].from \notin StoreNames

\* The sidecar is the plugin's business alone.
ASSUME DefinitionsAssumption ==
    /\ "plugin" \notin StoreNames
    /\ \A r \in Requests :
          /\ \A i \in DOMAIN r.spec.initContainers :
                r.spec.initContainers[i].name # "plugin-barman-cloud"
          /\ r.role \in DOMAIN r.spec.containers => DefinitionOK(r.spec, r.role)

VARIABLES
    request,     \* cluster, kind, role (the main container) and spec of the object
    stores,      \* the ObjectStores; version 0 stands for one that does not exist
    edits,
    hook,        \* the invocation in progress
    object,      \* the spec of the object in the cluster, or NoSpec
    recorded,    \* the evaluated spec the operator keeps with a Pod
    built        \* history: what was collected for the object

vars == <<request, stores, edits, hook, object, recorded, built>>

Store == [version : Nat, ca : BOOLEAN]

NoStore == [version |-> 0, ca |-> FALSE]

\* What a value comes from: a version of an ObjectStore, PostgreSQL's container
\* or the plugin itself.
Origin == [from : STRING, version : Nat]

NoSpec == [containers |-> <<>>, initContainers |-> <<>>, volumes |-> <<>>]

NoConfig == [env |-> <<>>, certificates |-> {}, resources |-> {}, additionalArgs |-> {}]

-----------------------------------------------------------------------------
(* What is to be collected *)

configuration == NewFromCluster(request.cluster)

\* An archive that is not configured has no name.
inUse(store) == IF store = "" THEN <<>> ELSE <<store>>

\* Each archive in use, the same ObjectStore possibly more than once.
storeList ==
    inUse(configuration.archive.store) \o inUse(configuration.recovery.store)
        \o inUse(configuration.replicaSource.store)

GetReferredBarmanObjectsKey == ToSet(storeList)

\* Only one ObjectStore provides the resources: in a Pod the one that is archived
\* to, else the one that is recovered from, else the one that is followed.
collectSidecarResources ==
    IF request.kind = "Job" THEN {configuration.recovery.store} \ {""}
    ELSE {Head(storeList)}

Read(s) == [from |-> s, version |-> stores[s].version]

\* Mutant: a Pod is left alone when it is evaluated.
Mut_CreateOnly == {<<"Pod", "CREATE">>, <<"Job", "CREATE">>}

GetCapabilities == {<<"Pod", "CREATE">>, <<"Pod", "EVALUATE">>, <<"Job", "CREATE">>}

-----------------------------------------------------------------------------
(* Injecting the sidecar *)

SidecarName == "plugin-barman-cloud"

barmanCertificatesVolumeName == "barman-certificates"

BarmanCertificatesPath == "/barman-certificates"

CertificatesMount == [name |-> barmanCertificatesVolumeName, path |-> BarmanCertificatesPath]

PluginMount == [name |-> "plugins", path |-> "/plugins"]

\* Mutant: a volume that is there already is left as it is.
Mut_VolumeNotUpdated(volumes, name, secrets) ==
    [n \in DOMAIN volumes \cup {name} |->
        IF n \in DOMAIN volumes THEN volumes[n] ELSE secrets]

ensureVolume(volumes, name, secrets) ==
    [n \in DOMAIN volumes \cup {name} |-> IF n = name THEN secrets ELSE volumes[n]]

removeVolume(volumes, name) == [n \in DOMAIN volumes \ {name} |-> volumes[n]]

\* Mutant: the first mount of a volume stays.
Mut_MountNotUpdated(mounts, volumeMounts) ==
    FoldLeft(LAMBDA ms, m :
                 IF \E i \in DOMAIN ms : ms[i].name = m.name THEN ms ELSE Append(ms, m),
             mounts, volumeMounts)

\* A mount replaces the first one of the same volume, at whatever path that is.
putMount(mounts, mount) ==
    LET same == {i \in DOMAIN mounts : mounts[i].name = mount.name}
    IN  IF same = {} THEN Append(mounts, mount)
        ELSE [mounts EXCEPT ![Min(same)] = mount]

ensureVolumeMount(mounts, volumeMounts) ==
    LET after[n \in 0 .. Len(volumeMounts)] ==
            IF n = 0 THEN mounts ELSE putMount(after[n - 1], volumeMounts[n])
    IN  after[Len(volumeMounts)]

DefaultEnv ==
    {"NAMESPACE", "CLUSTER_NAME", "SPOOL_DIRECTORY", "CUSTOM_CNPG_GROUP",
     "CUSTOM_CNPG_VERSION"}

\* The variables of the main container win over the defaults, and these over the
\* ObjectStores, of which the first one that sets a variable wins.
sidecarEnv(mainEnv, env) ==
    [v \in DOMAIN mainEnv \cup DefaultEnv
             \cup UNION {StoreEnv[env[i].from] : i \in DOMAIN env} |->
        IF v \in DOMAIN mainEnv THEN mainEnv[v]
        ELSE IF v \in DefaultEnv THEN [from |-> "plugin", version |-> 0]
        ELSE env[Min({i \in DOMAIN env : v \in StoreEnv[env[i].from]})]]

\* The volume of the sockets comes together with the mount of the main container.
InjectPluginVolumePodSpec(spec, main) ==
    IF "plugins" \in DOMAIN spec.volumes THEN spec
    ELSE [spec EXCEPT
              !.volumes = ensureVolume(@, "plugins", {}),
              !.containers[main].mounts = ensureVolumeMount(@, <<PluginMount>>)]

\* The sidecar takes the place of an init container of its name, or the last one.
putSidecar(initContainers, sidecar) ==
    IF \E i \in DOMAIN initContainers : initContainers[i].name = SidecarName
    THEN [i \in DOMAIN initContainers |->
             IF initContainers[i].name = SidecarName THEN sidecar ELSE initContainers[i]]
    ELSE Append(initContainers, sidecar)

\* The sidecar has the mounts of the main container, its new one included.
injectPluginSidecarPodSpec(spec, sidecar, main) ==
    LET plugged == InjectPluginVolumePodSpec(spec, main)
        mounts == ensureVolumeMount(sidecar.mounts, plugged.containers[main].mounts)
    IN  [plugged EXCEPT
             !.initContainers = putSidecar(@, [sidecar EXCEPT !.mounts = mounts])]

\* The sidecar is made from scratch; its volume of certificates is there exactly
\* when some ObjectStore has one.
reconcilePodSpec(spec, main, config) ==
    LET certified == config.certificates # {}
        sidecar == [name |-> SidecarName,
                    env |-> sidecarEnv(spec.containers[main].env, config.env),
                    resources |-> config.resources,
                    args |-> config.additionalArgs,
                    mounts |-> IF certified THEN <<CertificatesMount>> ELSE <<>>]
        volumes == IF certified
                   THEN ensureVolume(spec.volumes, barmanCertificatesVolumeName,
                                     config.certificates)
                   ELSE removeVolume(spec.volumes, barmanCertificatesVolumeName)
    IN  injectPluginSidecarPodSpec([spec EXCEPT !.volumes = volumes], sidecar, main)

\* Instances that archive or follow an archive get the sidecar, and the recovery
\* jobs of a cluster that is recovered by this plugin.
NeedsSidecar ==
    IF request.kind = "Pod"
    THEN configuration.archive.store # "" \/ configuration.replicaSource.store # ""
    ELSE /\ getRecoverySourcePlugin(request.cluster).name = PluginName
         /\ request.role \in {"full-recovery", "snapshot-recovery"}

Injected(spec, config) ==
    IF Validate(configuration) /\ NeedsSidecar
    THEN reconcilePodSpec(spec, request.role, config) ELSE spec

-----------------------------------------------------------------------------
(* The hook, one Get at a time *)

HookIdle ==
    [pc |-> "idle", operation |-> "none", spec |-> NoSpec, todo |-> <<>>, keys |-> {},
     config |-> NoConfig]

Init ==
    /\ request \in Requests
    /\ stores \in [StoreNames -> {NoStore} \cup [version : {1}, ca : BOOLEAN]]
    /\ edits = 0
    /\ hook = HookIdle
    /\ object = NoSpec
    /\ recorded = NoSpec
    /\ built = NoConfig

\* An operation the plugin has not registered for, or a Cluster with a
\* configuration that is not valid, leaves the object as it is.
LifecycleHook(operation, spec) ==
    hook' = [HookIdle EXCEPT
                 !.operation = operation, !.spec = spec,
                 !.todo = storeList, !.keys = GetReferredBarmanObjectsKey,
                 !.pc = IF <<request.kind, operation>> \in GetCapabilities
                           /\ Validate(configuration)
                        THEN "envs" ELSE "answered"]

\* The ObjectStores one of which the invocation is about to get.
nextKeys ==
    CASE hook.pc = "envs" -> {Head(hook.todo)}
      [] hook.pc = "certificates" -> hook.keys
      [] hook.pc \in {"resources", "args"} -> collectSidecarResources
      [] OTHER -> {}

hookOnly == UNCHANGED <<request, stores, edits, object, recorded, built>>

\* Mutant: an ObjectStore that is not found sets no variable.
Mut_NotFoundIgnored ==
    /\ hook.pc = "envs"
    /\ hook' = [hook EXCEPT
                    !.config.env = Append(@, Read(Head(hook.todo))),
                    !.todo = Tail(@),
                    !.pc = IF Len(hook.todo) = 1 THEN "certificates" ELSE @]
    /\ hookOnly

collectAdditionalEnvs ==
    /\ hook.pc = "envs" /\ stores[Head(hook.todo)] # NoStore
    /\ hook' = [hook EXCEPT
                    !.config.env = Append(@, Read(Head(hook.todo))),
                    !.todo = Tail(@),
                    !.pc = IF Len(hook.todo) = 1 THEN "certificates" ELSE @]
    /\ hookOnly

collectAdditionalCertificates ==
    /\ hook.pc = "certificates"
    /\ \E s \in hook.keys :
          /\ stores[s] # NoStore
          /\ hook' = [hook EXCEPT
                          !.config.certificates =
                              IF stores[s].ca THEN @ \cup {Read(s)} ELSE @,
                          !.keys = @ \ {s},
                          !.pc = IF hook.keys = {s} THEN "resources" ELSE @]
    /\ hookOnly

\* Only the sidecar of an instance gets additional arguments.
collectResources ==
    /\ hook.pc = "resources"
    /\ \A s \in collectSidecarResources : stores[s] # NoStore
    /\ hook' = [hook EXCEPT
                    !.config.resources = {Read(s) : s \in collectSidecarResources},
                    !.pc = IF request.kind = "Pod" THEN "args" ELSE "inject"]
    /\ hookOnly

collectAdditionalInstanceArgs ==
    /\ hook.pc = "args"
    /\ \A s \in collectSidecarResources : stores[s] # NoStore
    /\ hook' = [hook EXCEPT
                    !.config.additionalArgs = {Read(s) : s \in collectSidecarResources},
                    !.pc = "inject"]
    /\ hookOnly

\* The ObjectStore does not exist or the API server does not answer.
GetFails ==
    /\ nextKeys # {}
    /\ hook' = HookIdle
    /\ hookOnly

MainContainerFound == request.role \in DOMAIN hook.spec.containers

HookAnswers ==
    /\ hook.pc = "inject"
    /\ NeedsSidecar => MainContainerFound
    /\ hook' = [hook EXCEPT !.pc = "answered", !.spec = Injected(@, hook.config)]
    /\ hookOnly

MainContainerNotFound ==
    /\ hook.pc = "inject"
    /\ NeedsSidecar /\ ~MainContainerFound
    /\ hook' = HookIdle
    /\ hookOnly

Hook ==
    \/ collectAdditionalEnvs \/ collectAdditionalCertificates
    \/ collectResources \/ collectAdditionalInstanceArgs
    \/ GetFails \/ HookAnswers \/ MainContainerNotFound

-----------------------------------------------------------------------------
(* The operator and the users (external) *)

\* What a Pod should be is evaluated again and again, from the operator's own
\* definition of it.
EvaluatePod ==
    /\ request.kind = "Pod" /\ hook.pc = "idle"
    /\ LifecycleHook("EVALUATE", request.spec)
    /\ UNCHANGED <<request, stores, edits, object, recorded, built>>

\* A Pod that is missing is created from the evaluated definition, which is kept.
CreatePod ==
    /\ hook.pc = "answered" /\ hook.operation = "EVALUATE" /\ object = NoSpec
    /\ recorded' = hook.spec
    /\ LifecycleHook("CREATE", hook.spec)
    /\ UNCHANGED <<request, stores, edits, object, built>>

\* One that is there is deleted when today's definition differs from the kept one.
CheckPod ==
    /\ hook.pc = "answered" /\ hook.operation = "EVALUATE" /\ object # NoSpec
    /\ object' = IF hook.spec = recorded THEN object ELSE NoSpec
    /\ hook' = HookIdle
    /\ UNCHANGED <<request, stores, edits, recorded, built>>

CreateJob ==
    /\ request.kind = "Job" /\ hook.pc = "idle" /\ object = NoSpec
    /\ LifecycleHook("CREATE", request.spec)
    /\ UNCHANGED <<request, stores, edits, object, recorded, built>>

Created ==
    /\ hook.pc = "answered" /\ hook.operation = "CREATE"
    /\ object' = hook.spec
    /\ built' = hook.config
    /\ hook' = HookIdle
    /\ UNCHANGED <<request, stores, edits, recorded>>

EditStore ==
    /\ edits < MaxEdits /\ edits' = edits + 1
    /\ \E s \in StoreNames :
          stores' \in {[stores EXCEPT ![s] = new] :
                          new \in {NoStore} \cup [version : {edits + 2}, ca : BOOLEAN]}
    /\ UNCHANGED <<request, hook, object, recorded, built>>

Operator == EvaluatePod \/ CreatePod \/ CheckPod \/ CreateJob \/ Created

Next == Hook \/ Operator \/ EditStore

Spec == Init /\ [][Next]_vars

\* The API server fails to answer for an ObjectStore that exists.
Fault == GetFails /\ \A s \in nextKeys : stores[s] # NoStore

\* The operator reconciles again and again, and the API server works one day.
FairSpec == Spec /\ WF_vars(Hook \/ Operator) /\ <>[][~Fault]_vars

-----------------------------------------------------------------------------
(* Properties *)

\* Every variable has its type; what is collected for a sidecar was read from
\* ObjectStores that existed.
TypeOK ==
    /\ request \in Requests
    /\ stores \in [StoreNames -> Store]
    /\ edits \in 0 .. MaxEdits
    /\ hook.pc \in {"idle", "envs", "certificates", "resources", "args", "inject", "answered"}
    /\ \A config \in {hook.config, built} :
          \A o \in ToSet(config.env) \cup config.certificates \cup config.resources
                       \cup config.additionalArgs :
              o.from \in StoreNames /\ o.version \in 1 .. edits + 1

\* A Pod that went through the hook twice, with ObjectStores edited in between or
\* not, is what one pass over the operator's own definition gives: nothing of the
\* first pass is left in it and nothing is injected twice.
BuiltOnce == object # NoSpec => object = Injected(request.spec, built)

Sidecars == {i \in DOMAIN object.initContainers : object.initContainers[i].name = SidecarName}

\* The volume behind a path of a container, {} if there is none.
VolumeAt(mounts, path) == {mounts[i].name : i \in {j \in DOMAIN mounts : mounts[j].path = path}}

\* The spool, the sockets and the data directory of the sidecar are the ones of
\* PostgreSQL's container, and no ObjectStore redirects the data directory, even
\* though mounts are merged by the name of the volume and the operator mounts
\* one volume twice.
SharedPaths ==
    \A i \in Sidecars :
        LET sidecar == object.initContainers[i]
            main == object.containers[request.role]
        IN  /\ \A p \in {"/pgdata", "/controller", "/plugins"} :
                  /\ VolumeAt(main.mounts, p) # {}
                  /\ VolumeAt(sidecar.mounts, p) = VolumeAt(main.mounts, p)
            /\ sidecar.env["PGDATA"] = main.env["PGDATA"]
            /\ sidecar.env["SPOOL_DIRECTORY"].from \notin StoreNames

\* Where the WAL service, backups and restores look for the certificate of a store.
BuildCertificateFilePath(s) == <<BarmanCertificatesPath, s>>

\* The certificates a container finds: their path and where they come from.
CertificateFiles(mounts) ==
    UNION {{[path |-> <<mounts[i].path, o.from>>, origin |-> o] :
               o \in object.volumes[mounts[i].name]} : i \in DOMAIN mounts}

\* The Pod is what the ObjectStores ask for now: the current certificate of each
\* one that the instance uses is at the path where it is looked for, none of a store
\* without certificate is (a missing secret keeps a Pod from starting), and the
\* resources and the additional arguments come from the store of the cluster's own
\* archive if it has one.
UpToDate ==
    /\ NeedsSidecar => Sidecars # {}
    /\ \A i \in Sidecars :
          LET sidecar == object.initContainers[i]
          IN  /\ CertificateFiles(sidecar.mounts) =
                     {[path |-> BuildCertificateFilePath(s), origin |-> Read(s)] :
                         s \in {s \in GetReferredBarmanObjectsKey : stores[s].ca}}
              /\ configuration.archive.store # "" =>
                     /\ sidecar.resources = {Read(configuration.archive.store)}
                     /\ sidecar.args = {Read(configuration.archive.store)}
              /\ \A v \in DOMAIN sidecar.env :
                     sidecar.env[v].from \in StoreNames =>
                         sidecar.env[v] = Read(sidecar.env[v].from)

\* Once the ObjectStores of a Cluster exist and nobody edits them any more, its Pod
\* is brought up to date, whatever mix of old and new was read before, and is then
\* left alone: no rollout goes on for ever.
PodConverges ==
    <>[](\A s \in GetReferredBarmanObjectsKey : stores[s] # NoStore)
        => <>[](request.kind = "Pod" => object # NoSpec /\ UpToDate)

=============================================================================
