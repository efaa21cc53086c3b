-------------------------- MODULE LifecycleProofs --------------------------
(***************************************************************************)
(* Proofs about the lifecycle hook, for any Clusters, objects, ObjectStores *)
(* and edits.                                                              *)
(***************************************************************************)
EXTENDS Lifecycle, OrderFacts, SequenceTheorems, TLAPS

(* What the hook makes of a definition, field by field *)

PluginVolumes(spec, config) ==
    [n \in (DOMAIN spec.volumes \ {barmanCertificatesVolumeName}) \cup {"plugins"}
             \cup {x \in {barmanCertificatesVolumeName} : config.certificates # {}} |->
        IF n = barmanCertificatesVolumeName THEN config.certificates
        ELSE IF n \in DOMAIN spec.volumes THEN spec.volumes[n] ELSE {}]

PluginContainers(spec, main) ==
    IF "plugins" \in DOMAIN spec.volumes THEN spec.containers
    ELSE [c \in DOMAIN spec.containers |->
             [env |-> spec.containers[c].env,
              mounts |-> IF c = main
                         THEN ensureVolumeMount(spec.containers[c].mounts, <<PluginMount>>)
                         ELSE spec.containers[c].mounts]]

Sidecar(spec, main, config) ==
    [name |-> SidecarName,
     env |-> sidecarEnv(spec.containers[main].env, config.env),
     resources |-> config.resources,
     args |-> config.additionalArgs,
     mounts |-> ensureVolumeMount(
                    IF config.certificates # {} THEN <<CertificatesMount>> ELSE <<>>,
                    PluginContainers(spec, main)[main].mounts)]

\* reconcilePodSpec replaces the three fields by these.
LEMMA ReconciledFields ==
    ASSUME NEW spec, IsSpec(spec), NEW main \in DOMAIN spec.containers, NEW config
    PROVE  reconcilePodSpec(spec, main, config) =
             [containers |-> PluginContainers(spec, main),
              initContainers |-> putSidecar(spec.initContainers, Sidecar(spec, main, config)),
              volumes |-> PluginVolumes(spec, config)]
<1> DEFINE certified == config.certificates # {}
           volumes == IF certified
                      THEN ensureVolume(spec.volumes, barmanCertificatesVolumeName,
                                        config.certificates)
                      ELSE removeVolume(spec.volumes, barmanCertificatesVolumeName)
           mounts == IF certified THEN <<CertificatesMount>> ELSE <<>>
           sidecar == [name |-> SidecarName,
                       env |-> sidecarEnv(spec.containers[main].env, config.env),
                       resources |-> config.resources,
                       args |-> config.additionalArgs,
                       mounts |-> mounts]
           given == [spec EXCEPT !.volumes = volumes]
           plugged == InjectPluginVolumePodSpec(given, main)
<1>1. given = [containers |-> spec.containers, initContainers |-> spec.initContainers,
               volumes |-> volumes]
  BY DEF IsSpec
<1>2. "plugins" # barmanCertificatesVolumeName
  BY DEF barmanCertificatesVolumeName
<1>3. "plugins" \in DOMAIN volumes <=> "plugins" \in DOMAIN spec.volumes
  BY <1>2 DEF ensureVolume, removeVolume
<1>4. plugged.initContainers = spec.initContainers
      /\ plugged.containers = PluginContainers(spec, main)
      /\ plugged = [containers |-> plugged.containers,
                    initContainers |-> plugged.initContainers,
                    volumes |-> plugged.volumes]
      /\ plugged.volumes = PluginVolumes(spec, config)
  <2> HIDE DEF volumes
  <2>1. CASE "plugins" \in DOMAIN spec.volumes
    <3>1. plugged = given
      BY <1>1, <1>3, <2>1 DEF InjectPluginVolumePodSpec
    <3>2. volumes = PluginVolumes(spec, config)
      BY <1>2, <2>1 DEF volumes, ensureVolume, removeVolume, PluginVolumes, IsSpec
    <3> QED
      BY <1>1, <2>1, <3>1, <3>2 DEF PluginContainers
  <2>2. CASE "plugins" \notin DOMAIN spec.volumes
    <3>1. plugged = [given EXCEPT
              !.volumes = ensureVolume(@, "plugins", {}),
              !.containers[main].mounts = ensureVolumeMount(@, <<PluginMount>>)]
      BY <1>1, <1>3, <2>2 DEF InjectPluginVolumePodSpec
    <3>2. plugged = [containers |-> [spec.containers EXCEPT ![main].mounts =
                                        ensureVolumeMount(@, <<PluginMount>>)],
                     initContainers |-> spec.initContainers,
                     volumes |-> ensureVolume(volumes, "plugins", {})]
      BY <1>1, <3>1
    <3>3. ensureVolume(volumes, "plugins", {}) = PluginVolumes(spec, config)
      BY <1>2, <1>3, <2>2 DEF volumes, ensureVolume, removeVolume, PluginVolumes, IsSpec
    <3>4. [spec.containers EXCEPT ![main].mounts = ensureVolumeMount(@, <<PluginMount>>)]
             = PluginContainers(spec, main)
      BY <2>2 DEF PluginContainers, IsSpec
    <3> QED
      BY <3>2, <3>3, <3>4
  <2> QED
    BY <2>1, <2>2
<1>5. reconcilePodSpec(spec, main, config) =
        [plugged EXCEPT
            !.initContainers = putSidecar(@, [sidecar EXCEPT !.mounts =
                ensureVolumeMount(sidecar.mounts, plugged.containers[main].mounts)])]
  BY DEF reconcilePodSpec, injectPluginSidecarPodSpec
<1>6. [sidecar EXCEPT !.mounts =
          ensureVolumeMount(sidecar.mounts, plugged.containers[main].mounts)]
        = Sidecar(spec, main, config)
  <2> DEFINE joined == ensureVolumeMount(mounts, PluginContainers(spec, main)[main].mounts)
  <2>1. ensureVolumeMount(sidecar.mounts, plugged.containers[main].mounts) = joined
    <3> HIDE DEF plugged, mounts
    <3> QED
      BY <1>4
  <2>2. [sidecar EXCEPT !.mounts = joined] =
          [name |-> SidecarName,
           env |-> sidecarEnv(spec.containers[main].env, config.env),
           resources |-> config.resources,
           args |-> config.additionalArgs,
           mounts |-> joined]
    <3> HIDE DEF joined, mounts
    <3> QED
      OBVIOUS
  <2>3. Sidecar(spec, main, config) =
          [name |-> SidecarName,
           env |-> sidecarEnv(spec.containers[main].env, config.env),
           resources |-> config.resources,
           args |-> config.additionalArgs,
           mounts |-> joined]
    BY Zenon DEF Sidecar
  <2> HIDE DEF joined, sidecar, plugged
  <2> QED
    BY <2>1, <2>2, <2>3
<1> HIDE DEF plugged, sidecar
<1> QED
  BY <1>4, <1>5, <1>6

\* A sidecar put over a sidecar replaces it.
LEMMA SidecarReplaced ==
    ASSUME NEW S, NEW q \in Seq(S), NEW a, NEW b, a.name = SidecarName, b.name = SidecarName
    PROVE  /\ putSidecar(putSidecar(q, a), b) = putSidecar(q, b)
           /\ \E T : putSidecar(q, a) \in Seq(T)
<1> DEFINE T == S \cup {a, b}
<1>1. q \in Seq(T)
  OBVIOUS
<1>2. CASE \E i \in DOMAIN q : q[i].name = SidecarName
  <2>1. putSidecar(q, a) = [i \in DOMAIN q |-> IF q[i].name = SidecarName THEN a ELSE q[i]]
    BY <1>2 DEF putSidecar
  <2>2. putSidecar(q, a) \in Seq(T)
    BY <1>1, <2>1
  <2>3. putSidecar(putSidecar(q, a), b) =
          [i \in DOMAIN q |-> IF putSidecar(q, a)[i].name = SidecarName THEN b
                              ELSE putSidecar(q, a)[i]]
    BY <1>2, <2>1 DEF putSidecar
  <2>4. putSidecar(q, b) = [i \in DOMAIN q |-> IF q[i].name = SidecarName THEN b ELSE q[i]]
    BY <1>2 DEF putSidecar
  <2>5. \A i \in DOMAIN q :
          (IF putSidecar(q, a)[i].name = SidecarName THEN b ELSE putSidecar(q, a)[i])
            = (IF q[i].name = SidecarName THEN b ELSE q[i])
    BY <2>1
  <2> QED
    BY <2>2, <2>3, <2>4, <2>5
<1>3. CASE ~ \E i \in DOMAIN q : q[i].name = SidecarName
  <2>1. putSidecar(q, a) = Append(q, a) /\ putSidecar(q, b) = Append(q, b)
    BY <1>3 DEF putSidecar
  <2>2. Append(q, a) \in Seq(T) /\ Append(q, b) \in Seq(T)
    BY <1>1
  <2>3. /\ DOMAIN Append(q, a) = 1 .. Len(q) + 1 /\ DOMAIN Append(q, b) = 1 .. Len(q) + 1
        /\ DOMAIN q = 1 .. Len(q) /\ Len(q) \in Nat
        /\ \A i \in 1 .. Len(q) : Append(q, a)[i] = q[i] /\ Append(q, b)[i] = q[i]
        /\ Append(q, a)[Len(q) + 1] = a /\ Append(q, b)[Len(q) + 1] = b
    BY <1>1
  <2>4. putSidecar(Append(q, a), b) =
          [i \in 1 .. Len(q) + 1 |->
              IF Append(q, a)[i].name = SidecarName THEN b ELSE Append(q, a)[i]]
    <3>1. Append(q, a)[Len(q) + 1].name = SidecarName /\ Len(q) + 1 \in DOMAIN Append(q, a)
      BY <2>3
    <3> QED
      BY <2>3, <3>1 DEF putSidecar
  <2>5. \A i \in 1 .. Len(q) + 1 :
          (IF Append(q, a)[i].name = SidecarName THEN b ELSE Append(q, a)[i]) = Append(q, b)[i]
    <3> SUFFICES ASSUME NEW i \in 1 .. Len(q) + 1
                 PROVE  (IF Append(q, a)[i].name = SidecarName THEN b ELSE Append(q, a)[i])
                            = Append(q, b)[i]
      OBVIOUS
    <3>1. CASE i = Len(q) + 1
      BY <2>3, <3>1
    <3>2. CASE i \in 1 .. Len(q)
      BY <1>3, <2>3, <3>2
    <3> QED
      BY <2>3, <3>1, <3>2
  <2>6. Append(q, b) = [i \in 1 .. Len(q) + 1 |-> Append(q, b)[i]]
    <3>1. Append(q, b) \in [1 .. Len(q) + 1 -> T]
      BY <2>2, <2>3, LenProperties
    <3> QED
      BY <3>1
  <2> QED
    BY <2>1, <2>2, <2>4, <2>5, <2>6
<1> QED
  BY <1>2, <1>3

\* A sequence is one of its own elements.
LEMMA SeqOfElements ==
    ASSUME NEW T, NEW q \in Seq(T)
    PROVE  q \in Seq(ToSet(q))
<1>1. Len(q) \in Nat /\ DOMAIN q = 1 .. Len(q) /\ q \in [1 .. Len(q) -> T]
  BY LenProperties
<1>2. q \in [1 .. Len(q) -> ToSet(q)]
  BY <1>1 DEF ToSet
<1> QED
  BY <1>1, <1>2

\* reconcilePodSpec gives a definition with the containers it was given.
LEMMA ReconciledIsSpec ==
    ASSUME NEW spec, IsSpec(spec), NEW main \in DOMAIN spec.containers, NEW config
    PROVE  /\ IsSpec(reconcilePodSpec(spec, main, config))
           /\ DOMAIN reconcilePodSpec(spec, main, config).containers = DOMAIN spec.containers
<1> DEFINE t == reconcilePodSpec(spec, main, config)
           init == putSidecar(spec.initContainers, Sidecar(spec, main, config))
<1>1. t = [containers |-> PluginContainers(spec, main), initContainers |-> init,
           volumes |-> PluginVolumes(spec, config)]
  BY ReconciledFields
<1>2. PluginContainers(spec, main) =
        [c \in DOMAIN spec.containers |->
            [env |-> PluginContainers(spec, main)[c].env,
             mounts |-> PluginContainers(spec, main)[c].mounts]]
  BY DEF PluginContainers, IsSpec
<1>3. init \in Seq(ToSet(init))
  <2>1. PICK T : init \in Seq(T)
    <3>1. Sidecar(spec, main, config).name = SidecarName
      BY DEF Sidecar
    <3>2. spec.initContainers \in Seq(ToSet(spec.initContainers))
      BY DEF IsSpec
    <3> QED
      BY <3>1, <3>2, SidecarReplaced
  <2> QED
    BY <2>1, SeqOfElements
<1>4. PluginVolumes(spec, config) =
        [v \in DOMAIN PluginVolumes(spec, config) |-> PluginVolumes(spec, config)[v]]
  BY DEF PluginVolumes
<1> HIDE DEF t, init
<1>5. DOMAIN PluginContainers(spec, main) = DOMAIN spec.containers
  BY <1>2
<1>6. IsSpec(t)
  BY <1>1, <1>2, <1>3, <1>4, <1>5 DEF IsSpec
<1> QED
  BY <1>1, <1>5, <1>6 DEF t

\* Injecting over an injected definition is injecting into the first one: whatever a
\* pass of reconcilePodSpec did is replaced by the next one.
LEMMA InjectionAbsorbs ==
    ASSUME NEW spec, IsSpec(spec), NEW main \in DOMAIN spec.containers, NEW c1, NEW c2
    PROVE  reconcilePodSpec(reconcilePodSpec(spec, main, c1), main, c2)
             = reconcilePodSpec(spec, main, c2)
<1> DEFINE t == reconcilePodSpec(spec, main, c1)
<1>1. t = [containers |-> PluginContainers(spec, main),
           initContainers |-> putSidecar(spec.initContainers, Sidecar(spec, main, c1)),
           volumes |-> PluginVolumes(spec, c1)]
  BY ReconciledFields
<1>2. IsSpec(t) /\ main \in DOMAIN t.containers
  BY ReconciledIsSpec
<1> HIDE DEF t
<1>3. reconcilePodSpec(t, main, c2) =
        [containers |-> PluginContainers(t, main),
         initContainers |-> putSidecar(t.initContainers, Sidecar(t, main, c2)),
         volumes |-> PluginVolumes(t, c2)]
  BY <1>2, ReconciledFields
<1>4. PluginContainers(t, main) = PluginContainers(spec, main)
  <2>1. "plugins" \in DOMAIN t.volumes
    BY <1>1 DEF PluginVolumes
  <2> QED
    BY <1>1, <2>1 DEF PluginContainers
<1>5. PluginVolumes(t, c2) = PluginVolumes(spec, c2)
  BY <1>1 DEF PluginVolumes, barmanCertificatesVolumeName
<1>6. Sidecar(t, main, c2) = Sidecar(spec, main, c2)
  <2>1. t.containers[main].env = spec.containers[main].env
    BY <1>1 DEF PluginContainers, IsSpec
  <2> QED
    BY <1>4, <2>1, Zenon DEF Sidecar
<1>7. putSidecar(t.initContainers, Sidecar(spec, main, c2))
        = putSidecar(spec.initContainers, Sidecar(spec, main, c2))
  <2>1. Sidecar(spec, main, c1).name = SidecarName /\ Sidecar(spec, main, c2).name = SidecarName
    BY DEF Sidecar
  <2>2. spec.initContainers \in Seq(ToSet(spec.initContainers))
    BY DEF IsSpec
  <2> QED
    BY <1>1, <2>1, <2>2, SidecarReplaced
<1>8. reconcilePodSpec(spec, main, c2) =
        [containers |-> PluginContainers(spec, main),
         initContainers |-> putSidecar(spec.initContainers, Sidecar(spec, main, c2)),
         volumes |-> PluginVolumes(spec, c2)]
  BY ReconciledFields
<1> QED
  BY <1>3, <1>4, <1>5, <1>6, <1>7, <1>8 DEF t

-----------------------------------------------------------------------------
(* The two passes of a Pod *)

\* Injected, with the request as a parameter.
Needed(r) ==
    /\ Validate(NewFromCluster(r.cluster))
    /\ IF r.kind = "Pod"
       THEN \/ NewFromCluster(r.cluster).archive.store # ""
            \/ NewFromCluster(r.cluster).replicaSource.store # ""
       ELSE /\ getRecoverySourcePlugin(r.cluster).name = PluginName
            /\ r.role \in {"full-recovery", "snapshot-recovery"}

InjectedFor(r, spec, config) ==
    IF Needed(r) THEN reconcilePodSpec(spec, r.role, config) ELSE spec

\* Injected is InjectedFor the request of the behaviour.
LEMMA InjectedForRequest ==
    ASSUME NEW spec, NEW config
    PROVE  /\ Injected(spec, config) = InjectedFor(request, spec, config)
           /\ Validate(configuration) /\ NeedsSidecar <=> Needed(request)
<1>1. Validate(configuration) /\ NeedsSidecar <=> Needed(request)
  BY DEF NeedsSidecar, configuration, Needed
<1> QED
  BY <1>1 DEF Injected, InjectedFor

\* The main container is there if it is needed.
Found(r) == Needed(r) => r.role \in DOMAIN r.spec.containers

\* A definition that has been through the hook.
Passed(r, spec) == Found(r) /\ \E c : spec = InjectedFor(r, r.spec, c)

\* One more pass over a definition gives what one pass over the first one gives.
LEMMA SecondPass ==
    ASSUME NEW r \in Requests, NEW spec, NEW config,
           Found(r), spec = r.spec \/ Passed(r, spec)
    PROVE  InjectedFor(r, spec, config) = InjectedFor(r, r.spec, config)
<1>1. CASE spec = r.spec
  BY <1>1
<1>2. CASE Passed(r, spec)
  <2>1. PICK c : spec = InjectedFor(r, r.spec, c)
    BY <1>2 DEF Passed
  <2>2. CASE ~Needed(r)
    BY <2>1, <2>2 DEF InjectedFor
  <2>3. CASE Needed(r)
    <3>1. IsSpec(r.spec) /\ r.role \in DOMAIN r.spec.containers
      BY <2>3, ConstantsAssumption DEF Found
    <3>2. spec = reconcilePodSpec(r.spec, r.role, c)
      BY <2>1, <2>3 DEF InjectedFor
    <3> QED
      BY <2>3, <3>1, <3>2, InjectionAbsorbs DEF InjectedFor
  <2> QED
    BY <2>2, <2>3
<1> QED
  BY <1>1, <1>2

\* The inductive invariant: what an invocation works on is the definition of the
\* operator or one that has been through the hook, and what it answers is that first
\* definition with what this invocation has collected.
BuildInv ==
    /\ request \in Requests
    /\ object # NoSpec => object = InjectedFor(request, request.spec, built)
    /\ DOMAIN hook = {"pc", "operation", "spec", "todo", "keys", "config"}
    /\ hook.operation = "EVALUATE" => request.kind = "Pod"
    /\ hook.pc \notin {"idle", "answered"} =>
          hook.spec = request.spec \/ Passed(request, hook.spec)
    /\ hook.pc = "answered" =>
          /\ hook.spec = InjectedFor(request, request.spec, hook.config)
          /\ Found(request)

\* An invocation that ends with an error or has not begun promises nothing.
LEMMA IdleBuildInv ==
    ASSUME BuildInv, hook' = HookIdle, UNCHANGED <<request, object, built>>
    PROVE  BuildInv'
  BY DEF BuildInv, HookIdle

\* LifecycleHook: an invocation begins on a definition of the operator, or on one that
\* has been through the hook; it is over at once only for a Cluster that is not valid.
LEMMA BeginBuildInv ==
    ASSUME BuildInv, UNCHANGED <<request, object, built>>,
           NEW operation, NEW spec, LifecycleHook(operation, spec),
           operation = "EVALUATE" => request.kind = "Pod",
           <<request.kind, operation>> \in GetCapabilities,
           spec = request.spec \/ Passed(request, spec)
    PROVE  BuildInv'
<1> DEFINE started == Validate(configuration)
<1>1. /\ DOMAIN hook' = {"pc", "operation", "spec", "todo", "keys", "config"}
      /\ hook'.operation = operation /\ hook'.spec = spec /\ hook'.config = NoConfig
      /\ hook'.pc = IF started THEN "envs" ELSE "answered"
  BY DEF LifecycleHook, HookIdle
<1>2. CASE started
  BY <1>1, <1>2 DEF BuildInv
<1>3. CASE ~started
  <2>1. ~Needed(request)
    BY <1>3 DEF Needed, configuration
  <2>2. spec = request.spec /\ Found(request)
    BY <2>1 DEF Passed, InjectedFor, Found
  <2>3. spec = InjectedFor(request, request.spec, NoConfig)
    BY <2>1, <2>2 DEF InjectedFor
  <2> QED
    BY <1>1, <1>3, <2>2, <2>3 DEF BuildInv
<1> QED
  BY <1>2, <1>3

\* The Gets of an invocation leave its definition as it is, and the injection turns it
\* into its answer.
LEMMA HookBuildInv == BuildInv /\ Hook => BuildInv'
<1> SUFFICES ASSUME BuildInv, Hook PROVE BuildInv'
  OBVIOUS
<1>1. UNCHANGED <<request, object, built>>
  BY DEF Hook, collectAdditionalEnvs, collectAdditionalCertificates, collectResources,
      collectAdditionalInstanceArgs, GetFails, HookAnswers, MainContainerNotFound, hookOnly
<1>2. CASE collectAdditionalEnvs \/ collectAdditionalCertificates
             \/ collectResources \/ collectAdditionalInstanceArgs
  <2>1. CASE collectAdditionalEnvs
    BY <1>1, <2>1 DEF collectAdditionalEnvs, BuildInv
  <2>2. CASE collectAdditionalCertificates
    BY <1>1, <2>2 DEF collectAdditionalCertificates, BuildInv
  <2>3. CASE collectResources
    BY <1>1, <2>3 DEF collectResources, BuildInv
  <2>4. CASE collectAdditionalInstanceArgs
    BY <1>1, <2>4 DEF collectAdditionalInstanceArgs, BuildInv
  <2> QED
    BY <1>2, <2>1, <2>2, <2>3, <2>4
<1>3. CASE GetFails \/ MainContainerNotFound
  BY <1>1, <1>3, IdleBuildInv DEF GetFails, MainContainerNotFound
<1>4. CASE HookAnswers
  <2>1. /\ DOMAIN hook' = DOMAIN hook /\ hook'.pc = "answered"
        /\ hook'.operation = hook.operation /\ hook'.config = hook.config
        /\ hook'.spec = InjectedFor(request, hook.spec, hook.config)
    BY <1>4, InjectedForRequest DEF HookAnswers, BuildInv
  <2>2. hook.spec = request.spec \/ Passed(request, hook.spec)
    BY <1>4 DEF HookAnswers, BuildInv
  <2>3. Found(request)
    BY <1>4, <2>2, InjectedForRequest DEF HookAnswers, MainContainerFound, Found, Passed
  <2>4. hook'.spec = InjectedFor(request, request.spec, hook.config)
    BY <2>1, <2>2, <2>3, SecondPass DEF BuildInv
  <2> QED
    BY <1>1, <2>1, <2>3, <2>4 DEF BuildInv
<1> QED
  BY <1>2, <1>3, <1>4 DEF Hook

\* The operator creates a Pod from the answer to its evaluation, and keeps the answer
\* to the creation.
LEMMA OperatorBuildInv == BuildInv /\ (Operator \/ EditStore) => BuildInv'
<1> SUFFICES ASSUME BuildInv, Operator \/ EditStore PROVE BuildInv'
  OBVIOUS
<1>1. CASE EvaluatePod
  <2>1. <<request.kind, "EVALUATE">> \in GetCapabilities
    BY <1>1 DEF EvaluatePod, GetCapabilities
  <2> QED
    BY <1>1, <2>1, BeginBuildInv DEF EvaluatePod
<1>2. CASE CreateJob
  <2>1. <<request.kind, "CREATE">> \in GetCapabilities
    BY <1>2 DEF CreateJob, GetCapabilities
  <2> QED
    BY <1>2, <2>1, BeginBuildInv DEF CreateJob
<1>3. CASE CreatePod
  <2>1. <<request.kind, "CREATE">> \in GetCapabilities
    BY <1>3 DEF CreatePod, GetCapabilities, BuildInv
  <2>2. Passed(request, hook.spec)
    BY <1>3 DEF CreatePod, BuildInv, Passed
  <2> QED
    BY <1>3, <2>1, <2>2, BeginBuildInv DEF CreatePod
<1>4. CASE CheckPod
  BY <1>4 DEF CheckPod, BuildInv, HookIdle
<1>5. CASE Created
  BY <1>5 DEF Created, BuildInv, HookIdle
<1>6. CASE EditStore
  BY <1>6 DEF EditStore, BuildInv
<1> QED
  BY <1>1, <1>2, <1>3, <1>4, <1>5, <1>6 DEF Operator

\* A Pod or Job that went through the hook, once or twice, with ObjectStores edited in
\* between or not, is what one pass over the operator's own definition gives, for any
\* definition and any configuration of the sidecar.
THEOREM InjectionSafety == Spec => []BuiltOnce
<1>1. Init => BuildInv
  BY DEF Init, BuildInv, HookIdle
<1>2. BuildInv /\ [Next]_vars => BuildInv'
  <2>1. BuildInv /\ UNCHANGED vars => BuildInv'
    BY DEF BuildInv, vars
  <2> QED
    BY <2>1, HookBuildInv, OperatorBuildInv DEF Next
<1>3. BuildInv => BuiltOnce
  BY InjectedForRequest DEF BuildInv, BuiltOnce
<1> QED
  BY <1>1, <1>2, <1>3, PTL DEF Spec

-----------------------------------------------------------------------------
(* Type correctness: what is collected was read from ObjectStores *)

\* What may have been collected after e edits.
Origins(e) == [from : StoreNames, version : 1 .. e + 1]

Configs(e) ==
    [env : Seq(Origins(e)), certificates : SUBSET Origins(e), resources : SUBSET Origins(e),
     additionalArgs : SUBSET Origins(e)]

Steps == {"idle", "envs", "certificates", "resources", "args", "inject", "answered"}

\* An invocation goes on for a Cluster that refers to some ObjectStore, and has one left
\* to get until it has got all of them; a version of an ObjectStore is the number of the
\* edit that wrote it.
HookInv ==
    /\ request \in Requests
    /\ edits \in 0 .. MaxEdits
    /\ stores \in [StoreNames -> Store]
    /\ \A s \in StoreNames : stores[s] = NoStore \/ stores[s].version \in 1 .. edits + 1
    /\ DOMAIN hook = {"pc", "operation", "spec", "todo", "keys", "config"}
    /\ hook.pc \in Steps
    /\ hook.todo \in Seq(StoreNames) /\ hook.keys \subseteq StoreNames
    /\ hook.pc = "envs" => hook.todo # <<>>
    /\ hook.pc \in {"envs", "certificates", "resources", "args"} => Validate(configuration)
    /\ hook.config \in Configs(edits) /\ built \in Configs(edits)

\* The lengths of the empty list and of a list of one.
LEMMA ShortLists ==
    ASSUME NEW S
    PROVE  /\ <<>> \in Seq(S) /\ Len(<<>>) = 0
           /\ \A s \in Seq(S) : s # <<>> <=> Len(s) # 0
           /\ \A x \in S : <<x>> \in Seq(S) /\ Len(<<x>>) = 1
<1>1. <<>> \in Seq(S) /\ Len(<<>>) = 0
  BY EmptySeq
<1>2. ASSUME NEW s \in Seq(S) PROVE s # <<>> <=> Len(s) # 0
  BY EmptySeq
<1>3. ASSUME NEW x \in S PROVE <<x>> \in Seq(S) /\ Len(<<x>>) = 1
  <2>1. <<x>> \in Seq(S)
    OBVIOUS
  <2>2. Len(<<x>>) = 1
    OBVIOUS
  <2> QED
    BY <2>1, <2>2
<1> QED
  BY <1>1, <1>2, <1>3

\* A name in use is a list of one.
LEMMA InUseType ==
    ASSUME NEW x \in StoreNames \cup {""}
    PROVE  inUse(x) \in Seq(StoreNames) /\ Len(inUse(x)) = IF x = "" THEN 0 ELSE 1
<1>1. CASE x = ""
  <2>1. inUse(x) = <<>>
    BY <1>1 DEF inUse
  <2> QED
    BY <1>1, <2>1, ShortLists
<1>2. CASE x # ""
  <2>1. inUse(x) = <<x>> /\ x \in StoreNames
    BY <1>2 DEF inUse
  <2> QED
    BY <1>2, <2>1, ShortLists
<1> QED
  BY <1>1, <1>2

\* A Cluster refers to ObjectStores, and to one at least if its configuration is valid.
LEMMA StoreListType ==
    ASSUME request \in Requests
    PROVE  /\ storeList \in Seq(StoreNames)
           /\ Validate(configuration) => storeList # <<>>
           /\ configuration.recovery.store \in StoreNames \cup {""}
<1> DEFINE a == configuration.archive.store
           b == configuration.recovery.store
           c == configuration.replicaSource.store
<1>1. {a, b, c} \subseteq StoreNames \cup {""}
  BY ReferencesAssumption DEF configuration
<1>2. Validate(configuration) => a # "" \/ b # "" \/ c # ""
  BY DEF Validate
<1>3. storeList = inUse(a) \o inUse(b) \o inUse(c)
  BY DEF storeList
<1> HIDE DEF a, b, c
<1>4. /\ inUse(a) \in Seq(StoreNames) /\ inUse(b) \in Seq(StoreNames)
      /\ inUse(c) \in Seq(StoreNames)
      /\ Len(inUse(a)) = IF a = "" THEN 0 ELSE 1
      /\ Len(inUse(b)) = IF b = "" THEN 0 ELSE 1
      /\ Len(inUse(c)) = IF c = "" THEN 0 ELSE 1
  BY <1>1, InUseType
<1> DEFINE ab == inUse(a) \o inUse(b)
<1>5. /\ storeList \in Seq(StoreNames)
      /\ Len(storeList) = Len(inUse(a)) + Len(inUse(b)) + Len(inUse(c))
  <2>1. ab \in Seq(StoreNames) /\ Len(ab) = Len(inUse(a)) + Len(inUse(b))
    BY <1>4, ConcatProperties
  <2>2. storeList = ab \o inUse(c)
    BY <1>3
  <2>3. /\ ab \o inUse(c) \in Seq(StoreNames)
        /\ Len(ab \o inUse(c)) = Len(ab) + Len(inUse(c))
    <3> HIDE DEF ab
    <3> QED
      BY <1>4, <2>1, ConcatProperties
  <2> QED
    BY <2>1, <2>2, <2>3
<1>6. Validate(configuration) => Len(storeList) # 0
  <2> DEFINE k == Len(inUse(a))
             l == Len(inUse(b))
             m == Len(inUse(c))
  <2>1. k \in {0, 1} /\ l \in {0, 1} /\ m \in {0, 1}
    BY <1>4
  <2>2. Validate(configuration) => k = 1 \/ l = 1 \/ m = 1
    BY <1>2, <1>4
  <2>3. Len(storeList) = k + l + m
    BY <1>5
  <2> HIDE DEF k, l, m
  <2>4. Validate(configuration) => k + l + m # 0
    BY <2>1, <2>2
  <2> QED
    BY <2>3, <2>4
<1>7. Validate(configuration) => storeList # <<>>
  BY <1>5, <1>6, ShortLists
<1>8. b \in StoreNames \cup {""}
  BY <1>1
<1> QED
  BY <1>5, <1>7, <1>8 DEF b

\* The resources and the arguments come from a store the Cluster refers to.
LEMMA ResourcesType ==
    ASSUME request \in Requests, Validate(configuration)
    PROVE  collectSidecarResources \subseteq StoreNames
<1>1. storeList \in Seq(StoreNames) /\ storeList # <<>>
  BY StoreListType
<1>2. Head(storeList) \in StoreNames
  BY <1>1
<1> QED
  BY <1>2, StoreListType DEF collectSidecarResources

\* An ObjectStore that exists is read as what it is.
LEMMA ReadType ==
    ASSUME HookInv, NEW s \in StoreNames, stores[s] # NoStore
    PROVE  Read(s) \in Origins(edits)
  BY DEF HookInv, Read, Origins

LEMMA NothingCollected == \A e \in Nat : NoConfig \in Configs(e)
  BY DEF NoConfig, Configs

\* What has been collected stays of its type as edits go on.
LEMMA ConfigsGrow ==
    ASSUME NEW e \in Nat, NEW f \in Nat, e <= f
    PROVE  Configs(e) \subseteq Configs(f)
<1>1. Origins(e) \subseteq Origins(f)
  BY DEF Origins
<1>2. Seq(Origins(e)) \subseteq Seq(Origins(f))
  BY <1>1
<1> QED
  BY <1>1, <1>2 DEF Configs

\* A new value of one of the parts of what is collected.
LEMMA ConfigUpdated ==
    ASSUME NEW e \in Nat, NEW c \in Configs(e)
    PROVE  /\ \A x \in Seq(Origins(e)) : [c EXCEPT !.env = x] \in Configs(e)
           /\ \A x \in SUBSET Origins(e) :
                  /\ [c EXCEPT !.certificates = x] \in Configs(e)
                  /\ [c EXCEPT !.resources = x] \in Configs(e)
                  /\ [c EXCEPT !.additionalArgs = x] \in Configs(e)
  BY DEF Configs

\* The Gets of an invocation.
LEMMA CollectHookInv ==
    ASSUME HookInv,
           \/ collectAdditionalEnvs \/ collectAdditionalCertificates
           \/ collectResources \/ collectAdditionalInstanceArgs
    PROVE  HookInv'
<1>1. UNCHANGED <<request, stores, edits, built>>
  BY DEF collectAdditionalEnvs, collectAdditionalCertificates, collectResources,
         collectAdditionalInstanceArgs, hookOnly
<1>2. configuration' = configuration
  BY <1>1 DEF configuration
<1>3. edits \in Nat /\ hook.config \in Configs(edits)
  BY ConstantsAssumption DEF HookInv
<1>4. ASSUME collectAdditionalEnvs PROVE HookInv'
  <2>1. hook.todo \in Seq(StoreNames) /\ hook.todo # <<>> /\ hook.pc = "envs"
        /\ stores[Head(hook.todo)] # NoStore
    BY <1>4 DEF collectAdditionalEnvs, HookInv
  <2>2. /\ Head(hook.todo) \in StoreNames /\ Tail(hook.todo) \in Seq(StoreNames)
        /\ Len(hook.todo) # 1 => Tail(hook.todo) # <<>>
    <3>1. Len(hook.todo) \in Nat \ {0} /\ Len(Tail(hook.todo)) = Len(hook.todo) - 1
      BY <2>1, ShortLists, HeadTailProperties
    <3>2. Tail(hook.todo) \in Seq(StoreNames)
      BY <2>1, HeadTailProperties
    <3>3. Tail(hook.todo) # <<>> <=> Len(Tail(hook.todo)) # 0
      BY <3>2, ShortLists
    <3>4. Len(hook.todo) # 1 => Tail(hook.todo) # <<>>
      BY <3>1, <3>3
    <3> QED
      BY <2>1, <3>2, <3>4, HeadTailProperties
  <2>3. Read(Head(hook.todo)) \in Origins(edits)
    BY <2>1, <2>2, ReadType
  <2> DEFINE e == Append(hook.config.env, Read(Head(hook.todo)))
  <2>4. e \in Seq(Origins(edits))
    BY <1>1, <1>2, <1>3, <2>3 DEF Configs
  <2>5. hook'.config = [hook.config EXCEPT !.env = e]
    BY <1>4 DEF collectAdditionalEnvs, HookInv
  <2>6. /\ DOMAIN hook' = DOMAIN hook /\ hook'.keys = hook.keys
        /\ hook'.todo = Tail(hook.todo)
        /\ hook'.pc = IF Len(hook.todo) = 1 THEN "certificates" ELSE "envs"
    BY <1>4, <2>1 DEF collectAdditionalEnvs, HookInv
  <2> HIDE DEF e
  <2>7. hook'.config \in Configs(edits)
    BY <1>1, <1>2, <1>3, <2>4, <2>5, ConfigUpdated
  <2> QED
    BY <1>1, <1>2, <1>3, <2>1, <2>2, <2>6, <2>7 DEF HookInv, Steps
<1>5. ASSUME collectAdditionalCertificates PROVE HookInv'
  <2>1. PICK s \in hook.keys :
            /\ stores[s] # NoStore
            /\ hook' = [hook EXCEPT
                            !.config.certificates =
                                IF stores[s].ca THEN @ \cup {Read(s)} ELSE @,
                            !.keys = @ \ {s},
                            !.pc = IF hook.keys = {s} THEN "resources" ELSE @]
    BY <1>5 DEF collectAdditionalCertificates
  <2>2. Read(s) \in Origins(edits)
    BY <2>1, ReadType DEF HookInv
  <2> DEFINE e == IF stores[s].ca THEN hook.config.certificates \cup {Read(s)}
                  ELSE hook.config.certificates
  <2>3. e \in SUBSET Origins(edits)
    BY <1>1, <1>2, <1>3, <2>2 DEF Configs
  <2>4. hook'.config = [hook.config EXCEPT !.certificates = e]
    BY <2>1 DEF HookInv
  <2>5. /\ DOMAIN hook' = DOMAIN hook /\ hook'.keys = hook.keys \ {s}
        /\ hook'.todo = hook.todo /\ hook.pc = "certificates"
        /\ hook'.pc \in {"certificates", "resources"}
    BY <1>5, <2>1 DEF collectAdditionalCertificates, HookInv
  <2> HIDE DEF e
  <2>6. hook'.config \in Configs(edits)
    BY <1>1, <1>2, <1>3, <2>3, <2>4, ConfigUpdated
  <2> QED
    BY <1>1, <1>2, <1>3, <2>5, <2>6 DEF HookInv, Steps
<1>6. ASSUME collectResources \/ collectAdditionalInstanceArgs PROVE HookInv'
  <2> DEFINE e == {Read(s) : s \in collectSidecarResources}
  <2>1. e \in SUBSET Origins(edits)
    BY <1>6, ResourcesType, ReadType DEF collectResources, collectAdditionalInstanceArgs, HookInv
  <2>2. \/ hook'.config = [hook.config EXCEPT !.resources = e]
        \/ hook'.config = [hook.config EXCEPT !.additionalArgs = e]
    BY <1>6 DEF collectResources, collectAdditionalInstanceArgs, HookInv
  <2>3. /\ DOMAIN hook' = DOMAIN hook /\ hook'.keys = hook.keys /\ hook'.todo = hook.todo
        /\ hook.pc \in {"resources", "args"} /\ hook'.pc \in {"args", "inject"}
    BY <1>6 DEF collectResources, collectAdditionalInstanceArgs, HookInv
  <2> HIDE DEF e
  <2>4. hook'.config \in Configs(edits)
    BY <1>1, <1>2, <1>3, <2>1, <2>2, ConfigUpdated
  <2> QED
    BY <1>1, <1>2, <1>3, <2>3, <2>4 DEF HookInv, Steps
<1> QED
  BY <1>4, <1>5, <1>6

\* An invocation ends, or begins with nothing collected.
LEMMA BeginHookInv ==
    ASSUME HookInv, UNCHANGED <<request, stores, edits>>, built' \in Configs(edits),
           hook' = HookIdle \/ \E operation, spec : LifecycleHook(operation, spec)
    PROVE  HookInv'
<1>1. configuration' = configuration /\ edits \in Nat
  BY DEF configuration, HookInv
<1>2. NoConfig \in Configs(edits)
  BY <1>1, NothingCollected
<1>3. CASE hook' = HookIdle
  BY <1>1, <1>2, <1>3 DEF HookInv, HookIdle, Steps
<1>4. CASE \E operation, spec : LifecycleHook(operation, spec)
  <2>1. PICK operation, spec : LifecycleHook(operation, spec)
    BY <1>4
  <2>2. /\ DOMAIN hook' = {"pc", "operation", "spec", "todo", "keys", "config"}
        /\ hook'.todo = storeList /\ hook'.keys = ToSet(storeList) /\ hook'.config = NoConfig
        /\ \/ hook'.pc = "answered"
           \/ hook'.pc = "envs" /\ Validate(configuration)
    BY <2>1 DEF LifecycleHook, HookIdle, GetReferredBarmanObjectsKey
  <2>3. storeList \in Seq(StoreNames) /\ (Validate(configuration) => storeList # <<>>)
    BY StoreListType DEF HookInv
  <2>4. ToSet(storeList) \subseteq StoreNames
    BY <2>3 DEF ToSet
  <2> QED
    BY <1>1, <1>2, <2>2, <2>3, <2>4 DEF HookInv, Steps
<1> QED
  BY <1>3, <1>4

\* What is collected for a sidecar was read from ObjectStores that existed, whatever the
\* users write or delete in the meantime.
THEOREM TypeCorrect == Spec => []TypeOK
<1>1. Init => HookInv
  <2> SUFFICES ASSUME Init PROVE HookInv
    OBVIOUS
  <2>1. edits = 0 /\ 0 \in Nat /\ edits \in 0 .. MaxEdits
    BY ConstantsAssumption DEF Init
  <2>2. NoConfig \in Configs(edits)
    BY <2>1, NothingCollected
  <2>3. /\ stores \in [StoreNames -> Store]
        /\ \A s \in StoreNames : stores[s] = NoStore \/ stores[s].version \in 1 .. edits + 1
    <3>1. NoStore \in Store /\ [version : {1}, ca : BOOLEAN] \subseteq Store
      BY DEF Store, NoStore
    <3>2. \A x \in [version : {1}, ca : BOOLEAN] : x.version \in 1 .. edits + 1
      BY <2>1
    <3> QED
      BY <3>1, <3>2 DEF Init
  <2> QED
    BY <2>1, <2>2, <2>3 DEF Init, HookInv, HookIdle, Steps
<1>2. HookInv /\ [Next]_vars => HookInv'
  <2> SUFFICES ASSUME HookInv, [Next]_vars PROVE HookInv'
    OBVIOUS
  <2>1. CASE UNCHANGED vars
    BY <2>1 DEF vars, HookInv, configuration
  <2>2. CASE GetFails \/ MainContainerNotFound
    BY <2>2, BeginHookInv DEF GetFails, MainContainerNotFound, hookOnly, HookInv
  <2>3. CASE HookAnswers
    <3>1. /\ UNCHANGED <<request, stores, edits, built>> /\ DOMAIN hook' = DOMAIN hook
          /\ hook'.pc = "answered" /\ hook'.todo = hook.todo /\ hook'.keys = hook.keys
          /\ hook'.config = hook.config
      BY <2>3 DEF HookAnswers, hookOnly, HookInv
    <3> QED
      BY <3>1 DEF HookInv, Steps
  <2>4. CASE Hook
    BY <2>2, <2>3, <2>4, CollectHookInv DEF Hook
  <2>5. CASE Operator
    <3>1. CASE EvaluatePod \/ CreatePod \/ CreateJob \/ CheckPod
      BY <3>1, BeginHookInv DEF EvaluatePod, CreatePod, CreateJob, CheckPod, HookInv
    <3>2. CASE Created
      BY <3>2, BeginHookInv DEF Created, HookInv
    <3> QED
      BY <2>5, <3>1, <3>2 DEF Operator
  <2>6. CASE EditStore
    <3>1. PICK s \in StoreNames, new \in {NoStore} \cup [version : {edits + 2}, ca : BOOLEAN] :
              stores' = [stores EXCEPT ![s] = new]
      BY <2>6 DEF EditStore
    <3>2. /\ edits' = edits + 1 /\ edits < MaxEdits
          /\ UNCHANGED <<request, hook, built>>
      BY <2>6 DEF EditStore
    <3>3. edits \in Nat /\ edits' \in 0 .. MaxEdits /\ edits' \in Nat
      BY <3>2, ConstantsAssumption DEF HookInv
    <3>4. stores' \in [StoreNames -> Store]
      <4>1. NoStore \in Store /\ [version : {edits + 2}, ca : BOOLEAN] \subseteq Store
        BY <3>3 DEF Store, NoStore
      <4> QED
        BY <3>1, <4>1 DEF HookInv
    <3>5. ASSUME NEW t \in StoreNames
          PROVE  stores'[t] = NoStore \/ stores'[t].version \in 1 .. edits' + 1
      BY <3>1, <3>2, <3>3 DEF HookInv
    <3>6. hook.config \in Configs(edits') /\ built \in Configs(edits')
      BY <3>2, <3>3, ConfigsGrow DEF HookInv
    <3>7. configuration' = configuration
      BY <3>2 DEF configuration
    <3> QED
      BY <3>2, <3>3, <3>4, <3>5, <3>6, <3>7 DEF HookInv
  <2> QED
    BY <2>1, <2>4, <2>5, <2>6 DEF Next
<1>3. HookInv => TypeOK
  <2> SUFFICES ASSUME HookInv PROVE TypeOK
    OBVIOUS
  <2>1. ASSUME NEW c \in Configs(edits),
               NEW o \in ToSet(c.env) \cup c.certificates \cup c.resources \cup c.additionalArgs
        PROVE  o.from \in StoreNames /\ o.version \in 1 .. edits + 1
    <3>1. /\ c.env \in Seq(Origins(edits))
          /\ c.certificates \cup c.resources \cup c.additionalArgs \subseteq Origins(edits)
      BY DEF Configs
    <3>2. ToSet(c.env) \subseteq Origins(edits)
      BY <3>1 DEF ToSet
    <3>3. o \in Origins(edits)
      BY <3>1, <3>2
    <3> QED
      BY <3>3 DEF Origins
  <2> QED
    BY <2>1 DEF HookInv, TypeOK, Steps
<1> QED
  BY <1>1, <1>2, <1>3, PTL DEF Spec

-----------------------------------------------------------------------------
(* The mounts of the sidecar *)

\* The loop of ensureVolumeMount has a run: one mount after the other is put.
LEMMA MountRun ==
    ASSUME NEW T, NEW start \in Seq(T), NEW vs \in Seq(T)
    PROVE  \E after :
              /\ after[0] = start
              /\ \A n \in 1 .. Len(vs) : after[n] = putMount(after[n - 1], vs[n])
              /\ ensureVolumeMount(start, vs) = after[Len(vs)]
<1> DEFINE Run(g, n) ==
               g = [k \in 0 .. n |-> IF k = 0 THEN start ELSE putMount(g[k - 1], vs[k])]
           Stuck == {n \in 0 .. Len(vs) : ~ \E g : Run(g, n)}
           after == CHOOSE g : Run(g, Len(vs))
<1>1. Len(vs) \in Nat
  BY LenProperties
<1>2. Stuck = {}
  <2> SUFFICES ASSUME Stuck # {} PROVE FALSE
    OBVIOUS
  <2>1. PICK n \in Stuck : \A y \in Stuck : n <= y
    <3>1. Stuck \in SUBSET Nat
      BY <1>1
    <3> HIDE DEF Stuck
    <3> QED
      BY <3>1, LeastNatural
  <2>2. CASE n = 0
    <3>1. Run([k \in 0 .. 0 |-> start], 0)
      OBVIOUS
    <3> QED
      BY <2>1, <2>2, <3>1
  <2>3. CASE n # 0
    <3>1. n - 1 \in 0 .. Len(vs) /\ n - 1 \notin Stuck /\ n \in Nat
      <4>1. n \in 0 .. Len(vs)
        BY <2>1
      <4> HIDE DEF Stuck
      <4> QED
        BY <1>1, <2>1, <2>3, <4>1
    <3>2. PICK g : Run(g, n - 1)
      BY <3>1
    <3> DEFINE h == [k \in 0 .. n |-> IF k = n THEN putMount(g[n - 1], vs[n]) ELSE g[k]]
    <3>3. ASSUME NEW k \in 0 .. n
          PROVE  h[k] = IF k = 0 THEN start ELSE putMount(h[k - 1], vs[k])
      <4>1. CASE k = 0
        <5>1. h[k] = g[k]
          BY <2>3, <4>1
        <5> QED
          BY <3>1, <3>2, <4>1, <5>1
      <4>2. CASE k # 0 /\ k # n
        <5>1. h[k] = g[k] /\ h[k - 1] = g[k - 1] /\ k \in 0 .. n - 1
          BY <3>1, <4>2
        <5> QED
          BY <3>2, <4>2, <5>1
      <4>3. CASE k = n
        <5>1. h[k] = putMount(g[n - 1], vs[n]) /\ h[k - 1] = g[n - 1]
          BY <2>3, <3>1, <4>3
        <5> QED
          BY <2>3, <4>3, <5>1
      <4> QED
        BY <4>1, <4>2, <4>3
    <3>4. Run(h, n)
      <4>1. h = [k \in 0 .. n |-> h[k]]
        OBVIOUS
      <4> HIDE DEF h
      <4> QED
        BY <3>3, <4>1
    <3> QED
      BY <2>1, <3>4
  <2> QED
    BY <2>2, <2>3
<1>3. Run(after, Len(vs))
  <2>1. \E g : Run(g, Len(vs))
    BY <1>1, <1>2
  <2> QED
    BY <2>1
<1>4. ensureVolumeMount(start, vs) = after[Len(vs)]
  BY DEF ensureVolumeMount
<1>5. /\ after[0] = start
      /\ \A n \in 1 .. Len(vs) : after[n] = putMount(after[n - 1], vs[n])
  <2> HIDE DEF after
  <2> QED
    BY <1>1, <1>3
<1> HIDE DEF after
<1> QED
  BY <1>4, <1>5

\* Each volume is mounted once.
NamesDiffer(ms) == \A i, j \in DOMAIN ms : ms[i].name = ms[j].name => i = j

\* A mount put among mounts of different volumes takes the place of the one of its volume.
LEMMA PutMount ==
    ASSUME NEW T, NEW ms \in Seq(T), NamesDiffer(ms), NEW m \in T
    PROVE  /\ putMount(ms, m) \in Seq(T) /\ NamesDiffer(putMount(ms, m))
           /\ ToSet(putMount(ms, m)) = {x \in ToSet(ms) : x.name # m.name} \cup {m}
<1> DEFINE same == {i \in DOMAIN ms : ms[i].name = m.name}
<1>1. /\ Len(ms) \in Nat /\ DOMAIN ms = 1 .. Len(ms) /\ ms \in [1 .. Len(ms) -> T]
  BY LenProperties
<1>2. CASE same = {}
  <2>1. putMount(ms, m) = Append(ms, m)
    BY <1>2 DEF putMount
  <2>2. /\ Append(ms, m) \in Seq(T) /\ DOMAIN Append(ms, m) = 1 .. Len(ms) + 1
        /\ \A i \in 1 .. Len(ms) : Append(ms, m)[i] = ms[i]
        /\ Append(ms, m)[Len(ms) + 1] = m
    BY <1>1
  <2> DEFINE r == Append(ms, m)
  <2> HIDE DEF r
  <2>3. /\ DOMAIN r = 1 .. Len(ms) + 1
        /\ \A i \in 1 .. Len(ms) : r[i] = ms[i] /\ r[i].name # m.name
        /\ r[Len(ms) + 1] = m
    BY <1>1, <1>2, <2>2 DEF r
  <2>4. NamesDiffer(r)
    <3> SUFFICES ASSUME NEW i \in DOMAIN r, NEW j \in DOMAIN r, r[i].name = r[j].name
                 PROVE  i = j
      BY DEF NamesDiffer
    <3>1. CASE i \in 1 .. Len(ms) /\ j \in 1 .. Len(ms)
      BY <1>1, <2>3, <3>1 DEF NamesDiffer
    <3>2. CASE i = Len(ms) + 1 \/ j = Len(ms) + 1
      BY <1>1, <2>3, <3>2
    <3> QED
      BY <1>1, <2>3, <3>1, <3>2
  <2>5. ToSet(r) = {x \in ToSet(ms) : x.name # m.name} \cup {m}
    <3>1. ToSet(r) = {r[i] : i \in 1 .. Len(ms) + 1} /\ ToSet(ms) = {ms[i] : i \in 1 .. Len(ms)}
      BY <1>1, <2>3 DEF ToSet
    <3>2. ASSUME NEW x \in ToSet(r) PROVE x = m \/ (x \in ToSet(ms) /\ x.name # m.name)
      <4>1. PICK i \in 1 .. Len(ms) + 1 : x = r[i]
        BY <3>1
      <4> QED
        BY <1>1, <2>3, <3>1, <4>1
    <3>3. ASSUME NEW x, x = m \/ (x \in ToSet(ms) /\ x.name # m.name) PROVE x \in ToSet(r)
      <4>1. m \in ToSet(r)
        BY <1>1, <2>3, <3>1
      <4>2. ASSUME NEW i \in 1 .. Len(ms) PROVE ms[i] \in ToSet(r)
        BY <1>1, <2>3, <3>1
      <4> QED
        BY <3>1, <3>3, <4>1, <4>2
    <3> QED
      BY <3>2, <3>3
  <2> QED
    BY <2>1, <2>2, <2>4, <2>5 DEF r
<1>3. CASE same # {}
  <2>1. PICK k \in DOMAIN ms : ms[k].name = m.name
    BY <1>3
  <2>2. same = {k}
    BY <2>1 DEF NamesDiffer
  <2>3. Min(same) = k
    BY <1>1, <2>1, <2>2 DEF Min
  <2> DEFINE r == [ms EXCEPT ![k] = m]
  <2>4. putMount(ms, m) = r
    BY <1>3, <2>3 DEF putMount
  <2>5. /\ r \in Seq(T) /\ DOMAIN r = DOMAIN ms
        /\ \A i \in DOMAIN ms : r[i] = IF i = k THEN m ELSE ms[i]
    BY <1>1, <2>1
  <2> HIDE DEF r
  <2>6. NamesDiffer(r)
    BY <2>1, <2>5 DEF NamesDiffer
  <2>7. ToSet(r) = {x \in ToSet(ms) : x.name # m.name} \cup {m}
    <3>1. ASSUME NEW x \in ToSet(r) PROVE x = m \/ (x \in ToSet(ms) /\ x.name # m.name)
      <4>1. PICK i \in DOMAIN ms : x = r[i]
        BY <2>5, <3>1 DEF ToSet
      <4>2. CASE i = k
        BY <2>5, <4>1, <4>2
      <4>3. CASE i # k
        BY <2>1, <2>5, <4>1, <4>3 DEF NamesDiffer, ToSet
      <4> QED
        BY <4>2, <4>3
    <3>2. m \in ToSet(r)
      BY <2>1, <2>5 DEF ToSet
    <3>3. ASSUME NEW x \in ToSet(ms), x.name # m.name PROVE x \in ToSet(r)
      <4>1. PICK i \in DOMAIN ms : x = ms[i]
        BY <3>3 DEF ToSet
      <4>2. i # k
        BY <2>1, <3>3, <4>1
      <4> QED
        BY <2>5, <4>1, <4>2 DEF ToSet
    <3> QED
      BY <3>1, <3>2, <3>3
  <2> QED
    BY <2>4, <2>5, <2>6, <2>7
<1> QED
  BY <1>2, <1>3

\* The mounts at the end are the last one of each volume among those put, and the first
\* ones whose volume is not among them.
LEMMA LastMounts ==
    ASSUME NEW T, NEW start \in Seq(T), NamesDiffer(start), NEW vs \in Seq(T)
    PROVE  ToSet(ensureVolumeMount(start, vs)) =
             {x \in ToSet(start) : \A i \in DOMAIN vs : vs[i].name # x.name}
             \cup {vs[j] : j \in {j \in DOMAIN vs :
                                     \A i \in DOMAIN vs : vs[i].name = vs[j].name => i <= j}}
<1>1. Len(vs) \in Nat /\ DOMAIN vs = 1 .. Len(vs) /\ vs \in [1 .. Len(vs) -> T]
  BY LenProperties
<1>2. PICK after :
         /\ after[0] = start
         /\ \A n \in 1 .. Len(vs) : after[n] = putMount(after[n - 1], vs[n])
         /\ ensureVolumeMount(start, vs) = after[Len(vs)]
  BY MountRun
<1> DEFINE Old(n) == {x \in ToSet(start) : \A i \in 1 .. n : vs[i].name # x.name}
           New(n) == {vs[j] : j \in {j \in 1 .. n :
                                        \A i \in 1 .. n : vs[i].name = vs[j].name => i <= j}}
           Good(n) == /\ after[n] \in Seq(T) /\ NamesDiffer(after[n])
                      /\ ToSet(after[n]) = Old(n) \cup New(n)
           Bad == {n \in 0 .. Len(vs) : ~ Good(n)}
<1>3. Good(0)
  <2>1. Old(0) = ToSet(start) /\ New(0) = {}
    OBVIOUS
  <2> HIDE DEF Old, New
  <2> QED
    BY <1>2, <2>1
<1>4. ASSUME NEW n \in 1 .. Len(vs), Good(n - 1) PROVE Good(n)
  <2>1. after[n] = putMount(after[n - 1], vs[n]) /\ vs[n] \in T
    BY <1>1, <1>2
  <2>2. /\ after[n] \in Seq(T) /\ NamesDiffer(after[n])
        /\ ToSet(after[n]) = {x \in ToSet(after[n - 1]) : x.name # vs[n].name} \cup {vs[n]}
    <3> DEFINE q == after[n - 1]
               m == vs[n]
    <3>1. q \in Seq(T) /\ NamesDiffer(q)
      <4> HIDE DEF Old, New
      <4> QED
        BY <1>4
    <3>2. m \in T /\ after[n] = putMount(q, m)
      BY <2>1
    <3> HIDE DEF q, m
    <3>3. /\ putMount(q, m) \in Seq(T) /\ NamesDiffer(putMount(q, m))
          /\ ToSet(putMount(q, m)) = {x \in ToSet(q) : x.name # m.name} \cup {m}
      BY <3>1, <3>2, PutMount
    <3> QED
      BY <3>2, <3>3 DEF q, m
  <2>3. Old(n) = {x \in Old(n - 1) : x.name # vs[n].name}
    BY <1>1
  <2>4. New(n) = {x \in New(n - 1) : x.name # vs[n].name} \cup {vs[n]}
    BY <1>1
  <2> HIDE DEF Old, New
  <2>5. ToSet(after[n]) = Old(n) \cup New(n)
    BY <1>4, <2>2, <2>3, <2>4
  <2> QED
    BY <2>2, <2>5
<1>5. Bad = {}
  <2> HIDE DEF Good
  <2> SUFFICES ASSUME Bad # {} PROVE FALSE
    OBVIOUS
  <2>1. PICK n \in Bad : \A y \in Bad : n <= y
    <3>1. Bad \in SUBSET Nat
      BY <1>1
    <3> HIDE DEF Bad
    <3> QED
      BY <3>1, LeastNatural
  <2>2. n \in 0 .. Len(vs) /\ ~ Good(n)
    BY <2>1
  <2>3. n # 0
    BY <1>3, <2>2
  <2>4. n - 1 \in 0 .. Len(vs) /\ n \in 1 .. Len(vs) /\ ~ (n <= n - 1)
    BY <1>1, <2>2, <2>3
  <2>5. Good(n - 1)
    BY <2>1, <2>4
  <2> QED
    BY <1>4, <2>2, <2>4, <2>5
<1>6. Good(Len(vs))
  <2>1. Len(vs) \in 0 .. Len(vs)
    BY <1>1
  <2> HIDE DEF Good
  <2> QED
    BY <1>5, <2>1
<1> QED
  BY <1>1, <1>2, <1>6

\* What a container mounts at a path is what the sidecar mounts there, if the last mount
\* of the volume is there and the sidecar has nothing of its own at that path.
LEMMA SamePath ==
    ASSUME NEW T, NEW start \in Seq(T), NamesDiffer(start), NEW vs \in Seq(T), NEW path,
           \A i \in DOMAIN start : start[i].path # path,
           \A i, j \in DOMAIN vs : vs[i].path = path /\ vs[j].name = vs[i].name => j <= i
    PROVE  VolumeAt(ensureVolumeMount(start, vs), path) = VolumeAt(vs, path)
<1> DEFINE r == ensureVolumeMount(start, vs)
           last == {j \in DOMAIN vs : \A i \in DOMAIN vs : vs[i].name = vs[j].name => i <= j}
<1>1. ToSet(r) = {x \in ToSet(start) : \A i \in DOMAIN vs : vs[i].name # x.name}
                 \cup {vs[j] : j \in last}
  BY LastMounts
<1> HIDE DEF r
<1>2. ASSUME NEW n \in VolumeAt(r, path) PROVE n \in VolumeAt(vs, path)
  <2>1. PICK i \in DOMAIN r : r[i].path = path /\ r[i].name = n
    BY <1>2 DEF VolumeAt
  <2>2. r[i] \in ToSet(r)
    BY DEF ToSet
  <2>3. r[i] \notin ToSet(start)
    BY <2>1 DEF ToSet
  <2>4. PICK j \in last : r[i] = vs[j]
    BY <1>1, <2>2, <2>3
  <2> QED
    BY <2>1, <2>4 DEF VolumeAt
<1>3. ASSUME NEW n \in VolumeAt(vs, path) PROVE n \in VolumeAt(r, path)
  <2>1. PICK j \in DOMAIN vs : vs[j].path = path /\ vs[j].name = n
    BY <1>3 DEF VolumeAt
  <2>2. j \in last
    BY <2>1
  <2>3. vs[j] \in ToSet(r)
    BY <1>1, <2>2
  <2>4. PICK i \in DOMAIN r : r[i] = vs[j]
    BY <2>3 DEF ToSet
  <2> QED
    BY <2>1, <2>4 DEF VolumeAt
<1> QED
  BY <1>2, <1>3 DEF r

\* PostgreSQL's container gets one more mount, unless the volume is there already.
LEMMA SocketMounted ==
    ASSUME NEW T, NEW ms \in Seq(T), PluginMount \in T,
           \A i \in DOMAIN ms : ms[i].name # "plugins"
    PROVE  ensureVolumeMount(ms, <<PluginMount>>) = Append(ms, PluginMount)
<1> DEFINE vs == <<PluginMount>>
<1>1. vs \in Seq(T) /\ Len(vs) = 1 /\ vs[1] = PluginMount
  <2>1. vs \in Seq(T) /\ Len(vs) = 1
    BY ShortLists
  <2> QED
    BY <2>1
<1> HIDE DEF vs
<1>2. PICK after :
         /\ after[0] = ms
         /\ \A n \in 1 .. Len(vs) : after[n] = putMount(after[n - 1], vs[n])
         /\ ensureVolumeMount(ms, vs) = after[Len(vs)]
  BY <1>1, MountRun
<1>3. ensureVolumeMount(ms, vs) = putMount(ms, PluginMount)
  <2>1. after[1] = putMount(after[1 - 1], vs[1])
    BY <1>1, <1>2
  <2> QED
    BY <1>1, <1>2, <2>1
<1>4. putMount(ms, PluginMount) = Append(ms, PluginMount)
  BY DEF putMount, PluginMount
<1> QED
  BY <1>3, <1>4 DEF vs

\* The paths of the data directory, of the spool and of the sockets.
Shared == {"/pgdata", "/controller", "/plugins"}

\* The shared paths are mounted in PostgreSQL's container, each of them by the last mount of
\* its volume, also when the socket's volume has just been added.
LEMMA MainMounts ==
    ASSUME NEW r \in Requests, r.role \in DOMAIN r.spec.containers
    PROVE  \E T : LET ms == PluginContainers(r.spec, r.role)[r.role].mounts
                  IN  /\ ms \in Seq(T) /\ CertificatesMount \in T
                      /\ \A path \in Shared :
                            /\ VolumeAt(ms, path) # {}
                            /\ \A i, j \in DOMAIN ms :
                                  ms[i].path = path /\ ms[j].name = ms[i].name => j <= i
<1> DEFINE given == r.spec.containers[r.role].mounts
           ms == PluginContainers(r.spec, r.role)[r.role].mounts
           T == [name : DOMAIN r.spec.volumes, path : STRING]
                \cup {CertificatesMount, PluginMount}
           G == [name : DOMAIN r.spec.volumes, path : STRING]
<1>1. /\ given \in Seq(G)
      /\ \E i \in DOMAIN given : given[i].path = "/pgdata"
      /\ \E i \in DOMAIN given : given[i].path = "/controller"
      /\ "plugins" \in DOMAIN r.spec.volumes =>
            \E i \in DOMAIN given : given[i].path = "/plugins"
      /\ \A path \in Shared : \A i, j \in DOMAIN given :
            given[i].path = path /\ given[j].name = given[i].name => j <= i
  <2>1. DefinitionOK(r.spec, r.role)
    BY DefinitionsAssumption
  <2> QED
    BY <2>1 DEF DefinitionOK, Shared
<1>2. given \in Seq(T)
  <2>1. G \subseteq T
    OBVIOUS
  <2> HIDE DEF given, T, G
  <2> QED
    BY <1>1, <2>1, SeqMonotonic
<1>3. /\ Len(given) \in Nat /\ DOMAIN given = 1 .. Len(given)
      /\ \A i \in DOMAIN given : given[i].name \in DOMAIN r.spec.volumes
  <2>1. given \in [1 .. Len(given) -> G] /\ Len(given) \in Nat
    <3> HIDE DEF given, G
    <3> QED
      BY <1>1, LenProperties
  <2> HIDE DEF given
  <2> QED
    BY <2>1
<1>4. CertificatesMount \in T /\ PluginMount \in T
  OBVIOUS
<1>5. CASE "plugins" \in DOMAIN r.spec.volumes
  <2>1. ms = given
    BY <1>5 DEF PluginContainers
  <2> HIDE DEF given, T, ms
  <2>2. \A path \in Shared : VolumeAt(ms, path) # {}
    BY <1>1, <1>5, <2>1 DEF VolumeAt, Shared
  <2>3. \A path \in Shared : \A i, j \in DOMAIN ms :
            ms[i].path = path /\ ms[j].name = ms[i].name => j <= i
    BY <1>1, <2>1
  <2> QED
    BY <1>2, <1>4, <2>1, <2>2, <2>3 DEF ms
<1>6. CASE "plugins" \notin DOMAIN r.spec.volumes
  <2>1. ms = ensureVolumeMount(given, <<PluginMount>>)
    BY <1>6 DEF PluginContainers
  <2> HIDE DEF given, T, ms
  <2>2. \A i \in DOMAIN given : given[i].name # "plugins"
    BY <1>3, <1>6
  <2>3. ms = Append(given, PluginMount)
    BY <1>2, <1>4, <2>1, <2>2, SocketMounted
  <2>4. /\ ms \in Seq(T) /\ DOMAIN ms = 1 .. Len(given) + 1
        /\ \A i \in 1 .. Len(given) : ms[i] = given[i]
        /\ ms[Len(given) + 1] = PluginMount
    BY <1>2, <1>4, <2>3
  <2>5. /\ PluginMount.name = "plugins" /\ PluginMount.path = "/plugins"
    BY DEF PluginMount
  <2>6. ASSUME NEW path \in Shared PROVE VolumeAt(ms, path) # {}
    <3>1. \E i \in DOMAIN ms : ms[i].path = path
      BY <1>1, <1>3, <2>4, <2>5 DEF Shared
    <3> QED
      BY <3>1 DEF VolumeAt
  <2>7. ASSUME NEW path \in Shared, NEW i \in DOMAIN ms, NEW j \in DOMAIN ms,
               ms[i].path = path, ms[j].name = ms[i].name
        PROVE  j <= i
    <3>1. CASE i = Len(given) + 1
      BY <1>3, <2>4, <3>1
    <3>2. CASE i \in DOMAIN given /\ j = Len(given) + 1
      BY <1>3, <2>2, <2>4, <2>5, <2>7, <3>2
    <3>3. CASE i \in DOMAIN given /\ j \in DOMAIN given
      BY <1>1, <1>3, <2>4, <2>7, <3>3
    <3> QED
      BY <1>3, <2>4, <3>1, <3>2, <3>3
  <2> QED
    BY <1>4, <2>4, <2>6, <2>7 DEF ms
<1> QED
  BY <1>5, <1>6

\* The sidecar shares these paths with PostgreSQL's container.
LEMMA SidecarMounts ==
    ASSUME NEW r \in Requests, r.role \in DOMAIN r.spec.containers, NEW config,
           NEW path \in Shared
    PROVE  LET ms == PluginContainers(r.spec, r.role)[r.role].mounts
           IN  /\ VolumeAt(ms, path) # {}
               /\ VolumeAt(Sidecar(r.spec, r.role, config).mounts, path) = VolumeAt(ms, path)
<1> DEFINE ms == PluginContainers(r.spec, r.role)[r.role].mounts
           start == IF config.certificates # {} THEN <<CertificatesMount>> ELSE <<>>
<1>1. PICK T : /\ ms \in Seq(T) /\ CertificatesMount \in T
               /\ VolumeAt(ms, path) # {}
               /\ \A i, j \in DOMAIN ms :
                     ms[i].path = path /\ ms[j].name = ms[i].name => j <= i
  BY MainMounts
<1>2. Sidecar(r.spec, r.role, config).mounts = ensureVolumeMount(start, ms)
  BY DEF Sidecar
<1>3. /\ start \in Seq(T) /\ NamesDiffer(start)
      /\ \A i \in DOMAIN start : start[i].path # path
  <2>1. CASE config.certificates # {}
    <3>1. start = <<CertificatesMount>>
      BY <2>1
    <3>2. start \in Seq(T) /\ Len(start) = 1
      BY <1>1, <3>1, ShortLists
    <3>3. DOMAIN start = {1} /\ start[1] = CertificatesMount
      BY <3>1
    <3>4. CertificatesMount.path # path
      BY DEF CertificatesMount, BarmanCertificatesPath, Shared
    <3> HIDE DEF start
    <3> QED
      BY <3>2, <3>3, <3>4 DEF NamesDiffer
  <2>2. CASE config.certificates = {}
    <3>1. start = <<>>
      BY <2>2
    <3>2. start \in Seq(T) /\ DOMAIN start = {}
      BY <3>1, EmptySeq
    <3> HIDE DEF start
    <3> QED
      BY <3>2 DEF NamesDiffer
  <2> QED
    BY <2>1, <2>2
<1> HIDE DEF ms, start
<1>4. VolumeAt(ensureVolumeMount(start, ms), path) = VolumeAt(ms, path)
  BY <1>1, <1>3, SamePath
<1> QED
  BY <1>1, <1>2, <1>4 DEF ms

\* The data directory is the one of PostgreSQL, and the spool is not an ObjectStore's.
LEMMA SidecarVariables ==
    ASSUME NEW r \in Requests, r.role \in DOMAIN r.spec.containers, NEW config
    PROVE  LET env == Sidecar(r.spec, r.role, config).env
               main == PluginContainers(r.spec, r.role)[r.role].env
           IN  env["PGDATA"] = main["PGDATA"] /\ env["SPOOL_DIRECTORY"].from \notin StoreNames
<1> DEFINE mainEnv == r.spec.containers[r.role].env
           env == sidecarEnv(mainEnv, config.env)
<1>1. /\ "PGDATA" \in DOMAIN mainEnv
      /\ \A v \in DOMAIN mainEnv : mainEnv[v].from \notin StoreNames
      /\ "plugin" \notin StoreNames
  <2>1. DefinitionOK(r.spec, r.role)
    BY DefinitionsAssumption
  <2> QED
    BY <2>1, DefinitionsAssumption DEF DefinitionOK
<1>2. PluginContainers(r.spec, r.role)[r.role].env = mainEnv
  BY DEF PluginContainers
<1>3. Sidecar(r.spec, r.role, config).env = env
  BY DEF Sidecar
<1> HIDE DEF mainEnv
<1>4. env["PGDATA"] = mainEnv["PGDATA"]
  BY <1>1 DEF sidecarEnv
<1>5. env["SPOOL_DIRECTORY"].from \notin StoreNames
  <2>1. CASE "SPOOL_DIRECTORY" \in DOMAIN mainEnv
    <3>1. env["SPOOL_DIRECTORY"] = mainEnv["SPOOL_DIRECTORY"]
      BY <2>1 DEF sidecarEnv
    <3> QED
      BY <1>1, <2>1, <3>1
  <2>2. CASE "SPOOL_DIRECTORY" \notin DOMAIN mainEnv
    <3>1. env["SPOOL_DIRECTORY"] = [from |-> "plugin", version |-> 0]
      BY <2>2 DEF sidecarEnv, DefaultEnv
    <3> HIDE DEF env
    <3> QED
      BY <1>1, <3>1
  <2> QED
    BY <2>1, <2>2
<1> HIDE DEF env
<1> QED
  BY <1>2, <1>3, <1>4, <1>5

\* An object that has been created had its main container where it was needed.
ObjectInv == object # NoSpec => Found(request)

LEMMA ObjectStep == BuildInv /\ ObjectInv /\ [Next]_vars => ObjectInv'
<1> SUFFICES ASSUME BuildInv, ObjectInv, [Next]_vars PROVE ObjectInv'
  OBVIOUS
<1>1. request' = request
  BY DEF Next, Hook, Operator, EditStore, EvaluatePod, CreatePod, CheckPod, CreateJob, Created,
      collectAdditionalEnvs, collectAdditionalCertificates, collectResources,
      collectAdditionalInstanceArgs, GetFails, HookAnswers, MainContainerNotFound, hookOnly,
      vars
<1>2. CASE Created
  BY <1>1, <1>2 DEF Created, BuildInv, ObjectInv, Found, Needed
<1>3. CASE ~Created
  <2>1. object' = object \/ object' = NoSpec
    BY <1>3 DEF Next, Hook, Operator, EditStore, EvaluatePod, CreatePod, CheckPod, CreateJob,
        collectAdditionalEnvs, collectAdditionalCertificates, collectResources,
        collectAdditionalInstanceArgs, GetFails, HookAnswers, MainContainerNotFound, hookOnly,
        vars
  <2> QED
    BY <1>1, <2>1 DEF ObjectInv, Found, Needed
<1> QED
  BY <1>2, <1>3

\* A sidecar is the one that reconcilePodSpec made for the operator's definition.
LEMMA TheSidecar ==
    ASSUME BuildInv, ObjectInv, NEW i \in Sidecars
    PROVE  /\ request.role \in DOMAIN request.spec.containers
           /\ object.initContainers[i] = Sidecar(request.spec, request.role, built)
           /\ object.containers[request.role] =
                  PluginContainers(request.spec, request.role)[request.role]
<1> DEFINE given == request.spec.initContainers
           sidecar == Sidecar(request.spec, request.role, built)
<1>1. i \in DOMAIN object.initContainers /\ object.initContainers[i].name = SidecarName
  BY DEF Sidecars
<1>2. object # NoSpec
  <2>1. DOMAIN NoSpec.initContainers = {}
    <3>1. NoSpec.initContainers = <<>>
      BY DEF NoSpec
    <3> QED
      BY <3>1
  <2> QED
    BY <1>1, <2>1
<1>3. \A k \in DOMAIN given : given[k].name # SidecarName
  BY DefinitionsAssumption DEF BuildInv, SidecarName
<1>4. /\ object = InjectedFor(request, request.spec, built) /\ Found(request)
      /\ request \in Requests
  BY <1>2 DEF BuildInv, ObjectInv
<1>5. Needed(request)
  BY <1>1, <1>3, <1>4 DEF InjectedFor
<1>6. request.role \in DOMAIN request.spec.containers /\ IsSpec(request.spec)
  BY <1>4, <1>5, ConstantsAssumption DEF Found
<1>7. object = [containers |-> PluginContainers(request.spec, request.role),
                initContainers |-> putSidecar(given, sidecar),
                volumes |-> PluginVolumes(request.spec, built)]
  BY <1>4, <1>5, <1>6, ReconciledFields DEF InjectedFor
<1>8. given \in Seq(ToSet(given))
  BY <1>6 DEF IsSpec
<1> HIDE DEF given, sidecar
<1>9. object.initContainers = Append(given, sidecar)
  BY <1>3, <1>7 DEF putSidecar
<1>10. /\ DOMAIN given = 1 .. Len(given) /\ Len(given) \in Nat
       /\ DOMAIN Append(given, sidecar) = 1 .. Len(given) + 1
       /\ \A k \in 1 .. Len(given) : Append(given, sidecar)[k] = given[k]
       /\ Append(given, sidecar)[Len(given) + 1] = sidecar
  BY <1>8
<1>11. object.initContainers[i] = sidecar
  BY <1>1, <1>3, <1>9, <1>10
<1> QED
  BY <1>6, <1>7, <1>11 DEF sidecar

\* The sidecar finds the data directory, the spool and the sockets where PostgreSQL's
\* container has them, for any definition in which each shared path is mounted last for
\* its volume, any Cluster and any ObjectStores read at any time.
THEOREM PathSafety == Spec => []SharedPaths
<1>1. Init => BuildInv /\ ObjectInv
  BY DEF Init, BuildInv, ObjectInv, HookIdle
<1>2. BuildInv /\ [Next]_vars => BuildInv'
  <2>1. BuildInv /\ UNCHANGED vars => BuildInv'
    BY DEF BuildInv, vars
  <2> QED
    BY <2>1, HookBuildInv, OperatorBuildInv DEF Next
<1>3. BuildInv /\ ObjectInv => SharedPaths
  <2> SUFFICES ASSUME BuildInv, ObjectInv, NEW i \in Sidecars
               PROVE  LET sidecar == object.initContainers[i]
                          main == object.containers[request.role]
                      IN  /\ \A p \in Shared :
                                /\ VolumeAt(main.mounts, p) # {}
                                /\ VolumeAt(sidecar.mounts, p) = VolumeAt(main.mounts, p)
                          /\ sidecar.env["PGDATA"] = main.env["PGDATA"]
                          /\ sidecar.env["SPOOL_DIRECTORY"].from \notin StoreNames
    BY DEF SharedPaths, Shared
  <2>1. /\ request.role \in DOMAIN request.spec.containers
        /\ object.initContainers[i] = Sidecar(request.spec, request.role, built)
        /\ object.containers[request.role] =
               PluginContainers(request.spec, request.role)[request.role]
    BY TheSidecar
  <2>2. request \in Requests
    BY DEF BuildInv
  <2> QED
    BY <2>1, <2>2, SidecarMounts, SidecarVariables
<1> QED
  BY <1>1, <1>2, <1>3, ObjectStep, PTL DEF Spec

=============================================================================
