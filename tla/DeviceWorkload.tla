--------------------------- MODULE DeviceWorkload ---------------------------
(***************************************************************************)
(* The Pod a plan is rendered into: which plans the direct runtime can     *)
(* carry out (ValidatePlanCapabilities in internal/directruntime) and the  *)
(* Deployment internal/directpod/renderer.go makes of one.                 *)
(*                                                                         *)
(* The options of a rendering are a record: claims (the Nodes whose        *)
(* artifacts are on a persistent volume), certified (those that have       *)
(* certificates), payloads, probes (per Node),                             *)
(* flags (the set of the features that are on: "stop-signals", "entropy",  *)
(* "revision", "certificates", "probe-secret", "isolation", "gate",        *)
(* "broker", "service-account", "stopped"), name (the Pod's own) and bad   *)
(* (something required is missing or malformed).  A rendered container is  *)
(* a record of its mounts, its probes and the phases its lifecycle binary  *)
(* runs.                                                                   *)
(***************************************************************************)
EXTENDS DevicePlan

-----------------------------------------------------------------------------
(* What the runtime can carry out *)

ValidLinuxInterfaceName(name) == name \notin {"", "not/portable"}

Supported(ok) == IF ok THEN "ok" ELSE "unsupported"

\* Addresses are the Pod's: no two Nodes may have one, and a gateway must be
\* on the Node's own prefix.  (Nothing gives a management plan routes, whose checks
\* would follow.)
ManagementCapabilities(plan) ==
  LET M == plan.mgmt
  IN First(<<Supported(\A id \in DOMAIN M :
                         /\ M[id].ifname # "" => ValidLinuxInterfaceName(M[id].ifname)
                         /\ M[id].sel = "interposed" => ValidLinuxInterfaceName(M[id].device)),
             Supported(\A a, b \in DOMAIN M : a # b /\ M[a].ip = M[b].ip => M[a].ip = ""),
             Supported(\A id \in DOMAIN M : M[id].gw # "" => M[id].ip # "" /\ M[id].gw # "off-link")>>)

\* An image is known by its digest.  Sysctls are of the one network namespace.
ContainerCapabilities(plan) ==
  LET traits == UNION { k.traits : k \in plan.containers }
  IN First(<<Supported("no-digest" \notin traits), Supported("sysctl-name" \notin traits),
             Supported(~({"sysctl=0", "sysctl=1"} \subseteq traits))>>)

\* A local Link is two interfaces of the Pod, any other one.  The peer stands for
\* all that identifies the other end of a wire.
LinkCapabilities(plan, link) ==
  LET ends == { i \in plan.ifs : i.link = link }
      mode == (CHOOSE i \in ends : TRUE).mode
  IN CASE mode \in {"same-pod", "loopback"} ->
            \E i, j \in ends : /\ ends = {i, j} /\ i # j /\ i.name # j.name
                               /\ 0 \in {i.mtu, j.mtu} \/ i.mtu = j.mtu
                               /\ i.mode = j.mode
                               /\ i.peer = j.node /\ j.peer = i.node
                               /\ (i.mode = "loopback") = (i.node = j.node)
       [] mode = "wire" -> Cardinality(ends) = 1 /\ \A i \in ends : i.peer # ""
       [] mode = "host" -> Cardinality(ends) = 1 /\ \A i \in ends : i.peer = ""
       [] OTHER -> FALSE

InterfaceCapabilities(plan) ==
  First(<<Supported(\A i \in plan.ifs : ValidLinuxInterfaceName(i.name)),
          Supported(\A i, j \in plan.ifs : i # j => i.name # j.name),
          Supported(\A i \in plan.ifs : LinkCapabilities(plan, i.link))>>)

\* The lifecycle actions that a helper of the Pod carries out.
Implemented(plan, a) ==
  LET known == \E f \in plan.files : f.node = a.node /\ f.path = a.x
  IN CASE a.phase = "prepare" -> a.kind = "file" /\ known
       [] a.phase = "preStart" /\ a.kind = "waitInterface" -> \E i \in plan.ifs : a.x = <<i.id>>
       [] a.phase = "preStart" /\ a.kind = "mount" -> a.x[1] = "tmpfs"
       [] a.phase = "postStart" -> \/ a.kind \in {"postDeploy", "exec", "execNoWait", "continue"}
                                   \/ Uses(a) /\ known
       [] OTHER -> <<a.phase, a.kind>> \in {<<"interfaceFixup", "deployEndpoints">>,
                                            <<"readiness", "readiness">>, <<"save", "save">>}

\* Every file is prepared and every interface waited for.
ActionCapabilities(plan) ==
  First(<<Supported(\A f \in plan.files : f.src \in {"generator", "certificate", "payload"}),
          Supported(\A a \in plan.actions : Implemented(plan, a)),
          Supported(\A f \in plan.files :
                      \E a \in plan.actions : /\ a.phase = "prepare" /\ a.kind = "file"
                                              /\ a.node = f.node /\ a.x = f.path),
          Supported(\A i \in plan.ifs :
                      \E a \in plan.actions : a.kind = "waitInterface" /\ a.x = <<i.id>>)>>)

ValidatePlanCapabilities(plan) ==
  First(<<ManagementCapabilities(plan), ContainerCapabilities(plan),
          InterfaceCapabilities(plan), ActionCapabilities(plan)>>)

\* What no Pod can express.  Two mounts of one container may not land on one path.
ValidateNormalizedPlan(plan) ==
  First(<<ValidatePlanCapabilities(plan),
          Supported(\A k \in plan.containers : k.traits \cap {"seccomp", "apparmor"} = {}),
          Supported(\A k \in plan.containers : k.devices # <<>> => "privileged" \in k.traits),
          Supported(\A k \in plan.containers : "device-form" \notin k.traits),
          Supported(\A k, l \in plan.containers :
                      \A d \in Range(k.devices), e \in Range(l.devices) :
                        d.dst = e.dst => d.host = e.host),
          Supported(\A v \in plan.volumes : v.kind = "device" => v.id[3][2] = "dev"),
          Refuse(\E m, n \in plan.mounts : m # n /\ m.c = n.c /\ m.dst = n.dst, "invariant")>>)

-----------------------------------------------------------------------------
(* The parts of a container *)

\* The fields of an SSH probe come together, and with the Secret.
ValidateOptions(opts) ==
  LET ssh(p) == {p.ssh # 0, p.user # "", p.key # ""}
      keyed == \E id \in DOMAIN opts.probes : opts.probes[id].key # ""
  IN First(<<Refuse(opts.bad, "err"),
             Refuse(\E id \in DOMAIN opts.probes : Cardinality(ssh(opts.probes[id])) = 2, "err"),
             Refuse(keyed # ("probe-secret" \in opts.flags), "err")>>)

\* The user is a number; the profiles were found portable before.
RenderSecurity(k) == Refuse("user" \in k.traits, "err")

RenderContainer(k, opts) ==
  First(<<Refuse("cpuset" \in k.traits, "err"),
          Refuse("stop-signal" \in k.traits /\ "stop-signals" \notin opts.flags, "err"),
          Refuse("restart-policy" \in k.traits, "err"),
          RenderSecurity(k),
          Refuse(k.traits \cap {"quantity", "pull-policy", "env-name"} # {}, "err")>>)

\* An OCI healthcheck becomes a readiness probe, and with a start period a
\* startup probe that allows for it before the retries count.
NoProbe == [period |-> 0, failures |-> 0]

CeilDiv(a, b) == (a + b - 1) \div b

RenderHealthcheck(h) ==
  IF h.test = "none" THEN [err |-> "ok", startup |-> NoProbe, readiness |-> NoProbe]
  ELSE LET period == IF h.period = 0 THEN 30 ELSE h.period
           retries == IF h.retries = 0 THEN 3 ELSE h.retries
           readiness == [period |-> period, failures |-> retries]
       IN [err |-> Refuse(h.test = "empty" \/ h.period < 0 \/ h.retries < 0, "err"),
           readiness |-> readiness,
           startup |-> IF h.start = 0 THEN NoProbe
                       ELSE [readiness EXCEPT !.failures = CeilDiv(h.start, period) + retries]]

\* Mutant: the number of probes is rounded down.
ProbesRoundedDown(probes, startupSeconds) ==
  LET readiness == IF probes.readiness = NoProbe THEN [period |-> 10, failures |-> 3]
                   ELSE probes.readiness
      startup == IF probes.startup = NoProbe THEN readiness ELSE probes.startup
      seconds == IF startupSeconds = 0 THEN 900 ELSE startupSeconds
  IN [readiness |-> readiness,
      startup |-> [startup EXCEPT !.failures = Max({@, 1, seconds \div startup.period})]]

\* The kind's own readiness is asked in place of the healthcheck's command, for
\* at least as long as the device is given to start.
ComposeImportedReadinessProbes(probes, startupSeconds) ==
  LET readiness == IF probes.readiness = NoProbe THEN [period |-> 10, failures |-> 3]
                   ELSE probes.readiness
      startup == IF probes.startup = NoProbe THEN readiness ELSE probes.startup
      seconds == IF startupSeconds = 0 THEN 900 ELSE startupSeconds
      need == CeilDiv(seconds, startup.period)
  IN [readiness |-> readiness,
      startup |-> [startup EXCEPT !.failures = Max({@, 1, need})]]

PodMount(vol, sub, path, ro) == [vol |-> vol, sub |-> sub, path |-> path, ro |-> ro]

PlanMounts(plan, k) ==
  { PodMount(m.vol, m.sub, m.dst, m.ro) : m \in { m \in plan.mounts : m.c = k.id } }

DeviceMounts(k) ==
  { PodMount(<<"device", k.id, i>>, <<>>, k.devices[i].dst, FALSE) : i \in DOMAIN k.devices }

\* Pod DNS is one for all the containers that ask for any.
RenderContainers(plan, opts) ==
  First(<<IF \E k \in plan.containers : RenderContainer(k, opts) # "ok" THEN "err" ELSE "ok",
          Refuse(\E k \in plan.containers : RenderHealthcheck(k.health).err # "ok", "err"),
          Refuse(Cardinality({ k.dns : k \in plan.containers } \ {""}) > 1, "err")>>)

\* Artifacts live on the Node's claim if it has one; nothing else persists.
RenderVolumes(plan, opts) ==
  [ id \in { v.id : v \in plan.volumes } |->
     LET v == CHOOSE v \in plan.volumes : v.id = id
     IN IF v.kind = "artifacts" THEN IF v.node \in opts.claims THEN "claim" ELSE "empty"
        ELSE v.kind ]

\* Each payload must be the one that was planned, and be an object that can be
\* mounted, or a URL.
RenderPayloadSources(plan, opts) ==
  LET planned == { f \in plan.files : f.src = "payload" }
  IN First(<<Refuse(\E p \in opts.payloads :
                      ~\E f \in planned : /\ f.ref = p.id /\ f.node = p.node
                                          /\ f.dst = p.dst /\ f.digest = p.digest, "err"),
             Refuse(\E p \in opts.payloads : p.kind \notin {"ConfigMap", "Secret", "URL"}, "err"),
             Refuse(\E f \in planned : ~\E p \in opts.payloads : p.id = f.ref, "err")>>)

-----------------------------------------------------------------------------
(* The lifecycle of the application containers *)

\* The phases whose work is done by the lifecycle binary in the container.
LifecycleAction(a) == a.phase \in {"postStart", "readiness", "save"} \/ a.kind = "mount"

TargetsOf(plan, phase) == { a.c : a \in { a \in plan.actions : a.phase = phase } }

PostDeployTargets(plan) == { a.c : a \in { a \in plan.actions : a.kind = "postDeploy" } }

\* What needs the Node's artifacts: hooks, files and standard input, not execs.
ArtifactTargets(plan) ==
  { a.c : a \in { a \in plan.actions :
                    a.phase \in {"postStart", "save"} /\ a.kind \notin {"exec", "execNoWait", "continue"} } }

\* A tmpfs is mounted by the binary, which needs the right to.
LifecycleTargetsRefused(plan) ==
  LET node(c) == (ContainerOf(plan, c)).node
  IN First(<<Refuse(\E a \in plan.actions :
                      LifecycleAction(a) /\ ~\E k \in plan.containers : k.id = a.c, "err"),
             Refuse(\E a \in plan.actions : LifecycleAction(a) /\ node(a.c) # a.node, "err"),
             Refuse(\E a \in plan.actions :
                      /\ a.kind = "mount"
                      /\ ContainerOf(plan, a.c).traits \cap {"privileged", "SYS_ADMIN"} = {}, "err")>>)

LifecycleRoot == <<"var", "lib", "clabernetes">>

\* What a container gets to see for its lifecycle: its own Node's artifacts,
\* writable for the hooks that write, and no other Node's.
LifecycleMounts(plan, opts, k) ==
  LET post == k.id \in TargetsOf(plan, "postStart")
      ready == k.id \in TargetsOf(plan, "readiness")
      save == k.id \in TargetsOf(plan, "save")
      hook == k.id \in PostDeployTargets(plan)
      at(x) == Append(LifecycleRoot, x)
      when(on, m) == IF on THEN {m} ELSE {}
  IN { PodMount(<<x>>, <<>>, at(x), TRUE) : x \in {"binary", "plan", "peers"} }
     \cup { PodMount(<<"scratch">>, <<>>, at("scratch"), FALSE) }
     \cup when(post \/ ready \/ save, PodMount(<<"input">>, <<>>, at("input"), TRUE))
     \cup when("revision" \in opts.flags /\ post, PodMount(<<"revision">>, <<>>, at("revision"), TRUE))
     \cup when("entropy" \in opts.flags /\ (ready \/ hook \/ save),
               PodMount(<<"entropy">>, <<>>, at("entropy"), TRUE))
     \cup when(ready /\ k.node \in DOMAIN opts.probes /\ opts.probes[k.node].key # "",
               PodMount(<<"probe">>, <<>>, at("probe"), TRUE))
     \cup when(k.id \in ArtifactTargets(plan),
               PodMount(<<"artifacts", k.node>>, <<>>, at("artifacts"), ~hook /\ ~save))
     \cup when(hook /\ k.node \in opts.certified,
               PodMount(<<"certificates", k.node>>, <<>>, at("certificates"), TRUE))
     \cup when(hook /\ "broker" \in opts.flags, PodMount(<<"api">>, <<>>, at("api"), TRUE))

RenderApplicationLifecycle(plan, opts) ==
  First(<<Refuse(\E v, w \in plan.volumes :
                   v # w /\ v.kind = "artifacts" /\ w.kind = "artifacts" /\ v.node = w.node, "err"),
          LifecycleTargetsRefused(plan),
          Refuse(\E k \in plan.containers : \E l \in LifecycleMounts(plan, opts, k) :
                   \E m \in PlanMounts(plan, k) \cup DeviceMounts(k) : m.path = l.path, "err")>>)

\* The private network namespace is entered by the same launch command.
ApplyDeviceNetns(plan, opts) ==
  Refuse("isolation" \in opts.flags /\
         \E k \in plan.containers :
           \/ "pod-uid" \in k.traits
           \/ \E m \in PlanMounts(plan, k) \cup DeviceMounts(k) : m.path = <<"var", "run", "netns">>, "err")

ApplicationContainer(plan, opts, k) ==
  LET probes == RenderHealthcheck(k.health)
      ready == k.id \in TargetsOf(plan, "readiness")
      seconds == IF k.node \in DOMAIN opts.probes THEN opts.probes[k.node].seconds ELSE 0
      all == IF ready THEN ComposeImportedReadinessProbes(probes, seconds) ELSE probes
      netns == { PodMount(<<"netns">>, <<>>, <<"var", "run", "netns">>, FALSE) : x \in opts.flags \cap {"isolation"} }
  IN [mounts |-> LifecycleMounts(plan, opts, k) \cup PlanMounts(plan, k) \cup DeviceMounts(k) \cup netns,
      startup |-> all.startup, readiness |-> all.readiness,
      post |-> k.id \in TargetsOf(plan, "postStart"), ready |-> ready,
      save |-> k.id \in TargetsOf(plan, "save")]

-----------------------------------------------------------------------------
(* The Pod *)

\* The helpers, in the order the kubelet starts them: the gate is first, and
\* preparation has ended before the sidecar begins.
RenderHelpers(opts) ==
  (IF "gate" \in opts.flags THEN <<"startup-gate">> ELSE <<>>)
  \o <<"prepare">>
  \o (IF "isolation" \in opts.flags THEN <<"device-netns">> ELSE <<>>)
  \o <<"connectivity">>

\* Certificates come from a Secret, and are those of the plan's Nodes.
CertificateProjections(plan, opts) ==
  Refuse(\/ opts.certified # {} /\ "certificates" \notin opts.flags
         \/ ~(opts.certified \subseteq DOMAIN plan.nodes), "err")

\* The payloads that are mounted; those of a URL are fetched.
MountedPayloads(opts) == { p \in opts.payloads : p.kind \in {"ConfigMap", "Secret"} }

\* A certified Node's own certificates, for its post-start hook, and those of
\* all the Nodes with endpoint hooks, for the sidecar.
LifecycleCertificateVolumes(opts) == { <<"certificates", id>> : id \in opts.certified }

EndpointCertificateVolume(plan, opts) ==
  IF \E a \in plan.actions : a.kind = "deployEndpoints" /\ a.node \in opts.certified
  THEN {<<"endpoint-certificates">>} ELSE {}

\* What the lifecycle binary needs in the containers, and the log broker.
LifecycleVolumes(opts) ==
  { <<x>> : x \in {"binary", "cache", "scratch"}
                  \cup (IF "broker" \in opts.flags THEN {"api", "credential"} ELSE {}) }

\* The volumes of the Pod besides the plan's own, and the helpers' mounts of them.
PodVolumes(plan, opts) ==
  LET when(flag, name) == IF flag \in opts.flags THEN {name} ELSE {}
      names == {"plan", "input", "state", "peers", "preparation", "host-netns"}
               \cup when("isolation", "netns") \cup when("revision", "revision")
               \cup when("certificates", "certificates") \cup when("entropy", "entropy")
               \cup when("probe-secret", "probe") \cup when("gate", "startup-gate")
  IN { <<x>> : x \in names }
     \cup { <<"payload", p.id>> : p \in MountedPayloads(opts) }
     \cup LifecycleCertificateVolumes(opts) \cup EndpointCertificateVolume(plan, opts)
     \cup LifecycleVolumes(opts)
     \cup UNION { { m.vol : m \in DeviceMounts(k) } : k \in plan.containers }

HelperRoot == <<"var", "run", "clabernetes">>

\* What preparation and the sidecar both see, of all the Nodes.
NodeMounts(plan, opts) ==
  { PodMount(<<"payload", p.id>>, <<>>, HelperRoot \o <<"payloads", p.id>>, TRUE) : p \in MountedPayloads(opts) }
  \cup { PodMount(v.id, <<>>, HelperRoot \o <<"artifacts", v.node>>, FALSE) :
         v \in { v \in plan.volumes : v.kind = "artifacts" } }
  \cup { PodMount(<<x>>, <<>>, Append(HelperRoot, x), TRUE) :
         x \in {"plan", "input"} \cup (opts.flags \cap {"entropy"}) }

\* The devices of all the containers are mounted in the preparation container
\* too: one at each path, and none over its own directories.
PreparationMounts(plan, opts) ==
  LET devices == UNION { DeviceMounts(k) : k \in plan.containers }
      at(path) == CHOOSE d \in devices : d.path = path
  IN NodeMounts(plan, opts)
     \cup { [at(d.path) EXCEPT !.ro = TRUE] : d \in devices }
     \cup { PodMount(<<"preparation">>, <<>>, <<"tmp">>, FALSE),
            PodMount(<<"binary">>, <<>>, Append(LifecycleRoot, "binary"), FALSE),
            PodMount(<<"cache">>, <<>>, Append(LifecycleRoot, "cache"), FALSE) }
     \cup { PodMount(<<x>>, <<>>, Append(HelperRoot, x), TRUE) : x \in opts.flags \cap {"certificates"} }

ConnectivityMounts(plan, opts) ==
  NodeMounts(plan, opts)
  \cup { PodMount(<<x>>, <<>>, Append(HelperRoot, x), x # "state") :
         x \in {"state", "peers", "host-netns"} \cup (opts.flags \cap {"revision"}) }
  \cup { PodMount(<<"netns">>, <<>>, <<"var", "run", "netns">>, FALSE) : x \in opts.flags \cap {"isolation"} }
  \cup UNION { { PodMount(<<"api">>, <<>>, Append(LifecycleRoot, "api"), FALSE),
                 PodMount(<<"credential">>, <<>>, <<"var", "run", "secrets", "kubernetes.io", "serviceaccount">>, TRUE) } :
               x \in opts.flags \cap {"broker"} }
  \cup { PodMount(v, <<>>, Append(HelperRoot, "certificates"), TRUE) :
         v \in EndpointCertificateVolume(plan, opts) }

HelperMounts(plan, opts, name) ==
  CASE name = "prepare" -> PreparationMounts(plan, opts)
    [] name = "connectivity" -> ConnectivityMounts(plan, opts)
    [] name = "startup-gate" -> {PodMount(<<name>>, <<>>, <<"var", "run", "c9s-startup">>, TRUE)}
    [] OTHER -> {PodMount(<<"netns">>, <<>>, <<"var", "run", "netns">>, FALSE)}

\* Names besides the Pod's own that resolve to a Node's management address.
RenderHostAliases(plan, opts) ==
  LET named == { id \in DOMAIN plan.mgmt : plan.mgmt[id].ip # "" }
      names == (named \ {opts.name})
      rids == { k \in plan.containers : k.node \in named /\ k.rid \notin names \cup {opts.name} }
  IN { <<plan.mgmt[id].ip, id>> : id \in names } \cup { <<plan.mgmt[k.node].ip, k.rid>> : k \in rids }

Render(plan, opts) ==
  LET err == First(<<ValidatePlan(plan), ValidateOptions(opts), ValidateNormalizedPlan(plan),
                     RenderPayloadSources(plan, opts), CertificateProjections(plan, opts),
                     RenderContainers(plan, opts),
                     RenderApplicationLifecycle(plan, opts), ApplyDeviceNetns(plan, opts),
                     Refuse("broker" \in opts.flags /\ "service-account" \notin opts.flags, "err"),
                     Refuse(~Distinct(PreparationMounts(plan, opts), LAMBDA m : m.path), "err")>>)
  IN IF err # "ok" THEN [err |-> err]
     ELSE [err |-> "ok",
           pod |-> [init |-> RenderHelpers(opts), volumes |-> RenderVolumes(plan, opts),
                    own |-> PodVolumes(plan, opts),
                    helpers |-> [name \in Range(RenderHelpers(opts)) |-> HelperMounts(plan, opts, name)],
                    containers |-> [id \in { k.id : k \in plan.containers } |->
                                      ApplicationContainer(plan, opts, ContainerOf(plan, id))],
                    aliases |-> RenderHostAliases(plan, opts),
                    replicas |-> IF "stopped" \in opts.flags THEN 0 ELSE 1]]

\* The command that saves a Node's configuration, for the container of its save
\* action and no other.
ApplicationSaveCommand(plan, c) ==
  \E k \in plan.containers :
    /\ k.id = c
    /\ c \in plan.nodes[k.node].cs
    /\ Cardinality({ a \in plan.actions : a.kind = "save" /\ a.node = k.node /\ a.c = c }) = 1
=============================================================================
