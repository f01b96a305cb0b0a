----------------------------- MODULE DevicePlan -----------------------------
(***************************************************************************)
(* The plan of a device Pod: what internal/deviceplan/mapper.go makes of   *)
(* an evaluation, and what internal/deviceplan/codec.go accepts as an      *)
(* input and as a plan.                                                    *)
(*                                                                         *)
(* A path inside a container is the sequence of its elements.  The         *)
(* configuration a kind creates a container with is kind.configs[c]: its   *)
(* image, netmode ("" or the container whose namespaces it shares), the    *)
(* binds the kind adds, tmpfs, shm, ports, devices, healthcheck and        *)
(* traits.  Directories, owners, modes and extended attributes of files    *)
(* are left out; a file is regular or, when its content is <<"link", t>>,  *)
(* a symbolic link.                                                        *)
(***************************************************************************)
EXTENDS DeviceEvaluation

-----------------------------------------------------------------------------
(* The input *)

\* Two members of a list have the same identifier.
Twice(seq) == \E i, j \in DOMAIN seq : i < j /\ seq[i].id = seq[j].id

ValidateInputNodes(in) ==
  LET ids == { n.id : n \in Range(in.nodes) }
  IN First(<<Refuse(in.traits # {}, "invalid-input"),
             Refuse(in.nodes = <<>>, "missing-input"),
             Refuse(Twice(in.nodes), "invalid-input"),
             Refuse(\E n \in Range(in.nodes) : n.owner # "" /\ n.owner \notin ids, "missing-input"),
             Refuse(\E i \in in.images : i[1] \notin ids, "missing-input")>>)

ValidateInputPayloads(in) ==
  LET ids == { n.id : n \in Range(in.nodes) }
  IN First(<<Refuse(\E p \in in.payloads : p.node \notin ids \/ p.dst = <<>>, "invalid-input"),
             Refuse(\E p, q \in in.payloads : p # q /\ p.id = q.id, "invalid-input"),
             Refuse(\E p \in in.payloads : p.kind \notin {"ConfigMap", "Secret", "URL", "Inline"},
                    "unsupported"),
             Refuse(\E p \in in.payloads : p.kind = "Inline" /\ p.digest = <<>>, "missing-input")>>)

\* The certificates that were issued are of the input's Nodes, and complete.
ValidateInputCertificates(in) ==
  First(<<Refuse(in.certs = "foreign", "missing-input"),
          Refuse(in.certs \in {"incomplete", "repeated"}, "invalid-input")>>)

\* An allocation of inbound ports alone is none.
ValidateInputNetwork(in) ==
  LET ids == { n.id : n \in Range(in.nodes) }
  IN First(<<Refuse(DOMAIN in.mgmt \ ids # {}, "invalid-input"),
             Refuse(\E id \in DOMAIN in.mgmt : [in.mgmt[id] EXCEPT !.ports = {}] = NoManagement,
                    "invalid-input"),
             Refuse(\E id \in DOMAIN in.mgmt : ~(in.mgmt[id].ports \subseteq 1 .. 65535),
                    "invalid-input"),
             Refuse(\E i \in in.ifs : i.node \notin ids, "invalid-input"),
             Refuse(\E i, j \in in.ifs : i # j /\ i.id = j.id, "invalid-input")>>)

ValidateInput(in) ==
  First(<<ValidateInputNodes(in), ValidateInputPayloads(in), ValidateInputCertificates(in),
          ValidateInputNetwork(in)>>)

-----------------------------------------------------------------------------
(* The containers *)

Config(n, c) == n.kind.configs[c]

ContainersOf(ev, n) == ev.rt[n.id].containers

\* A Node's only container is its primary one; several are told apart by name.
ContainerID(ev, n, c) == IF Len(ContainersOf(ev, n)) = 1 THEN <<n.id, "primary">> ELSE <<n.id, c>>

\* Which Node recorded a container.
Recorders(in, ev, c) == { n \in Range(in.nodes) : c \in Range(ContainersOf(ev, n)) }

\* Deploy has created a container, and started each one it created.
ValidateRecordedContainers(ev, n) ==
  First(<<Refuse(ContainersOf(ev, n) = <<>>, "unsupported"),
          Refuse(Range(ContainersOf(ev, n)) # ev.rt[n.id].started, "invariant")>>)

IndexRecordedContainers(in, ev) ==
  First([i \in DOMAIN in.nodes |-> ValidateRecordedContainers(ev, in.nodes[i])]
        \o <<Refuse(\E n \in Range(in.nodes) : \E c \in Range(ContainersOf(ev, n)) :
                     Recorders(in, ev, c) # {n}, "invariant")>>)

\* Hooks run in the container the kind itself names, or in the first.
PrimaryRuntimeID(ev, n) ==
  LET cs == ContainersOf(ev, n) IN IF n.kind.name \in Range(cs) THEN n.kind.name ELSE cs[1]

PrimaryContainer(ev, n) == ContainerID(ev, n, PrimaryRuntimeID(ev, n))

\* "container:c" shares with c; else a member of a group shares with its owner.
NamespaceOwnerForContainer(in, ev, n, c) ==
  LET shared == Config(n, c).netmode
      of == Recorders(in, ev, shared)
  IN IF shared # ""
       THEN IF of = {} THEN <<>> ELSE ContainerID(ev, CHOOSE m \in of : TRUE, shared)
     ELSE IF n.owner # ""
       THEN LET m == NodeOf(in, n.owner) IN ContainerID(ev, m, ContainersOf(ev, m)[1])
     ELSE ContainerID(ev, n, c)

-----------------------------------------------------------------------------
(* What a definition may ask for *)

Unmapped == {"config", "env-files", "runtime", "stages", "credentials"}

\* Management addresses of the definition are the controller's to allocate.
ValidateDefinitionManagement(in, n) ==
  Refuse(n.def.mgmt # "" /\ n.def.mgmt # ManagementForNode(in, n.id).ip, "missing-input")

ValidateDefinitionNetworkMode(n) ==
  IF n.def.netmode = "" THEN "ok"
  ELSE First(<<Refuse(n.owner = "", "missing-input"), Refuse(n.def.netmode # n.owner, "invariant")>>)

ValidateMappedDefinition(in, n) ==
  First(<<ValidateDefinitionManagement(in, n),
          ValidateDefinitionNetworkMode(n),
          Refuse(n.def.traits \cap Unmapped # {}, "unsupported"),
          Refuse(n.def.enforce /\ n.def.startup = <<>>, "invalid-input"),
          Refuse(n.def.enforce /\ "suppress" \in n.def.traits, "invalid-input")>>)

MapReadinessContainerIDs(ev, n) ==
  First(<<Refuse(\E c \in Range(n.kind.inventory) : c \notin Range(ContainersOf(ev, n)),
                 "invariant"),
          Refuse(n.kind.inventory = <<>>, "invariant")>>)

ImageInputForContainer(in, n, c) ==
  Refuse(<<n.id, Config(n, c).image>> \notin in.images, "missing-input")

MapSecurity(n, c) ==
  Refuse(Config(n, c).traits \cap {"devices", "security-opts"} # {}, "unsupported")

\* Entry points, devices, security options, ports and sizes that have no form
\* in a Pod; a container's ports are its image's and its definition's.
MapContainer(n, c) ==
  First(<<Refuse(Config(n, c).traits \cap
                 {"auto-remove", "pid-mode", "cgroupns-mode", "entrypoint", "command"} # {},
                 "unsupported"),
          MapSecurity(n, c),
          Refuse("ports" \in n.def.traits \/ "memory" \in Config(n, c).traits, "unsupported")>>)

PortsOf(n, c) == Config(n, c).ports \cup n.def.ports

-----------------------------------------------------------------------------
(* Storage *)

ReservedFiles ==
  { <<"etc", "hosts">>, <<"etc", "hostname">>, <<"etc", "resolv.conf">>, <<"dev", "termination-log">> }
ReservedTrees ==
  { <<"var", "lib", "clabernetes">>, <<"var", "run", "clabernetes">>,
    <<"var", "run", "secrets", "kubernetes.io", "serviceaccount">> }

ReservedContainerPath(p) == p \in ReservedFiles \/ \E t \in ReservedTrees : IsPrefix(t, p)

Mount(c, id, vol, sub, dst, ro) ==
  [c |-> c, id |-> id, vol |-> vol, sub |-> sub, dst |-> dst, ro |-> ro]

ArtifactsVolume(n) == <<"artifacts", n.id>>

\* A bind of the definition: every payload at or below its source.
UserBindMounts(in, n, c, i) ==
  LET b == n.def.binds[i]
      suffix(p) == SubSeq(p.dst, Len(b.src) + 1, Len(p.dst))
  IN { Mount(c, <<"bind", i, p.id>>, ArtifactsVolume(n), <<"payload", p.id>>,
             b.dst \o suffix(p), TRUE) :
       p \in { p \in PayloadsOf(in, n.id) : IsPrefix(b.src, p.dst) } }

AppendUserBindPlan(in, n, c, i) ==
  LET b == n.def.binds[i]
  IN First(<<Refuse(b.opt \notin {"", "ro", "rw"}, "unsupported"),
             Refuse(ReservedContainerPath(b.dst), "unsupported"),
             Refuse(UserBindMounts(in, n, c, i) = {}, "unsupported")>>)

\* A bind the kind adds: from its lab directory, or a device of the host.
ImportedBindVolume(n, b) ==
  IF b.src[1] = "lab" THEN ArtifactsVolume(n) ELSE <<"host", n.id, b.src>>

ImportedBindMount(n, c, i, b) ==
  Mount(c, <<"imported", i>>, ImportedBindVolume(n, b),
        IF b.src[1] = "lab" THEN b.src ELSE <<>>, b.dst, b.opt = "ro")

\* Options a tmpfs volume cannot express are mounted again before the start.
TmpfsVolume(c, t) == <<"tmpfs", c, t.dst>>

\* The user's binds belong to the Node's first container.
DefinitionBinds(ev, n, c) == IF c = ContainersOf(ev, n)[1] THEN n.def.binds ELSE <<>>

AppendStoragePlans(in, ev, n, c) ==
  LET id == ContainerID(ev, n, c)
      k == Config(n, c)
  IN First(<<Refuse(DefinitionBinds(ev, n, c) # <<>> /\ "rewrites-binds" \in k.traits, "invariant")>>
           \o [i \in DOMAIN DefinitionBinds(ev, n, c) |-> AppendUserBindPlan(in, n, id, i)]
           \o [i \in DOMAIN k.binds |->
                Refuse(k.binds[i].opt \notin {"", "ro", "rw", "shared", "slave"}, "unsupported")]
           \o <<Refuse(\E t \in k.tmpfs : t.opt = "malformed", "unsupported"),
                Refuse(k.shm = "malformed", "unsupported")>>)

VolumesOf(ev, n, c) ==
  LET id == ContainerID(ev, n, c)
      k == Config(n, c)
  IN { [id |-> ImportedBindVolume(n, k.binds[i]), node |-> n.id,
        kind |-> IF k.binds[i].src[1] = "lab" THEN "artifacts" ELSE "device"] :
       i \in DOMAIN k.binds }
     \cup { [id |-> TmpfsVolume(id, t), node |-> n.id, kind |-> "memory"] : t \in k.tmpfs }
     \cup { [id |-> <<"shm", id>>, node |-> n.id, kind |-> "memory"] : x \in {k.shm} \ {""} }

MountsOf(in, ev, n, c) ==
  LET id == ContainerID(ev, n, c)
      k == Config(n, c)
  IN UNION { UserBindMounts(in, n, id, i) : i \in DOMAIN DefinitionBinds(ev, n, c) }
     \cup { ImportedBindMount(n, id, i, k.binds[i]) : i \in DOMAIN k.binds }
     \cup { Mount(id, <<"tmpfs", t.dst>>, TmpfsVolume(id, t), <<>>, t.dst, t.opt = "ro") :
            t \in k.tmpfs }
     \cup { Mount(id, <<"shm">>, <<"shm", id>>, <<>>, <<"dev", "shm">>, FALSE) :
            x \in {k.shm} \ {""} }

-----------------------------------------------------------------------------
(* Files *)

ArtifactKind(content) == IF content[1] = "link" THEN "symlink" ELSE "regular"

GeneratedArtifactPlans(ev, n) ==
  { [id |-> <<n.id, p>>, node |-> n.id, path |-> p, dst |-> <<>>,
     src |-> IF n.kind.certs THEN "certificate" ELSE "generator",
     \* what the preparation hook left alone since, or the deployment hook wrote
     ref |-> IF p \in DOMAIN ev.prepared[n.id] /\ ev.prepared[n.id][p] = ev.rt[n.id].files[p]
             THEN "imported-prepare" ELSE "imported-lifecycle",
     kind |-> ArtifactKind(ev.rt[n.id].files[p]), digest |-> ev.rt[n.id].files[p]] :
    p \in DOMAIN ev.rt[n.id].files }

PayloadPlans(in, n) ==
  { [id |-> <<n.id, <<"payload", p.id>>>>, node |-> n.id, path |-> <<"payload", p.id>>,
     dst |-> p.dst, src |-> "payload", ref |-> p.id, kind |-> "regular", digest |-> p.digest] :
    p \in PayloadsOf(in, n.id) }

AppendPayloadPlans(in, n) ==
  Refuse(\E p \in PayloadsOf(in, n.id) : ReservedContainerPath(p.dst), "unsupported")

\* A payload is mounted where it says, unless a bind put it there already.
PayloadMounts(in, ev, n) ==
  LET c == PrimaryContainer(ev, n)
      binds == UNION { MountsOf(in, ev, n, d) : d \in Range(ContainersOf(ev, n)) }
  IN { Mount(c, <<"payload", p.id>>, ArtifactsVolume(n), <<"payload", p.id>>, p.dst, TRUE) :
       p \in { p \in PayloadsOf(in, n.id) :
                 ~\E b \in binds : /\ b.c = c /\ b.dst = p.dst
                                   /\ b.vol = ArtifactsVolume(n)
                                   /\ b.sub = <<"payload", p.id>> } }

-----------------------------------------------------------------------------
(* Actions *)

Action(phase, kind, order, n, c, x, dst) ==
  [phase |-> phase, kind |-> kind, order |-> order, node |-> n.id, c |-> c,
   x |-> x, dst |-> dst]

Uses(op) == op.kind \in {"copy", "append", "stdin"}

\* What Deploy did is done again after the start, in its order, but only in
\* the container the kind names.
AppendRecordedDeploymentActions(ev, n) ==
  LET rt == ev.rt[n.id]
  IN First([i \in DOMAIN rt.ops |->
       First(<<Refuse(ContainerID(ev, n, rt.ops[i].c) # PrimaryContainer(ev, n), "unsupported"),
               Refuse(Uses(rt.ops[i]) /\ rt.ops[i].x \notin DOMAIN rt.files, "invariant")>>)])

RecordedActions(ev, n) ==
  LET ops == ev.rt[n.id].ops
  IN { Action("postStart", ops[i].kind, i - 1, n, ContainerID(ev, n, ops[i].c),
              ops[i].x, ops[i].dst) : i \in DOMAIN ops }

\* The user's commands come after the kind's own hook.
AppendExecActions(n) == Refuse("bad-exec" \in n.def.traits, "unsupported")

ExecActions(ev, n, base) ==
  { Action("postStart", "continue", base + i, n, PrimaryContainer(ev, n), n.def.exec[i], "") :
    i \in DOMAIN n.def.exec }

LifecycleActions(in, ev, n) ==
  LET c == PrimaryContainer(ev, n)
      k == Len(ev.rt[n.id].ops)
  IN RecordedActions(ev, n) \cup ExecActions(ev, n, k)
     \cup { Action("postStart", "postDeploy", k, n, c, <<>>, ""),
            Action("interfaceFixup", "deployEndpoints", 0, n, c, <<>>, ""),
            Action("readiness", "readiness", 0, n, c, <<>>, ""),
            Action("save", "save", 0, n, c, <<>>, "") }

FileActions(ev, n, files) ==
  { Action("prepare", "file", 0, n, <<>>, f.path, "") : f \in files }

RuntimeMounts(ev, n) ==
  UNION { LET id == ContainerID(ev, n, c)
          IN { Action("preStart", "mount", 0, n, id, <<"tmpfs", t.dst>>, "") :
               t \in { t \in Config(n, c).tmpfs : t.runtime } } :
          c \in Range(ContainersOf(ev, n)) }

-----------------------------------------------------------------------------
(* Management and interfaces *)

\* A Node with an address and a gateway of its own gets its management port
\* from the sidecar; every other Node uses the Pod's.
Interposed(in, n) ==
  LET m == ManagementForNode(in, n.id) IN m.ip # "" /\ m.gw # "" /\ n.def.netmode = ""

\* The Node's own ports are translated to its address; a port declared inbound
\* is too, unless a container of a Node that was mapped before has it.
InboundPorts(in, ev, n) ==
  LET before == { m \in Range(SubSeq(in.nodes, 1, CHOOSE i \in DOMAIN in.nodes : in.nodes[i] = n)) :
                    m # n }
      portsOf(m) == UNION { PortsOf(m, c) : c \in Range(ContainersOf(ev, m)) }
  IN portsOf(n)
     \cup (ManagementForNode(in, n.id).ports \ UNION { portsOf(m) : m \in before })

\* A Node's management entry is there even if nothing was allocated to it.
AppendManagementPlan(in, ev, n) ==
  LET m == ManagementForNode(in, n.id)
      ifname == ApplyManagementInput(in, n).ifname
  IN IF Interposed(in, n)
     THEN [ifname |-> "", sel |-> "interposed", ip |-> m.ip, gw |-> m.gw,
           device |-> IF ifname = "" THEN "eth0" ELSE ifname,
           ports |-> InboundPorts(in, ev, n)]
     ELSE [ifname |-> ifname, sel |-> IF ifname = "" THEN "transport" ELSE "",
           ip |-> m.ip, gw |-> m.gw, device |-> "", ports |-> {}]

AppendInterfacePlans(in, ev, n) ==
  { [id |-> i.id, node |-> n.id, name |-> ImportedInterfaceName(n, i.name),
     link |-> i.link, mode |-> i.mode, peer |-> i.peer, mtu |-> i.mtu,
     ns |-> NamespaceOwnerForContainer(in, ev, n, PrimaryRuntimeID(ev, n))] :
    i \in { i \in in.ifs : i.node = n.id } }

WaitActions(ev, n, ifs) ==
  { Action("preStart", "waitInterface", 0, n, PrimaryContainer(ev, n), <<i.id>>, "") : i \in ifs }

-----------------------------------------------------------------------------
(* The plan *)

AppendEvaluatedNode(in, ev, n) ==
  LET cs == ContainersOf(ev, n)
      container(c) ==
        First(<<Refuse(NamespaceOwnerForContainer(in, ev, n, c) = <<>>, "missing-input"),
                ImageInputForContainer(in, n, c), MapContainer(n, c),
                AppendStoragePlans(in, ev, n, c)>>)
  IN First(<<ValidateMappedDefinition(in, n), MapReadinessContainerIDs(ev, n)>>
           \o [i \in DOMAIN cs |-> container(cs[i])]
           \o <<AppendPayloadPlans(in, n), AppendRecordedDeploymentActions(ev, n),
                AppendExecActions(n)>>)

ContainerPlan(in, ev, n, c) ==
  [id |-> ContainerID(ev, n, c), node |-> n.id, rid |-> c,
   ns |-> NamespaceOwnerForContainer(in, ev, n, c), image |-> Config(n, c).image,
   ports |-> PortsOf(n, c), devices |-> Config(n, c).devices, dns |-> n.def.dns,
   health |-> Config(n, c).health, traits |-> Config(n, c).traits]

MappedPlan(in, ev) ==
  LET nodes == Range(in.nodes)
      each(part(_)) == UNION { part(n) : n \in nodes }
      files(n) == GeneratedArtifactPlans(ev, n) \cup PayloadPlans(in, n)
      ifs(n) == AppendInterfacePlans(in, ev, n)
      cs(n) == Range(ContainersOf(ev, n))
  IN [digest |-> InputDigest(in),
      nodes |-> [id \in { n.id : n \in nodes } |->
        LET n == NodeOf(in, id)
        IN [cs |-> { ContainerID(ev, n, c) : c \in cs(n) },
            ready |-> { ContainerID(ev, n, c) : c \in Range(n.kind.inventory) },
            primary |-> PrimaryContainer(ev, n), enforce |-> n.def.enforce]],
      containers |-> each(LAMBDA n : { ContainerPlan(in, ev, n, c) : c \in cs(n) }),
      files |-> each(files),
      volumes |-> each(LAMBDA n : {[id |-> ArtifactsVolume(n), node |-> n.id, kind |-> "artifacts"]}
                                  \cup UNION { VolumesOf(ev, n, c) : c \in cs(n) }),
      mounts |-> each(LAMBDA n : PayloadMounts(in, ev, n)
                                 \cup UNION { MountsOf(in, ev, n, c) : c \in cs(n) }),
      mgmt |-> [id \in { n.id : n \in nodes } |-> AppendManagementPlan(in, ev, NodeOf(in, id))],
      ifs |-> each(ifs),
      actions |-> each(LAMBDA n : LifecycleActions(in, ev, n) \cup FileActions(ev, n, files(n))
                                  \cup RuntimeMounts(ev, n) \cup WaitActions(ev, n, ifs(n)))]

ContainerOf(plan, id) == CHOOSE k \in plan.containers : k.id = id

\* Container ports, mount paths and interface names that a plan may not repeat
\* or leave open, and actions that must find what they are about.
ValidateActionPayload(plan, a) ==
  LET file == { f \in plan.files : f.node = a.node /\ f.path = a.x }
  IN CASE a.kind \in {"file", "stdin"} -> file # {}
       [] a.kind \in {"copy", "append"} ->
            a.dst # "" /\ \E f \in file : f.kind = "regular"
       [] a.kind = "mount" ->
            \E m \in plan.mounts : /\ m.id = a.x /\ m.c = a.c
                                    /\ \E v \in plan.volumes : v.id = m.vol /\ v.kind = "memory"
       [] a.kind = "waitInterface" -> \E i \in plan.ifs : <<i.id>> = a.x
       [] OTHER -> a.c # <<>>

\* "interposed" stands exactly for a contract, and a contract for an address.
ValidateManagementInterposition(m) ==
  /\ (m.sel = "interposed") = (m.device # "")
  /\ m.sel = "interposed" => m.ip # "" /\ m.gw # ""

\* No two of S have the same key.
Distinct(S, key(_)) == \A x, y \in S : key(x) = key(y) => x = y

ValidatePlanContainers(plan) ==
  LET ids == { k.id : k \in plan.containers }
  IN First(<<Refuse(\E id \in DOMAIN plan.nodes : plan.nodes[id].ready = {}, "invalid-input"),
             Refuse(~Distinct(plan.containers, LAMBDA k : k.rid), "invariant"),
             Refuse(\E k \in plan.containers : k.ns \notin ids, "invariant"),
             Refuse(\E id \in DOMAIN plan.nodes :
                      \/ \E c \in plan.nodes[id].cs : ContainerOf(plan, c).node # id
                      \/ ~(plan.nodes[id].ready \subseteq plan.nodes[id].cs), "invariant")>>)

ValidatePlanFiles(plan) ==
  First(<<Refuse(\E f \in plan.files : f.kind = "symlink" /\ f.src = "payload", "invalid-input"),
          Refuse(~Distinct(plan.files, LAMBDA f : f.id), "invariant")>>)

ValidatePlanStorage(plan) ==
  First(<<Refuse(~Distinct(plan.volumes, LAMBDA v : v.id), "invariant"),
          Refuse(\E m \in plan.mounts : m.dst = <<>>, "invalid-input"),
          Refuse(\E m \in plan.mounts : \/ ~\E k \in plan.containers : k.id = m.c
                                        \/ ~\E v \in plan.volumes : v.id = m.vol, "invariant"),
          Refuse(~Distinct(plan.mounts, LAMBDA m : <<m.c, m.id>>), "invariant")>>)

ValidatePlanManagement(plan) ==
  First(<<Refuse(\E id \in DOMAIN plan.mgmt : (plan.mgmt[id].ifname = "") # (plan.mgmt[id].sel # ""),
                 "invalid-input"),
          Refuse(\E id \in DOMAIN plan.mgmt : ~ValidateManagementInterposition(plan.mgmt[id]),
                 "invalid-input")>>)

ValidatePlanInterfaces(plan) ==
  First(<<Refuse(\E i \in plan.ifs : ~\E k \in plan.containers : k.id = i.ns, "invariant"),
          Refuse(~Distinct(plan.ifs, LAMBDA i : i.id), "invariant")>>)

ValidatePlanActions(plan) ==
  First(<<Refuse(\E a \in plan.actions : a.c # <<>> /\ ~\E k \in plan.containers : k.id = a.c,
                 "invariant"),
          Refuse(\E a \in plan.actions : ~ValidateActionPayload(plan, a), "invariant")>>)

ValidatePlan(plan) ==
  First(<<ValidatePlanContainers(plan), ValidatePlanFiles(plan), ValidatePlanStorage(plan),
          ValidatePlanManagement(plan), ValidatePlanInterfaces(plan), ValidatePlanActions(plan)>>)

ValidatedPlan(plan) == [err |-> ValidatePlan(plan), plan |-> plan]

\* The Nodes are appended to the plan one by one, until one cannot be.
MapEvaluation(in, ev) ==
  Then(Then([err |-> IndexRecordedContainers(in, ev)],
            LAMBDA indexed : [err |-> First([i \in DOMAIN in.nodes |->
                                              AppendEvaluatedNode(in, ev, in.nodes[i])])]),
       LAMBDA mapped : ValidatedPlan(MappedPlan(in, ev)))

\* Plan: the evaluation of a valid input, mapped and validated.
Plan(in, proj) ==
  Then([err |-> ValidateInput(in)],
       LAMBDA valid : Then(Evaluate(in, proj, TRUE), LAMBDA ev : MapEvaluation(in, ev)))
=============================================================================
