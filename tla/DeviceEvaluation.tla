-------------------------- MODULE DeviceEvaluation --------------------------
(***************************************************************************)
(* How a device's containerlab package is evaluated without running it     *)
(* (internal/deviceplan/adapter.go): every lifecycle hook of every Node of *)
(* the Pod is run against the recording runtime in a scratch lab           *)
(* directory, and what it recorded and wrote is the evaluation.            *)
(*                                                                         *)
(* An input is a record: ver (the version of the definitions), nodes (a    *)
(* sequence ordered by name), images, payloads, mgmt (what was allocated   *)
(* to each Node), ifs and certs.  A Node has its id, the id of its group's *)
(* owner or "", its kind and its definition def.  The kind is external: a  *)
(* record with one hook per lifecycle step.  A definition's less common    *)
(* features are a set of strings, traits.                                  *)
(*                                                                         *)
(* An early return of the code is an element of a sequence of outcomes, of *)
(* which the first that is not "ok" counts.                                *)
(***************************************************************************)
EXTENDS ImportedRuntime, FiniteSetsExt

Refuse(bad, code) == IF bad THEN code ELSE "ok"

First(codes) ==
  LET bad == { i \in DOMAIN codes : codes[i] # "ok" }
  IN IF bad = {} THEN "ok" ELSE codes[Min(bad)]

Codes == {"invalid-input", "missing-input", "unsupported", "invariant", "side-effect"}

\* An error the package did not type itself gets the code of the step.
HookOutcome(err, code) == IF err = "ok" \/ err \in Codes THEN err ELSE code

NodeOf(in, id) == CHOOSE n \in Range(in.nodes) : n.id = id

PayloadsOf(in, id) == { p \in in.payloads : p.node = id }

NoManagement == [ip |-> "", gw |-> "", ifname |-> "", dns |-> "", ports |-> {}]

\* managementForNode: a Node without an allocation has none.
ManagementForNode(in, id) == IF id \in DOMAIN in.mgmt THEN in.mgmt[id] ELSE NoManagement

\* The digest of an input: all that distinguishes the inputs of one device.
InputDigest(in) == <<in.ver, in.mgmt, in.ifs>>

-----------------------------------------------------------------------------
(* The definition of a Node *)

DecodeNodeDefinition(n) ==
  First(<<Refuse("undecodable" \in n.def.traits, "invalid-input"),
          Refuse("kind-differs" \in n.def.traits, "invalid-input"),
          Refuse("type-differs" \in n.def.traits, "invalid-input"),
          Refuse("password" \in n.def.traits, "unsupported")>>)

\* The strings of a definition that may name a payload.  (A bind is one string
\* that holds two paths, and is not rewritten.)  Text that is no path is <<"text">>.
StringLeaves(def) == {def.startup, def.license}

Text == <<"text">>

\* The payloads the definition names must be projected, whole and unchanged.
\* What is projected for a payload p is proj[p.id], or <<>>.
RewriteExplicitPayloadPaths(in, n, proj) ==
  LET own == PayloadsOf(in, n.id)
      named == { p \in own : p.dst \in StringLeaves(n.def) }
  IN First(<<Refuse(\E p, q \in own : p.dst = q.dst /\ p.id # q.id, "invalid-input"),
             Refuse(\E p \in named : p.kind = "Inline", "missing-input"),
             Refuse(\E p \in named : proj[p.id] = <<>>, "missing-input"),
             Refuse(\E p \in named : proj[p.id] # p.digest, "invariant")>>)

NodeConfigFromDefinition(n) ==
  First(<<Refuse("link-apply-mode" \in n.def.traits, "invalid-input"),
          Refuse("kind-config" \in n.def.traits /\ ~n.kind.config, "invalid-input")>>)

\* The startup configuration a definition gives: text of its own, or a payload.
Startup(in, n) ==
  IF n.def.startup = Text THEN <<"text", in.ver>>
  ELSE LET named == { p \in PayloadsOf(in, n.id) : p.dst = n.def.startup }
       IN IF named = {} THEN <<>> ELSE (CHOOSE p \in named : TRUE).digest

\* Text of a definition becomes a file of the lab directory.
MaterializeEmbeddedStartupConfig(in, n, files) ==
  IF n.def.startup = Text THEN With(files, <<"lab", "embedded">>, Startup(in, n)) ELSE files

\* A payload keeps the ".partial" that its declared name had.
PreserveStartupConfigPartialMarker(in, n, files) ==
  IF "partial" \in n.def.traits /\ n.def.startup # Text /\ Startup(in, n) # <<>>
  THEN With(files, <<"lab", "partial">>, Startup(in, n)) ELSE files

\* What the kind's hooks see of the management network: the interface is the
\* kind's own unless one was allocated, and DNS of the definition wins.
ApplyManagementInput(in, n) ==
  LET m == ManagementForNode(in, n.id)
  IN [m EXCEPT !.ifname = IF @ = "" THEN n.kind.ifname ELSE @,
               !.dns = IF n.def.netmode # "" THEN "" ELSE
                       IF n.def.dns # "" THEN n.def.dns ELSE @]

-----------------------------------------------------------------------------
(* Running the hooks of a Node *)

Env(in, n, key) ==
  [ver |-> in.ver, mgmt |-> ApplyManagementInput(in, n), startup |-> Startup(in, n), key |-> key]

\* An evaluation in progress: the outcome so far, the entropy session and the
\* recorder of each Node.
RecordHookWith(in, s, n, hook, read) ==
  [s EXCEPT !.session = read.session,
            !.rt[n.id] = RunRecorded(Env(in, n, read.key), @, hook)]

RecordHook(in, s, n, behavior, hook) ==
  RecordHookWith(in, s, n, hook, EntropyReader(s.session, n.id, behavior))

Failed(s, code) == [s EXCEPT !.err = IF @ = "ok" THEN code ELSE @]

\* The hook's error counts before the recorder's, or after it.
HookThenRecorder(s, n, code) ==
  Failed(s, First(<<HookOutcome(s.rt[n.id].err, code), s.rt[n.id].failure>>))

HookAlone(s, n, code) == Failed(s, HookOutcome(s.rt[n.id].err, code))

RecorderThenHook(s, n, code) ==
  Failed(s, First(<<s.rt[n.id].failure, HookOutcome(s.rt[n.id].err, code)>>))

\* The kind may refuse an interface, or give it another name.
EvaluateInterfaces(in, n) ==
  Refuse(\E i \in in.ifs : i.node = n.id /\ i.name \in n.kind.refuses, "invalid-input")

ImportedInterfaceName(n, name) ==
  IF name \in DOMAIN n.kind.ifmap THEN n.kind.ifmap[name] ELSE name

ValidateImageInputs(in, n) ==
  Refuse(\E r \in n.kind.images : r # "" /\ <<n.id, r>> \notin in.images, "missing-input")

\* The images the recorder knows are those of all the Nodes of the input.
ImagesOf(in) == { i[2] : i \in in.images }

\* What a Node's Init and definition give.  Image discovery evaluates it
\* before the images are known, and asks for those that Init missed.
InitializeNode(in, s, n, requireImages) ==
  LET files == PreserveStartupConfigPartialMarker(in, n,
                 MaterializeEmbeddedStartupConfig(in, n, NoFiles))
      rt == [NewRecordingRuntime(ImagesOf(in), files) EXCEPT !.allowMissing = ~requireImages]
  IN RecordHook(in, [s EXCEPT !.rt = With(@, n.id, rt)], n, "init", n.kind.init)

InitializedNode(in, s, n, requireImages) ==
  IF s.rt[n.id].err # "ok" /\ ~requireImages /\ s.rt[n.id].missing # {}
  THEN Failed(s, "image-metadata-required")
  ELSE Failed(HookThenRecorder(s, n, "invalid-input"),
              First(<<EvaluateInterfaces(in, n),
                      IF requireImages THEN ValidateImageInputs(in, n) ELSE "ok",
                      Refuse(n.kind.noConfig, "invariant")>>))

EvaluateNode(in, s, n, proj, requireImages) ==
  Then(Failed(s, First(<<Refuse(~n.kind.registered, "invalid-input"), DecodeNodeDefinition(n),
                         RewriteExplicitPayloadPaths(in, n, proj), NodeConfigFromDefinition(n)>>)),
       LAMBDA t : InitializedNode(in, InitializeNode(in, t, n, requireImages), n, requireImages))

\* One step for every Node in turn, until one fails.
ForEachNode(in, s, step(_, _)) ==
  FoldLeft(LAMBDA t, n : Then(t, LAMBDA u : step(u, n)), s, in.nodes)

RecordDeploymentConditions(in, s) ==
  ForEachNode(in, s, LAMBDA t, n :
    RecorderThenHook(RecordHook(in, t, n, "deployment-conditions", n.kind.conditions),
                     n, "unsupported"))

RecordPreparations(in, s) ==
  ForEachNode(in, s, LAMBDA t, n :
    Then(HookAlone(RecordHook(in, t, n, "startup-config", n.kind.verify), n, "missing-input"),
         LAMBDA v : RecorderThenHook(RecordHook(in, v, n, "pre-deploy", n.kind.pre),
                                     n, "unsupported")))

\* GetContainers: what the kind itself calls the containers of the Node.
ImportedContainerInventory(n, rt) ==
  First(<<rt.failure,
          Refuse(n.kind.inventory = <<>>, "invariant"),
          Refuse(\E i \in DOMAIN n.kind.inventory :
                   \/ ~KnownContainer(rt, n.kind.inventory[i])
                   \/ \E j \in 1 .. i - 1 : n.kind.inventory[j] = n.kind.inventory[i],
                 "invariant")>>)

\* A deployment that created no container is refused later, by the mapper.
TakeInventory(s, n) ==
  IF s.rt[n.id].containers = <<>> THEN s ELSE Failed(s, ImportedContainerInventory(n, s.rt[n.id]))

RecordDeployments(in, s) ==
  LET hook(t, n, behavior, h) ==
        HookThenRecorder(RecordHook(in, t, n, behavior, h), n, "unsupported")
  IN ForEachNode(in, s, LAMBDA t, n :
       Then(Then(Then(hook([t EXCEPT !.rt[n.id].recording = TRUE], n, "image-pull", n.kind.pull),
                      LAMBDA u : hook(u, n, "deploy", n.kind.deploy)),
                 LAMBDA u : hook(u, n, "runtime-info", n.kind.update)),
            LAMBDA u : TakeInventory(u, n)))

\* A package may leave regular files, directories and links, nothing else.
ScanGeneratedArtifacts(in) ==
  Refuse(\E n \in Range(in.nodes) : n.kind.leavesDevice, "unsupported")

\* The files of every lab directory after preparation, and at the end.
Files(s) == [id \in DOMAIN s.rt |-> s.rt[id].files]

CapturePreparationArtifacts(s) == [s EXCEPT !.prepared = Files(s)]

\* The certificates the packages asked for, mounted and as they were accepted.
MountedCertificates(in) ==
  First(<<Refuse(in.certs = "unavailable", "missing-input"),
          Refuse(in.certs = "differs", "invariant")>>)

EvaluateInWorkspace(in, session, proj, checkConditions) ==
  LET started == [err |-> "ok", session |-> session, rt |-> NoFiles, prepared |-> NoFiles]
      initialized(s) == Failed(ForEachNode(in, s, LAMBDA t, n : EvaluateNode(in, t, n, proj, TRUE)),
                               MountedCertificates(in))
      conditions(s) == IF checkConditions THEN RecordDeploymentConditions(in, s) ELSE s
      prepared(s) == Failed(RecordPreparations(in, s), ScanGeneratedArtifacts(in))
      deployed(s) == Failed(RecordDeployments(in, s), ScanGeneratedArtifacts(in))
  IN deployed(CapturePreparationArtifacts(prepared(conditions(initialized(started)))))

Evaluate(in, proj, checkConditions) ==
  EvaluateInWorkspace(in, BeginEntropy(InputDigest(in)), proj, checkConditions)

-----------------------------------------------------------------------------
(***************************************************************************)
(* In the Pod the management facts nobody allocated are completed: the     *)
(* interface the plan recorded, and the Pod's own resolver.                *)
(***************************************************************************)
CompleteRuntimeManagement(in, plan, podDNS) ==
  [in EXCEPT !.mgmt = [id \in DOMAIN in.mgmt |->
     [in.mgmt[id] EXCEPT !.ifname = IF @ # "" THEN @ ELSE
                                    IF id \in DOMAIN plan.mgmt THEN plan.mgmt[id].ifname ELSE "",
                         !.dns = IF @ = "" THEN podDNS ELSE @]]]
=============================================================================
