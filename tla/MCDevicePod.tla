----------------------------- MODULE MCDevicePod -----------------------------
(***************************************************************************)
(* Worlds for DevicePod: package hooks as the imported kinds have them,    *)
(* one Node or a group of two, and few edits, writes and crashes.          *)
(***************************************************************************)
EXTENDS DevicePod

Call(op, c, from, x, dst) == [op |-> op, c |-> c, from |-> from, x |-> x, dst |-> dst, soft |-> FALSE]
Softly(call) == [call EXCEPT !.soft = TRUE]
Hook(calls) == [calls |-> calls, result |-> "ok"]
Nothing == Hook(<<>>)
Write(from, x) == Call("write", "", from, x, "")
WriteOnce(from, x) == Call("write", "", from, x, "absent")
Create(c) == <<Call("CreateContainer", c, "", "", ""), Call("StartContainer", c, "", "", "")>>

NoHealthcheck == [test |-> "none", period |-> 0, retries |-> 0, start |-> 0]

Plain == [image |-> "image", netmode |-> "", binds |-> <<>>, tmpfs |-> {}, shm |-> "", ports |-> {},
          devices |-> <<>>, health |-> NoHealthcheck, traits |-> {}]

Bind(src, dst, opt) == [src |-> src, dst |-> dst, opt |-> opt]

\* A kind that keeps a configuration in its lab directory, as most do.
Kind(c) ==
  [registered |-> TRUE, config |-> TRUE, name |-> c, certs |-> FALSE, ifname |-> "eth0",
   init |-> Nothing, conditions |-> Nothing, verify |-> Nothing,
   pre |-> Hook(<<WriteOnce("config", "cfg")>>), pull |-> Hook(<<Call("PullImage", "image", "", "", "")>>),
   deploy |-> Hook(Create(c)), update |-> Nothing, inventory |-> <<c>>, images |-> {"image"},
   refuses |-> {}, ifmap |-> NoFiles, noConfig |-> FALSE, leavesDevice |-> FALSE,
   configs |-> With(NoFiles, c, [Plain EXCEPT !.binds = <<Bind(<<"lab", "cfg">>, <<"cfg">>, "rw")>>]),
   post |-> Nothing, endpoints |-> Nothing, postEndpoints |-> Nothing, save |-> Nothing,
   savedElsewhere |-> FALSE, healthy |-> Nothing]

NoDefinition == [traits |-> {}, startup |-> <<>>, license |-> <<>>, binds |-> <<>>, netmode |-> "",
                 dns |-> "", mgmt |-> "", enforce |-> FALSE, ports |-> {}, exec |-> <<>>]

Node(id, kind) == [id |-> id, owner |-> "", kind |-> kind, def |-> NoDefinition]

Address(ip) == [NoManagement EXCEPT !.ip = ip, !.gw = "gw"]

Input(ver, nodes) ==
  [ver |-> ver, traits |-> {}, nodes |-> nodes, images |-> { <<n.id, "image">> : n \in Range(nodes) },
   payloads |-> {}, mgmt |-> NoFiles, ifs |-> {}, certs |-> "mounted"]

Options == [claims |-> {}, certified |-> {}, payloads |-> {}, probes |-> NoFiles, flags |-> {"gate"}, name |-> "a", bad |-> FALSE]

NoFaults == [writes |-> 0, crashes |-> 0, tears |-> 0, resets |-> 0, saves |-> 0, fails |-> 0]

World(inputs) ==
  [inputs |-> inputs, opts |-> Options, dns |-> "", boot |-> 0, reflink |-> "direct", others |-> <<>>,
   cached |-> Absent, staged |-> Absent, left |-> NoFaults]

A == Node("a", Kind("a"))

Versions(nodes) == <<Input(1, nodes), Input(2, nodes)>>

Persistent == [World(Versions(<<A>>)) EXCEPT !.opts.claims = {"a"}, !.opts.flags = {}]

\* A device that writes its configuration, edits and crashes.
Kept == [Persistent EXCEPT !.left = [NoFaults EXCEPT !.writes = 1, !.crashes = 2, !.tears = 1]]

\* The same for a kind that writes its configuration at every deployment.
Rewriting == [Kept EXCEPT !.inputs = Versions(<<[A EXCEPT !.kind.pre = Hook(<<Write("config", "cfg")>>)]>>)]

\* Its state is reset, twice, and a ledger is torn.
Reset == [Persistent EXCEPT !.inputs = <<Head(@)>>,
            !.left = [NoFaults EXCEPT !.writes = 1, !.crashes = 1, !.tears = 1, !.resets = 2]]

WithDef(n, def) == [n EXCEPT !.def = def]

\* Startup configuration that is part of the definition, and enforced.
Enforced == [Persistent EXCEPT
  !.inputs = Versions(<<WithDef(A, [NoDefinition EXCEPT !.startup = Text, !.enforce = TRUE])>>),
  !.left = [NoFaults EXCEPT !.writes = 1, !.crashes = 1]]

\* Startup configuration in a payload that is edited, and a bind of a directory.
Payload(ver) == [id |-> "p", node |-> "a", kind |-> "ConfigMap", dst |-> <<"conf", "startup.partial">>,
                 digest |-> <<"payload", ver>>]

Licence(n) == WithDef(n, [NoDefinition EXCEPT !.startup = <<"conf", "startup.partial">>, !.traits = {"partial"},
                            !.binds = <<Bind(<<"conf">>, <<"etc", "opt">>, "ro")>>])

Edited(ver) == [Input(ver, <<Licence(A)>>) EXCEPT !.payloads = {Payload(ver)}]

PayloadEdited ==
  [Persistent EXCEPT !.inputs = <<Edited(1), Edited(2)>>,
     !.left = [NoFaults EXCEPT !.writes = 1, !.crashes = 1]]

\* A deployment that does everything a package may do to its container, with
\* the management network of the Pod, and a hook the appliance takes time for.
Busy == [Kind("a") EXCEPT
  !.pre = Hook(<<WriteOnce("config", "cfg"), Write("management", "mgmt")>>),
  !.deploy = Hook(Create("a") \o <<Call("copy", "a", "lab", "mgmt", "/mgmt"), Call("copy", "a", "config", "x", "/x"),
                                   Call("hosts", "a", "config", "h", ""), Call("stdin", "a", "config", "i", ""),
                                   Call("exec", "a", "config", "e", ""), Call("execNoWait", "a", "config", "f", "")>>),
  !.post = Hook(<<Call("exec", "a", "config", "p", ""), Call("copy", "a", "lab", "cfg", "/cfg"),
                  Call("StreamLogs", "a", "", "", ""), WriteOnce("config", "done")>>),
  !.endpoints = Hook(<<Call("GetNSPath", "a", "", "", ""), Softly(Call("PullImage", "other", "", "", ""))>>),
  !.healthy = Hook(<<Call("IsHealthy", "a", "", "", "")>>),
  !.save = Hook(<<Call("exec", "a", "config", "s", ""), Write("running", "cfg")>>)]

Managed(in) == [in EXCEPT !.mgmt = With(NoFiles, "a", [Address("ip1") EXCEPT !.ports = {22}])]

Deployed == [Persistent EXCEPT
  !.inputs = <<Managed(Input(1, <<WithDef([A EXCEPT !.kind = Busy], [NoDefinition EXCEPT !.exec = <<<<"user">>>>])>>))>>,
  !.dns = "resolver", !.boot = 1,
  !.left = [NoFaults EXCEPT !.writes = 1, !.crashes = 1, !.saves = 1, !.fails = 1]]

\* A deployment that copies the file the device writes to.
Copied == [Persistent EXCEPT
  !.inputs = Versions(<<[A EXCEPT !.kind.deploy = Hook(Create("a") \o <<Call("copy", "a", "lab", "cfg", "/cfg")>>)]>>),
  !.left = [NoFaults EXCEPT !.writes = 1, !.crashes = 1]]

\* Bytes drawn at random: once, anew in every replay, or in a command.
Random(hook, deploy) == [Persistent EXCEPT
  !.inputs = <<Managed(Input(1, <<[A EXCEPT !.kind.pre = hook, !.kind.deploy = Hook(Create("a") \o deploy)]>>))>>,
  !.dns = "resolver", !.left = [NoFaults EXCEPT !.crashes = 1]]

Randoms == <<Random(Hook(<<WriteOnce("random", "cfg")>>), <<>>),
             Random(Hook(<<Write("random", "cfg")>>), <<>>),
             Random(Nothing, <<Call("exec", "a", "random", "e", "")>>)>>

\* A group of two Nodes in one network namespace, of which one persists.
B == [WithDef(Node("b", [Kind("b") EXCEPT !.endpoints = Hook(<<Call("GetNSPath", "a", "", "", "")>>)]),
              [NoDefinition EXCEPT !.netmode = "a"]) EXCEPT !.owner = "a"]

Link(id, node, peer, name) ==
  [id |-> id, node |-> node, name |-> name, link |-> "link", mode |-> "same-pod", peer |-> peer, mtu |-> 0]

Group == [World(Versions(<<A, B>>)) EXCEPT
  !.inputs = [i \in DOMAIN @ |-> [Managed(@[i]) EXCEPT !.ifs = {Link(1, "a", "b", "eth1"), Link(2, "b", "a", "eth2")}]],
  !.opts = [@ EXCEPT !.claims = {"b"}, !.flags = {"gate", "isolation"}],
  !.left = [NoFaults EXCEPT !.writes = 1, !.crashes = 1]]

\* Hooks that ask for what no Pod can do, and devices that never come up.
Impossible == [World(<<Input(1, <<[A EXCEPT !.kind.post = Hook(<<Softly(Call("StreamEvents", "", "", "", ""))>>)]>>)>>)
               EXCEPT !.left = [NoFaults EXCEPT !.crashes = 1]]
Slow == [World(<<Input(1, <<A>>)>>) EXCEPT !.boot = 3]
Booting == [World(<<Input(1, <<A>>)>>) EXCEPT !.boot = 2]

\* The shared cache of the binary, as another Pod and its predecessors left it.
Cached(reflink, cached, staged) ==
  [World(<<Input(1, <<A>>)>>) EXCEPT !.reflink = reflink, !.cached = cached, !.staged = staged, !.others = <<2>>,
     !.left = [NoFaults EXCEPT !.crashes = 2]]

\* Three versions at once, of which the cache keeps two.
Crowded(cached) ==
  [Cached("cache", cached, Absent) EXCEPT !.others = <<2, 3>>, !.left = [NoFaults EXCEPT !.crashes = 1]]

Caches == <<Cached("cache", Absent, Absent), Cached("cache", Partial, Partial), Cached("cache", 1, Absent),
            Cached("cache", Unsafe, Absent), Cached("none", Absent, Partial), Cached("direct", Absent, Absent),
            [Cached("cache", Partial, Partial) EXCEPT !.others = <<1>>], Crowded(Absent), Crowded(1)>>

\* A kind with two containers, and all that a Pod can be given.
Two == [Kind("a") EXCEPT
  !.deploy = Hook(Create("a") \o Create("a-1") \o <<Call("exec", "a", "config", "e", "")>>),
  !.inventory = <<"a", "a-1">>, !.certs = TRUE, !.ifmap = With(NoFiles, "port1", "eth1"),
  !.configs = With(With(NoFiles, "a",
      [Plain EXCEPT !.binds = <<Bind(<<"lab", "cfg">>, <<"cfg">>, "ro"), Bind(<<"host", "dev", "kvm">>, <<"dev", "kvm">>, "rw")>>,
                    !.tmpfs = {[dst |-> <<"run">>, opt |-> "exec", runtime |-> TRUE]}, !.shm = "64m",
                    !.devices = <<[host |-> "/dev/net/tun", dst |-> <<"dev", "net", "tun">>]>>,
                    !.ports = {80}, !.traits = {"privileged"},
                    !.health = [test |-> "cmd", period |-> 7, retries |-> 0, start |-> 100]]),
    "a-1", [Plain EXCEPT !.netmode = "a", !.health = [test |-> "cmd", period |-> 0, retries |-> 2, start |-> 0]])]

Rich == [World(<<[Managed(Input(1, <<[A EXCEPT !.kind = Two]>>)) EXCEPT
                    !.ifs = {[id |-> 1, node |-> "a", name |-> "port1", link |-> "w", mode |-> "wire", peer |-> "z", mtu |-> 9000]}]>>) EXCEPT
  !.dns = "resolver",
  !.opts.probes = With(NoFiles, "a", [seconds |-> 1000, tcp |-> 80, ssh |-> 22, user |-> "u", key |-> "k"]),
  !.opts.certified = {"a"},
  !.opts.flags = {"gate", "isolation", "entropy", "revision", "certificates", "probe-secret", "broker", "service-account"}]

\* Inputs that are refused, each for a reason of its own, and a last one that
\* is not.
Def(field, value) == <<[A EXCEPT !.def = [NoDefinition EXCEPT ![field] = value]]>>
Having(traits) == <<[A EXCEPT !.def.traits = traits]>>
Config1(field, value) == <<[A EXCEPT !.kind.configs["a"][field] = value]>>
Hooked(hook, calls) == <<[A EXCEPT !.kind[hook] = Hook(calls)]>>

FlawedNodes ==
  <<<<>>, <<A, A>>, <<[A EXCEPT !.owner = "b"]>>, <<[A EXCEPT !.kind.registered = FALSE]>>,
    Having({"undecodable"}), Having({"password"}), Having({"link-apply-mode"}), Having({"runtime"}),
    Having({"bad-exec"}), Def("mgmt", "ip9"), Def("netmode", "b"), Def("enforce", TRUE),
    Def("binds", <<Bind(<<"conf">>, <<"etc", "hosts">>, "")>>), Def("binds", <<Bind(<<"conf">>, <<"x">>, "z")>>),
    Def("binds", <<Bind(<<"none">>, <<"x">>, "")>>),
    <<[A EXCEPT !.kind.inventory = <<>>]>>, <<[A EXCEPT !.kind.noConfig = TRUE]>>,
    <<[A EXCEPT !.kind.leavesDevice = TRUE]>>, <<[A EXCEPT !.kind.images = {"other"}]>>,
    Hooked("init", <<Call("CreateNet", "", "", "", "")>>), Hooked("conditions", <<Softly(Call("exec", "a", "config", "e", ""))>>),
    Hooked("pre", <<Call("CreateContainer", "a", "", "", "")>>), Hooked("deploy", <<>>),
    Hooked("deploy", <<Call("CreateContainer", "a", "", "", "")>>),
    Hooked("deploy", Create("a") \o <<Call("copy", "a", "lab", "none", "/x")>>),
    <<[A EXCEPT !.kind.deploy.result = "panic"]>>, <<[A EXCEPT !.kind.verify.result = "err"]>>,
    <<[A EXCEPT !.kind = [Two EXCEPT !.deploy = Hook(Create("a") \o Create("a-1") \o <<Call("exec", "a-1", "config", "e", "")>>)]]>>,
    Config1("netmode", "z"), Config1("traits", {"pid-mode"}), Config1("traits", {"seccomp"}), Config1("traits", {"cpuset"}),
    Config1("traits", {"no-digest"}), Config1("traits", {"sysctl-name"}), Config1("traits", {"privileged", "device-form"}),
    Config1("binds", <<Bind(<<"lab", "cfg">>, <<"cfg">>, "nocopy")>>),
    Config1("binds", <<Bind(<<"host", "srv", "x">>, <<"x">>, "ro")>>),
    Config1("binds", <<Bind(<<"lab", "cfg">>, <<"x">>, "ro"), Bind(<<"lab", "cfg">>, <<"x">>, "rw")>>),
    Config1("binds", <<Bind(<<"lab", "cfg">>, <<"var", "lib", "clabernetes", "plan">>, "ro")>>),
    Config1("tmpfs", {[dst |-> <<"run">>, opt |-> "exec", runtime |-> TRUE]}), Config1("shm", "malformed"),
    Config1("devices", <<[host |-> "/dev/kvm", dst |-> <<"dev", "kvm">>]>>),
    Config1("health", [NoHealthcheck EXCEPT !.test = "empty"]), Config1("image", "other")>>

End(name, mode, peer) == [id |-> name, node |-> "a", name |-> name, link |-> "l", mode |-> mode, peer |-> peer, mtu |-> 0]

FlawedParts ==
  LET in == Input(1, <<A>>)
      ends(E) == [in EXCEPT !.ifs = E]
      payload(p) == [in EXCEPT !.payloads = {p}]
  IN <<[in EXCEPT !.traits = {"schema"}], [in EXCEPT !.images = {<<"z", "image">>}], [in EXCEPT !.images = {}],
       [in EXCEPT !.certs = "unavailable"], [in EXCEPT !.certs = "differs"], [in EXCEPT !.certs = "foreign"],
       [in EXCEPT !.certs = "repeated"], [in EXCEPT !.mgmt = With(NoFiles, "a", [Address("ip1") EXCEPT !.ports = {0}])],
       [in EXCEPT !.mgmt = With(NoFiles, "a", NoManagement)],
       [in EXCEPT !.mgmt = With(NoFiles, "a", [Address("ip1") EXCEPT !.gw = "off-link"])],
       [in EXCEPT !.mgmt = With(NoFiles, "z", Address("ip1"))],
       payload([Payload(1) EXCEPT !.dst = <<"etc", "resolv.conf">>]), payload([Payload(1) EXCEPT !.kind = "Inline"]),
       ends({End("not/portable", "wire", "z")}), ends({End("eth1", "wire", "")}), ends({End("eth1", "host", "z")}),
       ends({End("eth1", "same-pod", "a")}), ends({End("eth1", "loopback", "a"), [End("eth2", "loopback", "a") EXCEPT !.mtu = 9000]}), ends({End("eth1", "vxlan", "z")})>>

Refused == World([i \in DOMAIN FlawedNodes |-> Input(i, FlawedNodes[i])] \o FlawedParts \o <<Input(99, <<A>>)>>)

Lives == <<Kept, Rewriting, Reset, Enforced, PayloadEdited, Deployed, Copied, Group, Impossible, Slow, Booting, Rich, Refused>>
         \o Randoms \o Caches
=============================================================================
