------------------------------ MODULE MCSidecar ------------------------------
(* Instances of Sidecar: plans, peer directories, and what happens to them. *)
EXTENDS Sidecar

If(id, link, name, kind, peer, host) ==
  [id |-> id, link |-> link, name |-> name, kind |-> kind, peer |-> peer, host |-> host,
   mode |-> "live"]

Loop(link, first, second) ==
  {If(10 * link + 1, link, first, "local", "self", "none"),
   If(10 * link + 2, link, second, "local", "self", "none")}

Wire(link, name, peer) == {If(10 * link + 1, link, name, "wire", peer, "none")}
HostLink(link, name, host) == {If(10 * link + 1, link, name, "host", "host", host)}

\* One plan of every flavor; the wire goes to another peer and to another Link;
\* the loop is rewired.
Flavors == Loop(1, "e1", "e2") \cup Wire(2, "e3", "b") \cup HostLink(3, "e4", "h1")
Rewired == Loop(1, "e1", "e5") \cup Wire(2, "e3", "c") \cup HostLink(3, "e4", "h1")
Moved == Wire(4, "e3", "b") \cup HostLink(5, "e4", "h2")

AWorld(plans, edits, mesh, dirs, talks, acts, crashes, fails, flaky, resolves) ==
  [cold |-> "sections", plans |-> plans, edits |-> edits, mesh |-> mesh, dirs |-> dirs,
   talks |-> talks, acts |-> acts, crashes |-> crashes, fails |-> fails, flaky |-> flaky,
   resolves |-> resolves]

Peers(b, c) == [q \in {"b", "c"} |-> IF q = "b" THEN b ELSE c]
Still == <<Peers(1, 2)>>
Growing == <<Peers(1, 0), Peers(1, 2), Peers(3, 0)>>

Lives ==
  {\* Live changes of the Links of a Pod, with crashes and failures
   AWorld(<<Flavors, Rewired, Moved>>, 2, FALSE, Still, {}, {}, 0, 1, 0, FALSE),
   AWorld(<<Flavors, Wire(2, "e3", "b")>>, 1, FALSE, Still, {}, {"adopt"}, 0, 1, 0, TRUE),
   AWorld(<<Flavors, Rewired>>, 1, FALSE, Still, {}, {}, 2, 0, 0, TRUE),
   \* The interposition, with crashes and failures
   AWorld(<<{}>>, 0, TRUE, Still, {"b"}, {}, 2, 0, 0, TRUE),
   AWorld(<<{}>>, 0, TRUE, Still, {"b"}, {}, 1, 1, 0, TRUE),
   \* What the device does
   AWorld(<<{}>>, 0, TRUE, Still, {}, {"strip", "down", "rename"}, 0, 0, 0, TRUE),
   AWorld(<<{}>>, 0, TRUE, Still, {}, {"rename", "strip", "routes"}, 0, 0, 0, TRUE),
   AWorld(<<{}>>, 0, TRUE, Still, {"b"}, {"move", "flush", "ruleset"}, 0, 0, 0, TRUE),
   AWorld(<<Wire(2, "e3", "b")>>, 0, TRUE, Still, {}, {"rules", "sysctls", "kubelet"}, 0, 0, 0, FALSE),
   \* The peer directory grows and shrinks, and is not always readable
   AWorld(<<{}>>, 0, TRUE, Growing, {"b", "c"}, {"mtu"}, 0, 0, 1, TRUE),
   AWorld(<<{}>>, 0, TRUE, Growing, {"b", "c"}, {}, 1, 0, 0, TRUE)}
=============================================================================
