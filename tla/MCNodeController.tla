-------------------------- MODULE MCNodeController --------------------------
EXTENDS NodeController

\* What happens in a behaviour, how often, and which caches are behind meanwhile.
AWorld(kinds, left, lag) == [kinds |-> kinds, left |-> left, lag |-> lag, tokens |-> 0]

Lives ==
    {AWorld({"link"}, 1, {"cms"}),
     AWorld({"link", "drift"}, 2, {}),
     AWorld({"spec", "link"}, 2, {}),
     AWorld({"run"}, 2, {"dep", "pod"}),
     AWorld({"restart"}, 2, {"pod"}),
     AWorld({"profile"}, 2, {"inputs"}),
     AWorld({"unready", "link"}, 2, {"pod"}),
     AWorld({"join"}, 1, {"node", "dep"}),
     AWorld({"drift"}, 1, {"dep", "cms"}),
     AWorld({"link", "error"}, 2, {}),
     AWorld({"link", "crash"}, 2, {"inputs"}),
     AWorld({"input"}, 1, {"cms"}),
     AWorld({"spec", "sweep"}, 2, {"node"})}

=============================================================================
