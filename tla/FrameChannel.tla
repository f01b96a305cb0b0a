---------------------------- MODULE FrameChannel ----------------------------
(***************************************************************************)
(* What a link of the fabric wire promises to the devices at its ends: a   *)
(* channel that may lose, repeat and reorder frames, but neither invents   *)
(* nor mixes them.  The promise ends when the link is moved to another     *)
(* peer address in the middle of a frame.                                  *)
(***************************************************************************)
VARIABLES
    sent,    \* frames offered by the far end
    got,     \* frames the near end saw
    broken   \* the link was moved in the middle of a frame

vars == <<sent, got, broken>>

Init == sent = {} /\ got = {} /\ broken = FALSE

Send ==
    /\ \E f \in sent' : sent' = sent \cup {f}
    /\ UNCHANGED <<got, broken>>

Deliver(f) ==
    /\ got' = got \cup {f}
    /\ UNCHANGED <<sent, broken>>

Break ==
    /\ broken' = TRUE
    /\ UNCHANGED <<sent, got>>

\* Anything may come out of a broken channel.
Garble ==
    /\ broken
    /\ got \subseteq got'
    /\ UNCHANGED <<sent, broken>>

Next == Send \/ (\E f \in sent : Deliver(f)) \/ Break \/ Garble

Spec == Init /\ [][Next]_vars
=============================================================================
