--------------------------- MODULE CallLifecycle ---------------------------
(***************************************************************************)
(* What the signalling server promises about the calls it starts, whatever *)
(* the interleaving of its handlers: a call rings once, may be answered    *)
(* while it rings, and is over then for good; and it never rings forever.  *)
(* A call may ring in the place of another, which it ends. Module Calls    *)
(* implements this specification.                                          *)
(***************************************************************************)
CONSTANT Call

VARIABLE status   \* [Call -> {"unknown", "ringing", "active", "over"}]

Init == status = [c \in Call |-> "unknown"]

Ring(c) ==
    /\ status[c] = "unknown"
    /\ status' = [status EXCEPT ![c] = "ringing"]

Replace(c, e) ==
    /\ status[c] = "unknown"
    /\ status[e] \in {"ringing", "active"}
    /\ status' = [status EXCEPT ![c] = "ringing", ![e] = "over"]

Answer(c) ==
    /\ status[c] = "ringing"
    /\ status' = [status EXCEPT ![c] = "active"]

Finish(c) ==
    /\ status[c] \in {"ringing", "active"}
    /\ status' = [status EXCEPT ![c] = "over"]

StopRinging(c) == status[c] = "ringing" /\ (Answer(c) \/ Finish(c))

Next == \E c \in Call : Ring(c) \/ Answer(c) \/ Finish(c) \/ \E e \in Call : Replace(c, e)

SafeSpec == Init /\ [][Next]_status

Spec == SafeSpec /\ \A c \in Call : WF_status(StopRinging(c))
=============================================================================
