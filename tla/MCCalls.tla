------------------------------ MODULE MCCalls ------------------------------
(* Instances of Calls for TLC. *)
EXTENDS Calls, TLC

CONSTANTS u1, u2, u3, d1, d2, d2b, d3, v1, v2, c1, c2, t1, t2

(* Two users in one private conversation, the callee with two devices.     *)
PairOwner == (d1 :> u1) @@ (d2 :> u2) @@ (d2b :> u2)
PairMembers == (v1 :> {u1, u2})

(* A third user, with a conversation of his own with the callee: an id may *)
(* then stand for a call of somebody else's.                               *)
ThirdOwner == (d1 :> u1) @@ (d2 :> u2) @@ (d3 :> u3)
ThirdMembers == (v1 :> {u1, u2}) @@ (v2 :> {u2, u3})

(* Several calls at once: the sockets of `there' are up before the first   *)
(* invite and may be lost then, no other comes; pushes and announced rows, *)
(* which no handler reads, are left to the instance with one call.         *)
Racing(there) ==
    /\ IF \A t \in Task : invite[t].stage = "unused"
       THEN /\ closing' = {}
            /\ invite' # invite =>
                   \A d \in Device : link[d] = IF d \in there THEN "up" ELSE "down"
       ELSE \A d \in Device : link'[d] \in {link[d], "down"}
    /\ \A t \in Task : invite'[t].stage # "done" /\ history'[t].stage # "done"

RaceSpec == Init /\ [][Next /\ Racing(Device)]_vars

(* Either t1 is the only invite, with both devices of the callee and       *)
(* everything else; or t2 comes first and races with t1, with one device   *)
(* each. Racing never stops a ring timer.                                  *)
PairStep ==
    /\ Next
    /\ \/ invite'[t2].stage = "unused"
       \/ /\ invite[t2].stage = "unused" => invite[t1].stage = "unused"
          /\ Racing({d1, d2})

PairSpec == Init /\ [][PairStep]_vars /\ Fairness

CallSymmetry == Permutations(CallId) \cup Permutations(Task)
=============================================================================
