-------------------------- MODULE ReactionRegisters --------------------------
(***************************************************************************)
(* What message:react promises about the reactions of one message: each    *)
(* member has a register that holds at most one emoji, and a request that  *)
(* no other of its member overlaps toggles it in one step, if it succeeds  *)
(* as far as that, whatever others do meanwhile. Of requests of one member *)
(* that overlap each leaves the register at its emoji, empty or as it was. *)
(* Module Reactions implements this specification.                         *)
(***************************************************************************)
CONSTANTS Task, Member, Emoji, None

VARIABLES
    reaction,  \* [Member -> Emoji \cup {None}]
    request    \* what each task has under way

Idle == [stage |-> "idle", user |-> None, emoji |-> None, alone |-> FALSE]

Rivals(u) == {t \in Task : request[t].stage # "idle" /\ request[t].user = u}

Init ==
    /\ reaction = [u \in Member |-> None]
    /\ request = [t \in Task |-> Idle]

(* The next stage is given twice, for TLC to see it sooner.                *)
Begin(t, u, e) ==
    /\ request[t].stage = "idle" /\ request'[t].stage = "open"
    /\ request' = [s \in Task |->
                     IF s = t THEN [stage |-> "open", user |-> u, emoji |-> e,
                                    alone |-> Rivals(u) = {}]
                     ELSE IF s \in Rivals(u) THEN [request[s] EXCEPT !.alone = FALSE]
                     ELSE request[s]]
    /\ UNCHANGED reaction

(* What request q may leave in its member's register, which holds e        *)
Outcomes(q, e) ==
    IF q.emoji = None THEN {e}
    ELSE IF q.alone THEN {IF e = q.emoji THEN None ELSE q.emoji}
    ELSE {e, q.emoji, None}

TakeEffect(t) ==
    /\ request[t].stage = "open"
    /\ \E e \in Outcomes(request[t], reaction[request[t].user]) :
          reaction' = [reaction EXCEPT ![request[t].user] = e]
    /\ request' = [request EXCEPT ![t].stage = "done"]

(* It ends, before it has taken effect only by failing.                    *)
Finish(t) ==
    /\ request[t].stage # "idle"
    /\ request' = [request EXCEPT ![t] = Idle]
    /\ UNCHANGED reaction

Next ==
    \E t \in Task : \/ \E u \in Member, e \in Emoji \cup {None} : Begin(t, u, e)
                    \/ TakeEffect(t) \/ Finish(t)

Spec == Init /\ [][Next]_<<reaction, request>>
=============================================================================
