----------------------------- MODULE ReportLife -----------------------------
(***************************************************************************)
(* What a report job promises: it is asked for once; a sensitive one waits *)
(* for a second user; a queued one has MaxAttempts exports, each of which  *)
(* generates it or uses up an attempt; generated and given up are final.   *)
(* ReportQueue is shown to implement this.  The one way out is "lost": a   *)
(* call wrote over a change it had not seen; a review is never lost.       *)
(***************************************************************************)
EXTENDS Integers

CONSTANTS Jobs, Users, MaxAttempts

VARIABLE life       \* per job: where it is, who acted, the attempts left

None == [phase |-> "none"]
Lost == [phase |-> "lost"]

Init == life = [j \in Jobs |-> None]

Ask(j, phase, background, user) ==
    /\ life[j] = None
    /\ phase = "queued" => background
    /\ phase = "generated" => ~background
    /\ life' = [life EXCEPT ![j] = [phase |-> phase, background |-> background,
                                    by |-> user, reviewer |-> "nobody", left |-> MaxAttempts]]

Approve(j, user) ==
    /\ life[j].phase = "pending_review"
    /\ user # life[j].by
    /\ life' = [life EXCEPT
          ![j].phase = IF life[j].background THEN "queued" ELSE "generated",
          ![j].reviewer = user]

Export(j) ==
    /\ life[j].phase = "queued" /\ life[j].left > 0
    /\ life' = [life EXCEPT ![j].phase = "generated", ![j].left = life[j].left - 1]

Fail(j) ==
    /\ life[j].phase = "queued" /\ life[j].left > 0
    /\ life' = [life EXCEPT ![j].phase = IF life[j].left = 1 THEN "failed" ELSE "queued",
                            ![j].left = life[j].left - 1]

Lose(j) ==
    /\ life[j].phase \in {"queued", "generated", "failed"}
    /\ life' = [life EXCEPT ![j] = Lost]

Next ==
    \E j \in Jobs :
        \/ \E phase \in {"pending_review", "queued", "generated"},
              background \in BOOLEAN, user \in Users : Ask(j, phase, background, user)
        \/ \E user \in Users : Approve(j, user)
        \/ Export(j) \/ Fail(j) \/ Lose(j)

Spec == Init /\ [][Next]_life
=============================================================================
