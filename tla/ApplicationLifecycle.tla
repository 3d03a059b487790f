------------------------ MODULE ApplicationLifecycle ------------------------
(***************************************************************************)
(* What the workflow promises about one application, whatever tasks,       *)
(* queries and requests are involved: it is reviewed stage by stage, in    *)
(* the pack's order and from the first stage again after each answer of    *)
(* the citizen; it is decided at most once, approved only at the last      *)
(* stage; and it is closed only after it was decided.                      *)
(***************************************************************************)
EXTENDS Naturals

CONSTANTS App, Stage,
          First,       \* the stage a submitted application enters
          NextStage,   \* pairs <<s, t>>: stage t follows stage s
          Last         \* the stages that may approve

VARIABLES phase, outcome

Phase == Stage \cup {"DRAFT", "QUERY_PENDING", "APPROVED", "REJECTED", "CLOSED"}
lifecycle == <<phase, outcome>>

Moves(a, from, to) == /\ phase[a] = from
                      /\ phase' = [phase EXCEPT ![a] = to]

Init == /\ phase = [a \in App |-> "DRAFT"]
        /\ outcome = [a \in App |-> "NONE"]

Submit(a) == Moves(a, "DRAFT", First) /\ UNCHANGED outcome

Forward(a, s, t) == <<s, t>> \in NextStage /\ Moves(a, s, t) /\ UNCHANGED outcome

Ask(a, s) == Moves(a, s, "QUERY_PENDING") /\ UNCHANGED outcome

Answer(a) == Moves(a, "QUERY_PENDING", First) /\ UNCHANGED outcome

Decide(a, s, d) ==
  /\ d = "APPROVED" => s \in Last
  /\ outcome[a] = "NONE"
  /\ Moves(a, s, d)
  /\ outcome' = [outcome EXCEPT ![a] = d]

Close(a) == /\ outcome[a] # "NONE"
            /\ Moves(a, outcome[a], "CLOSED")
            /\ UNCHANGED outcome

Next == \E a \in App :
          \/ Submit(a) \/ Answer(a) \/ Close(a)
          \/ \E s \in Stage : Ask(a, s)
          \/ \E s, t \in Stage : Forward(a, s, t)
          \/ \E s \in Stage, d \in {"APPROVED", "REJECTED"} : Decide(a, s, d)

Spec == Init /\ [][Next]_lifecycle
=============================================================================
