----------------------------- MODULE MCLogBook ------------------------------
(***************************************************************************)
(* Instances of LogBook: one group with one stage, one review of it, and   *)
(* two generations at once.  A behaviour either mixes all requests while   *)
(* the rubric stays as it is, or has those of the review alone, while the  *)
(* rubric grows.                                                           *)
(***************************************************************************)
EXTENDS LogBook, TLC

CONSTANTS g1, st1, a1, u1, f1, h1, c1, c2, d0, w1, w2

VARIABLE scope  \* "book" or "review", fixed for a behaviour

mcVars == <<logBookVars, scope>>

MCInit == LogBookInit /\ scope \in {"book", "review"}

MCNext ==
    /\ \/ scope = "book" /\ LogBookNext /\ UNCHANGED rubric
       \/ scope = "review" /\ ReviewsNext /\ UNCHANGED <<vars, bookVars, engine, req>>
    /\ UNCHANGED scope

MCSpec == MCInit /\ [][MCNext]_mcVars

Symmetry == Permutations(Workers)

MCGroupOf == [s \in Slots |-> g1]
MCStageOf == [s \in Slots |-> st1]
MCDisplayOrder == [st \in Stages |-> 1]
MCPrerequisites == [st \in Stages |-> {}]
MCEditors == [g \in Groups |-> {u1}]
MCDeciders == [g \in Groups |-> {f1}]
MCMaxMarks == [c \in Criteria |-> IF c = c1 THEN 1 ELSE 2]
=============================================================================
