--------------------------- MODULE MCSubmissions ----------------------------
(***************************************************************************)
(* Instances of Submissions: two stages, the second of which needs the     *)
(* first; the first has two sections, so that one stage has two rows.      *)
(***************************************************************************)
EXTENDS SubmissionsRefinement, TLC

CONSTANTS g1, g2, st1, st2, a1, a2, b1, c1, u1, f1, d0, d1

MCGroupOf == [s \in Slots |-> IF s = c1 THEN g2 ELSE g1]
MCStageOf == [s \in Slots |-> IF s = b1 THEN st2 ELSE st1]
MCDisplayOrder == [st \in Stages |-> IF st = st1 THEN 1 ELSE 2]
MCPrerequisites == [st \in Stages |-> IF st = st2 THEN {st1} ELSE {}]
MCEditors == [g \in Groups |-> {u1}]
MCDeciders == [g \in Groups |-> {f1}]
=============================================================================
