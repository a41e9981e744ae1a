------------------------ MODULE MCSubmissionRequests ------------------------
(***************************************************************************)
(* Instances of SubmissionRequests: two or three workers, one group.       *)
(***************************************************************************)
EXTENDS SubmissionRequests, TLC

CONSTANTS g1, st1, st2, a1, a2, b1, u1, f1, w1, w2, w3, d0, d1

MCGroupOf == [s \in Slots |-> g1]
MCStageOf == [s \in Slots |-> IF s = b1 THEN st2 ELSE st1]
MCDisplayOrder == [st \in Stages |-> IF st = st1 THEN 1 ELSE 2]
MCIndependent == [st \in Stages |-> {}]
MCPrerequisites == [st \in Stages |-> IF st = st2 THEN {st1} ELSE {}]
MCEditors == [g \in Groups |-> {u1}]
MCDeciders == [g \in Groups |-> {f1}]

ServiceOps == Ops \ {"update"}
AnyOps == [w \in Workers |-> ServiceOps]
OneDecider == [w \in Workers |-> IF w = w3 THEN ServiceOps \ StudentOps ELSE StudentOps]
StudentAndDecider ==
    [w \in Workers |-> IF w = w1 THEN StudentOps ELSE Ops \ StudentOps]
=============================================================================
