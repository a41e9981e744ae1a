--------------------- MODULE SubmissionRefinementProofs ---------------------
(***************************************************************************)
(* Two refinements of the submissions, and the dashboard over them, for    *)
(* all groups, stages, workers and bounds.                                 *)
(*                                                                         *)
(* Below the atomic requests of Submissions are the requests in progress   *)
(* of SubmissionRequests.  Each step of a worker moves one entry of txn,   *)
(* so an invariant is a predicate of one worker, proved for the worker     *)
(* that moves and for one that does not:                                   *)
(*   CurrentInv     on SQLite the memory of a request is the tables, so    *)
(*                  what holds of atomic requests holds of these           *)
(*   NumbersInv     on either database a request that wrote started from   *)
(*                  the newest version, unless a PATCH is at work          *)
(*   OneDeciderInv  and found the status its transition asks for, when the *)
(*                  guides' requests come one at a time                    *)
(*                                                                         *)
(* Above them are the rounds of ReviewRounds; RoundsInv adds to the        *)
(* history of a row that a resubmission follows a return.  Reports reads   *)
(* the group rows; DashboardInv adds to the progress of a group that one   *)
(* with a current stage has started.                                       *)
(***************************************************************************)
EXTENDS SubmissionRequests, SubmissionsRefinement, Reports, SubmissionProgressProofs,
        FiniteSetTheorems

-----------------------------------------------------------------------------
(* What a request has in memory *)

GroupRow == [status: GroupStatus \cup SubmissionStatus, stage: Stages \cup {NoStage}]

LoadedTxn == [pc: {"loaded"}, op: Ops, slot: Slots, data: Data, mem: Row,
              groupStatus: GroupStatus \cup SubmissionStatus]

WritingTxn == [pc: {"written", "computed"}, op: Ops, slot: Slots, mem: Row,
               groupStatus: GroupStatus \cup SubmissionStatus, row: Row,
               group: GroupRow]

TxnType == txn \in [Workers -> [pc: {"idle"}] \cup LoadedTxn \cup WritingTxn]

LEMMA TxnShape ==
    ASSUME TxnType, NEW w \in Workers
    PROVE  /\ txn[w].pc = "loaded" => txn[w] \in LoadedTxn
           /\ Writing(w) => txn[w] \in WritingTxn
           /\ Busy(w) => txn[w] \in LoadedTxn \cup WritingTxn
           /\ Busy(w) <=> (txn[w].pc = "loaded" \/ Writing(w))
<1>1. txn[w] \in [pc: {"idle"}] \cup LoadedTxn \cup WritingTxn
  BY DEF TxnType
<1> QED
  BY <1>1 DEF LoadedTxn, WritingTxn, Writing, Busy

\* The row each operation leaves, column by column.
LEMMA WrittenColumns ==
    ASSUME NEW t, NEW old, old = sub[t.slot], old \in Row, t.mem \in Row
    PROVE  /\ t.op = "save_draft" => WrittenRow(t) =
                  [status |-> old.status, version |-> old.version, data |-> t.data,
                   approved |-> old.approved]
           /\ t.op = "submit" => WrittenRow(t) =
                  [status |-> IF t.mem.status = "DRAFT" THEN "SUBMITTED" ELSE "RESUBMITTED",
                   version |-> t.mem.version + 1, data |-> t.mem.data,
                   approved |-> old.approved]
           /\ t.op = "begin_review" => WrittenRow(t) =
                  [status |-> "UNDER_REVIEW", version |-> old.version, data |-> old.data,
                   approved |-> old.approved]
           /\ t.op = "lock" => WrittenRow(t) =
                  [status |-> "LOCKED", version |-> old.version, data |-> old.data,
                   approved |-> old.approved]
           /\ t.op = "request_changes" => WrittenRow(t) =
                  [status |-> "CHANGES_REQUIRED", version |-> t.mem.version + 1,
                   data |-> old.data, approved |-> old.approved]
           /\ t.op = "approve" => WrittenRow(t) =
                  [status |-> "APPROVED", version |-> t.mem.version + 1,
                   data |-> old.data, approved |-> t.mem.version]
           /\ t.op = "update" => WrittenRow(t) =
                  [status |-> t.mem.status, version |-> t.mem.version, data |-> t.data,
                   approved |-> t.mem.approved]
<1>1. old = [status |-> old.status, version |-> old.version, data |-> old.data,
             approved |-> old.approved]
      /\ t.mem = [status |-> t.mem.status, version |-> t.mem.version, data |-> t.mem.data,
             approved |-> t.mem.approved]
  BY DEF Row
<1>2. CASE t.op = "save_draft"
  <2>1. WrittenRow(t) = [sub[t.slot] EXCEPT !.data = t.data]
    BY <1>2, Zenon DEF WrittenRow
  <2> QED
    BY <1>1, <1>2, <2>1
<1>3. CASE t.op = "submit"
  <2>1. WrittenRow(t) = [sub[t.slot] EXCEPT !.data = t.mem.data, !.status = NewStatus(t),
                                            !.version = SnapshotNumber(t)]
    BY <1>3, Zenon DEF WrittenRow
  <2>2. NewStatus(t) = IF t.mem.status = "DRAFT" THEN "SUBMITTED" ELSE "RESUBMITTED"
    BY <1>3, Zenon DEF NewStatus
  <2> QED
    BY <1>1, <1>3, <2>1, <2>2 DEF SnapshotNumber
<1>4. CASE t.op = "begin_review"
  <2>1. WrittenRow(t) = [sub[t.slot] EXCEPT !.status = NewStatus(t)]
    BY <1>4, Zenon DEF WrittenRow
  <2>2. NewStatus(t) = "UNDER_REVIEW"
    BY <1>4, Zenon DEF NewStatus, DecisionOf
  <2> QED
    BY <1>1, <1>4, <2>1, <2>2 DEF SnapshotNumber
<1>5. CASE t.op = "lock"
  <2>1. WrittenRow(t) = [sub[t.slot] EXCEPT !.status = NewStatus(t)]
    BY <1>5, Zenon DEF WrittenRow
  <2>2. NewStatus(t) = "LOCKED"
    BY <1>5, Zenon DEF NewStatus, DecisionOf
  <2> QED
    BY <1>1, <1>5, <2>1, <2>2 DEF SnapshotNumber
<1>6. CASE t.op = "request_changes"
  <2>1. WrittenRow(t) = [sub[t.slot] EXCEPT !.status = NewStatus(t), !.version = SnapshotNumber(t)]
    BY <1>6, Zenon DEF WrittenRow
  <2>2. NewStatus(t) = "CHANGES_REQUIRED"
    BY <1>6, Zenon DEF NewStatus, DecisionOf
  <2> QED
    BY <1>1, <1>6, <2>1, <2>2 DEF SnapshotNumber
<1>7. CASE t.op = "approve"
  <2>1. WrittenRow(t) = [sub[t.slot] EXCEPT !.status = NewStatus(t), !.version = SnapshotNumber(t),
                                            !.approved = t.mem.version]
    BY <1>7, Zenon DEF WrittenRow
  <2>2. NewStatus(t) = "APPROVED"
    BY <1>7, Zenon DEF NewStatus, DecisionOf
  <2> QED
    BY <1>1, <1>7, <2>1, <2>2 DEF SnapshotNumber
<1>8. CASE t.op = "update"
  <2>1. WrittenRow(t) = [t.mem EXCEPT !.data = t.data]
    BY <1>8, Zenon DEF WrittenRow
  <2> QED
    BY <1>1, <1>8, <2>1
<1> QED
  BY <1>2, <1>3, <1>4, <1>5, <1>6, <1>7, <1>8

\* The status each operation asks for.
LEMMA AdmittedStatuses ==
    /\ AdmittedStatus["save_draft"] = AllowedEditStates
    /\ AdmittedStatus["submit"] = AllowedEditStates
    /\ AdmittedStatus["begin_review"] = {"SUBMITTED", "RESUBMITTED"}
    /\ AdmittedStatus["request_changes"] = {"UNDER_REVIEW"}
    /\ AdmittedStatus["approve"] = {"UNDER_REVIEW"}
    /\ AdmittedStatus["lock"] = {"APPROVED"}
    /\ AdmittedStatus["update"] = SubmissionStatus
<1>1. /\ "save_draft" \in Ops /\ "submit" \in Ops /\ "begin_review" \in Ops
      /\ "request_changes" \in Ops /\ "approve" \in Ops /\ "lock" \in Ops
      /\ "update" \in Ops
  BY DEF Ops
<1>2. AdmittedStatus["save_draft"] = AllowedEditStates
  BY <1>1, Zenon DEF AdmittedStatus, StudentOps
<1>3. AdmittedStatus["submit"] = AllowedEditStates
  BY <1>1, Zenon DEF AdmittedStatus, StudentOps
<1>4. AdmittedStatus["begin_review"] = {"SUBMITTED", "RESUBMITTED"}
  BY <1>1, Zenon DEF AdmittedStatus, StudentOps
<1>5. AdmittedStatus["request_changes"] = {"UNDER_REVIEW"}
  BY <1>1, Zenon DEF AdmittedStatus, StudentOps
<1>6. AdmittedStatus["approve"] = {"UNDER_REVIEW"}
  BY <1>1, Zenon DEF AdmittedStatus, StudentOps
<1>7. AdmittedStatus["lock"] = {"APPROVED"}
  BY <1>1, Zenon DEF AdmittedStatus, StudentOps
<1>8. AdmittedStatus["update"] = SubmissionStatus
  BY <1>1, Zenon DEF AdmittedStatus, StudentOps
<1> QED
  BY <1>2, <1>3, <1>4, <1>5, <1>6, <1>7, <1>8

-----------------------------------------------------------------------------
(* SQLite: what a request has in memory is what the tables hold            *)

Current(t) ==
    /\ t.mem = sub[t.slot]
    /\ t.mem.status # "NONE"
    /\ t.groupStatus = group[GroupOf[t.slot]].status
    /\ t.op \in SnapshotOps => t.mem.version < MaxVersion

\* The row of a request past its UPDATE, column by column: what its operation
\* leaves of the row in the table and of the row in memory.
RowWritten(t) ==
    LET old == sub[t.slot]
        Wrote(st, version, approved, d) ==
            t.row = [status |-> st, version |-> version, data |-> d, approved |-> approved]
    IN  /\ t.op = "save_draft" =>
              \E d \in Data : Wrote(old.status, old.version, old.approved, d)
        /\ t.op = "submit" =>
              Wrote(IF t.mem.status = "DRAFT" THEN "SUBMITTED" ELSE "RESUBMITTED",
                    t.mem.version + 1, old.approved, t.mem.data)
        /\ t.op = "begin_review" =>
              Wrote("UNDER_REVIEW", old.version, old.approved, old.data)
        /\ t.op = "lock" => Wrote("LOCKED", old.version, old.approved, old.data)
        /\ t.op = "request_changes" =>
              Wrote("CHANGES_REQUIRED", t.mem.version + 1, old.approved, old.data)
        /\ t.op = "approve" =>
              Wrote("APPROVED", t.mem.version + 1, t.mem.version, old.data)
        /\ t.op = "update" =>
              \E d \in Data : Wrote(t.mem.status, t.mem.version, t.mem.approved, d)

ProgressRead(t) ==
    t.pc = "computed" /\ t.op \in RecomputeOps =>
        t.group \in RecomputedGroups([sub EXCEPT ![t.slot] = t.row],
                                     GroupOf[t.slot], t.groupStatus)

CurrentInv ==
    /\ IInv
    /\ TxnType
    /\ \A w \in Workers : Busy(w) => Current(txn[w])
    /\ \A w \in Workers : Writing(w) =>
          Admitted(txn[w]) /\ RowWritten(txn[w]) /\ ProgressRead(txn[w])

\* The commit of a request whose memory is current is the atomic request.
LEMMA CommitIsAtomic ==
    ASSUME CurrentInv, NEW w \in Workers, Commit(w)
    PROVE  IF txn[w].op = "update" THEN FullNext ELSE Next
<1> DEFINE t == txn[w]
           s == t.slot
<1>1. Writing(w) /\ Busy(w)
  BY DEF Commit, Writing, Busy
<1>2. /\ t.op \in Ops /\ s \in Slots /\ t.mem \in Row /\ t.row \in Row
      /\ GroupOf[s] \in Groups
  BY <1>1, TxnShape, ConfigAssumption DEF CurrentInv, WritingTxn
<1>3. Current(t) /\ Admitted(t) /\ RowWritten(t) /\ ProgressRead(t) /\ t.pc = "computed"
  BY <1>1 DEF CurrentInv, Commit
<1>4. /\ sub[s] \in Row /\ t.mem = sub[s] /\ sub \in [Slots -> Row]
      /\ versions \in [Slots -> SUBSET Version]
      /\ sub[s].version \in Nat
  BY <1>2, <1>3 DEF CurrentInv, IInv, TypeOK, Current, Row
<1>5. /\ sub' = [sub EXCEPT ![s] = t.row]
      /\ sub'[s] = t.row
      /\ versions' = IF t.op \in SnapshotOps
                     THEN [versions EXCEPT ![s] = @ \cup
                             {[number |-> t.row.version, status |-> t.row.status,
                               data |-> t.mem.data]}]
                     ELSE versions
      /\ IF t.op \in {"request_changes", "approve"}
         THEN AddApproval(s, DecisionOf(t.op))
         ELSE UNCHANGED approvals
      /\ changeRequests' = IF t.op = "request_changes"
                           THEN [changeRequests EXCEPT ![s] = @ + 1]
                           ELSE changeRequests
      /\ group' = IF t.op \in RecomputeOps
                  THEN [group EXCEPT ![GroupOf[s]] = t.group]
                  ELSE group
  BY <1>2, <1>4 DEF Commit
<1>6. ASSUME t.op \in RecomputeOps
      PROVE  Recompute(GroupOf[s])
  BY <1>3, <1>5, <1>6 DEF ProgressRead, Current, Recompute
<1>7. t.op \in StudentOps => Unlocked(s) /\ \E u \in Editors[GroupOf[s]] : TRUE
  BY <1>3 DEF Admitted, Actors, StudentOps
<1>8. t.op \notin StudentOps \cup {"update"} => \E u \in Deciders[GroupOf[s]] : TRUE
  BY <1>3 DEF Admitted, Actors
<1>9. t.mem.status \in AdmittedStatus[t.op]
  BY <1>3 DEF Admitted
<1>10. ASSUME t.op \in SnapshotOps
       PROVE  sub[s].version < MaxVersion
  BY <1>3, <1>4, <1>10 DEF Current
<1> SUFFICES IF t.op = "update" THEN FullNext ELSE Next
  OBVIOUS
<1> HIDE DEF t, s
<1>11. CASE t.op = "save_draft"
  <2>1. PICK d \in Data : t.row = [status |-> sub[s].status, version |-> sub[s].version,
                                  data |-> d, approved |-> sub[s].approved]
    BY <1>3, <1>4, <1>11 DEF RowWritten, s
  <2>2. PICK u \in Editors[GroupOf[s]] : TRUE
    BY <1>7, <1>11 DEF StudentOps
  <2>3. sub' = [sub EXCEPT ![s].data = d]
    <3>1. t.row = [sub[s] EXCEPT !.data = d]
      BY <1>4, <2>1 DEF Row
    <3> QED
      BY <1>2, <1>4, <1>5, <3>1
  <2>4. UNCHANGED <<versions, approvals, changeRequests, group>>
    BY <1>5, <1>11 DEF SnapshotOps, RecomputeOps
  <2>5. CanEdit(u, s)
    BY <1>4, <1>7, <1>9, <1>11, AdmittedStatuses DEF CanEdit, StudentOps
  <2>6. SaveDraft(u, s, d)
    BY <2>3, <2>4, <2>5 DEF SaveDraft
  <2> QED
    BY <1>2, <1>11, <2>6 DEF Next, StudentStep
<1>12. CASE t.op = "submit"
  <2>1. PICK u \in Editors[GroupOf[s]] : TRUE
    BY <1>7, <1>12 DEF StudentOps
  <2> DEFINE new == IF sub[s].status = "DRAFT" THEN "SUBMITTED" ELSE "RESUBMITTED"
  <2>3. t.row = [status |-> new, version |-> sub[s].version + 1, data |-> sub[s].data,
                 approved |-> sub[s].approved]
    BY <1>3, <1>4, <1>12 DEF RowWritten, s
  <2>4. t.row = [sub[s] EXCEPT !.status = new, !.version = @ + 1]
    BY <1>4, <2>3, ChangedRow
  <2>5. sub' = [sub EXCEPT ![s].status = new, ![s].version = @ + 1]
    BY <1>2, <1>4, <1>5, <2>4
  <2>6. Snapshot(s, new)
    BY <1>2, <1>4, <1>5, <1>12, <2>3 DEF Snapshot, SnapshotOps
  <2>7. UNCHANGED <<approvals, changeRequests>> /\ Recompute(GroupOf[s])
        /\ sub[s].version < MaxVersion
    BY <1>5, <1>6, <1>10, <1>12 DEF SnapshotOps, RecomputeOps
  <2>8. CanEdit(u, s)
    BY <1>4, <1>7, <1>9, <1>12, AdmittedStatuses DEF CanEdit, StudentOps
  <2>9. Submit(u, s)
    BY <2>5, <2>6, <2>7, <2>8 DEF Submit
  <2> QED
    BY <1>2, <1>12, <2>1, <2>9 DEF Next, StudentStep
<1>13. CASE t.op = "begin_review"
  <2>1. PICK u \in Deciders[GroupOf[s]] : TRUE
    BY <1>8, <1>13 DEF StudentOps
  <2>3. t.row = [sub[s] EXCEPT !.status = "UNDER_REVIEW"]
    BY <1>3, <1>4, <1>13 DEF RowWritten, s, Row
  <2>4. sub' = [sub EXCEPT ![s].status = "UNDER_REVIEW"]
    BY <1>2, <1>4, <1>5, <2>3
  <2>5. UNCHANGED <<versions, approvals, changeRequests>> /\ Recompute(GroupOf[s])
    BY <1>5, <1>6, <1>13 DEF SnapshotOps, RecomputeOps
  <2>6. BeginReview(u, s)
    BY <1>4, <1>9, <1>13, <2>1, <2>4, <2>5, AdmittedStatuses DEF BeginReview, CanDecide
  <2> QED
    BY <1>2, <1>13, <2>1, <2>6 DEF Next, DeciderStep
<1>14. CASE t.op = "lock"
  <2>1. PICK u \in Deciders[GroupOf[s]] : TRUE
    BY <1>8, <1>14 DEF StudentOps
  <2>3. t.row = [sub[s] EXCEPT !.status = "LOCKED"]
    BY <1>3, <1>4, <1>14 DEF RowWritten, s, Row
  <2>4. sub' = [sub EXCEPT ![s].status = "LOCKED"]
    BY <1>2, <1>4, <1>5, <2>3
  <2>5. UNCHANGED <<versions, approvals, changeRequests>> /\ Recompute(GroupOf[s])
    BY <1>5, <1>6, <1>14 DEF SnapshotOps, RecomputeOps
  <2>6. Lock(u, s)
    BY <1>4, <1>9, <1>14, <2>1, <2>4, <2>5, AdmittedStatuses DEF Lock, CanDecide
  <2> QED
    BY <1>2, <1>14, <2>1, <2>6 DEF Next, DeciderStep
<1>15. CASE t.op = "request_changes"
  <2>1. PICK u \in Deciders[GroupOf[s]] : TRUE
    BY <1>8, <1>15 DEF StudentOps
  <2>3. t.row = [status |-> "CHANGES_REQUIRED", version |-> sub[s].version + 1,
                 data |-> sub[s].data, approved |-> sub[s].approved]
    BY <1>3, <1>4, <1>15 DEF RowWritten, s
  <2>4. t.row = [sub[s] EXCEPT !.status = "CHANGES_REQUIRED", !.version = @ + 1]
    BY <1>4, <2>3, ChangedRow
  <2>5. sub' = [sub EXCEPT ![s].status = "CHANGES_REQUIRED", ![s].version = @ + 1]
    BY <1>2, <1>4, <1>5, <2>4
  <2>6. Snapshot(s, "CHANGES_REQUIRED")
    BY <1>2, <1>4, <1>5, <1>15, <2>3 DEF Snapshot, SnapshotOps
  <2>7. /\ AddApproval(s, "CHANGES_REQUIRED") /\ Recompute(GroupOf[s])
        /\ sub[s].version < MaxVersion
        /\ changeRequests' = [changeRequests EXCEPT ![s] = @ + 1]
    BY <1>5, <1>6, <1>10, <1>15 DEF SnapshotOps, RecomputeOps, DecisionOf
  <2>8. RequestChanges(u, s)
    BY <1>4, <1>9, <1>15, <2>1, <2>5, <2>6, <2>7, AdmittedStatuses
       DEF RequestChanges, CanDecide
  <2> QED
    BY <1>2, <1>15, <2>1, <2>8 DEF Next, DeciderStep
<1>16. CASE t.op = "approve"
  <2>1. PICK u \in Deciders[GroupOf[s]] : TRUE
    BY <1>8, <1>16 DEF StudentOps
  <2>3. t.row = [status |-> "APPROVED", version |-> sub[s].version + 1,
                 data |-> sub[s].data, approved |-> sub[s].version]
    BY <1>3, <1>4, <1>16 DEF RowWritten, s
  <2>4. t.row = [sub[s] EXCEPT !.status = "APPROVED", !.version = @ + 1,
                               !.approved = sub[s].version]
    <3>1. \A a : [sub[s] EXCEPT !.status = "APPROVED", !.version = @ + 1, !.approved = a] =
             [status |-> "APPROVED", version |-> sub[s].version + 1, data |-> sub[s].data,
              approved |-> a]
      BY <1>4, ChangedRow
    <3> QED
      BY <2>3, <3>1
  <2>5. sub' = [sub EXCEPT ![s].status = "APPROVED", ![s].version = @ + 1,
                           ![s].approved = sub[s].version]
    BY <1>2, <1>4, <1>5, <2>4
  <2>6. Snapshot(s, "APPROVED")
    BY <1>2, <1>4, <1>5, <1>16, <2>3 DEF Snapshot, SnapshotOps
  <2>7. /\ AddApproval(s, "APPROVED") /\ Recompute(GroupOf[s])
        /\ sub[s].version < MaxVersion
        /\ UNCHANGED changeRequests
    BY <1>5, <1>6, <1>10, <1>16 DEF SnapshotOps, RecomputeOps, DecisionOf
  <2>8. Approve(u, s)
    BY <1>4, <1>9, <1>16, <2>1, <2>5, <2>6, <2>7, AdmittedStatuses
       DEF Approve, CanDecide
  <2> QED
    BY <1>2, <1>16, <2>1, <2>8 DEF Next, DeciderStep
<1>17. CASE t.op = "update"
  <2>1. PICK d \in Data : t.row = [status |-> sub[s].status, version |-> sub[s].version,
                                  data |-> d, approved |-> sub[s].approved]
    BY <1>3, <1>4, <1>17 DEF RowWritten, s
  <2>2. sub' = [sub EXCEPT ![s].data = d]
    <3>1. t.row = [sub[s] EXCEPT !.data = d]
      BY <1>4, <2>1 DEF Row
    <3> QED
      BY <1>2, <1>4, <1>5, <3>1
  <2>3. UNCHANGED <<versions, approvals, changeRequests, group>>
    BY <1>5, <1>17 DEF SnapshotOps, RecomputeOps
  <2>4. sub[s].status # "NONE"
    BY <1>3, <1>4 DEF Current
  <2>5. UpdateData(s, d)
    BY <2>2, <2>3, <2>4 DEF UpdateData
  <2> QED
    BY <1>2, <1>17, <2>5 DEF FullNext, GenericStep
<1> QED
  BY <1>2, <1>11, <1>12, <1>13, <1>14, <1>15, <1>16, <1>17 DEF Ops

\* An operation leaves a row of its type.
LEMMA WrittenType ==
    ASSUME TypeOK, NEW t \in LoadedTxn, Admitted(t)
    PROVE  WrittenRow(t) \in Row
<1>1. /\ t.op \in Ops /\ t.slot \in Slots /\ t.data \in Data /\ t.mem \in Row
      /\ sub[t.slot] \in Row
  BY DEF TypeOK, LoadedTxn
<1>2. /\ sub[t.slot].version \in Nat /\ sub[t.slot].data \in Data
      /\ sub[t.slot].approved \in Nat
      /\ sub[t.slot].status \in SubmissionStatus \cup {"NONE"}
      /\ t.mem.version \in Nat /\ t.mem.data \in Data /\ t.mem.approved \in Nat
      /\ t.mem.status \in SubmissionStatus \cup {"NONE"}
      /\ t.mem.version + 1 \in Nat
  BY <1>1 DEF Row
<1>3. {"SUBMITTED", "RESUBMITTED", "UNDER_REVIEW", "LOCKED", "CHANGES_REQUIRED",
       "APPROVED"} \subseteq SubmissionStatus
  BY DEF SubmissionStatus
<1>4. CASE t.op = "save_draft"
  BY <1>1, <1>2, <1>4, WrittenColumns DEF Row
<1>5. CASE t.op = "submit"
  BY <1>1, <1>2, <1>3, <1>5, WrittenColumns DEF Row
<1>6. CASE t.op \in {"begin_review", "lock"}
  BY <1>1, <1>2, <1>3, <1>6, WrittenColumns DEF Row
<1>7. CASE t.op \in {"request_changes", "approve"}
  BY <1>1, <1>2, <1>3, <1>7, WrittenColumns DEF Row
<1>8. CASE t.op = "update"
  BY <1>1, <1>2, <1>8, WrittenColumns DEF Row
<1> QED
  BY <1>1, <1>4, <1>5, <1>6, <1>7, <1>8 DEF Ops

\* What a step changes in the memory of the requests.
LEMMA OneRequestMoves ==
    ASSUME TxnType, NEW w \in Workers,
           NEW x \in [pc: {"idle"}] \cup LoadedTxn \cup WritingTxn,
           txn' = [txn EXCEPT ![w] = x]
    PROVE  TxnType' /\ txn'[w] = x /\ \A v \in Workers \ {w} : txn'[v] = txn[v]
  BY DEF TxnType

LEMMA LoadMemory ==
    ASSUME TypeOK, NEW w \in Workers, NEW op \in Ops, NEW s \in Slots, NEW d \in Data,
           Load(w, op, s, d)
    PROVE  \E x \in LoadedTxn :
              /\ txn' = [txn EXCEPT ![w] = x]
              /\ x.op = op /\ x.slot = s /\ x.mem = sub[s] /\ x.pc = "loaded"
              /\ x.groupStatus = group[GroupOf[s]].status
<1> DEFINE x == [pc |-> "loaded", op |-> op, slot |-> s, data |-> d, mem |-> sub[s],
                 groupStatus |-> group[GroupOf[s]].status]
<1>1. sub[s] \in Row /\ group[GroupOf[s]].status \in GroupStatus \cup SubmissionStatus
  BY ConfigAssumption DEF TypeOK
<1>2. x \in LoadedTxn
  BY <1>1 DEF LoadedTxn
<1>3. txn' = [txn EXCEPT ![w] = x]
  BY DEF Load
<1> QED
  BY <1>2, <1>3

LEMMA WriteMemory ==
    ASSUME TypeOK, TxnType, NEW w \in Workers, Write(w)
    PROVE  /\ txn[w] \in LoadedTxn
           /\ \E x \in WritingTxn :
                 /\ txn' = [txn EXCEPT ![w] = x]
                 /\ x.op = txn[w].op /\ x.slot = txn[w].slot /\ x.mem = txn[w].mem
                 /\ x.groupStatus = txn[w].groupStatus
                 /\ x.row = WrittenRow(txn[w])
                 /\ x.pc = "written" <=> x.op \in RecomputeOps
<1> DEFINE t == txn[w]
           x == [pc |-> IF t.op \in RecomputeOps THEN "written" ELSE "computed",
                 op |-> t.op, slot |-> t.slot, mem |-> t.mem,
                 groupStatus |-> t.groupStatus, row |-> WrittenRow(t),
                 group |-> group[GroupOf[t.slot]]]
<1>1. t \in LoadedTxn
  BY TxnShape DEF Write
<1>2. /\ t.op \in Ops /\ t.slot \in Slots /\ t.mem \in Row
      /\ t.groupStatus \in GroupStatus \cup SubmissionStatus
      /\ group[GroupOf[t.slot]] \in GroupRow
  BY <1>1, ConfigAssumption DEF LoadedTxn, TypeOK, GroupRow
<1>3. WrittenRow(t) \in Row
  BY <1>1, WrittenType DEF Write
<1>4. txn' = [txn EXCEPT ![w] = x]
  BY DEF Write
<1> HIDE DEF t
<1>5. x \in WritingTxn
  BY <1>2, <1>3 DEF WritingTxn
<1>6. x.pc = "written" <=> x.op \in RecomputeOps
  OBVIOUS
<1> QED
  BY <1>1, <1>4, <1>5, <1>6 DEF t

LEMMA ProgressMemory ==
    ASSUME TypeOK, TxnType, NEW w \in Workers, ReadProgress(w)
    PROVE  /\ txn[w] \in WritingTxn
           /\ \E x \in WritingTxn :
                 /\ txn' = [txn EXCEPT ![w] = x]
                 /\ x.op = txn[w].op /\ x.slot = txn[w].slot /\ x.mem = txn[w].mem
                 /\ x.groupStatus = txn[w].groupStatus /\ x.row = txn[w].row
                 /\ x.pc = "computed"
                 /\ x.group \in RecomputedGroups([sub EXCEPT ![x.slot] = x.row],
                                                 GroupOf[x.slot], x.groupStatus)
<1> DEFINE t == txn[w]
<1>1. t \in WritingTxn
  BY TxnShape DEF ReadProgress, Writing
<1>2. /\ t.op \in Ops /\ t.slot \in Slots /\ t.mem \in Row /\ t.row \in Row
      /\ t.groupStatus \in GroupStatus \cup SubmissionStatus
      /\ GroupOf[t.slot] \in Groups
      /\ t = [pc |-> t.pc, op |-> t.op, slot |-> t.slot, mem |-> t.mem,
              groupStatus |-> t.groupStatus, row |-> t.row, group |-> t.group]
  BY <1>1, ConfigAssumption DEF WritingTxn
<1>3. PICK new \in RecomputedGroups([sub EXCEPT ![t.slot] = t.row],
                                    GroupOf[t.slot], t.groupStatus) :
         txn' = [txn EXCEPT ![w] = [t EXCEPT !.pc = "computed", !.group = new]]
  BY DEF ReadProgress
<1>4. [sub EXCEPT ![t.slot] = t.row] \in [Slots -> Row]
  BY <1>2 DEF TypeOK
<1>5. new \in GroupRow
  BY <1>2, <1>4, RecomputedType DEF GroupRow
<1> DEFINE x == [pc |-> "computed", op |-> t.op, slot |-> t.slot, mem |-> t.mem,
                 groupStatus |-> t.groupStatus, row |-> t.row, group |-> new]
<1> HIDE DEF t
<1>6. [t EXCEPT !.pc = "computed", !.group = new] = x
  <2> DEFINE t1 == [t EXCEPT !.pc = "computed"]
  <2>1. t1 = [pc |-> "computed", op |-> t.op, slot |-> t.slot, mem |-> t.mem,
              groupStatus |-> t.groupStatus, row |-> t.row, group |-> t.group]
    BY <1>2
  <2> HIDE DEF t1
  <2>2. [t1 EXCEPT !.group = new] = x
    BY <2>1
  <2> QED
    BY <2>2 DEF t1
<1>7. x \in WritingTxn
  BY <1>2, <1>5 DEF WritingTxn
<1>8. txn' = [txn EXCEPT ![w] = x]
  BY <1>3, <1>6
<1>9. /\ x.op = t.op /\ x.slot = t.slot /\ x.mem = t.mem /\ x.row = t.row
      /\ x.groupStatus = t.groupStatus /\ x.pc = "computed" /\ x.group = new
  OBVIOUS
<1> HIDE DEF x
<1>10. x.group \in RecomputedGroups([sub EXCEPT ![x.slot] = x.row],
                                    GroupOf[x.slot], x.groupStatus)
  BY <1>3, <1>9
<1> QED
  BY <1>1, <1>7, <1>8, <1>9, <1>10 DEF t

\* What Write has in memory is what RowWritten says of it.
LEMMA WriteWrites ==
    ASSUME TypeOK, NEW t \in LoadedTxn, NEW x, x.op = t.op, x.slot = t.slot, x.mem = t.mem,
           x.row = WrittenRow(t)
    PROVE  RowWritten(x)
<1>1. t.data \in Data /\ t.mem \in Row /\ sub[t.slot] \in Row
  BY DEF TypeOK, LoadedTxn
<1> QED
  BY <1>1, WrittenColumns DEF RowWritten

-----------------------------------------------------------------------------
(* SQLite: the step *)

WorkerOK(w) ==
    /\ Busy(w) => Current(txn[w])
    /\ Writing(w) => Admitted(txn[w]) /\ RowWritten(txn[w]) /\ ProgressRead(txn[w])

LEMMA CurrentIsEach ==
    CurrentInv <=> IInv /\ TxnType /\ \A w \in Workers : WorkerOK(w)
  BY DEF CurrentInv, WorkerOK

LEMMA UntouchedWorker ==
    ASSUME NEW v, WorkerOK(v), txn'[v] = txn[v], UNCHANGED vars
    PROVE  WorkerOK(v)'
<1>1. sub' = sub /\ group' = group
  BY DEF vars
<1>2. Unlocked(txn[v].slot)' <=> Unlocked(txn[v].slot)
  BY <1>1 DEF Unlocked, IsStageUnlocked, ArePrerequisitesSatisfied, IsStageSatisfied
<1>3. Admitted(txn[v])' <=> Admitted(txn[v])
  BY <1>1, <1>2 DEF Admitted, Actors, Unlocked
<1>4. RowWritten(txn[v])' <=> RowWritten(txn[v])
  BY <1>1 DEF RowWritten
<1>5. ProgressRead(txn[v])' <=> ProgressRead(txn[v])
  BY <1>1 DEF ProgressRead
<1>6. Current(txn[v])' <=> Current(txn[v])
  BY <1>1 DEF Current
<1>7. (Busy(v)' <=> Busy(v)) /\ (Writing(v)' <=> Writing(v))
  BY DEF Busy, Writing
<1> QED
  BY <1>3, <1>4, <1>5, <1>6, <1>7 DEF WorkerOK

\* No request holds anything when the tables change.
LEMMA TablesChangeAlone ==
    ASSUME CurrentInv, FullNext, TxnType', \A w \in Workers : ~Busy(w)'
    PROVE  CurrentInv'
<1>1. IInv'
  BY StepKeeps DEF CurrentInv
<1>2. \A w \in Workers : ~Writing(w)'
  BY DEF Busy, Writing
<1> QED
  BY <1>1, <1>2 DEF CurrentInv

\* A step of one request that leaves the tables alone.
LEMMA OneWorkerMoves ==
    ASSUME CurrentInv, UNCHANGED vars, NEW w \in Workers,
           NEW x \in [pc: {"idle"}] \cup LoadedTxn \cup WritingTxn,
           txn' = [txn EXCEPT ![w] = x], WorkerOK(w)'
    PROVE  CurrentInv'
<1>1. TxnType' /\ \A v \in Workers \ {w} : txn'[v] = txn[v]
  BY OneRequestMoves DEF CurrentInv
<1>2. IInv'
  BY StepKeeps DEF CurrentInv
<1>3. \A v \in Workers \ {w} : WorkerOK(v)'
  BY <1>1, UntouchedWorker, CurrentIsEach
<1>4. \A v \in Workers : WorkerOK(v)'
  BY <1>3
<1> QED
  BY <1>1, <1>2, <1>4 DEF CurrentInv, WorkerOK

LEMMA RequestEnds ==
    ASSUME CurrentInv, UNCHANGED vars, NEW w \in Workers, Finish(w)
    PROVE  CurrentInv'
<1> DEFINE x == [pc |-> "idle"]
<1>1. x \in [pc: {"idle"}] /\ txn' = [txn EXCEPT ![w] = x]
  BY DEF Finish
<1>2. txn'[w] = x
  BY <1>1 DEF CurrentInv, TxnType
<1>3. ~Busy(w)' /\ ~Writing(w)'
  BY <1>2 DEF Busy, Writing
<1>4. WorkerOK(w)'
  BY <1>3 DEF WorkerOK
<1> HIDE DEF x
<1> QED
  BY <1>1, <1>4, OneWorkerMoves

LEMMA LoadKeeps ==
    ASSUME CurrentInv, NEW w \in Workers, NEW op \in Ops, NEW s \in Slots, NEW d \in Data,
           Load(w, op, s, d)
    PROVE  CurrentInv'
<1>1. TypeOK /\ TxnType
  BY DEF CurrentInv, IInv
<1>2. PICK x \in LoadedTxn :
         /\ txn' = [txn EXCEPT ![w] = x]
         /\ x.op = op /\ x.slot = s /\ x.mem = sub[s] /\ x.pc = "loaded"
         /\ x.groupStatus = group[GroupOf[s]].status
  BY <1>1, LoadMemory
<1>3. txn'[w] = x
  BY <1>1, <1>2 DEF TxnType
<1>4. UNCHANGED vars /\ sub' = sub /\ group' = group /\ sub[s].status # "NONE"
      /\ (op \in SnapshotOps => sub[s].version < MaxVersion)
  BY DEF Load, vars
<1>5. Current(txn[w])'
  BY <1>2, <1>3, <1>4 DEF Current
<1>6. ~Writing(w)'
  BY <1>2, <1>3 DEF Writing
<1>7. WorkerOK(w)'
  BY <1>5, <1>6 DEF WorkerOK
<1> QED
  BY <1>2, <1>4, <1>7, OneWorkerMoves

LEMMA WriteKeeps ==
    ASSUME CurrentInv, NEW w \in Workers, Write(w)
    PROVE  CurrentInv'
<1>1. TypeOK /\ TxnType /\ UNCHANGED vars /\ sub' = sub /\ group' = group
  BY DEF CurrentInv, IInv, Write, vars
<1>2. /\ txn[w] \in LoadedTxn
      /\ \E x \in WritingTxn :
            /\ txn' = [txn EXCEPT ![w] = x]
            /\ x.op = txn[w].op /\ x.slot = txn[w].slot /\ x.mem = txn[w].mem
            /\ x.groupStatus = txn[w].groupStatus
            /\ x.row = WrittenRow(txn[w])
            /\ x.pc = "written" <=> x.op \in RecomputeOps
  BY <1>1, WriteMemory
<1>3. PICK x \in WritingTxn :
         /\ txn' = [txn EXCEPT ![w] = x]
         /\ x.op = txn[w].op /\ x.slot = txn[w].slot /\ x.mem = txn[w].mem
         /\ x.groupStatus = txn[w].groupStatus
         /\ x.row = WrittenRow(txn[w])
         /\ x.pc = "written" <=> x.op \in RecomputeOps
  BY <1>2
<1>4. txn'[w] = x
  BY <1>1, <1>3 DEF TxnType
<1>5. Busy(w) /\ Admitted(txn[w])
  BY DEF Write, Busy
<1>6. Current(txn[w])'
  BY <1>1, <1>3, <1>4, <1>5 DEF CurrentInv, Current
<1>7. Admitted(txn[w])'
  <2>1. Unlocked(x.slot)' <=> Unlocked(x.slot)
    BY <1>1 DEF Unlocked, IsStageUnlocked, ArePrerequisitesSatisfied, IsStageSatisfied
  <2> QED
    BY <1>3, <1>4, <1>5, <2>1 DEF Admitted, Actors, Unlocked
<1>8. RowWritten(txn[w])'
  <2>1. RowWritten(x)
    BY <1>1, <1>2, <1>3, WriteWrites
  <2> QED
    BY <1>1, <1>4, <2>1 DEF RowWritten
<1>9. ProgressRead(txn[w])'
  BY <1>3, <1>4 DEF ProgressRead
<1>10. WorkerOK(w)'
  BY <1>6, <1>7, <1>8, <1>9 DEF WorkerOK
<1> QED
  BY <1>1, <1>3, <1>10, OneWorkerMoves

LEMMA ReadProgressKeeps ==
    ASSUME CurrentInv, NEW w \in Workers, ReadProgress(w)
    PROVE  CurrentInv'
<1>1. TypeOK /\ TxnType /\ UNCHANGED vars /\ sub' = sub /\ group' = group
  BY DEF CurrentInv, IInv, ReadProgress, vars
<1>2. PICK x \in WritingTxn :
         /\ txn' = [txn EXCEPT ![w] = x]
         /\ x.op = txn[w].op /\ x.slot = txn[w].slot /\ x.mem = txn[w].mem
         /\ x.groupStatus = txn[w].groupStatus /\ x.row = txn[w].row
         /\ x.pc = "computed"
         /\ x.group \in RecomputedGroups([sub EXCEPT ![x.slot] = x.row],
                                         GroupOf[x.slot], x.groupStatus)
  BY <1>1, ProgressMemory
<1>3. txn'[w] = x
  BY <1>1, <1>2 DEF TxnType
<1>4. Busy(w) /\ Writing(w)
  BY DEF ReadProgress, Busy, Writing
<1>5. Current(txn[w])'
  BY <1>1, <1>2, <1>3, <1>4 DEF CurrentInv, Current
<1>6. Admitted(txn[w])'
  <2>1. Unlocked(x.slot)' <=> Unlocked(x.slot)
    BY <1>1 DEF Unlocked, IsStageUnlocked, ArePrerequisitesSatisfied, IsStageSatisfied
  <2> QED
    BY <1>2, <1>3, <1>4, <2>1 DEF CurrentInv, Admitted, Actors, Unlocked
<1>7. RowWritten(txn[w])'
  <2>1. RowWritten(txn[w])
    BY <1>4 DEF CurrentInv
  <2>2. RowWritten(x)
    BY <1>2, <2>1 DEF RowWritten
  <2> QED
    BY <1>1, <1>3, <2>2 DEF RowWritten
<1>8. ProgressRead(txn[w])'
  BY <1>1, <1>2, <1>3 DEF ProgressRead
<1>9. WorkerOK(w)'
  BY <1>5, <1>6, <1>7, <1>8 DEF WorkerOK
<1> QED
  BY <1>1, <1>2, <1>9, OneWorkerMoves

LEMMA CommitKeeps ==
    ASSUME Engine = "sqlite", CurrentInv, NEW w \in Workers, Commit(w)
    PROVE  CurrentInv'
<1>1. txn' = [txn EXCEPT ![w] = [pc |-> "idle"]] /\ \A v \in Workers \ {w} : ~Busy(v)
  BY DEF Commit, MayCommit, Finish
<1>2. [pc |-> "idle"] \in [pc: {"idle"}]
  OBVIOUS
<1>3. TxnType' /\ txn'[w] = [pc |-> "idle"] /\ \A v \in Workers \ {w} : txn'[v] = txn[v]
  BY <1>1, <1>2, OneRequestMoves DEF CurrentInv
<1>4. \A v \in Workers : ~Busy(v)'
  BY <1>1, <1>3 DEF Busy
<1> QED
  BY <1>3, <1>4, CommitIsAtomic, TablesChangeAlone DEF FullNext

LEMMA CreateRowIsAtomic ==
    ASSUME NEW s \in Slots, NEW d \in Data, NEW u \in Editors[GroupOf[s]], CreateRow(u, s, d)
    PROVE  Next
  BY DEF CreateRow, Next, StudentStep

LEMMA CreateRowKeeps ==
    ASSUME Engine = "sqlite", CurrentInv, NEW s \in Slots, NEW d \in Data,
           NEW u \in Editors[GroupOf[s]], CreateRow(u, s, d)
    PROVE  CurrentInv'
<1>1. txn' = txn /\ \A w \in Workers : ~Busy(w)
  BY DEF CreateRow
<1>2. TxnType' /\ \A w \in Workers : ~Busy(w)'
  BY <1>1 DEF CurrentInv, TxnType, Busy
<1> QED
  BY <1>2, CreateRowIsAtomic, TablesChangeAlone DEF FullNext

LEMMA RequestStepKeeps == Engine = "sqlite" /\ CurrentInv /\ [RNext]_rvars => CurrentInv'
<1> SUFFICES ASSUME Engine = "sqlite", CurrentInv, [RNext]_rvars PROVE CurrentInv'
  OBVIOUS
<1>1. CASE UNCHANGED rvars
  <2>1. UNCHANGED vars /\ txn' = txn
    BY <1>1 DEF rvars
  <2>2. IInv' /\ TxnType'
    BY <2>1, StepKeeps DEF CurrentInv, TxnType
  <2>3. \A v \in Workers : WorkerOK(v)'
    BY <2>1, UntouchedWorker, CurrentIsEach
  <2> QED
    BY <2>2, <2>3 DEF CurrentInv, WorkerOK
<1>2. CASE \E s \in Slots, d \in Data : \E u \in Editors[GroupOf[s]] : CreateRow(u, s, d)
  BY <1>2, CreateRowKeeps
<1>3. ASSUME NEW w \in Workers, Fail(w) \/ LockedOut(w) \/ Reject(w) \/ CommitTimeout(w)
      PROVE  CurrentInv'
  BY <1>3, RequestEnds DEF Fail, LockedOut, Reject, CommitTimeout
<1> QED
  BY <1>1, <1>2, <1>3, LoadKeeps, WriteKeeps, ReadProgressKeeps, CommitKeeps DEF RNext, Work

LEMMA RequestsStart == RInit => CurrentInv
<1> SUFFICES ASSUME RInit PROVE CurrentInv
  OBVIOUS
<1>1. IInv
  BY InitEstablishes DEF RInit
<1>2. TxnType /\ \A w \in Workers : ~Busy(w) /\ ~Writing(w)
  BY DEF RInit, TxnType, Busy, Writing
<1> QED
  BY <1>1, <1>2 DEF CurrentInv

\* Each step of a request is a step of the atomic requests, or changes no table.
LEMMA RequestStepIsAtomic ==
    CurrentInv /\ [RNext]_rvars => [FullNext]_vars
<1> SUFFICES ASSUME CurrentInv, RNext PROVE FullNext \/ UNCHANGED vars
  BY DEF rvars
<1>1. ASSUME NEW w \in Workers,
             \/ \E op \in Ops, s \in Slots, d \in Data : Load(w, op, s, d)
             \/ Work(w)
             \/ ReadProgress(w)
             \/ CommitTimeout(w)
      PROVE  UNCHANGED vars
  BY <1>1 DEF Load, Work, Write, Fail, LockedOut, Reject, ReadProgress, CommitTimeout
<1> QED
  BY <1>1, CommitIsAtomic, CreateRowIsAtomic DEF RNext, FullNext

\* On SQLite, whatever requests run at once, the tables change as if each had
\* run alone (ATOMIC_REQUESTS over Django's deferred transactions): what is
\* proved of the atomic requests holds of the requests of the web server.
THEOREM AtomicRequests ==
    ASSUME Engine = "sqlite"
    PROVE  RSpec => ImplementsAtomicRequests
<1>1. RInit => Init /\ CurrentInv
  BY RequestsStart DEF RInit
<1>2. CurrentInv /\ [RNext]_rvars => CurrentInv'
  BY RequestStepKeeps
<1>3. CurrentInv /\ [RNext]_rvars => [FullNext]_vars
  BY RequestStepIsAtomic
<1> QED
  BY <1>1, <1>2, <1>3, PTL DEF RSpec, FullSpec, ImplementsAtomicRequests

\* On SQLite, with PATCHes among the overlapping requests too, a submission's
\* counter, snapshots, decisions, approved version and status agree.
THEOREM OverlappingHistories ==
    ASSUME Engine = "sqlite"
    PROVE  RSpec => [](/\ VersionsContiguous
                       /\ StatusMatchesHistory
                       /\ DecisionsAnswerSubmissions
                       /\ DecisionsRecorded
                       /\ ApprovedVersionIsSubmission)
<1>1. RSpec => FullSpec
  BY AtomicRequests DEF ImplementsAtomicRequests
<1> QED
  BY <1>1, ContiguousVersions, StatusFollowsHistory, DecisionsOnSubmissions,
     DecisionsInHistory, ApprovalNamesSubmission, PTL

-----------------------------------------------------------------------------
(* SQLite, the requests of the services alone *)

NoPatches == \A w \in Workers : "update" \notin OpsOf[w]

\* No request in progress is a PATCH.
ServicesInv ==
    /\ CurrentInv
    /\ \A w \in Workers : Busy(w) => txn[w].op # "update"

LEMMA ServicesMove ==
    ASSUME ServicesInv, NEW w \in Workers,
           NEW x \in [pc: {"idle"}] \cup LoadedTxn \cup WritingTxn,
           txn' = [txn EXCEPT ![w] = x], x.pc # "idle" => x.op # "update", CurrentInv'
    PROVE  ServicesInv'
  BY OneRequestMoves DEF ServicesInv, CurrentInv, Busy

LEMMA ServicesStepKeeps ==
    Engine = "sqlite" /\ NoPatches /\ ServicesInv /\ [RNext]_rvars => ServicesInv'
<1> SUFFICES ASSUME Engine = "sqlite", NoPatches, ServicesInv, [RNext]_rvars
             PROVE  ServicesInv'
  OBVIOUS
<1>1. CurrentInv' /\ TypeOK /\ TxnType
  BY RequestStepKeeps DEF ServicesInv, CurrentInv, IInv
<1>2. CASE txn' = txn
  BY <1>1, <1>2 DEF ServicesInv, Busy
<1>3. ASSUME NEW w \in Workers, Finish(w)
      PROVE  ServicesInv'
  BY <1>1, <1>3, ServicesMove DEF Finish
<1>4. ASSUME NEW w \in Workers, NEW op \in Ops, NEW s \in Slots, NEW d \in Data,
             Load(w, op, s, d)
      PROVE  ServicesInv'
  <2>1. op # "update"
    BY <1>4 DEF Load, NoPatches
  <2> QED
    BY <1>1, <1>4, <2>1, LoadMemory, ServicesMove
<1>5. ASSUME NEW w \in Workers, Write(w)
      PROVE  ServicesInv'
  <2>1. txn[w].op # "update"
    BY <1>5 DEF Write, ServicesInv, Busy
  <2> QED
    BY <1>1, <1>5, <2>1, WriteMemory, ServicesMove
<1>6. ASSUME NEW w \in Workers, ReadProgress(w)
      PROVE  ServicesInv'
  <2>1. txn[w].op # "update"
    BY <1>6 DEF ReadProgress, ServicesInv, Busy
  <2> QED
    BY <1>1, <1>6, <2>1, ProgressMemory, ServicesMove
<1> QED
  BY <1>2, <1>3, <1>4, <1>5, <1>6
     DEF RNext, Work, Fail, LockedOut, Reject, CommitTimeout, Commit, CreateRow, rvars

\* Each step of a request is a step of the atomic services, or changes no table.
LEMMA ServicesStepIsAtomic == ServicesInv /\ [RNext]_rvars => [Next]_vars
<1> SUFFICES ASSUME ServicesInv, RNext PROVE Next \/ UNCHANGED vars
  BY DEF rvars
<1>1. ASSUME NEW w \in Workers,
             \/ \E op \in Ops, s \in Slots, d \in Data : Load(w, op, s, d)
             \/ Work(w)
             \/ ReadProgress(w)
             \/ CommitTimeout(w)
      PROVE  UNCHANGED vars
  BY <1>1 DEF Load, Work, Write, Fail, LockedOut, Reject, ReadProgress, CommitTimeout
<1>2. ASSUME NEW w \in Workers, Commit(w) PROVE Next
  BY <1>2, CommitIsAtomic DEF ServicesInv, Commit, Busy
<1> QED
  BY <1>1, <1>2, CreateRowIsAtomic DEF RNext, ServicesInv

\* On SQLite overlapping service requests act as the atomic services, so that
\* what Spec promises (the stage gate, the group's progress, whose turn it is)
\* is promised of the web server: recompute_group_status never writes a
\* progress that another request has overtaken.
THEOREM AtomicServices ==
    ASSUME Engine = "sqlite", NoPatches
    PROVE  RSpec => Spec
<1>1. RInit => Init /\ ServicesInv
  BY RequestsStart DEF RInit, ServicesInv, Busy
<1>2. ServicesInv /\ [RNext]_rvars => ServicesInv'
  BY ServicesStepKeeps
<1>3. ServicesInv /\ [RNext]_rvars => [Next]_vars
  BY ServicesStepIsAtomic
<1> QED
  BY <1>1, <1>2, <1>3, PTL DEF RSpec, Spec

\* On SQLite overlapping service requests never open a stage before its
\* prerequisites are approved, and leave each group the stage and status that
\* follow from its submissions (is_stage_unlocked, recompute_group_status).
THEOREM OverlappingProgress ==
    ASSUME Engine = "sqlite", NoPatches
    PROVE  RSpec => [](/\ NoWorkOnLockedStages
                       /\ CurrentStageUnlocked
                       /\ CurrentStageIsFirstOpen
                       /\ CompletedMeansApproved
                       /\ GroupMirrorsSubmission)
  BY AtomicServices, WorkOnlyOnUnlockedStages, CurrentStageStaysUnlocked,
     CurrentStageFirstOpen, CompletedIsApproved, GroupShowsSubmission, PTL

-----------------------------------------------------------------------------
(* Either database: what is left when requests overlap.  Without PATCH,     *)
(* which writes the whole row back from memory, the unique constraint on    *)
(* versions refuses each transition that started from an old version.       *)

Numbered(row, vers) ==
    /\ Contiguous(row, vers)
    /\ row.status = "NONE" <=> row.version = 0

\* What a request loaded was there, and may be older than the row.
Seen(t) ==
    /\ t.op # "update"
    /\ t.mem.version >= 1
    /\ t.mem.version <= sub[t.slot].version

\* A request past its UPDATE holds the lock of its row.
Locked(t) ==
    /\ RowWritten(t)
    /\ t.op \in SnapshotOps => t.mem.version = sub[t.slot].version
    /\ t.mem.status \in AdmittedStatus[t.op]

WorkerNumbers(w) ==
    /\ Busy(w) => Seen(txn[w])
    /\ Writing(w) => Locked(txn[w])

LocksDistinct ==
    \A v, w \in Workers : v # w /\ Writing(v) /\ Writing(w) => txn[v].slot # txn[w].slot

NumbersInv ==
    /\ TypeOK
    /\ TxnType
    /\ \A s \in Slots : Numbered(sub[s], versions[s])
    /\ \A w \in Workers : WorkerNumbers(w)
    /\ LocksDistinct

LEMMA NumbersUntouched ==
    ASSUME NEW v, WorkerNumbers(v), txn'[v] = txn[v],
           Busy(v) => sub'[txn[v].slot] = sub[txn[v].slot],
           Writing(v) => Busy(v)
    PROVE  WorkerNumbers(v)'
<1>1. (Busy(v)' <=> Busy(v)) /\ (Writing(v)' <=> Writing(v))
  BY DEF Busy, Writing
<1>2. ASSUME Busy(v) PROVE Seen(txn[v])' <=> Seen(txn[v])
  BY <1>2 DEF Seen
<1>3. ASSUME Writing(v) PROVE Locked(txn[v])' <=> Locked(txn[v])
  <2>1. PICK old : old = sub[txn[v].slot] /\ old = sub'[txn'[v].slot]
    BY <1>3
  <2>2. RowWritten(txn[v])' <=> RowWritten(txn[v])
    BY <2>1 DEF RowWritten
  <2> QED
    BY <2>1, <2>2 DEF Locked
<1> QED
  BY <1>1, <1>2, <1>3 DEF WorkerNumbers

\* A step of one request that leaves the tables alone.
LEMMA NumbersOneMoves ==
    ASSUME NumbersInv, UNCHANGED vars, NEW w \in Workers,
           NEW x \in [pc: {"idle"}] \cup LoadedTxn \cup WritingTxn,
           txn' = [txn EXCEPT ![w] = x], WorkerNumbers(w)',
           Writing(w)' =>
              \A v \in Workers \ {w} : Writing(v) => txn[v].slot # x.slot
    PROVE  NumbersInv'
<1>1. TxnType' /\ txn'[w] = x /\ \A v \in Workers \ {w} : txn'[v] = txn[v]
  BY OneRequestMoves DEF NumbersInv
<1>2. TypeOK' /\ \A s \in Slots : Numbered(sub'[s], versions'[s])
  BY DEF NumbersInv, TypeOK, vars
<1>3. \A v \in Workers \ {w} : WorkerNumbers(v)'
  BY <1>1, NumbersUntouched DEF NumbersInv, vars, Busy, Writing
<1>4. LocksDistinct'
  <2>1. \A v \in Workers \ {w} : Writing(v)' <=> Writing(v)
    BY <1>1 DEF Writing
  <2> QED
    BY <1>1, <2>1 DEF LocksDistinct, NumbersInv
<1> QED
  BY <1>1, <1>2, <1>3, <1>4 DEF NumbersInv

LEMMA NumbersEnd ==
    ASSUME NumbersInv, UNCHANGED vars, NEW w \in Workers, Finish(w)
    PROVE  NumbersInv'
<1> DEFINE x == [pc |-> "idle"]
<1>1. x \in [pc: {"idle"}] /\ txn' = [txn EXCEPT ![w] = x]
  BY DEF Finish
<1>2. txn'[w] = x
  BY <1>1 DEF NumbersInv, TxnType
<1>3. ~Busy(w)' /\ ~Writing(w)'
  BY <1>2 DEF Busy, Writing
<1>4. WorkerNumbers(w)'
  BY <1>3 DEF WorkerNumbers
<1> HIDE DEF x
<1> QED
  BY <1>1, <1>3, <1>4, NumbersOneMoves

LEMMA NumbersLoad ==
    ASSUME NoPatches, NumbersInv, NEW w \in Workers, NEW op \in Ops, NEW s \in Slots,
           NEW d \in Data, Load(w, op, s, d)
    PROVE  NumbersInv'
<1>1. TypeOK /\ TxnType /\ sub[s] \in Row /\ Numbered(sub[s], versions[s])
  BY DEF NumbersInv, TypeOK
<1>2. PICK x \in LoadedTxn :
         /\ txn' = [txn EXCEPT ![w] = x]
         /\ x.op = op /\ x.slot = s /\ x.mem = sub[s] /\ x.pc = "loaded"
  BY <1>1, LoadMemory
<1>3. txn'[w] = x
  BY <1>1, <1>2 DEF TxnType
<1>4. UNCHANGED vars /\ sub' = sub /\ sub[s].status # "NONE" /\ op \in OpsOf[w]
  BY DEF Load, vars
<1>5. Seen(txn[w])'
  <2>1. sub[s].version >= 1
    BY <1>1, <1>4 DEF Numbered, Row
  <2> QED
    BY <1>1, <1>2, <1>3, <1>4, <2>1 DEF Seen, NoPatches, Row
<1>6. ~Writing(w)'
  BY <1>2, <1>3 DEF Writing
<1>7. WorkerNumbers(w)'
  BY <1>5, <1>6 DEF WorkerNumbers
<1> QED
  BY <1>2, <1>4, <1>6, <1>7, NumbersOneMoves

\* A transition whose number is free started from the newest version.
LEMMA FreeNumberIsNext ==
    ASSUME NumbersInv, NEW w \in Workers, txn[w] \in LoadedTxn, ~Duplicate(txn[w]),
           txn[w].op \in SnapshotOps
    PROVE  txn[w].mem.version = sub[txn[w].slot].version
<1> DEFINE t == txn[w]
           row == sub[t.slot]
<1>1. /\ t.slot \in Slots /\ t.mem.version \in Nat /\ row.version \in Nat
      /\ versions[t.slot] \in SUBSET Version
      /\ Contiguous(row, versions[t.slot])
  BY DEF NumbersInv, TypeOK, LoadedTxn, Row, Numbered
<1>2. t.mem.version >= 1 /\ t.mem.version <= row.version
  BY DEF NumbersInv, WorkerNumbers, Busy, LoadedTxn, Seen
<1>3. t.mem.version + 1 \notin Numbers(t.slot)
  BY DEF Duplicate, SnapshotNumber
<1>4. ~ (t.mem.version + 1 <= row.version)
  <2>1. \A n \in Nat : 2 <= n /\ n <= row.version => n \in Numbers(t.slot)
    BY <1>1 DEF Contiguous, Numbers
  <2> HIDE DEF row, t
  <2> QED
    BY <1>1, <1>2, <1>3, <2>1
<1> QED
  BY <1>1, <1>2, <1>4

LEMMA NumbersWrite ==
    ASSUME NumbersInv, NEW w \in Workers, Write(w)
    PROVE  NumbersInv'
<1>1. TypeOK /\ TxnType /\ UNCHANGED vars /\ sub' = sub
  BY DEF NumbersInv, Write, vars
<1>2. /\ txn[w] \in LoadedTxn
      /\ \E x \in WritingTxn :
            /\ txn' = [txn EXCEPT ![w] = x]
            /\ x.op = txn[w].op /\ x.slot = txn[w].slot /\ x.mem = txn[w].mem
            /\ x.groupStatus = txn[w].groupStatus
            /\ x.row = WrittenRow(txn[w])
            /\ x.pc = "written" <=> x.op \in RecomputeOps
  BY <1>1, WriteMemory
<1>3. PICK x \in WritingTxn :
         /\ txn' = [txn EXCEPT ![w] = x]
         /\ x.op = txn[w].op /\ x.slot = txn[w].slot /\ x.mem = txn[w].mem
         /\ x.row = WrittenRow(txn[w])
  BY <1>2
<1>4. txn'[w] = x
  BY <1>1, <1>3 DEF TxnType
<1>5. Busy(w) /\ Admitted(txn[w]) /\ ~Duplicate(txn[w]) /\ MayWrite(w, txn[w].slot)
  BY DEF Write, Busy
<1>6. Seen(txn[w])'
  BY <1>1, <1>3, <1>4, <1>5 DEF NumbersInv, WorkerNumbers, Seen
<1>7. RowWritten(txn[w])'
  <2>1. RowWritten(x)
    BY <1>1, <1>2, <1>3, WriteWrites
  <2> QED
    BY <1>1, <1>4, <2>1 DEF RowWritten
<1>8. x.op \in SnapshotOps => x.mem.version = sub[x.slot].version
  BY <1>2, <1>3, <1>5, FreeNumberIsNext
<1>9. Locked(txn[w])'
  BY <1>1, <1>3, <1>4, <1>5, <1>7, <1>8 DEF Locked, Admitted
<1>10. WorkerNumbers(w)'
  BY <1>6, <1>9 DEF WorkerNumbers
<1>11. \A v \in Workers \ {w} : Writing(v) => txn[v].slot # x.slot
  BY <1>3, <1>5 DEF MayWrite
<1> QED
  BY <1>1, <1>3, <1>10, <1>11, NumbersOneMoves

LEMMA NumbersReadProgress ==
    ASSUME NumbersInv, NEW w \in Workers, ReadProgress(w)
    PROVE  NumbersInv'
<1>1. TypeOK /\ TxnType /\ UNCHANGED vars /\ sub' = sub
  BY DEF NumbersInv, ReadProgress, vars
<1>2. PICK x \in WritingTxn :
         /\ txn' = [txn EXCEPT ![w] = x]
         /\ x.op = txn[w].op /\ x.slot = txn[w].slot /\ x.mem = txn[w].mem
         /\ x.row = txn[w].row
  BY <1>1, ProgressMemory
<1>3. txn'[w] = x
  BY <1>1, <1>2 DEF TxnType
<1>4. Busy(w) /\ Writing(w)
  BY DEF ReadProgress, Busy, Writing
<1>5. Seen(txn[w]) /\ Locked(txn[w])
  BY <1>4 DEF NumbersInv, WorkerNumbers
<1>6. Seen(x) /\ Locked(x)
  <2>1. RowWritten(x)
    <3>1. RowWritten(txn[w])
      BY <1>5 DEF Locked
    <3> QED
      BY <1>2, <3>1 DEF RowWritten
  <2> QED
    BY <1>2, <1>5, <2>1 DEF Seen, Locked
<1>7. WorkerNumbers(w)'
  <2>1. Seen(txn[w])'
    BY <1>1, <1>3, <1>6 DEF Seen
  <2>2. RowWritten(txn[w])'
    BY <1>1, <1>3, <1>6 DEF Locked, RowWritten
  <2>3. Locked(txn[w])'
    BY <1>1, <1>3, <1>6, <2>2 DEF Locked
  <2> QED
    BY <2>1, <2>3 DEF WorkerNumbers
<1>8. \A v \in Workers \ {w} : Writing(v) => txn[v].slot # x.slot
  BY <1>2, <1>4 DEF NumbersInv, LocksDistinct
<1> QED
  BY <1>1, <1>2, <1>7, <1>8, NumbersOneMoves

\* What a commit does to the tables, by the columns of its row.
LEMMA CommitTables ==
    ASSUME NumbersInv, NEW w \in Workers, Commit(w), NEW t, t = txn[w]
    PROVE  /\ t \in WritingTxn /\ Writing(w) /\ Busy(w) /\ Locked(t) /\ Seen(t)
           /\ sub' = [sub EXCEPT ![t.slot] = t.row] /\ sub'[t.slot] = t.row
           /\ t.op \in SnapshotOps => versions' = [versions EXCEPT ![t.slot] = @ \cup
                  {[number |-> t.row.version, status |-> t.row.status,
                    data |-> t.mem.data]}]
           /\ t.op \notin SnapshotOps => versions' = versions
           /\ t.op \in {"request_changes", "approve"} =>
                  AddApproval(t.slot, DecisionOf(t.op))
           /\ t.op \notin {"request_changes", "approve"} => approvals' = approvals
           /\ changeRequests' = IF t.op = "request_changes"
                                THEN [changeRequests EXCEPT ![t.slot] = @ + 1]
                                ELSE changeRequests
           /\ group' = IF t.op \in RecomputeOps
                       THEN [group EXCEPT ![GroupOf[t.slot]] = t.group]
                       ELSE group
           /\ txn' = [txn EXCEPT ![w] = [pc |-> "idle"]]
<1>1. Writing(w) /\ Busy(w)
  BY DEF Commit, Writing, Busy
<1>2. t \in WritingTxn /\ Locked(t) /\ Seen(t)
  BY <1>1, TxnShape DEF NumbersInv, WorkerNumbers
<1>3. t.slot \in Slots
  BY <1>2 DEF WritingTxn
<1> QED
  BY <1>1, <1>2, <1>3 DEF Commit, Finish, NumbersInv, TypeOK

\* The versions of a row on which Contiguous holds have a newest one, or none.
LEMMA NewestIsNat ==
    ASSUME NEW row \in Row, NEW s \in Slots, versions[s] \in SUBSET Version,
           Contiguous(row, versions[s])
    PROVE  (IF Numbers(s) = {} THEN 0
            ELSE CHOOSE n \in Numbers(s) : \A m \in Numbers(s) : m <= n) \in Nat
<1>1. CASE Numbers(s) = {}
  BY <1>1
<1>2. CASE Numbers(s) # {}
  <2>1. PICK v \in versions[s] : TRUE
    BY <1>2 DEF Numbers
  <2>2. v.number \in Nat /\ row.version \in Nat
    BY <2>1 DEF Version, Row
  <2>3. row.version >= 2
    BY <2>1, <2>2 DEF Contiguous
  <2> QED
    BY <2>2, <2>3, NewestVersion DEF Numbers
<1> QED
  BY <1>1, <1>2

\* The status a commit leaves, and the version number.
LEMMA CommittedRow ==
    ASSUME NumbersInv, NEW w \in Workers, Commit(w), NEW t, t = txn[w],
           NEW old, old = sub[t.slot]
    PROVE  /\ old \in Row /\ t.row \in Row /\ t.slot \in Slots /\ t.op \in Ops /\ t.mem \in Row
           /\ old.version >= 1 /\ old.status # "NONE"
           /\ t.op \in SnapshotOps => /\ t.row.version = old.version + 1
                                      /\ t.row.status \in {"SUBMITTED", "RESUBMITTED",
                                             "CHANGES_REQUIRED", "APPROVED"}
           /\ t.op \notin SnapshotOps => t.row.version = old.version
           /\ t.row.status # "NONE"
<1>1. t \in WritingTxn /\ Locked(t) /\ Seen(t)
  BY CommitTables
<1>2. /\ old \in Row /\ t.row \in Row /\ t.slot \in Slots /\ t.op \in Ops /\ t.mem \in Row
      /\ Numbered(old, versions[t.slot])
      /\ old.version \in Nat /\ t.mem.version \in Nat
  BY <1>1 DEF NumbersInv, TypeOK, WritingTxn, Row
<1>3. old.version >= 1 /\ old.status # "NONE"
  BY <1>1, <1>2 DEF Seen, Numbered
<1>4. RowWritten(t) /\ t.op # "update"
      /\ (t.op \in SnapshotOps => t.mem.version = old.version)
  BY <1>1 DEF Locked, Seen
<1>5. CASE t.op = "save_draft"
  <2>1. \E d \in Data :
           t.row = [status |-> sub[t.slot].status, version |-> sub[t.slot].version,
                    data |-> d, approved |-> sub[t.slot].approved]
    BY <1>4, <1>5, Zenon DEF RowWritten
  <2>2. t.row.status = old.status /\ t.row.version = old.version
    BY <2>1
  <2> QED
    BY <1>2, <1>3, <1>5, <2>2 DEF SnapshotOps
<1>6. CASE t.op \in {"begin_review", "lock"}
  BY <1>2, <1>3, <1>4, <1>6 DEF RowWritten, SnapshotOps
<1>7. CASE t.op \in SnapshotOps
  BY <1>2, <1>3, <1>4, <1>7 DEF RowWritten, SnapshotOps
<1> QED
  BY <1>2, <1>3, <1>4, <1>5, <1>6, <1>7 DEF Ops, SnapshotOps

LEMMA CommitTypes ==
    ASSUME NumbersInv, NEW w \in Workers, Commit(w)
    PROVE  TypeOK' /\ \A s \in Slots : Numbered(sub'[s], versions'[s])
<1> DEFINE t == txn[w]
           old == sub[t.slot]
           snap == [number |-> t.row.version, status |-> t.row.status, data |-> t.mem.data]
<1>1. /\ old \in Row /\ t.row \in Row /\ t.slot \in Slots /\ t.op \in Ops /\ t.mem \in Row
      /\ old.version >= 1 /\ old.status # "NONE"
      /\ t.op \in SnapshotOps => /\ t.row.version = old.version + 1
                                 /\ t.row.status \in {"SUBMITTED", "RESUBMITTED",
                                        "CHANGES_REQUIRED", "APPROVED"}
      /\ t.op \notin SnapshotOps => t.row.version = old.version
      /\ t.row.status # "NONE"
  BY CommittedRow
<1>2. /\ t \in WritingTxn
      /\ sub' = [sub EXCEPT ![t.slot] = t.row] /\ sub'[t.slot] = t.row
      /\ t.op \in SnapshotOps => versions' = [versions EXCEPT ![t.slot] = @ \cup {snap}]
      /\ t.op \notin SnapshotOps => versions' = versions
      /\ t.op \in {"request_changes", "approve"} =>
             AddApproval(t.slot, DecisionOf(t.op))
      /\ t.op \notin {"request_changes", "approve"} => approvals' = approvals
      /\ changeRequests' = IF t.op = "request_changes"
                           THEN [changeRequests EXCEPT ![t.slot] = @ + 1]
                           ELSE changeRequests
      /\ group' = IF t.op \in RecomputeOps
                  THEN [group EXCEPT ![GroupOf[t.slot]] = t.group]
                  ELSE group
  BY CommitTables
<1>3. /\ sub \in [Slots -> Row] /\ versions \in [Slots -> SUBSET Version]
      /\ approvals \in [Slots -> Seq(Approval)] /\ changeRequests \in [Slots -> Nat]
      /\ group \in [Groups -> GroupRow]
      /\ \A s \in Slots : Numbered(sub[s], versions[s])
  BY DEF NumbersInv, TypeOK, GroupRow
<1>4. /\ t.group \in GroupRow /\ t.mem.data \in Data /\ t.row.version \in Nat
      /\ old.version \in Nat
  BY <1>1, <1>2 DEF WritingTxn, Row
<1> HIDE DEF t, old
<1>5. t.op \in SnapshotOps => snap \in Version /\ snap.number = t.row.version
  BY <1>1, <1>4 DEF Version, SubmissionStatus
<1> HIDE DEF snap
<1>6. sub' \in [Slots -> Row]
  BY <1>1, <1>2, <1>3
<1>7. versions' \in [Slots -> SUBSET Version]
  <2>1. CASE t.op \notin SnapshotOps
    BY <1>2, <1>3, <2>1
  <2>2. CASE t.op \in SnapshotOps
    <3> DEFINE kept == versions[t.slot] \cup {snap}
    <3>1. kept \in SUBSET Version
      BY <1>1, <1>3, <1>5, <2>2
    <3>2. versions' = [versions EXCEPT ![t.slot] = kept]
      BY <1>2, <2>2
    <3> HIDE DEF kept
    <3> QED
      BY <1>1, <1>3, <3>1, <3>2
  <2> QED
    BY <2>1, <2>2
<1>8. approvals' \in [Slots -> Seq(Approval)]
  <2>1. CASE t.op \notin {"request_changes", "approve"}
    BY <1>2, <1>3, <2>1
  <2>2. CASE t.op \in {"request_changes", "approve"}
    <3> DEFINE latest == IF Numbers(t.slot) = {} THEN 0
                         ELSE CHOOSE n \in Numbers(t.slot) :
                                 \A m \in Numbers(t.slot) : m <= n
               approval == [decision |-> DecisionOf(t.op), version |-> latest]
    <3>1. latest \in Nat
      BY <1>1, <1>3, NewestIsNat DEF old, Numbered
    <3>2. approvals' = [approvals EXCEPT ![t.slot] = Append(@, approval)]
      BY <1>2, <2>2 DEF AddApproval
    <3> HIDE DEF latest
    <3>3. approval \in Approval
      BY <3>1 DEF Approval, DecisionOf
    <3> HIDE DEF approval
    <3>4. Append(approvals[t.slot], approval) \in Seq(Approval)
      BY <1>1, <1>3, <3>3
    <3> QED
      BY <1>1, <1>3, <3>2, <3>4
  <2> QED
    BY <2>1, <2>2
<1>9. changeRequests' \in [Slots -> Nat] /\ group' \in [Groups -> GroupRow]
  <2>1. changeRequests' \in [Slots -> Nat]
    BY <1>1, <1>2, <1>3
  <2>2. group' \in [Groups -> GroupRow]
    BY <1>2, <1>3, <1>4
  <2> QED
    BY <2>1, <2>2
<1>10. ASSUME NEW s \in Slots PROVE Numbered(sub'[s], versions'[s])
  <2>1. CASE s # t.slot
    BY <1>1, <1>2, <1>3, <2>1
  <2>2. CASE s = t.slot /\ t.op \in SnapshotOps
    <3>1. sub'[s] = t.row /\ versions'[s] = versions[s] \cup {snap}
      BY <1>1, <1>2, <1>3, <2>2
    <3>2. Contiguous(t.row, versions[s] \cup {snap})
      BY <1>1, <1>3, <1>5, <2>2, NextNumber DEF Numbered, old
    <3> QED
      BY <1>1, <1>4, <2>2, <3>1, <3>2 DEF Numbered
  <2>3. CASE s = t.slot /\ t.op \notin SnapshotOps
    <3>1. sub'[s] = t.row /\ versions'[s] = versions[s] /\ t.row.version = old.version
      BY <1>1, <1>2, <1>3, <2>3
    <3> QED
      BY <1>1, <1>3, <1>4, <2>3, <3>1 DEF Numbered, Contiguous, old
  <2> QED
    BY <2>1, <2>2, <2>3
<1> QED
  BY <1>6, <1>7, <1>8, <1>9, <1>10 DEF TypeOK, GroupRow

LEMMA NumbersCommit ==
    ASSUME NumbersInv, NEW w \in Workers, Commit(w)
    PROVE  NumbersInv'
<1> DEFINE t == txn[w]
           old == sub[t.slot]
<1>1. /\ old \in Row /\ t.row \in Row /\ t.slot \in Slots
      /\ t.row.version = old.version \/ t.row.version = old.version + 1
  BY CommittedRow
<1>2. /\ Writing(w)
      /\ sub' = [sub EXCEPT ![t.slot] = t.row] /\ sub'[t.slot] = t.row
      /\ txn' = [txn EXCEPT ![w] = [pc |-> "idle"]]
  BY CommitTables
<1>3. [pc |-> "idle"] \in [pc: {"idle"}] /\ TxnType
  BY DEF NumbersInv
<1>4. TxnType' /\ txn'[w] = [pc |-> "idle"] /\ \A v \in Workers \ {w} : txn'[v] = txn[v]
  BY <1>2, <1>3, OneRequestMoves
<1>5. WorkerNumbers(w)'
  BY <1>4 DEF WorkerNumbers, Busy, Writing
<1>6. ASSUME NEW v \in Workers \ {w} PROVE WorkerNumbers(v)'
  <2>1. WorkerNumbers(v) /\ (Writing(v) => txn[v].slot # t.slot) /\ txn'[v] = txn[v]
    BY <1>2, <1>4 DEF NumbersInv, LocksDistinct
  <2>2. CASE Busy(v) /\ txn[v].slot # t.slot
    <3>1. txn[v].slot \in Slots
      BY <1>3, <2>2, TxnShape DEF LoadedTxn, WritingTxn
    <3>2. sub'[txn[v].slot] = sub[txn[v].slot]
      BY <1>1, <1>2, <2>2, <3>1 DEF NumbersInv, TypeOK
    <3> QED
      BY <2>1, <3>2, NumbersUntouched DEF Busy, Writing
  <2>3. CASE Busy(v) /\ txn[v].slot = t.slot
    <3>1. ~Writing(v)' /\ Seen(txn[v])
      BY <2>1, <2>3 DEF Writing, WorkerNumbers
    <3>2. txn[v].mem.version \in Nat /\ old.version \in Nat
      BY <1>1, <1>3, <2>3, TxnShape DEF LoadedTxn, WritingTxn, Row
    <3>3. Seen(txn[v])'
      BY <1>1, <1>2, <2>1, <2>3, <3>1, <3>2 DEF Seen
    <3> QED
      BY <3>1, <3>3 DEF WorkerNumbers
  <2>4. CASE ~Busy(v)
    BY <2>1, <2>4 DEF WorkerNumbers, Busy, Writing
  <2> QED
    BY <2>2, <2>3, <2>4
<1>7. LocksDistinct'
  <2>1. ~Writing(w)' /\ \A v \in Workers \ {w} : Writing(v)' <=> Writing(v)
    BY <1>4 DEF Writing
  <2> QED
    BY <1>4, <2>1 DEF LocksDistinct, NumbersInv
<1>8. \A v \in Workers : WorkerNumbers(v)'
  BY <1>5, <1>6
<1> QED
  BY <1>4, <1>7, <1>8, CommitTypes DEF NumbersInv

LEMMA NumbersCreate ==
    ASSUME NumbersInv, NEW s \in Slots, NEW d \in Data, NEW u, CreateRow(u, s, d)
    PROVE  NumbersInv'
<1> DEFINE row == [status |-> "DRAFT", version |-> 1, data |-> d, approved |-> 0]
<1>1. /\ sub[s].status = "NONE" /\ txn' = txn
      /\ sub' = [sub EXCEPT ![s] = row]
      /\ UNCHANGED <<versions, approvals, changeRequests, group>>
  BY DEF CreateRow, Create, NumbersInv, TypeOK
<1>2. row \in Row
  BY DEF Row, SubmissionStatus
<1>3. TypeOK'
  BY <1>1, <1>2 DEF NumbersInv, TypeOK
<1>4. ASSUME NEW r \in Slots PROVE Numbered(sub'[r], versions'[r])
  <2>1. CASE r # s
    BY <1>1, <2>1 DEF NumbersInv, TypeOK
  <2>2. CASE r = s
    <3>1. sub[s].version = 0 /\ Contiguous(sub[s], versions[s]) /\ versions' = versions
      BY <1>1 DEF NumbersInv, Numbered
    <3>2. Contiguous(row, versions[s])
      BY <3>1 DEF Contiguous
    <3>3. sub'[r] = row
      BY <1>1, <2>2 DEF NumbersInv, TypeOK
    <3> QED
      BY <2>2, <3>1, <3>2, <3>3 DEF Numbered
  <2> QED
    BY <2>1, <2>2
<1>5. ASSUME NEW v \in Workers PROVE WorkerNumbers(v)'
  <2>1. WorkerNumbers(v) /\ TxnType /\ txn'[v] = txn[v]
    BY <1>1 DEF NumbersInv
  <2>2. ASSUME Busy(v) PROVE sub'[txn[v].slot] = sub[txn[v].slot]
    <3>1. txn[v].slot \in Slots /\ txn[v].mem.version \in Nat
      BY <2>1, <2>2, TxnShape DEF LoadedTxn, WritingTxn, Row
    <3>2. sub[s].version = 0
      BY <1>1 DEF NumbersInv, Numbered
    <3>3. txn[v].slot # s
      BY <2>1, <2>2, <3>1, <3>2 DEF WorkerNumbers, Seen
    <3> QED
      BY <1>1, <3>1, <3>3 DEF NumbersInv, TypeOK
  <2> QED
    BY <2>1, <2>2, NumbersUntouched DEF Busy, Writing
<1>6. TxnType' /\ LocksDistinct'
  BY <1>1 DEF NumbersInv, TxnType, LocksDistinct, Writing
<1> QED
  BY <1>3, <1>4, <1>5, <1>6 DEF NumbersInv

LEMMA NumbersStart == RInit => NumbersInv
<1> SUFFICES ASSUME RInit PROVE NumbersInv
  OBVIOUS
<1>1. IInv
  BY InitEstablishes DEF RInit
<1>2. \A s \in Slots : Numbered(sub[s], versions[s])
  BY <1>1 DEF RInit, Init, NoRow, IInv, Histories, HistoryOK, Numbered
<1>3. TxnType /\ \A w \in Workers : ~Busy(w) /\ ~Writing(w)
  BY DEF RInit, TxnType, Busy, Writing
<1> QED
  BY <1>1, <1>2, <1>3 DEF NumbersInv, IInv, WorkerNumbers, LocksDistinct

LEMMA NumbersStep == NoPatches /\ NumbersInv /\ [RNext]_rvars => NumbersInv'
<1> SUFFICES ASSUME NoPatches, NumbersInv, [RNext]_rvars PROVE NumbersInv'
  OBVIOUS
<1>1. CASE UNCHANGED rvars
  <2>1. sub' = sub /\ versions' = versions /\ txn' = txn /\ UNCHANGED vars
    BY <1>1 DEF rvars, vars
  <2>2. TypeOK' /\ TxnType' /\ LocksDistinct' /\ \A s \in Slots : Numbered(sub'[s], versions'[s])
    BY <2>1 DEF NumbersInv, TypeOK, TxnType, LocksDistinct, vars, Writing
  <2>3. \A v \in Workers : WorkerNumbers(v)'
    BY <2>1, NumbersUntouched DEF NumbersInv, Busy, Writing
  <2> QED
    BY <2>2, <2>3 DEF NumbersInv
<1>2. CASE \E s \in Slots, d \in Data : \E u \in Editors[GroupOf[s]] : CreateRow(u, s, d)
  BY <1>2, NumbersCreate
<1>3. ASSUME NEW w \in Workers, Fail(w) \/ LockedOut(w) \/ Reject(w) \/ CommitTimeout(w)
      PROVE  NumbersInv'
  BY <1>3, NumbersEnd DEF Fail, LockedOut, Reject, CommitTimeout
<1> QED
  BY <1>1, <1>2, <1>3, NumbersLoad, NumbersWrite, NumbersReadProgress, NumbersCommit
     DEF RNext, Work

\* The invariant of overlapping requests, whatever the database.
LEMMA NumbersKept == NoPatches => (RSpec => []NumbersInv)
<1> SUFFICES ASSUME NoPatches PROVE RSpec => []NumbersInv
  OBVIOUS
<1>1. RInit => NumbersInv
  BY NumbersStart
<1>2. NumbersInv /\ [RNext]_rvars => NumbersInv'
  BY NumbersStep
<1> QED
  BY <1>1, <1>2, PTL DEF RSpec

\* On either database, and with any number of requests at once, the versions
\* of a submission are numbered 2 to its version_number without gap or
\* repetition: uniq_submission_version refuses the transitions that started
\* from an old version, and no later one.
THEOREM OverlappingVersions ==
    ASSUME NoPatches
    PROVE  RSpec => []VersionsContiguous
<1>1. NumbersInv => VersionsContiguous
  <2> SUFFICES ASSUME NumbersInv, NEW s \in Slots
               PROVE  /\ Numbers(s) = 2..sub[s].version
                      /\ \A v, w \in versions[s] : v.number = w.number => v = w
    BY DEF VersionsContiguous
  <2>1. /\ sub[s] \in Row /\ versions[s] \in SUBSET Version
        /\ Contiguous(sub[s], versions[s])
    BY DEF NumbersInv, TypeOK, Numbered
  <2> QED
    BY <2>1, ContiguousNumbers
<1> QED
  BY <1>1, NumbersKept, PTL
-----------------------------------------------------------------------------
(* Either database, when the requests of one worker at most are a guide's:  *)
(* students may overlap with the guide and with each other.                 *)

SingleDecider == \E w0 \in Workers : \A w \in Workers \ {w0} : OpsOf[w] \subseteq StudentOps

\* While the version number stands, the status a request has in memory is that
\* of the row, or the guide has gone one of the two steps that take no snapshot.
Follows(t) ==
    LET old == sub[t.slot]
    IN  t.mem.version = old.version /\ t.mem.status # old.status =>
            /\ t.op \in StudentOps
            /\ \/ t.mem.status \in {"SUBMITTED", "RESUBMITTED"} /\ old.status = "UNDER_REVIEW"
               \/ t.mem.status = "APPROVED" /\ old.status = "LOCKED"

\* What a guide has seen waiting for review, or approved, still is.
GuideFollows(t) ==
    t.op \notin StudentOps /\ t.mem.status \in {"SUBMITTED", "RESUBMITTED", "APPROVED"} =>
        sub[t.slot].status = t.mem.status

WorkerFollows(w) ==
    Busy(w) => txn[w].op \in OpsOf[w] /\ Follows(txn[w]) /\ GuideFollows(txn[w])

OneDeciderInv ==
    /\ NumbersInv
    /\ Histories
    /\ \A w \in Workers : WorkerFollows(w)

LEMMA FollowsUntouched ==
    ASSUME NEW v, WorkerFollows(v), txn'[v] = txn[v],
           Busy(v) => sub'[txn[v].slot] = sub[txn[v].slot]
    PROVE  WorkerFollows(v)'
<1>1. Busy(v)' <=> Busy(v)
  BY DEF Busy
<1>2. ASSUME Busy(v)
      PROVE  /\ Follows(txn[v])' <=> Follows(txn[v])
             /\ GuideFollows(txn[v])' <=> GuideFollows(txn[v])
  BY <1>2 DEF Follows, GuideFollows
<1> QED
  BY <1>1, <1>2 DEF WorkerFollows

\* A step of one request that leaves the tables and its own memory alone.
LEMMA FollowsOneMoves ==
    ASSUME OneDeciderInv, UNCHANGED vars, NEW w \in Workers,
           NEW x \in [pc: {"idle"}] \cup LoadedTxn \cup WritingTxn,
           txn' = [txn EXCEPT ![w] = x],
           x.pc # "idle" =>
              /\ x.op \in OpsOf[w]
              /\ x.mem = sub[x.slot] \/ (/\ Busy(w) /\ x.op = txn[w].op
                                         /\ x.slot = txn[w].slot /\ x.mem = txn[w].mem)
    PROVE  Histories' /\ \A v \in Workers : WorkerFollows(v)'
<1>1. /\ txn'[w] = x /\ \A v \in Workers \ {w} : txn'[v] = txn[v]
      /\ sub' = sub /\ versions' = versions /\ approvals' = approvals
  BY OneRequestMoves DEF OneDeciderInv, NumbersInv, vars
<1>2. Histories'
  BY <1>1 DEF OneDeciderInv, Histories
<1>3. \A v \in Workers \ {w} : WorkerFollows(v)'
  BY <1>1, FollowsUntouched DEF OneDeciderInv
<1>4. WorkerFollows(w)'
  <2>1. CASE x.pc = "idle"
    BY <1>1, <2>1 DEF WorkerFollows, Busy
  <2>2. CASE x.pc # "idle" /\ x.mem = sub[x.slot]
    <3>1. Follows(x)'
      BY <1>1, <2>2 DEF Follows
    <3>2. GuideFollows(x)'
      BY <1>1, <2>2 DEF GuideFollows
    <3> QED
      BY <1>1, <2>2, <3>1, <3>2 DEF WorkerFollows, Follows, GuideFollows
  <2>3. CASE /\ x.pc # "idle" /\ Busy(w) /\ x.op = txn[w].op
             /\ x.slot = txn[w].slot /\ x.mem = txn[w].mem
    <3>1. Follows(txn[w]) /\ GuideFollows(txn[w])
      BY <2>3 DEF OneDeciderInv, WorkerFollows
    <3> QED
      BY <1>1, <2>3, <3>1 DEF WorkerFollows, Follows, GuideFollows
  <2> QED
    BY <2>1, <2>2, <2>3
<1> QED
  BY <1>2, <1>3, <1>4

\* The status of the row a transition writes over.
LEMMA StatusWrittenOver ==
    ASSUME OneDeciderInv, NEW w \in Workers, Commit(w), NEW t, t = txn[w],
           NEW old, old = sub[t.slot]
    PROVE  /\ t.op \in SnapshotOps => t.mem.version = old.version
           /\ t.op = "submit" => /\ old.status \in AllowedEditStates \cup {"UNDER_REVIEW"}
                                 /\ old.status = "RESUBMITTED" => t.mem.status # "DRAFT"
           /\ t.op = "begin_review" => old.status \in {"SUBMITTED", "RESUBMITTED"}
           /\ t.op \in {"request_changes", "approve"} => old.status = "UNDER_REVIEW"
           /\ t.op = "lock" => old.status = "APPROVED"
<1>1. /\ Locked(t) /\ Busy(w) /\ t.op \in Ops /\ t.op # "update"
  <2>1. t \in WritingTxn /\ Locked(t) /\ Seen(t) /\ Busy(w)
    BY CommitTables DEF OneDeciderInv
  <2> QED
    BY <2>1 DEF WritingTxn, Seen
<1>2. Follows(t) /\ GuideFollows(t)
  BY <1>1 DEF OneDeciderInv, WorkerFollows
<1>3. /\ t.op \in SnapshotOps => t.mem.version = old.version
      /\ t.mem.status \in AdmittedStatus[t.op]
  BY <1>1 DEF Locked
<1>4. CASE t.op = "submit"
  <2>1. t.mem.status \in AllowedEditStates
    BY <1>3, <1>4, AdmittedStatuses
  <2> QED
    BY <1>2, <1>3, <1>4, <2>1 DEF Follows, AllowedEditStates, SnapshotOps, StudentOps
<1>5. CASE t.op = "begin_review"
  BY <1>2, <1>3, <1>5, AdmittedStatuses DEF GuideFollows, StudentOps, SnapshotOps
<1>6. CASE t.op \in {"request_changes", "approve"}
  <2>1. t.mem.status = "UNDER_REVIEW"
    BY <1>3, <1>6, AdmittedStatuses
  <2> QED
    BY <1>2, <1>3, <1>6, <2>1 DEF Follows, SnapshotOps
<1>7. CASE t.op = "lock"
  BY <1>2, <1>3, <1>7, AdmittedStatuses DEF GuideFollows, StudentOps, SnapshotOps
<1> QED
  BY <1>3, <1>4, <1>5, <1>6, <1>7

\* The committed row keeps the history of its slot.
LEMMA CommitHistory ==
    ASSUME OneDeciderInv, NEW w \in Workers, Commit(w)
    PROVE  Histories'
<1> DEFINE t == txn[w]
           s == t.slot
           old == sub[s]
           row == t.row
           vers == versions[s]
           apps == approvals[s]
           memData == t.mem.data
           snap == [number |-> row.version, status |-> row.status, data |-> memData]
<1>1. /\ old \in Row /\ row \in Row /\ s \in Slots /\ t.op \in Ops /\ t.mem \in Row
      /\ t.op \notin {"update"} /\ IInv /\ HistoryOK(old, vers, apps)
  <2>1. Seen(t)
    BY CommitTables DEF OneDeciderInv
  <2> QED
    BY <2>1, CommittedRow DEF OneDeciderInv, NumbersInv, IInv, Histories, Seen
<1>2. /\ Locked(t)
      /\ sub' = [sub EXCEPT ![s] = row]
      /\ t.op \in SnapshotOps => versions' = [versions EXCEPT ![s] = vers \cup {snap}]
      /\ t.op \notin SnapshotOps => versions' = versions
      /\ t.op \in {"request_changes", "approve"} => AddApproval(s, DecisionOf(t.op))
      /\ t.op \notin {"request_changes", "approve"} => approvals' = approvals
  BY CommitTables DEF OneDeciderInv
<1>3. /\ t.op \in SnapshotOps => t.mem.version = old.version
      /\ t.op = "submit" => old.status \in AllowedEditStates \cup {"UNDER_REVIEW"}
      /\ t.op = "begin_review" => old.status \in {"SUBMITTED", "RESUBMITTED"}
      /\ t.op \in {"request_changes", "approve"} => old.status = "UNDER_REVIEW"
      /\ t.op = "lock" => old.status = "APPROVED"
  BY StatusWrittenOver
<1>4. RowWritten(t) /\ memData \in Data
  BY <1>1, <1>2 DEF Locked, Row
<1>5. /\ approvals' = approvals => approvals' = [approvals EXCEPT ![s] = apps]
      /\ versions' = versions => versions' = [versions EXCEPT ![s] = vers]
  BY <1>1 DEF IInv, TypeOK
<1>6. CASE t.op = "save_draft"
  <2>1. PICK d \in Data : row = [status |-> old.status, version |-> old.version,
                                data |-> d, approved |-> old.approved]
    BY <1>4, <1>6, Zenon DEF RowWritten
  <2>2. row = [old EXCEPT !.data = d]
    BY <1>1, <2>1 DEF Row
  <2>3. HistoryOK(row, vers, apps)
    BY <1>1, <2>2, EditHistory
  <2>4. versions' = versions /\ approvals' = approvals
    BY <1>2, <1>6 DEF SnapshotOps
  <2> HIDE DEF row, vers, apps, s
  <2> QED
    BY <1>1, <1>2, <1>5, <2>3, <2>4, OneSlotChanges
<1>7. CASE t.op = "begin_review"
  <2>1. row = [old EXCEPT !.status = "UNDER_REVIEW"]
    BY <1>1, <1>4, <1>7 DEF RowWritten, Row
  <2>2. HistoryOK(row, vers, apps)
    BY <1>1, <1>3, <1>7, <2>1, ReviewHistory
  <2>3. versions' = versions /\ approvals' = approvals
    BY <1>2, <1>7 DEF SnapshotOps
  <2> HIDE DEF row, vers, apps, s
  <2> QED
    BY <1>1, <1>2, <1>5, <2>2, <2>3, OneSlotChanges
<1>8. CASE t.op = "lock"
  <2>1. row = [old EXCEPT !.status = "LOCKED"]
    BY <1>1, <1>4, <1>8 DEF RowWritten, Row
  <2>2. HistoryOK(row, vers, apps)
    BY <1>1, <1>3, <1>8, <2>1, LockHistory
  <2>3. versions' = versions /\ approvals' = approvals
    BY <1>2, <1>8 DEF SnapshotOps
  <2> HIDE DEF row, vers, apps, s
  <2> QED
    BY <1>1, <1>2, <1>5, <2>2, <2>3, OneSlotChanges
<1>9. CASE t.op = "submit"
  <2> DEFINE st == IF t.mem.status = "DRAFT" THEN "SUBMITTED" ELSE "RESUBMITTED"
  <2>1. row = [status |-> st, version |-> old.version + 1, data |-> memData,
               approved |-> old.approved]
    BY <1>3, <1>4, <1>9 DEF RowWritten, SnapshotOps
  <2>2. st \in {"SUBMITTED", "RESUBMITTED"}
    OBVIOUS
  <2> HIDE DEF st, row, memData, old, vers, apps, s
  <2>3. snap = [number |-> row.version, status |-> st, data |-> memData]
    BY <2>1
  <2> HIDE DEF snap
  <2>4. HistoryOK(row, vers \cup {snap}, apps)
    BY <1>1, <1>3, <1>4, <1>9, <2>1, <2>2, <2>3, SubmitHistory
  <2>5. versions' = [versions EXCEPT ![s] = vers \cup {snap}] /\ approvals' = approvals
    BY <1>2, <1>9 DEF SnapshotOps
  <2> QED
    BY <1>1, <1>2, <1>5, <2>4, <2>5, OneSlotChanges
<1>10. CASE t.op \in {"request_changes", "approve"}
  <2> DEFINE decision == DecisionOf(t.op)
             approval == [decision |-> decision, version |-> old.version]
  <2>1. row = [status |-> decision, version |-> old.version + 1, data |-> old.data,
               approved |-> IF decision = "APPROVED" THEN old.version ELSE old.approved]
    BY <1>3, <1>4, <1>10 DEF RowWritten, SnapshotOps, DecisionOf
  <2>2. decision \in {"APPROVED", "CHANGES_REQUIRED"}
    BY DEF DecisionOf
  <2>3. AddApproval(s, decision)
    BY <1>2, <1>10
  <2> HIDE DEF decision, row, memData, vers, apps
  <2>4. snap = [number |-> row.version, status |-> decision, data |-> memData]
    BY <2>1
  <2> HIDE DEF snap
  <2>5. /\ old.version >= 2
        /\ HistoryOK(row, vers \cup {snap}, Append(apps, approval))
    <3> HIDE DEF old
    <3> QED
      BY <1>1, <1>3, <1>4, <1>10, <2>1, <2>2, <2>4, DecisionHistory
  <2>6. approvals' = [approvals EXCEPT ![s] = Append(apps, approval)]
    BY <1>1, <2>3, <2>5, ApprovalIs DEF apps
  <2>7. versions' = [versions EXCEPT ![s] = vers \cup {snap}]
    BY <1>2, <1>10 DEF SnapshotOps
  <2> HIDE DEF old, s, approval
  <2> QED
    BY <1>1, <1>2, <2>5, <2>6, <2>7, OneSlotChanges
<1> QED
  BY <1>1, <1>6, <1>7, <1>8, <1>9, <1>10 DEF Ops

\* The status a commit leaves, as far as another request can tell.
LEMMA StatusCommitted ==
    ASSUME OneDeciderInv, NEW w \in Workers, Commit(w), NEW t, t = txn[w],
           NEW old, old = sub[t.slot]
    PROVE  /\ t.op \in SnapshotOps => t.row.version = old.version + 1
           /\ t.op \in StudentOps /\ old.status \in {"SUBMITTED", "RESUBMITTED", "APPROVED"}
              => t.row.status = old.status
           /\ t.op = "save_draft" => t.row.status = old.status
           /\ t.op = "begin_review" => t.row.status = "UNDER_REVIEW"
           /\ t.op = "lock" => t.row.status = "LOCKED"
           /\ t.op = "approve" => t.row.status = "APPROVED"
<1>1. RowWritten(t) /\ t.op \in Ops /\ (t.op \in SnapshotOps => t.row.version = old.version + 1)
  <2>1. Locked(t)
    BY CommitTables DEF OneDeciderInv
  <2> QED
    BY <2>1, CommittedRow DEF Locked, OneDeciderInv
<1>2. CASE t.op = "save_draft"
  <2>1. \E d \in Data :
           t.row = [status |-> sub[t.slot].status, version |-> sub[t.slot].version,
                    data |-> d, approved |-> sub[t.slot].approved]
    BY <1>1, <1>2, Zenon DEF RowWritten
  <2>2. t.row.status = old.status
    BY <2>1
  <2> QED
    BY <1>2, <2>2 DEF SnapshotOps
<1>3. CASE t.op = "submit"
  <2>1. t.row.status = IF t.mem.status = "DRAFT" THEN "SUBMITTED" ELSE "RESUBMITTED"
    BY <1>1, <1>3 DEF RowWritten
  <2>2. /\ old.status \in AllowedEditStates \cup {"UNDER_REVIEW"}
        /\ old.status = "RESUBMITTED" => t.mem.status # "DRAFT"
    BY <1>3, StatusWrittenOver
  <2> QED
    BY <1>1, <1>3, <2>1, <2>2 DEF AllowedEditStates
<1>4. t.op = "begin_review" => t.row.status = "UNDER_REVIEW"
  BY <1>1 DEF RowWritten
<1>5. t.op = "lock" => t.row.status = "LOCKED"
  BY <1>1 DEF RowWritten
<1>6. t.op = "approve" => t.row.status = "APPROVED"
  BY <1>1 DEF RowWritten
<1> QED
  BY <1>1, <1>2, <1>3, <1>4, <1>5, <1>6 DEF StudentOps

LEMMA FollowsCommit ==
    ASSUME SingleDecider, OneDeciderInv, NEW w \in Workers, Commit(w),
           NEW v \in Workers \ {w}
    PROVE  WorkerFollows(v)'
<1> DEFINE t == txn[w]
           u == txn[v]
           old == sub[t.slot]
<1>1. /\ sub' = [sub EXCEPT ![t.slot] = t.row] /\ sub'[t.slot] = t.row
      /\ Busy(w) /\ txn'[v] = u
      /\ t.slot \in Slots /\ t.op \in Ops /\ t.op # "update"
      /\ old \in Row /\ old.version \in Nat
      /\ t.op \notin SnapshotOps => t.row.version = old.version
  <2>1. sub' = [sub EXCEPT ![t.slot] = t.row] /\ sub'[t.slot] = t.row /\ Busy(w) /\ Seen(t)
        /\ txn' = [txn EXCEPT ![w] = [pc |-> "idle"]]
    BY CommitTables DEF OneDeciderInv
  <2>2. txn'[v] = u
    BY <2>1 DEF OneDeciderInv, NumbersInv, TxnType
  <2>3. t.slot \in Slots /\ t.op \in Ops /\ old \in Row
        /\ (t.op \notin SnapshotOps => t.row.version = old.version)
    BY CommittedRow DEF OneDeciderInv
  <2> QED
    BY <2>1, <2>2, <2>3 DEF Seen, Row
<1>2. /\ t.op \in SnapshotOps => t.row.version = old.version + 1
      /\ t.op \in StudentOps /\ old.status \in {"SUBMITTED", "RESUBMITTED", "APPROVED"}
         => t.row.status = old.status
      /\ t.op = "save_draft" => t.row.status = old.status
      /\ t.op = "begin_review" => t.row.status = "UNDER_REVIEW"
      /\ t.op = "lock" => t.row.status = "LOCKED"
  BY StatusCommitted
<1>3. /\ t.op = "begin_review" => old.status \in {"SUBMITTED", "RESUBMITTED"}
      /\ t.op = "lock" => old.status = "APPROVED"
  BY StatusWrittenOver
<1>4. CASE ~Busy(v)
  BY <1>1, <1>4 DEF WorkerFollows, Busy
<1>5. CASE Busy(v) /\ u.slot # t.slot
  <2>1. u.slot \in Slots
    BY <1>5, TxnShape DEF OneDeciderInv, NumbersInv, LoadedTxn, WritingTxn
  <2>2. sub'[u.slot] = sub[u.slot]
    BY <1>1, <1>5, <2>1 DEF OneDeciderInv, NumbersInv, TypeOK
  <2> QED
    BY <1>1, <2>2, FollowsUntouched DEF OneDeciderInv
<1>6. CASE Busy(v) /\ u.slot = t.slot
  <2>1. u.op \in OpsOf[v] /\ Follows(u) /\ GuideFollows(u) /\ t.op \in OpsOf[w]
    BY <1>1, <1>6 DEF OneDeciderInv, WorkerFollows
  <2>2. u.op \in StudentOps \/ t.op \in StudentOps
    BY <2>1 DEF SingleDecider
  <2>3. u.mem.version \in Nat /\ u.mem.version <= old.version
    <3>1. Seen(u)
      BY <1>6 DEF OneDeciderInv, NumbersInv, WorkerNumbers
    <3>2. u.mem \in Row
      BY <1>6, TxnShape DEF OneDeciderInv, NumbersInv, LoadedTxn, WritingTxn
    <3> QED
      BY <1>6, <3>1, <3>2 DEF Seen, Row
  <2> HIDE DEF t, u
  <2>4. Follows(u)'
    <3>1. CASE t.op \in SnapshotOps
      <4>1. u.mem.version # t.row.version
        BY <1>1, <1>2, <2>3, <3>1
      <4> QED
        BY <1>1, <1>6, <4>1 DEF Follows, u
    <3>2. CASE t.op = "save_draft"
      BY <1>1, <1>2, <1>6, <2>1, <3>2 DEF Follows, SnapshotOps, u
    <3>3. CASE t.op = "begin_review"
      BY <1>1, <1>2, <1>3, <1>6, <2>1, <2>2, <3>3 DEF Follows, SnapshotOps, StudentOps, u
    <3>4. CASE t.op = "lock"
      BY <1>1, <1>2, <1>3, <1>6, <2>1, <2>2, <3>4 DEF Follows, SnapshotOps, StudentOps, u
    <3> QED
      BY <1>1, <3>1, <3>2, <3>3, <3>4 DEF Ops, SnapshotOps
  <2>5. GuideFollows(u)'
    BY <1>1, <1>2, <1>6, <2>1, <2>2 DEF GuideFollows, u
  <2> QED
    BY <1>1, <2>1, <2>4, <2>5 DEF WorkerFollows, Follows, GuideFollows, u
<1> QED
  BY <1>4, <1>5, <1>6

LEMMA OneDeciderCommit ==
    ASSUME SingleDecider, OneDeciderInv, NEW w \in Workers, Commit(w)
    PROVE  OneDeciderInv'
<1>1. NumbersInv' /\ Histories'
  BY NumbersCommit, CommitHistory DEF OneDeciderInv
<1>2. WorkerFollows(w)'
  <2>1. txn'[w] = [pc |-> "idle"]
    BY DEF Commit, Finish, OneDeciderInv, NumbersInv, TxnType
  <2> QED
    BY <2>1 DEF WorkerFollows, Busy
<1> QED
  BY <1>1, <1>2, FollowsCommit DEF OneDeciderInv

LEMMA OneDeciderCreate ==
    ASSUME OneDeciderInv, NEW s \in Slots, NEW d \in Data, NEW u, CreateRow(u, s, d)
    PROVE  OneDeciderInv'
<1>1. NumbersInv' /\ sub[s].status = "NONE" /\ txn' = txn
  BY NumbersCreate DEF OneDeciderInv, CreateRow
<1>2. Histories'
  BY CreateKeeps DEF OneDeciderInv, NumbersInv, IInv, CreateRow
<1>3. ASSUME NEW v \in Workers PROVE WorkerFollows(v)'
  <2>1. ASSUME Busy(v) PROVE sub'[txn[v].slot] = sub[txn[v].slot]
    <3>1. txn[v].slot \in Slots /\ txn[v].mem.version \in Nat /\ Seen(txn[v])
      BY <2>1, TxnShape DEF LoadedTxn, WritingTxn, Row, OneDeciderInv, NumbersInv, WorkerNumbers
    <3>2. sub[s].version = 0
      BY <1>1 DEF OneDeciderInv, NumbersInv, Numbered
    <3>3. txn[v].slot # s
      BY <3>1, <3>2 DEF Seen
    <3> QED
      BY <3>1, <3>3 DEF CreateRow, Create, OneDeciderInv, NumbersInv, TypeOK
  <2> QED
    BY <1>1, <2>1, FollowsUntouched DEF OneDeciderInv
<1> QED
  BY <1>1, <1>2, <1>3 DEF OneDeciderInv

LEMMA OneDeciderEnd ==
    ASSUME OneDeciderInv, UNCHANGED vars, NEW w \in Workers, Finish(w)
    PROVE  OneDeciderInv'
<1> DEFINE x == [pc |-> "idle"]
<1>1. x \in [pc: {"idle"}] /\ txn' = [txn EXCEPT ![w] = x] /\ x.pc = "idle"
  BY DEF Finish
<1>2. NumbersInv'
  BY NumbersEnd DEF OneDeciderInv
<1> HIDE DEF x
<1> QED
  BY <1>1, <1>2, FollowsOneMoves DEF OneDeciderInv

LEMMA OneDeciderLoad ==
    ASSUME NoPatches, OneDeciderInv, NEW w \in Workers, NEW op \in Ops, NEW s \in Slots,
           NEW d \in Data, Load(w, op, s, d)
    PROVE  OneDeciderInv'
<1>1. PICK x \in LoadedTxn :
         /\ txn' = [txn EXCEPT ![w] = x]
         /\ x.op = op /\ x.slot = s /\ x.mem = sub[s] /\ x.pc = "loaded"
  BY LoadMemory DEF OneDeciderInv, NumbersInv, TypeOK
<1>2. UNCHANGED vars /\ op \in OpsOf[w]
  BY DEF Load
<1>3. NumbersInv'
  BY NumbersLoad DEF OneDeciderInv
<1> QED
  BY <1>1, <1>2, <1>3, FollowsOneMoves DEF OneDeciderInv

LEMMA OneDeciderWrite ==
    ASSUME OneDeciderInv, NEW w \in Workers, Write(w) \/ ReadProgress(w)
    PROVE  OneDeciderInv'
<1>1. UNCHANGED vars /\ Busy(w)
  BY DEF Write, ReadProgress, Busy
<1>2. PICK x \in WritingTxn :
         /\ txn' = [txn EXCEPT ![w] = x]
         /\ x.op = txn[w].op /\ x.slot = txn[w].slot /\ x.mem = txn[w].mem
  <2>1. TypeOK /\ TxnType
    BY DEF OneDeciderInv, NumbersInv
  <2> QED
    BY <2>1, WriteMemory, ProgressMemory
<1>3. txn[w].op \in OpsOf[w]
  BY <1>1 DEF OneDeciderInv, WorkerFollows
<1>4. NumbersInv'
  BY NumbersWrite, NumbersReadProgress DEF OneDeciderInv
<1> QED
  BY <1>1, <1>2, <1>3, <1>4, FollowsOneMoves DEF OneDeciderInv

LEMMA OneDeciderStep ==
    ASSUME NoPatches, SingleDecider
    PROVE  OneDeciderInv /\ [RNext]_rvars => OneDeciderInv'
<1> SUFFICES ASSUME OneDeciderInv, [RNext]_rvars PROVE OneDeciderInv'
  OBVIOUS
<1>1. CASE UNCHANGED rvars
  <2>1. sub' = sub /\ versions' = versions /\ approvals' = approvals /\ txn' = txn
    BY <1>1 DEF rvars, vars
  <2>2. NumbersInv'
    BY <1>1, NumbersStep DEF OneDeciderInv
  <2>3. \A v \in Workers : WorkerFollows(v)'
    BY <2>1, FollowsUntouched DEF OneDeciderInv
  <2> QED
    BY <2>1, <2>2, <2>3 DEF OneDeciderInv, Histories
<1>2. CASE \E s \in Slots, d \in Data : \E u \in Editors[GroupOf[s]] : CreateRow(u, s, d)
  BY <1>2, OneDeciderCreate
<1>3. ASSUME NEW w \in Workers, Fail(w) \/ LockedOut(w) \/ Reject(w) \/ CommitTimeout(w)
      PROVE  OneDeciderInv'
  BY <1>3, OneDeciderEnd DEF Fail, LockedOut, Reject, CommitTimeout
<1> QED
  BY <1>1, <1>2, <1>3, OneDeciderLoad, OneDeciderWrite, OneDeciderCommit DEF RNext, Work

\* The invariant of a guide whose requests come one at a time.
LEMMA OneDeciderKept ==
    ASSUME NoPatches, SingleDecider
    PROVE  RSpec => []OneDeciderInv
<1>1. RInit => OneDeciderInv
  <2> SUFFICES ASSUME RInit PROVE OneDeciderInv
    OBVIOUS
  <2>1. NumbersInv /\ IInv
    BY NumbersStart, InitEstablishes DEF RInit
  <2>2. \A w \in Workers : ~Busy(w)
    BY DEF RInit, Busy
  <2> QED
    BY <2>1, <2>2 DEF OneDeciderInv, IInv, WorkerFollows
<1>2. OneDeciderInv /\ [RNext]_rvars => OneDeciderInv'
  BY OneDeciderStep
<1> QED
  BY <1>1, <1>2, PTL DEF RSpec

\* On either database, when no two guides act at once and nobody sends a PATCH,
\* a decision is filed on a version a student handed in, even though a student
\* may resubmit in the middle of the guide's request.
THEOREM OverlappingDecisions ==
    ASSUME NoPatches, SingleDecider
    PROVE  RSpec => []DecisionsAnswerSubmissions
<1>1. OneDeciderInv => DecisionsAnswerSubmissions
  BY DEF OneDeciderInv, Histories, HistoryOK, DecisionsOK, DecisionsAnswerSubmissions
<1> QED
  BY <1>1, OneDeciderKept, PTL

\* Under the same conditions an approval stands: no request that started before
\* it takes an approved row back, or unlocks a locked one.
THEOREM OverlappingApprovals ==
    ASSUME NoPatches, SingleDecider
    PROVE  RSpec => ApprovalStands
<1> DEFINE Stands == \A s \in Slots :
              /\ sub[s].status \in ApprovedStates => sub'[s].status \in ApprovedStates
              /\ sub[s].status = "LOCKED" => sub'[s].status = "LOCKED"
<1>1. OneDeciderInv /\ [RNext]_rvars => [Stands]_rvars
  <2> SUFFICES ASSUME OneDeciderInv, RNext, NEW s \in Slots
               PROVE  /\ sub[s].status \in ApprovedStates => sub'[s].status \in ApprovedStates
                      /\ sub[s].status = "LOCKED" => sub'[s].status = "LOCKED"
    OBVIOUS
  <2>1. CASE \E r \in Slots, d \in Data : \E u \in Editors[GroupOf[r]] : CreateRow(u, r, d)
    <3>1. PICK r \in Slots : sub[r].status = "NONE" /\ \E row : sub' = [sub EXCEPT ![r] = row]
      BY <2>1 DEF CreateRow, Create
    <3> QED
      BY <3>1 DEF OneDeciderInv, NumbersInv, TypeOK, ApprovedStates
  <2>2. ASSUME NEW w \in Workers, Commit(w)
        PROVE  /\ sub[s].status \in ApprovedStates => sub'[s].status \in ApprovedStates
               /\ sub[s].status = "LOCKED" => sub'[s].status = "LOCKED"
    <3> DEFINE t == txn[w]
               old == sub[t.slot]
    <3>1. /\ sub' = [sub EXCEPT ![t.slot] = t.row] /\ sub'[t.slot] = t.row
          /\ t.op \in Ops /\ t.op # "update"
      BY <2>2, CommitTables, CommittedRow DEF OneDeciderInv, Seen
    <3>2. CASE s # t.slot
      BY <3>1, <3>2 DEF OneDeciderInv, NumbersInv, TypeOK
    <3>3. CASE s = t.slot
      <4>1. /\ t.op = "submit" => old.status \in AllowedEditStates \cup {"UNDER_REVIEW"}
            /\ t.op = "begin_review" => old.status \in {"SUBMITTED", "RESUBMITTED"}
            /\ t.op \in {"request_changes", "approve"} => old.status = "UNDER_REVIEW"
            /\ t.op = "lock" => old.status = "APPROVED"
        BY <2>2, StatusWrittenOver
      <4>2. /\ t.op = "save_draft" => t.row.status = old.status
            /\ t.op = "lock" => t.row.status = "LOCKED"
        BY <2>2, StatusCommitted
      <4> HIDE DEF t
      <4> QED
        BY <3>1, <3>3, <4>1, <4>2 DEF Ops, AllowedEditStates, ApprovedStates
    <3> QED
      BY <3>2, <3>3
  <2>3. ASSUME NEW w \in Workers,
               \/ \E op \in Ops, r \in Slots, d \in Data : Load(w, op, r, d)
               \/ Work(w)
               \/ ReadProgress(w)
               \/ CommitTimeout(w)
        PROVE  sub' = sub
    BY <2>3 DEF Load, Work, Write, Fail, LockedOut, Reject, ReadProgress, CommitTimeout, vars
  <2> QED
    BY <2>1, <2>2, <2>3 DEF RNext
<1> QED
  BY <1>1, OneDeciderKept, PTL DEF RSpec, ApprovalStands

-----------------------------------------------------------------------------
(* The submissions as review rounds                                        *)

TurnAt(status) ==
    CASE status = "NONE" -> "none"
      [] status \in {"DRAFT", "CHANGES_REQUIRED"} -> "students"
      [] status \in {"SUBMITTED", "RESUBMITTED"} -> "queue"
      [] status = "UNDER_REVIEW" -> "guide"
      [] status = "APPROVED" -> "accepted"
      [] status = "LOCKED" -> "sealed"

LEMMA TurnsAt ==
    /\ TurnAt("NONE") = "none"
    /\ TurnAt("DRAFT") = "students"
    /\ TurnAt("CHANGES_REQUIRED") = "students"
    /\ TurnAt("SUBMITTED") = "queue"
    /\ TurnAt("RESUBMITTED") = "queue"
    /\ TurnAt("UNDER_REVIEW") = "guide"
    /\ TurnAt("APPROVED") = "accepted"
    /\ TurnAt("LOCKED") = "sealed"
  BY Zenon DEF TurnAt

LEMMA MovesAt ==
    /\ MoveOf("SUBMITTED") = "handed in"
    /\ MoveOf("RESUBMITTED") = "handed in"
    /\ MoveOf("CHANGES_REQUIRED") = "returned"
    /\ MoveOf("APPROVED") = "accepted"
  BY Zenon DEF MoveOf

LEMMA TurnOfStatus ==
    ASSUME NEW s
    PROVE  TurnOf(s) = TurnAt(sub[s].status) /\ TurnOf(s)' = TurnAt(sub'[s].status)
  BY Zenon DEF TurnOf, TurnAt

\* A row is resubmitted only after changes were asked for.
Returned ==
    \A s \in Slots : sub[s].status = "RESUBMITTED" =>
        \E v \in versions[s] : v.status = "CHANGES_REQUIRED"

RoundsInv == IInv /\ Returned

turns == [s \in Slots |-> TurnOf(s)]
roundHistories == [s \in Slots |-> HistoryOf(s)]

\* A step on one slot that takes no snapshot.
LEMMA QuietStep ==
    ASSUME NEW s \in Slots, \A r \in Slots \ {s} : sub'[r] = sub[r], versions' = versions,
           1..(sub'[s].version - 1) = 1..(sub[s].version - 1)
    PROVE  /\ turns' = [turns EXCEPT ![s] = TurnAt(sub'[s].status)]
           /\ roundHistories' = roundHistories
<1>1. turns' = [turns EXCEPT ![s] = TurnAt(sub'[s].status)]
  <2>1. \A r \in Slots \ {s} : TurnOf(r)' = TurnOf(r)
    BY TurnOfStatus
  <2>2. TurnOf(s)' = TurnAt(sub'[s].status)
    BY TurnOfStatus
  <2> QED
    BY <2>1, <2>2 DEF turns
<1>2. ASSUME NEW r \in Slots PROVE HistoryOf(r)' = HistoryOf(r)
  <2>1. 1..(sub'[r].version - 1) = 1..(sub[r].version - 1)
    OBVIOUS
  <2>2. \A n : VersionAt(r, n)' = VersionAt(r, n)
    BY DEF VersionAt
  <2>3. \A st : MoveOf(st)' = MoveOf(st)
    BY Zenon DEF MoveOf
  <2>4. HistoryOf(r)' = [i \in 1..(sub'[r].version - 1) |-> MoveOf(VersionAt(r, i + 1)'.status)]
    BY Zenon DEF HistoryOf
  <2> QED
    BY <2>1, <2>2, <2>4 DEF HistoryOf
<1> QED
  BY <1>1, <1>2 DEF roundHistories

\* A step on one slot that takes a snapshot.
LEMMA RecordedStep ==
    ASSUME IInv, NEW s \in Slots, \A r \in Slots \ {s} : sub'[r] = sub[r],
           NEW n, n = sub[s].version, n >= 1, sub'[s].version = n + 1, NEW st,
           Snapshot(s, st)
    PROVE  /\ turns' = [turns EXCEPT ![s] = TurnAt(sub'[s].status)]
           /\ roundHistories' = [roundHistories EXCEPT ![s] = Append(roundHistories[s], MoveOf(st))]
           /\ \A v \in versions[s] : v \in versions'[s]
<1> DEFINE snap == [number |-> sub'[s].version, status |-> st, data |-> sub'[s].data]
<1>1. turns' = [turns EXCEPT ![s] = TurnAt(sub'[s].status)]
  <2>1. \A r \in Slots \ {s} : TurnOf(r)' = TurnOf(r)
    BY TurnOfStatus
  <2>2. TurnOf(s)' = TurnAt(sub'[s].status)
    BY TurnOfStatus
  <2> QED
    BY <2>1, <2>2 DEF turns
<1>2. /\ versions' = [versions EXCEPT ![s] = versions[s] \cup {snap}]
      /\ versions'[s] = versions[s] \cup {snap}
      /\ \A r \in Slots \ {s} : versions'[r] = versions[r]
  BY DEF Snapshot, IInv, TypeOK
<1>3. n \in Nat /\ n >= 1 /\ Contiguous(sub[s], versions[s]) /\ versions[s] \in SUBSET Version
  BY DEF IInv, Histories, HistoryOK, Row
<1>4. \A v \in versions[s] : v.number \in Nat /\ v.number <= n
  BY <1>3 DEF Contiguous, Version
<1>5. ASSUME NEW m \in 2..n PROVE VersionAt(s, m)' = VersionAt(s, m)
  <2>1. PICK v \in versions[s] : v.number = m
    BY <1>3 DEF Contiguous
  <2>2. \A u \in versions[s] : u.number = m => u = v
    BY <1>3, <2>1 DEF Contiguous
  <2>3. v \in versions'[s] /\ \A u \in versions'[s] : u.number = m => u = v
    BY <1>2, <1>3, <2>2
  <2>4. VersionAt(s, m) = v
    BY <2>1, <2>2 DEF VersionAt
  <2>5. VersionAt(s, m)' = v
    BY <2>1, <2>3 DEF VersionAt
  <2> QED
    BY <2>4, <2>5
<1>6. VersionAt(s, n + 1)' = snap
  <2>1. snap \in versions'[s] /\ snap.number = n + 1
    BY <1>2
  <2>2. \A v \in versions'[s] : v.number = n + 1 => v = snap
    BY <1>2, <1>3, <1>4
  <2> HIDE DEF snap
  <2> QED
    BY <2>1, <2>2 DEF VersionAt
<1>7. HistoryOf(s)' = [i \in 1..n |-> MoveOf(VersionAt(s, i + 1)'.status)]
  <2>1. HistoryOf(s)' = [i \in 1..(sub'[s].version - 1) |-> MoveOf(VersionAt(s, i + 1)'.status)]
    BY Zenon DEF HistoryOf
  <2>2. sub'[s].version - 1 = n
    BY <1>3
  <2> QED
    BY <2>1, <2>2
<1>8. HistoryOf(s)' = Append(HistoryOf(s), MoveOf(st))
  <2> DEFINE old == HistoryOf(s)
             Old(i) == MoveOf(VersionAt(s, i + 1).status)
             New(i) == MoveOf(VersionAt(s, i + 1)'.status)
             move == MoveOf(st)
  <2>1. \A i \in 1..(n - 1) : New(i) = Old(i)
    <3> SUFFICES ASSUME NEW i \in 1..(n - 1) PROVE VersionAt(s, i + 1)' = VersionAt(s, i + 1)
      OBVIOUS
    <3>1. i + 1 \in 2..n
      BY <1>3
    <3> QED
      BY <1>5, <3>1
  <2>2. New(n) = move
    BY <1>6
  <2>3. old = [i \in 1..(n - 1) |-> Old(i)]
    BY DEF HistoryOf
  <2>4. HistoryOf(s)' = [i \in 1..n |-> New(i)]
    BY <1>7
  <2> HIDE DEF old, Old, New, move
  <2> DEFINE Moves == {Old(i) : i \in 1..(n - 1)} \cup {move}
  <2>5. old \in Seq(Moves) /\ Len(old) = n - 1
    <3>1. \A i \in 1..(n - 1) : Old(i) \in Moves
      OBVIOUS
    <3> HIDE DEF Moves
    <3>2. n - 1 \in Nat /\ old \in [1..(n - 1) -> Moves]
      BY <1>3, <2>3, <3>1
    <3> QED
      BY <3>2
  <2>6. Append(old, move) = [i \in 1..n |-> IF i = n THEN move ELSE old[i]]
    <3>1. move \in Moves
      OBVIOUS
    <3> HIDE DEF Moves
    <3>2. /\ Append(old, move) \in Seq(Moves) /\ Len(Append(old, move)) = n
          /\ \A i \in 1..(n - 1) : Append(old, move)[i] = old[i]
          /\ Append(old, move)[n] = move
      BY <1>3, <2>5, <3>1, AppendProperties
    <3> DEFINE app == Append(old, move)
    <3> HIDE DEF app
    <3>6. app \in Seq(Moves) /\ Len(app) = n
      BY <3>2 DEF app
    <3>3. app \in [1..n -> Moves]
      BY <1>3, <3>6
    <3>4. \A i \in 1..n : app[i] = IF i = n THEN move ELSE old[i]
      BY <1>3, <3>2 DEF app
    <3>5. app = [i \in 1..n |-> IF i = n THEN move ELSE old[i]]
      BY <3>3, <3>4
    <3> QED
      BY <3>5 DEF app
  <2>7. \A i \in 1..n : New(i) = IF i = n THEN move ELSE old[i]
    BY <1>3, <2>1, <2>2, <2>3
  <2>8. HistoryOf(s)' = Append(old, move)
    BY <2>4, <2>6, <2>7
  <2> QED
    BY <2>8 DEF old, move
<1>9. ASSUME NEW r \in Slots \ {s} PROVE HistoryOf(r)' = HistoryOf(r)
  <2>1. versions'[r] = versions[r] /\ sub'[r] = sub[r]
    BY <1>2
  <2>2. \A m : VersionAt(r, m)' = VersionAt(r, m)
    BY <2>1 DEF VersionAt
  <2>3. HistoryOf(r)' = [i \in 1..(sub'[r].version - 1) |-> MoveOf(VersionAt(r, i + 1)'.status)]
    BY Zenon DEF HistoryOf
  <2> QED
    BY <2>1, <2>2, <2>3 DEF HistoryOf
<1> QED
  BY <1>1, <1>2, <1>8, <1>9 DEF roundHistories

RoundMove == [Rounds!Next]_<<turns, roundHistories>>

\* The last version of a row: what StatusOK says of it, by its status.
LEMMA ReturnedBefore ==
    ASSUME RoundsInv, NEW s \in Slots, sub[s].status \in {"CHANGES_REQUIRED", "RESUBMITTED"}
    PROVE  \E v \in versions[s] : v.status = "CHANGES_REQUIRED"
<1>1. CASE sub[s].status = "RESUBMITTED"
  BY <1>1 DEF RoundsInv, Returned
<1>2. CASE sub[s].status = "CHANGES_REQUIRED"
  BY <1>2 DEF RoundsInv, IInv, Histories, HistoryOK, StatusOK, RecordedAs
<1> QED
  BY <1>1, <1>2

\* A version on record is a move of the history.
LEMMA ReturnedIsMove ==
    ASSUME IInv, NEW s \in Slots, NEW v \in versions[s], v.status = "CHANGES_REQUIRED"
    PROVE  \E i \in DOMAIN HistoryOf(s) : HistoryOf(s)[i] = "returned"
<1>1. Contiguous(sub[s], versions[s]) /\ v.number \in Nat /\ sub[s].version \in Nat
  BY DEF IInv, Histories, HistoryOK, Version, Row
<1>2. v.number >= 2 /\ v.number <= sub[s].version
  BY <1>1 DEF Contiguous
<1>3. VersionAt(s, v.number) = v
  BY <1>1 DEF VersionAt, Contiguous
<1> DEFINE i == v.number - 1
<1>4. i \in 1..(sub[s].version - 1) /\ i + 1 = v.number
  BY <1>1, <1>2
<1> HIDE DEF i
<1>5. HistoryOf(s)[i] = "returned" /\ i \in DOMAIN HistoryOf(s)
  BY <1>3, <1>4, MovesAt DEF HistoryOf
<1> QED
  BY <1>5

LEMMA StudentRound ==
    ASSUME RoundsInv, NEW s \in Slots, StudentStep(s)
    PROVE  Returned' /\ RoundMove
<1>1. sub \in [Slots -> Row] /\ versions \in [Slots -> SUBSET Version] /\ sub[s] \in Row
      /\ HistoryOK(sub[s], versions[s], approvals[s])
  BY DEF RoundsInv, IInv, TypeOK, Histories
<1>2. turns[s] = TurnAt(sub[s].status)
  BY TurnOfStatus DEF turns
<1>3. ASSUME NEW u, NEW d \in Data, Create(u, s, d), sub[s].status = "NONE"
      PROVE  Returned' /\ RoundMove
  <2>1. /\ \A r \in Slots \ {s} : sub'[r] = sub[r]
        /\ sub'[s].status = "DRAFT" /\ sub'[s].version = 1 /\ versions' = versions
    BY <1>1, <1>3 DEF Create
  <2>2. 1..(sub'[s].version - 1) = 1..(sub[s].version - 1)
    <3>1. sub[s].version = 0
      BY <1>1, <1>3 DEF HistoryOK, StatusOK
    <3> QED
      BY <2>1, <3>1
  <2>3. turns' = [turns EXCEPT ![s] = TurnAt(sub'[s].status)] /\ roundHistories' = roundHistories
    BY <2>1, <2>2, QuietStep
  <2>4. Rounds!Open(s)
    BY <1>2, <1>3, <2>1, <2>3, TurnsAt DEF Rounds!Open, Rounds!Pass, turns, roundHistories
  <2> QED
    BY <2>1, <2>4 DEF RoundMove, Rounds!Next, Returned, RoundsInv
<1>4. ASSUME NEW d \in Data, sub' = [sub EXCEPT ![s] = [sub[s] EXCEPT !.data = d]],
             UNCHANGED <<versions, approvals, changeRequests, group>>
      PROVE  Returned' /\ RoundMove
  <2>1. /\ \A r \in Slots \ {s} : sub'[r] = sub[r]
        /\ sub'[s].status = sub[s].status /\ sub'[s].version = sub[s].version
        /\ versions' = versions
    BY <1>1, <1>4 DEF Row
  <2>2. roundHistories' = roundHistories
    <3>1. 1..(sub'[s].version - 1) = 1..(sub[s].version - 1)
      BY <2>1
    <3> QED
      BY <2>1, <3>1, QuietStep
  <2>3. turns' = turns
    <3>1. \A r \in Slots : sub'[r].status = sub[r].status
      BY <2>1
    <3>2. \A r \in Slots : TurnOf(r)' = TurnOf(r)
      BY <3>1, TurnOfStatus
    <3> QED
      BY <3>2 DEF turns
  <2> QED
    BY <2>1, <2>2, <2>3 DEF RoundMove, Returned, RoundsInv
<1>5. ASSUME NEW u, Submit(u, s) PROVE Returned' /\ RoundMove
  <2> DEFINE new == IF sub[s].status = "DRAFT" THEN "SUBMITTED" ELSE "RESUBMITTED"
             n == sub[s].version
  <2>1. /\ \A r \in Slots \ {s} : sub'[r] = sub[r]
        /\ sub'[s].status = new /\ sub'[s].version = sub[s].version + 1
        /\ Snapshot(s, new)
        /\ sub[s].status \in {"DRAFT", "CHANGES_REQUIRED", "RESUBMITTED"}
    BY <1>1, <1>5 DEF Submit, CanEdit, AllowedEditStates, Row
  <2>2. n >= 1 /\ n \in Nat
    <3>1. StatusOK(sub[s], versions[s]) /\ n \in Nat /\ Contiguous(sub[s], versions[s])
          /\ versions[s] \in SUBSET Version
      BY <1>1 DEF HistoryOK, Row
    <3>2. \A v \in versions[s] : v.number \in Nat /\ v.number >= 2
      BY <3>1 DEF Contiguous, Version
    <3> QED
      BY <2>1, <3>1, <3>2 DEF StatusOK
  <2>3. /\ turns' = [turns EXCEPT ![s] = TurnAt(new)]
        /\ roundHistories' = [roundHistories EXCEPT ![s] = Append(roundHistories[s], MoveOf(new))]
        /\ \A v \in versions[s] : v \in versions'[s]
    <3> HIDE DEF new, n
    <3>1. sub[s].version = n /\ sub'[s].version = n + 1
      BY <2>1 DEF n
    <3> QED
      BY <2>1, <2>2, <3>1, RecordedStep DEF RoundsInv
  <2>4. TurnAt(new) = "queue" /\ MoveOf(new) = "handed in"
        /\ TurnAt(sub[s].status) \in {"students", "queue"}
        /\ (TurnAt(sub[s].status) = "queue" => sub[s].status = "RESUBMITTED")
    BY <2>1, TurnsAt, MovesAt
  <2>5. TurnAt(sub[s].status) = "queue" =>
            \E i \in DOMAIN roundHistories[s] : roundHistories[s][i] = "returned"
    BY <2>4, ReturnedBefore, ReturnedIsMove DEF RoundsInv, roundHistories
  <2> HIDE DEF new
  <2>6. Rounds!HandIn(s)
    BY <1>2, <2>3, <2>4, <2>5 DEF Rounds!HandIn, Rounds!Pass, Rounds!Record, turns, roundHistories
  <2>7. Returned'
    <3>1. ASSUME sub'[s].status = "RESUBMITTED"
          PROVE  \E v \in versions'[s] : v.status = "CHANGES_REQUIRED"
      BY <2>1, <2>3, <3>1, ReturnedBefore DEF new
    <3>2. \A r \in Slots \ {s} : versions'[r] = versions[r]
      BY <1>1, <2>1 DEF Snapshot
    <3> QED
      BY <2>1, <3>1, <3>2 DEF Returned, RoundsInv
  <2> QED
    BY <2>6, <2>7 DEF RoundMove, Rounds!Next
<1>6. ASSUME NEW u, NEW d \in Data, Create(u, s, d), sub[s].status # "NONE"
      PROVE  sub' = [sub EXCEPT ![s] = [sub[s] EXCEPT !.data = d]]
             /\ UNCHANGED <<versions, approvals, changeRequests, group>>
  BY <1>1, <1>6 DEF Create
<1>7. ASSUME NEW u, NEW d \in Data, SaveDraft(u, s, d)
      PROVE  sub' = [sub EXCEPT ![s] = [sub[s] EXCEPT !.data = d]]
             /\ UNCHANGED <<versions, approvals, changeRequests, group>>
  BY <1>1, <1>7 DEF SaveDraft
<1> QED
  BY <1>3, <1>4, <1>5, <1>6, <1>7 DEF StudentStep

LEMMA DeciderRound ==
    ASSUME RoundsInv, NEW s \in Slots, DeciderStep(s)
    PROVE  Returned' /\ RoundMove
<1>1. /\ sub \in [Slots -> Row] /\ versions \in [Slots -> SUBSET Version] /\ sub[s] \in Row
      /\ sub[s].version \in Nat /\ HistoryOK(sub[s], versions[s], approvals[s])
  BY DEF RoundsInv, IInv, TypeOK, Histories, Row
<1>2. turns[s] = TurnAt(sub[s].status)
  BY TurnOfStatus DEF turns
<1>3. ASSUME NEW u, BeginReview(u, s) PROVE Returned' /\ RoundMove
  <2>1. /\ \A r \in Slots \ {s} : sub'[r] = sub[r]
        /\ sub'[s].status = "UNDER_REVIEW" /\ sub'[s].version = sub[s].version
        /\ versions' = versions /\ sub[s].status \in {"SUBMITTED", "RESUBMITTED"}
    BY <1>1, <1>3 DEF BeginReview, Row
  <2>2. turns' = [turns EXCEPT ![s] = TurnAt(sub'[s].status)] /\ roundHistories' = roundHistories
    <3>1. 1..(sub'[s].version - 1) = 1..(sub[s].version - 1)
      BY <2>1
    <3> QED
      BY <2>1, <3>1, QuietStep
  <2>3. Rounds!TakeUp(s)
    BY <1>2, <2>1, <2>2, TurnsAt DEF Rounds!TakeUp, Rounds!Pass, turns, roundHistories
  <2> QED
    BY <2>1, <2>3 DEF RoundMove, Rounds!Next, Returned, RoundsInv
<1>4. ASSUME NEW u, Lock(u, s) PROVE Returned' /\ RoundMove
  <2>1. /\ \A r \in Slots \ {s} : sub'[r] = sub[r]
        /\ sub'[s].status = "LOCKED" /\ sub'[s].version = sub[s].version
        /\ versions' = versions /\ sub[s].status = "APPROVED"
    BY <1>1, <1>4 DEF Lock, Row
  <2>2. turns' = [turns EXCEPT ![s] = TurnAt(sub'[s].status)] /\ roundHistories' = roundHistories
    <3>1. 1..(sub'[s].version - 1) = 1..(sub[s].version - 1)
      BY <2>1
    <3> QED
      BY <2>1, <3>1, QuietStep
  <2>3. Rounds!Seal(s)
    BY <1>2, <2>1, <2>2, TurnsAt DEF Rounds!Seal, Rounds!Pass, turns, roundHistories
  <2> QED
    BY <2>1, <2>3 DEF RoundMove, Rounds!Next, Returned, RoundsInv
<1>5. ASSUME NEW decision \in {"APPROVED", "CHANGES_REQUIRED"}, Decide(s, decision)
      PROVE  Returned' /\ RoundMove
  <2> DEFINE n == sub[s].version
  <2>1. /\ \A r \in Slots \ {s} : sub'[r] = sub[r]
        /\ sub'[s].status = decision /\ sub'[s].version = n + 1
        /\ Snapshot(s, decision) /\ sub[s].status = "UNDER_REVIEW"
    BY <1>1, <1>5 DEF Decide, DecidedRow
  <2>2. n >= 1
    <3>1. StatusOK(sub[s], versions[s]) /\ Contiguous(sub[s], versions[s])
          /\ versions[s] \in SUBSET Version
      BY <1>1 DEF HistoryOK
    <3>2. \A v \in versions[s] : v.number \in Nat /\ v.number >= 2
      BY <1>1, <3>1 DEF Contiguous, Version
    <3> QED
      BY <1>1, <2>1, <3>1, <3>2 DEF StatusOK
  <2>3. /\ turns' = [turns EXCEPT ![s] = TurnAt(sub'[s].status)]
        /\ roundHistories' =
              [roundHistories EXCEPT ![s] = Append(roundHistories[s], MoveOf(decision))]
    <3> HIDE DEF n
    <3>1. sub[s].version = n
      BY DEF n
    <3> QED
      BY <2>1, <2>2, <3>1, RecordedStep DEF RoundsInv
  <2>4. turns[s] = "guide"
    BY <1>2, <2>1, TurnsAt
  <2>5. Rounds!Accept(s) \/ Rounds!Return(s)
    <3>1. CASE decision = "APPROVED"
      <4>1. Rounds!Pass(s, {"guide"}, "accepted")
        BY <2>1, <2>3, <2>4, <3>1, TurnsAt DEF Rounds!Pass, turns
      <4>2. Rounds!Record(s, "accepted")
        BY <2>3, <3>1, MovesAt DEF Rounds!Record, roundHistories
      <4> QED
        BY <4>1, <4>2 DEF Rounds!Accept
    <3>2. CASE decision = "CHANGES_REQUIRED"
      <4>1. Rounds!Pass(s, {"guide"}, "students")
        BY <2>1, <2>3, <2>4, <3>2, TurnsAt DEF Rounds!Pass, turns
      <4>2. Rounds!Record(s, "returned")
        BY <2>3, <3>2, MovesAt DEF Rounds!Record, roundHistories
      <4> QED
        BY <4>1, <4>2 DEF Rounds!Return
    <3> QED
      BY <3>1, <3>2
  <2>6. Returned'
    <3>1. \A r \in Slots \ {s} : versions'[r] = versions[r]
      BY <1>1, <2>1 DEF Snapshot
    <3> QED
      BY <2>1, <3>1 DEF Returned, RoundsInv
  <2> QED
    BY <2>5, <2>6 DEF RoundMove, Rounds!Next
<1>6. IInv
  BY DEF RoundsInv
<1> QED
  BY <1>3, <1>4, <1>5, <1>6, RequestChangesDecides, ApproveDecides DEF DeciderStep

LEMMA NoRound ==
    ASSUME RoundsInv, sub' = sub, versions' = versions
    PROVE  Returned' /\ UNCHANGED <<turns, roundHistories>>
<1>1. ASSUME NEW s \in Slots PROVE TurnOf(s)' = TurnOf(s)
  BY TurnOfStatus
<1>2. ASSUME NEW s \in Slots PROVE HistoryOf(s)' = HistoryOf(s)
  BY DEF HistoryOf, VersionAt
<1>3. Returned'
  BY DEF RoundsInv, Returned
<1> QED
  BY <1>1, <1>2, <1>3 DEF turns, roundHistories

\* Each submission is a sequence of review rounds: the transitions of
\* SubmissionService and the snapshots they keep implement the abstract
\* exchange between students and guide.
THEOREM ReviewRoundsImplemented == Spec => ImplementsReviewRounds
<1>1. Init => RoundsInv /\ Rounds!Init
  <2> SUFFICES ASSUME Init PROVE RoundsInv /\ Rounds!Init
    OBVIOUS
  <2>1. \A s \in Slots : sub[s].status = "NONE" /\ sub[s].version = 0
    BY DEF Init, NoRow
  <2>2. RoundsInv
    BY <2>1, InitEstablishes DEF RoundsInv, Returned
  <2>3. \A s \in Slots : TurnOf(s) = "none"
    BY <2>1, TurnOfStatus, TurnsAt
  <2>4. ASSUME NEW s \in Slots PROVE HistoryOf(s) = << >>
    <3>1. 1..(sub[s].version - 1) = {}
      BY <2>1
    <3> QED
      BY <3>1 DEF HistoryOf
  <2> QED
    BY <2>2, <2>3, <2>4 DEF Rounds!Init
<1>2. RoundsInv /\ [Next]_vars => RoundsInv' /\ [Rounds!Next]_(Rounds!rounds)
  <2> SUFFICES ASSUME RoundsInv, [Next]_vars PROVE RoundsInv' /\ RoundMove
    BY DEF RoundMove, Rounds!rounds, turns, roundHistories
  <2>1. IInv'
    BY StepKeeps DEF FullNext, RoundsInv
  <2>2. CASE UNCHANGED vars \/ \E g \in Groups : CancelGroup(g)
    BY <2>1, <2>2, NoRound DEF vars, CancelGroup, RoundMove, RoundsInv
  <2>3. CASE \E s \in Slots : StudentStep(s) \/ DeciderStep(s)
    BY <2>1, <2>3, StudentRound, DeciderRound DEF RoundsInv
  <2> QED
    BY <2>2, <2>3 DEF Next
<1> QED
  BY <1>1, <1>2, PTL DEF Spec, ImplementsReviewRounds, Rounds!Spec

\* On SQLite the overlapping requests of guides and students keep to the rounds
\* too: hand-in, review and decision alternate and no approval is taken back.
THEOREM OverlappingReviewRounds ==
    ASSUME Engine = "sqlite", NoPatches
    PROVE  RSpec => ImplementsReviewRounds /\ ApprovedIsFinal
  BY AtomicServices, ReviewRoundsImplemented, ApprovalFinal, PTL

-----------------------------------------------------------------------------
(* The dashboard                                                           *)

\* A recomputation that names a stage follows a request, so it finds a row.
StageStarted ==
    \A g \in Groups : group[g].stage # NoStage =>
        group[g].status \notin {"NOT_STARTED", "OVERDUE"}

DashboardInv == ProgressInv /\ StageStarted

LEMMA StartedStep ==
    ASSUME ProgressInv, StageStarted, IInv', [Next]_vars
    PROVE  StageStarted'
<1> SUFFICES ASSUME NEW h \in Groups, group'[h].stage # NoStage
             PROVE  group'[h].status \notin {"NOT_STARTED", "OVERDUE"}
  BY DEF StageStarted
<1>1. CASE group' = group
  BY <1>1 DEF StageStarted
<1>2. ASSUME NEW g \in Groups, group' = [group EXCEPT ![g].status = "CANCELLED"]
      PROVE  group'[h].status \notin {"NOT_STARTED", "OVERDUE"}
  BY <1>2 DEF ProgressInv, IInv, TypeOK, StageStarted
<1>3. ASSUME NEW s \in Slots, RowStep(s), Recompute(GroupOf[s])
      PROVE  group'[h].status \notin {"NOT_STARTED", "OVERDUE"}
  <2>1. CASE h # GroupOf[s]
    BY <1>3, <2>1, ConfigAssumption DEF Recompute, ProgressInv, IInv, TypeOK, StageStarted
  <2>2. CASE h = GroupOf[s]
    <3>1. AnySubmitted(sub', h)
      BY <1>3, <2>2 DEF RowStep, AnySubmitted, SlotsOf, ProgressInv, IInv, TypeOK
    <3>2. PICK new \in RecomputedGroups(sub', h, group[h].status) : group'[h] = new
      BY <1>3, <2>2 DEF Recompute, ProgressInv, IInv, TypeOK
    <3>3. PICK st \in CurrentStages(sub', h) :
             new.status \in RecomputedStatuses(sub', h, st, group[h].status)
      BY <3>2 DEF RecomputedGroups
    <3>4. LatestStatuses(sub', h, st) \subseteq SubmissionStatus \cup {"NONE"}
      BY DEF LatestStatuses, RowsOf, SlotsOf, IInv, TypeOK, Row
    <3> QED
      BY <3>1, <3>2, <3>3, <3>4 DEF RecomputedStatuses, SubmissionStatus
  <2> QED
    BY <2>1, <2>2
<1> QED
  BY <1>1, <1>2, <1>3, StepShape DEF ProgressInv, RowStep

LEMMA FullPercent ==
    ASSUME NEW k \in Nat, NEW c \in Nat, c > 0, k <= c
    PROVE  (k * 100) \div c = 100 <=> k = c
<1>1. (k * 100) \div c = 100 => k = c
  OBVIOUS
<1>2. (c * 100) \div c = 100
  OBVIOUS
<1> QED
  BY <1>1, <1>2


LEMMA SatisfiedShare ==
    ASSUME NEW g \in Groups
    PROVE  /\ ProgressPercent(g) = 100 => SatisfiedStages(g) = ReportedStages
           /\ SatisfiedStages(g) = ReportedStages /\ ReportedStages # {}
              => ProgressPercent(g) = 100
<1> DEFINE k == Cardinality(SatisfiedStages(g))
           c == Cardinality(ReportedStages)
<1>1. IsFiniteSet(ReportedStages) /\ SatisfiedStages(g) \subseteq ReportedStages
  <2>1. ReportedStages \subseteq Stages
    BY ConfigAssumption DEF ReportedStages
  <2> QED
    BY <2>1, ReportsAssumption, FS_Subset DEF SatisfiedStages
<1>2. /\ c \in Nat /\ k \in Nat /\ k <= c
      /\ k = c => SatisfiedStages(g) = ReportedStages
      /\ c = 0 <=> ReportedStages = {}
  BY <1>1, FS_Subset, FS_CardinalityType, FS_EmptySet
<1>3. ReportedStages # {} => ProgressPercent(g) = (k * 100) \div c
  BY DEF ProgressPercent
<1>4. ReportedStages = {} => ProgressPercent(g) = 0
  BY DEF ProgressPercent
<1>5. SatisfiedStages(g) = ReportedStages => k = c
  OBVIOUS
<1> HIDE DEF k, c
<1>6. ReportedStages # {} => (ProgressPercent(g) = 100 <=> k = c)
  BY <1>2, <1>3, FullPercent
<1> QED
  BY <1>2, <1>4, <1>5, <1>6

LEMMA CompletedShares == ProgressInv => CompletedShowsFull
<1> SUFFICES ASSUME ProgressInv, NEW g \in Groups
             PROVE  /\ group[g].status = "COMPLETED" /\ ReportedStages # {}
                       => ProgressPercent(g) = 100
                    /\ ProgressPercent(g) = 100 => OpenStages(sub, g) \cap RequiredStages = {}
  BY DEF CompletedShowsFull
<1>1. group[g].status = "COMPLETED" => SatisfiedStages(g) = ReportedStages
  BY DEF ProgressInv, CompletedMeansApproved, OpenStages, SatisfiedStages, ReportedStages
<1>2. SatisfiedStages(g) = ReportedStages => OpenStages(sub, g) \cap RequiredStages = {}
  BY DEF OpenStages, SatisfiedStages, ReportedStages
<1> QED
  BY <1>1, <1>2, SatisfiedShare

LEMMA WaitingArePending == ProgressInv => WaitingGroupsArePending
<1> SUFFICES ASSUME ProgressInv, NEW g \in Groups,
                    group[g].status \in {"SUBMITTED", "RESUBMITTED", "UNDER_REVIEW"}
             PROVE  PendingSubmissions(g) # {}
  BY DEF WaitingGroupsArePending
<1>1. PICK s \in SlotsOf(g) : sub[s].status = group[g].status
  BY DEF ProgressInv, GroupMirrorsSubmission, SubmissionStatus
<1> QED
  BY <1>1 DEF PendingSubmissions

LEMMA LateAreListed == DashboardInv => LateGroupsAreListed
<1> SUFFICES ASSUME DashboardInv, NEW g \in Groups, group[g].stage \in PastDeadline,
                    group[g].status \notin {"CANCELLED", "DRAFT", "RESUBMITTED"}
             PROVE  group[g].status \in {"IN_PROGRESS", "SUBMITTED", "UNDER_REVIEW",
                                         "CHANGES_REQUIRED"}
  BY DEF LateGroupsAreListed, OverdueGroups
<1>1. ProgressInv /\ group[g].stage \in Stages /\ group[g].stage # NoStage
  BY ReportsAssumption, ConfigAssumption DEF DashboardInv
<1>2. group[g].status \in GroupStatus \cup SubmissionStatus
  BY <1>1 DEF ProgressInv, IInv, TypeOK
<1>3. group[g].status \notin {"NOT_STARTED", "OVERDUE"}
  BY <1>1 DEF DashboardInv, StageStarted
<1>4. group[g].stage \in OpenStages(sub, g)
  BY <1>1 DEF ProgressInv, CurrentStageIsFirstOpen, CurrentStages
<1>5. group[g].status # "COMPLETED"
  BY <1>1, <1>4 DEF ProgressInv, CompletedMeansApproved
<1>6. group[g].status \notin ApprovedStates
  <2> SUFFICES ASSUME group[g].status \in ApprovedStates PROVE FALSE
    OBVIOUS
  <2>1. PICK s \in SlotsOf(g) : StageOf[s] = group[g].stage /\ sub[s].status = group[g].status
    BY <1>1 DEF ProgressInv, GroupMirrorsSubmission, SubmissionStatus, ApprovedStates
  <2> QED
    BY <1>4, <2>1 DEF OpenStages, IsStageSatisfied
<1> QED
  BY <1>2, <1>3, <1>5, <1>6 DEF GroupStatus, SubmissionStatus, ApprovedStates

\* The HOD's dashboard (ReportService) shows each group where its submissions
\* put it: 100 % only when no required stage is left, every group that waits for
\* its guide in the guide's workload, and every late group in the list.
THEOREM DashboardShowsSubmissions == Spec => []DashboardAgrees
<1>1. Init => DashboardInv
  BY InitProgress DEF Init, StageStarted, DashboardInv
<1>2. DashboardInv /\ [Next]_vars => DashboardInv'
  BY ProgressStep, ServiceStepKeeps, StartedStep DEF DashboardInv, ProgressInv
<1>3. DashboardInv => DashboardAgrees
  BY CompletedShares, WaitingArePending, LateAreListed DEF DashboardInv, DashboardAgrees
<1> QED
  BY <1>1, <1>2, <1>3, PTL DEF Spec
=============================================================================
