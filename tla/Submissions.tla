---------------------------- MODULE Submissions -----------------------------
(***************************************************************************)
(* be_logbook/submissions: the rows behind SubmissionService and           *)
(* SubmissionViewSet, with every request one atomic step (ATOMIC_REQUESTS  *)
(* makes each request one transaction; SubmissionRequests takes the same   *)
(* requests apart).  Each transition also saves the group row, through     *)
(* WorkflowService.recompute_group_status.                                 *)
(*                                                                         *)
(* Audit rows and notifications are left out: they are only appended, in   *)
(* the same transaction, and no step here reads them.                      *)
(***************************************************************************)
EXTENDS Workflow, Sequences, FiniteSets

CONSTANTS
    Data,        \* contents of a submission's JSON field
    EmptyData,   \* {}, the field's default
    Editors,     \* the active student members of each group
    Deciders,    \* the active guide of each group and the HODs
    MaxVersion   \* bound on version_number

ASSUME DataAssumption == EmptyData \in Data /\ MaxVersion \in Nat

VARIABLES
    sub,             \* submissions_submission
    versions,        \* submissions_submissionversion, per slot
    approvals,       \* submissions_approval, per slot, oldest first
    changeRequests,  \* number of submissions_changerequest rows per slot
    group            \* status and current_stage of groups_projectgroup

vars == <<sub, versions, approvals, changeRequests, group>>

-----------------------------------------------------------------------------
(* The tables *)

\* OVERDUE and CANCELLED are choices of the model field that no code assigns.
SubmissionStatus == {"DRAFT", "SUBMITTED", "UNDER_REVIEW", "CHANGES_REQUIRED",
                     "RESUBMITTED", "APPROVED", "LOCKED"}

Row == [status: SubmissionStatus \cup {"NONE"}, version: Nat, data: Data,
        approved: Nat]  \* current_approved_version, 0 for null

Version == [number: Nat, status: SubmissionStatus, data: Data]

Approval == [decision: {"APPROVED", "CHANGES_REQUIRED"}, version: Nat]

GroupStatus == {"NOT_STARTED", "IN_PROGRESS", "SUBMITTED", "UNDER_REVIEW",
                "CHANGES_REQUIRED", "APPROVED", "LOCKED", "OVERDUE",
                "COMPLETED", "CANCELLED"}

NoRow == [status |-> "NONE", version |-> 0, data |-> EmptyData, approved |-> 0]

Init ==
    /\ sub = [s \in Slots |-> NoRow]
    /\ versions = [s \in Slots |-> {}]
    /\ approvals = [s \in Slots |-> << >>]
    /\ changeRequests = [s \in Slots |-> 0]
    /\ group = [g \in Groups |-> [status |-> "NOT_STARTED", stage |-> NoStage]]

-----------------------------------------------------------------------------
(* Helpers of the service *)

AllowedEditStates == {"DRAFT", "CHANGES_REQUIRED", "RESUBMITTED"}

Unlocked(s) == IsStageUnlocked(sub, GroupOf[s], StageOf[s])

\* Mutant: any status but a final one can be edited.
CanEditUntilApproved(u, s) ==
    /\ u \in Editors[GroupOf[s]]
    /\ sub[s].status \notin {"NONE", "APPROVED", "LOCKED"}
    /\ Unlocked(s)

\* _assert_can_edit
CanEdit(u, s) ==
    /\ u \in Editors[GroupOf[s]]
    /\ sub[s].status \in AllowedEditStates
    /\ Unlocked(s)

\* _assert_guide_or_hod
CanDecide(u, s) == u \in Deciders[GroupOf[s]]

\* Mutant: records the number the row had before it was incremented.
SnapshotOldNumber(s, st) ==
    versions' = [versions EXCEPT ![s] = @ \cup
        {[number |-> sub[s].version, status |-> st, data |-> sub'[s].data]}]

\* Mutant: the snapshot records the status the transition started from.
SnapshotOldStatus(s, st) ==
    versions' = [versions EXCEPT ![s] = @ \cup
        {[number |-> sub'[s].version, status |-> sub[s].status, data |-> sub'[s].data]}]

\* _snapshot, once sub' holds the incremented version_number.
Snapshot(s, st) ==
    versions' = [versions EXCEPT ![s] = @ \cup
        {[number |-> sub'[s].version, status |-> st, data |-> sub'[s].data]}]

Numbers(s) == {v.number : v \in versions[s]}

\* Mutant: the decision is filed under the version the decision itself creates.
ApprovalOfNextVersion(s, decision) ==
    approvals' = [approvals EXCEPT ![s] = Append(@,
        [decision |-> decision, version |-> sub[s].version + 1])]

\* Mutant: the versions are ordered the other way round.
ApprovalOfOldestVersion(s, decision) ==
    approvals' = [approvals EXCEPT ![s] = Append(@,
        [decision |-> decision,
         version |-> CHOOSE n \in Numbers(s) : \A m \in Numbers(s) : n <= m])]

\* _approval: the newest version at the time, before the decision's snapshot.
AddApproval(s, decision) ==
    LET latest == IF Numbers(s) = {} THEN 0
                  ELSE CHOOSE n \in Numbers(s) : \A m \in Numbers(s) : m <= n
    IN  approvals' = [approvals EXCEPT ![s] = Append(@,
            [decision |-> decision, version |-> latest])]

\* Mutant: no recomputation after the transition.
SkipRecompute(g) == UNCHANGED group

\* _recompute, over the submission table as the transaction leaves it.
Recompute(g) ==
    \E new \in RecomputedGroups(sub', g, group[g].status) :
        group' = [group EXCEPT ![g] = new]

-----------------------------------------------------------------------------
(* SubmissionService and the create view *)

\* Mutant: the stage is not consulted.
CreateOnLockedStage(u, s, d) ==
    /\ u \in Editors[GroupOf[s]]
    /\ sub[s].status = "NONE"
    /\ sub' = [sub EXCEPT ![s] =
           [status |-> "DRAFT", version |-> 1, data |-> d, approved |-> 0]]
    /\ UNCHANGED <<versions, approvals, changeRequests, group>>

\* Mutant: the status of an existing row is not consulted.
CreateOverAnyStatus(u, s, d) ==
    /\ u \in Editors[GroupOf[s]]
    /\ Unlocked(s)
    /\ sub' = [sub EXCEPT ![s] =
           IF @.status = "NONE"
           THEN [status |-> "DRAFT", version |-> 1, data |-> d, approved |-> 0]
           ELSE [@ EXCEPT !.data = d]]
    /\ UNCHANGED <<versions, approvals, changeRequests, group>>

\* POST /submissions/: get_or_create, then the data of the request is saved.
\* Neither an audit record nor a recomputation follows.
Create(u, s, d) ==
    /\ u \in Editors[GroupOf[s]]
    /\ Unlocked(s)
    /\ sub[s].status \in AllowedEditStates \cup {"NONE"}
    /\ sub' = [sub EXCEPT ![s] =
           IF @.status = "NONE"
           THEN [status |-> "DRAFT", version |-> 1, data |-> d, approved |-> 0]
           ELSE [@ EXCEPT !.data = d]]
    /\ UNCHANGED <<versions, approvals, changeRequests, group>>

SaveDraft(u, s, d) ==
    /\ CanEdit(u, s)
    /\ sub' = [sub EXCEPT ![s].data = d]
    /\ UNCHANGED <<versions, approvals, changeRequests, group>>

Submit(u, s) ==
    LET new == IF sub[s].status = "DRAFT" THEN "SUBMITTED" ELSE "RESUBMITTED"
    IN  /\ CanEdit(u, s)
        /\ sub[s].version < MaxVersion
        /\ sub' = [sub EXCEPT ![s].status = new, ![s].version = @ + 1]
        /\ Snapshot(s, new)
        /\ Recompute(GroupOf[s])
        /\ UNCHANGED <<approvals, changeRequests>>

BeginReview(u, s) ==
    /\ CanDecide(u, s)
    /\ sub[s].status \in {"SUBMITTED", "RESUBMITTED"}
    /\ sub' = [sub EXCEPT ![s].status = "UNDER_REVIEW"]
    /\ Recompute(GroupOf[s])
    /\ UNCHANGED <<versions, approvals, changeRequests>>

RequestChanges(u, s) ==
    /\ CanDecide(u, s)
    /\ sub[s].status = "UNDER_REVIEW"
    /\ sub[s].version < MaxVersion
    /\ sub' = [sub EXCEPT ![s].status = "CHANGES_REQUIRED", ![s].version = @ + 1]
    /\ changeRequests' = [changeRequests EXCEPT ![s] = @ + 1]
    /\ AddApproval(s, "CHANGES_REQUIRED")
    /\ Snapshot(s, "CHANGES_REQUIRED")
    /\ Recompute(GroupOf[s])

\* Mutant: current_approved_version is taken after the snapshot.
ApproveOwnVersion(u, s) ==
    /\ CanDecide(u, s)
    /\ sub[s].status = "UNDER_REVIEW"
    /\ sub[s].version < MaxVersion
    /\ sub' = [sub EXCEPT ![s].status = "APPROVED", ![s].version = @ + 1,
                          ![s].approved = sub[s].version + 1]
    /\ AddApproval(s, "APPROVED")
    /\ Snapshot(s, "APPROVED")
    /\ Recompute(GroupOf[s])
    /\ UNCHANGED changeRequests

Approve(u, s) ==
    /\ CanDecide(u, s)
    /\ sub[s].status = "UNDER_REVIEW"
    /\ sub[s].version < MaxVersion
    /\ sub' = [sub EXCEPT ![s].status = "APPROVED", ![s].version = @ + 1,
                          ![s].approved = sub[s].version]
    /\ AddApproval(s, "APPROVED")
    /\ Snapshot(s, "APPROVED")
    /\ Recompute(GroupOf[s])
    /\ UNCHANGED changeRequests

\* Mutant: a status that is not a choice of the model field.
LockAsFinal(u, s) ==
    /\ CanDecide(u, s)
    /\ sub[s].status = "APPROVED"
    /\ sub' = [sub EXCEPT ![s].status = "FINAL"]
    /\ Recompute(GroupOf[s])
    /\ UNCHANGED <<versions, approvals, changeRequests>>

Lock(u, s) ==
    /\ CanDecide(u, s)
    /\ sub[s].status = "APPROVED"
    /\ sub' = [sub EXCEPT ![s].status = "LOCKED"]
    /\ Recompute(GroupOf[s])
    /\ UNCHANGED <<versions, approvals, changeRequests>>

\* The admin site's form is the only code that cancels a group.
CancelGroup(g) ==
    /\ group' = [group EXCEPT ![g].status = "CANCELLED"]
    /\ UNCHANGED <<sub, versions, approvals, changeRequests>>

StudentStep(s) ==
    \E u \in Editors[GroupOf[s]] :
        \/ \E d \in Data : Create(u, s, d) \/ SaveDraft(u, s, d)
        \/ Submit(u, s)

DeciderStep(s) ==
    \E u \in Deciders[GroupOf[s]] :
        \/ BeginReview(u, s)
        \/ RequestChanges(u, s)
        \/ Approve(u, s)
        \/ Lock(u, s)

Next ==
    \/ \E s \in Slots : StudentStep(s) \/ DeciderStep(s)
    \/ \E g \in Groups : CancelGroup(g)

Spec == Init /\ [][Next]_vars

-----------------------------------------------------------------------------
(* The generic endpoints SubmissionViewSet inherits from ModelViewSet.      *)
(* They run no service code: no status check and no recomputation.          *)

\* PUT and PATCH of the data field, by whoever may read the row.
UpdateData(s, d) ==
    /\ sub[s].status # "NONE"
    /\ sub' = [sub EXCEPT ![s].data = d]
    /\ UNCHANGED <<versions, approvals, changeRequests, group>>

\* PUT and PATCH of group, stage or section: the row, and with it the rows
\* that refer to it, is now found under another slot.
Move(s, t) ==
    /\ sub[s].status # "NONE"
    /\ sub[t].status = "NONE"
    /\ sub' = [sub EXCEPT ![t] = sub[s], ![s] = NoRow]
    /\ versions' = [versions EXCEPT ![t] = versions[s], ![s] = {}]
    /\ approvals' = [approvals EXCEPT ![t] = approvals[s], ![s] = << >>]
    /\ changeRequests' = [changeRequests EXCEPT ![t] = changeRequests[s], ![s] = 0]
    /\ UNCHANGED group

\* DELETE, which cascades.
Destroy(s) ==
    /\ sub[s].status # "NONE"
    /\ sub' = [sub EXCEPT ![s] = NoRow]
    /\ versions' = [versions EXCEPT ![s] = {}]
    /\ approvals' = [approvals EXCEPT ![s] = << >>]
    /\ changeRequests' = [changeRequests EXCEPT ![s] = 0]
    /\ UNCHANGED group

GenericStep(s) ==
    \/ \E d \in Data : UpdateData(s, d)
    \/ \E t \in Slots : Move(s, t)
    \/ Destroy(s)

FullNext == Next \/ \E s \in Slots : GenericStep(s)

FullSpec == Init /\ [][FullNext]_vars

-----------------------------------------------------------------------------
(* Properties *)

\* Every table holds only rows of its type.
TypeOK ==
    /\ sub \in [Slots -> Row]
    /\ versions \in [Slots -> SUBSET Version]
    /\ approvals \in [Slots -> Seq(Approval)]
    /\ changeRequests \in [Slots -> Nat]
    /\ group \in [Groups -> [status: GroupStatus \cup SubmissionStatus,
                             stage: Stages \cup {NoStage}]]

\* A row counts its versions: the snapshots _snapshot keeps are numbered 2, 3,
\* up to the row's version_number, one snapshot per number.  Were it not so, the
\* unique constraint on versions would refuse every later transition.
VersionsContiguous ==
    \A s \in Slots :
        /\ Numbers(s) = 2..sub[s].version
        /\ \A v, w \in versions[s] : v.number = w.number => v = w

\* What the newest snapshot of a row with this status records.
RecordedAs(status) ==
    IF status = "UNDER_REVIEW" THEN {"SUBMITTED", "RESUBMITTED"}
    ELSE IF status = "LOCKED" THEN {"APPROVED"}
    ELSE {status}

\* The status of a row is the one its newest snapshot records, except after
\* the two transitions that take no snapshot, begin_review and lock.
StatusMatchesHistory ==
    \A s \in Slots :
        /\ sub[s].status = "NONE" => sub[s].version = 0
        /\ sub[s].status = "DRAFT" => sub[s].version = 1
        /\ sub[s].status \notin {"NONE", "DRAFT"} =>
              \E v \in versions[s] : /\ v.number = sub[s].version
                                     /\ v.status \in RecordedAs(sub[s].status)

\* Every decision was taken on a version a student handed in.
DecisionsAnswerSubmissions ==
    \A s \in Slots : \A i \in DOMAIN approvals[s] :
        \E v \in versions[s] : /\ v.number = approvals[s][i].version
                               /\ v.status \in {"SUBMITTED", "RESUBMITTED"}

\* A decision is filed under the version it was taken on, no version is decided
\* twice, and the next version records the decision.
DecisionsRecorded ==
    \A s \in Slots : \A i \in DOMAIN approvals[s] :
        /\ \A j \in DOMAIN approvals[s] :
              approvals[s][i].version = approvals[s][j].version => i = j
        /\ \E w \in versions[s] : /\ w.number = approvals[s][i].version + 1
                                   /\ w.status = approvals[s][i].decision

\* current_approved_version is set exactly on approved and locked rows, and it
\* names the version the approval was given to, not the approval's snapshot.
ApprovedVersionIsSubmission ==
    \A s \in Slots :
        /\ (sub[s].status \in ApprovedStates) <=> (sub[s].approved # 0)
        /\ sub[s].approved # 0 =>
              /\ sub[s].approved = sub[s].version - 1
              /\ \E i \in DOMAIN approvals[s] :
                    approvals[s][i] = [decision |-> "APPROVED", version |-> sub[s].approved]

\* No work exists on a stage whose prerequisites the group has not had approved.
NoWorkOnLockedStages ==
    \A s \in Slots : sub[s].status # "NONE" => Unlocked(s)

\* A group whose status a recomputation wrote names one of the stages the
\* group has to work on next; NOT_STARTED groups have had no recomputation.
CurrentStageIsFirstOpen ==
    \A g \in Groups :
        \/ group[g].stage \in CurrentStages(sub, g)
        \/ group[g].stage = NoStage /\ \A s \in SlotsOf(g) : sub[s].status \in {"NONE", "DRAFT"}

\* The stage a group is told to work on is one it can work on.
CurrentStageUnlocked ==
    OrderedConfig =>
        \A g \in Groups : group[g].stage # NoStage =>
            IsStageUnlocked(sub, g, group[g].stage)

\* A group is COMPLETED only when each active stage has an approved submission.
CompletedMeansApproved ==
    \A g \in Groups : group[g].status = "COMPLETED" => OpenStages(sub, g) = {}

\* While a group shows the status of a submission, it is that of a row of its
\* current stage no other row of the stage was revised more often than.
GroupMirrorsSubmission ==
    \A g \in Groups : group[g].status \in SubmissionStatus =>
        \E s \in SlotsOf(g) :
            /\ StageOf[s] = group[g].stage /\ sub[s].status = group[g].status
            /\ \A t \in SlotsOf(g) :
                  StageOf[t] = StageOf[s] => sub[t].version <= sub[s].version

\* An approved submission is final: its contents, its versions and decisions
\* stay, and it can only be locked.
ApprovedIsFinal ==
    [][\A s \in Slots : sub[s].status \in ApprovedStates =>
          /\ sub'[s].status \in IF sub[s].status = "LOCKED" THEN {"LOCKED"}
                                ELSE ApprovedStates
          /\ [sub'[s] EXCEPT !.status = sub[s].status] = sub[s]
          /\ versions'[s] = versions[s]
          /\ approvals'[s] = approvals[s]]_vars

\* Snapshots are immutable: a version, once kept, is kept as it is.
VersionsImmutable == [][\A s \in Slots : versions[s] \subseteq versions'[s]]_vars

\* A group the admin cancelled stays cancelled, whatever its students do.
CancelledIsFinal ==
    [][\A g \in Groups : group[g].status = "CANCELLED" =>
          group'[g].status = "CANCELLED"]_vars

-----------------------------------------------------------------------------
(* What a declaration of the code says, and the code does not do            *)

\* ProjectGroup.status is one of the choices of GroupStatus.
GroupStatusIsAChoice == \A g \in Groups : group[g].status \in GroupStatus
=============================================================================
