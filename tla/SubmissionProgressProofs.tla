---------------------- MODULE SubmissionProgressProofs ----------------------
(***************************************************************************)
(* Proofs about the progress of a group under Spec, the requests that run  *)
(* SubmissionService: stages are opened by approvals only, and no service  *)
(* takes an approval back, so that IsStageSatisfied never turns false      *)
(* (SatisfiedStays).  The last part is what no step may do.                *)
(***************************************************************************)
EXTENDS SubmissionsProofs

-----------------------------------------------------------------------------
(* What a request does to the progress of the groups *)

EditedStatus(status) == IF status = "NONE" THEN "DRAFT" ELSE status

\* A row after an edit: a new draft is version 1, another row keeps its version.
Edited(old, new) ==
    /\ new.status = EditedStatus(old.status)
    /\ new.version = IF old.status = "NONE" THEN 1 ELSE old.version

\* A request on slot s: the row keeps an approved status, exists already or
\* belongs to an unlocked stage, and only a recomputation of its own group
\* follows, or none where the row is only edited.
RowStep(s) ==
    \E row \in Row :
        /\ sub' = [sub EXCEPT ![s] = row]
        /\ row.status # "NONE"
        /\ sub[s].status \in ApprovedStates => row.status \in ApprovedStates
        /\ sub[s].status = "NONE" => Unlocked(s)
        /\ \/ Recompute(GroupOf[s])
           \/ group' = group /\ Edited(sub[s], row)

LEMMA StudentRowStep ==
    ASSUME IInv, IInv', NEW s \in Slots, StudentStep(s)
    PROVE  RowStep(s)
<1>1. PICK u : \/ \E d \in Data : Create(u, s, d) \/ SaveDraft(u, s, d)
               \/ Submit(u, s)
  BY DEF StudentStep
<1>2. sub'[s] \in Row /\ sub[s] \in Row
  BY DEF IInv, TypeOK
<1>3. /\ sub' = [sub EXCEPT ![s] = sub'[s]]
      /\ sub[s].status \notin ApprovedStates
      /\ Unlocked(s)
      /\ \/ Recompute(GroupOf[s])
         \/ group' = group /\ Edited(sub[s], sub'[s])
  <2>1. CASE \E d \in Data : Create(u, s, d)
    <3>1. PICK d \in Data : Create(u, s, d)
      BY <2>1
    <3>2. Edited(sub[s], sub'[s])
      <4>1. sub'[s] = IF sub[s].status = "NONE"
                      THEN [status |-> "DRAFT", version |-> 1, data |-> d, approved |-> 0]
                      ELSE [sub[s] EXCEPT !.data = d]
        BY <3>1 DEF Create, IInv, TypeOK
      <4> QED
        BY <1>2, <4>1 DEF Row, EditedStatus, Edited
    <3> QED
      BY <3>1, <3>2 DEF Create, IInv, TypeOK, AllowedEditStates, ApprovedStates
  <2>2. CASE \E d \in Data : SaveDraft(u, s, d)
    <3>1. PICK d \in Data : SaveDraft(u, s, d)
      BY <2>2
    <3>2. sub'[s] = [sub[s] EXCEPT !.data = d]
      BY <3>1 DEF SaveDraft, IInv, TypeOK
    <3>3. sub'[s].status = sub[s].status /\ sub'[s].version = sub[s].version
      BY <1>2, <3>2 DEF Row
    <3>4. Edited(sub[s], sub'[s])
      BY <3>1, <3>3 DEF SaveDraft, CanEdit, AllowedEditStates, EditedStatus, Edited
    <3> QED
      BY <3>1, <3>4 DEF SaveDraft, CanEdit, IInv, TypeOK, AllowedEditStates, ApprovedStates
  <2>3. CASE Submit(u, s)
    BY <2>3 DEF Submit, CanEdit, IInv, TypeOK, AllowedEditStates, ApprovedStates
  <2> QED
    BY <1>1, <2>1, <2>2, <2>3
<1>4. sub'[s].status # "NONE"
  <2>1. CASE Submit(u, s)
    <3>1. sub'[s].status = IF sub[s].status = "DRAFT" THEN "SUBMITTED" ELSE "RESUBMITTED"
      BY <1>2, <2>1 DEF Submit, IInv, TypeOK, Row
    <3> QED
      BY <3>1
  <2>2. CASE \E d \in Data : Create(u, s, d)
    <3>1. PICK d \in Data : Create(u, s, d)
      BY <2>2
    <3>2. sub'[s] = IF sub[s].status = "NONE"
                    THEN [status |-> "DRAFT", version |-> 1, data |-> d, approved |-> 0]
                    ELSE [sub[s] EXCEPT !.data = d]
      BY <3>1 DEF Create, IInv, TypeOK
    <3> QED
      BY <1>2, <3>2 DEF Row
  <2>3. CASE \E d \in Data : SaveDraft(u, s, d)
    <3>1. PICK d \in Data : SaveDraft(u, s, d)
      BY <2>3
    <3>2. sub'[s] = [sub[s] EXCEPT !.data = d]
      BY <3>1 DEF SaveDraft, IInv, TypeOK
    <3> QED
      BY <1>2, <3>1, <3>2 DEF SaveDraft, CanEdit, AllowedEditStates, Row
  <2> QED
    BY <1>1, <2>1, <2>2, <2>3
<1> QED
  BY <1>2, <1>3, <1>4 DEF RowStep

LEMMA DeciderRowStep ==
    ASSUME IInv, IInv', NEW s \in Slots, DeciderStep(s)
    PROVE  RowStep(s)
<1>1. PICK u : BeginReview(u, s) \/ RequestChanges(u, s) \/ Approve(u, s) \/ Lock(u, s)
  BY DEF DeciderStep
<1>2. sub'[s] \in Row /\ sub[s] \in Row
  BY DEF IInv, TypeOK
<1>3. /\ sub' = [sub EXCEPT ![s] = sub'[s]]
      /\ sub[s].status \in ApprovedStates => sub'[s].status \in ApprovedStates
      /\ sub[s].status # "NONE"
      /\ Recompute(GroupOf[s])
  <2>1. CASE BeginReview(u, s)
    BY <2>1 DEF BeginReview, IInv, TypeOK, ApprovedStates
  <2>2. CASE RequestChanges(u, s)
    BY <2>2 DEF RequestChanges, IInv, TypeOK, ApprovedStates
  <2>3. CASE Approve(u, s)
    BY <2>3 DEF Approve, IInv, TypeOK, ApprovedStates
  <2>4. CASE Lock(u, s)
    BY <1>2, <2>4 DEF Lock, IInv, TypeOK, ApprovedStates, Row
  <2> QED
    BY <1>1, <2>1, <2>2, <2>3, <2>4
<1>4. sub'[s].status # "NONE"
  <2>1. CASE BeginReview(u, s) \/ Lock(u, s)
    BY <1>2, <2>1 DEF BeginReview, Lock, IInv, TypeOK, Row
  <2>2. CASE RequestChanges(u, s)
    BY <1>2, <2>2, RequestChangesDecides DEF Decide, DecidedRow, IInv, TypeOK
  <2>3. CASE Approve(u, s)
    BY <1>2, <2>3, ApproveDecides DEF Decide, DecidedRow, IInv, TypeOK
  <2> QED
    BY <1>1, <2>1, <2>2, <2>3
<1> QED
  BY <1>2, <1>3, <1>4 DEF RowStep

\* The shape of every step: one row, one group or nothing.
LEMMA StepShape ==
    ASSUME IInv, IInv', [Next]_vars
    PROVE  \/ \E s \in Slots : RowStep(s)
           \/ sub' = sub /\ \E g \in Groups :
                 group' = [group EXCEPT ![g].status = "CANCELLED"]
           \/ sub' = sub /\ group' = group
  BY StudentRowStep, DeciderRowStep DEF Next, CancelGroup, vars

LEMMA ServiceStepKeeps == IInv /\ [Next]_vars => IInv'
  BY StepKeeps DEF FullNext

-----------------------------------------------------------------------------
(* Stages stay satisfied *)

LEMMA SatisfiedStays ==
    ASSUME IInv, IInv', [Next]_vars, NEW g \in Groups, NEW st \in Stages,
           IsStageSatisfied(sub, g, st)
    PROVE  IsStageSatisfied(sub', g, st)
<1>1. PICK t \in SlotsOf(g) : StageOf[t] = st /\ sub[t].status \in ApprovedStates
  BY DEF IsStageSatisfied
<1>2. sub'[t].status \in ApprovedStates
  <2>1. CASE sub' = sub
    BY <1>1, <2>1
  <2>2. ASSUME NEW s \in Slots, RowStep(s)
        PROVE  sub'[t].status \in ApprovedStates
    BY <1>1, <2>2 DEF RowStep, IInv, TypeOK, SlotsOf
  <2> QED
    BY <2>1, <2>2, StepShape
<1> QED
  BY <1>1, <1>2 DEF IsStageSatisfied

LEMMA UnlockedStays ==
    ASSUME IInv, IInv', [Next]_vars, NEW g \in Groups, NEW st \in Stages,
           IsStageUnlocked(sub, g, st)
    PROVE  IsStageUnlocked(sub', g, st)
  BY SatisfiedStays, ConfigAssumption DEF IsStageUnlocked, ArePrerequisitesSatisfied

LEMMA OpenShrinks ==
    ASSUME IInv, IInv', [Next]_vars, NEW g \in Groups
    PROVE  OpenStages(sub', g) \subseteq OpenStages(sub, g)
  BY SatisfiedStays, ConfigAssumption DEF OpenStages

-----------------------------------------------------------------------------
(* What a recomputation writes *)

\* The first open stage of an ordered configuration is unlocked: an open
\* prerequisite would come before it.
LEMMA CurrentIsUnlocked ==
    ASSUME OrderedConfig, NEW table, NEW g, NEW st \in CurrentStages(table, g), st # NoStage
    PROVE  IsStageUnlocked(table, g, st)
<1>1. /\ st \in OpenStages(table, g)
      /\ \A o \in OpenStages(table, g) : DisplayOrder[st] <= DisplayOrder[o]
  BY DEF CurrentStages
<1>2. st \in ActiveStages /\ st \in Stages
  BY <1>1, ConfigAssumption DEF OpenStages
<1>3. ASSUME NEW dep \in Prerequisites[st]
      PROVE  IsStageSatisfied(table, g, dep)
  <2>1. dep \in ActiveStages /\ DisplayOrder[dep] < DisplayOrder[st]
    BY <1>2 DEF OrderedConfig
  <2>2. DisplayOrder[dep] \in Nat /\ DisplayOrder[st] \in Nat
    BY <1>2, <2>1, ConfigAssumption
  <2>3. dep \notin OpenStages(table, g)
    BY <1>1, <2>1, <2>2
  <2> QED
    BY <2>1, <2>3 DEF OpenStages
<1> QED
  BY <1>2, <1>3 DEF IsStageUnlocked, ArePrerequisitesSatisfied

LEMMA CompletedHasNoOpenStage ==
    ASSUME NEW table \in [Slots -> Row], NEW g \in Groups, NEW old,
           NEW new \in RecomputedGroups(table, g, old), new.status = "COMPLETED"
    PROVE  OpenStages(table, g) = {}
<1>1. PICK st \in CurrentStages(table, g) :
         \E x \in RecomputedStatuses(table, g, st, old) : new = [status |-> x, stage |-> st]
  BY DEF RecomputedGroups
<1>2. "COMPLETED" \in RecomputedStatuses(table, g, st, old)
  BY <1>1
<1>3. "COMPLETED" \notin LatestStatuses(table, g, st)
  BY DEF LatestStatuses, RowsOf, SlotsOf, Row, SubmissionStatus
<1>4. st = NoStage
  BY <1>2, <1>3 DEF RecomputedStatuses
<1> QED
  BY <1>4, ConfigAssumption DEF CurrentStages, OpenStages

-----------------------------------------------------------------------------
(* The inductive invariant and the theorems *)

ProgressInv ==
    /\ IInv
    /\ NoWorkOnLockedStages
    /\ CurrentStageUnlocked
    /\ CompletedMeansApproved
    /\ CurrentStageIsFirstOpen
    /\ GroupMirrorsSubmission

LEMMA InitProgress == Init => ProgressInv
<1> SUFFICES ASSUME Init PROVE ProgressInv
  OBVIOUS
<1>1. IInv
  BY InitEstablishes
<1>2. NoWorkOnLockedStages
  BY DEF Init, NoRow, NoWorkOnLockedStages
<1>3. CurrentStageUnlocked /\ CompletedMeansApproved
  BY DEF Init, CurrentStageUnlocked, CompletedMeansApproved
<1>4. CurrentStageIsFirstOpen /\ GroupMirrorsSubmission
  BY DEF Init, NoRow, CurrentStageIsFirstOpen, GroupMirrorsSubmission, SlotsOf, SubmissionStatus
<1> QED
  BY <1>1, <1>2, <1>3, <1>4 DEF ProgressInv

LEMMA WorkStep ==
    ASSUME ProgressInv, IInv', [Next]_vars
    PROVE  NoWorkOnLockedStages'
<1> SUFFICES ASSUME NEW t \in Slots, sub'[t].status # "NONE"
             PROVE  IsStageUnlocked(sub', GroupOf[t], StageOf[t])
  BY DEF NoWorkOnLockedStages, Unlocked
<1>1. IsStageUnlocked(sub, GroupOf[t], StageOf[t])
  <2>1. CASE sub[t].status # "NONE"
    BY <2>1 DEF ProgressInv, NoWorkOnLockedStages, Unlocked
  <2>2. CASE sub[t].status = "NONE"
    <3>1. sub' # sub
      BY <2>2
    <3>2. PICK s \in Slots : RowStep(s)
      BY <3>1, StepShape DEF ProgressInv
    <3>3. s = t
      BY <2>2, <3>2 DEF RowStep, ProgressInv, IInv, TypeOK
    <3> QED
      BY <2>2, <3>2, <3>3 DEF RowStep, Unlocked
  <2> QED
    BY <2>1, <2>2
<1> QED
  BY <1>1, UnlockedStays, ConfigAssumption DEF ProgressInv

LEMMA StageStep ==
    ASSUME ProgressInv, IInv', [Next]_vars
    PROVE  CurrentStageUnlocked'
<1> SUFFICES ASSUME OrderedConfig, NEW h \in Groups, group'[h].stage # NoStage
             PROVE  IsStageUnlocked(sub', h, group'[h].stage)
  BY DEF CurrentStageUnlocked
<1>1. ASSUME group'[h].stage = group[h].stage
      PROVE  IsStageUnlocked(sub', h, group'[h].stage)
  <2>1. IsStageUnlocked(sub, h, group[h].stage) /\ group[h].stage \in Stages
    BY <1>1 DEF ProgressInv, CurrentStageUnlocked, IInv, TypeOK
  <2> QED
    BY <1>1, <2>1, UnlockedStays DEF ProgressInv
<1>2. ASSUME NEW g \in Groups, Recompute(g)
      PROVE  IsStageUnlocked(sub', h, group'[h].stage)
  <2>1. CASE g # h
    BY <1>1, <1>2, <2>1 DEF Recompute, ProgressInv, IInv, TypeOK
  <2>2. CASE g = h
    <3>1. group'[h] \in RecomputedGroups(sub', h, group[h].status)
      BY <1>2, <2>2 DEF Recompute, ProgressInv, IInv, TypeOK
    <3>2. group'[h].stage \in CurrentStages(sub', h)
      BY <3>1 DEF RecomputedGroups
    <3> QED
      BY <3>2, CurrentIsUnlocked
  <2> QED
    BY <2>1, <2>2
<1>3. CASE \E s \in Slots : RowStep(s)
  BY <1>1, <1>2, <1>3, ConfigAssumption DEF RowStep
<1>4. CASE \E g \in Groups : group' = [group EXCEPT ![g].status = "CANCELLED"]
  BY <1>1, <1>4 DEF ProgressInv, IInv, TypeOK
<1> QED
  BY <1>1, <1>3, <1>4, StepShape DEF ProgressInv

LEMMA CompletedStep ==
    ASSUME ProgressInv, IInv', [Next]_vars
    PROVE  CompletedMeansApproved'
<1> SUFFICES ASSUME NEW h \in Groups, group'[h].status = "COMPLETED"
             PROVE  OpenStages(sub', h) = {}
  BY DEF CompletedMeansApproved
<1>1. ASSUME group'[h].status = group[h].status
      PROVE  OpenStages(sub', h) = {}
  BY <1>1, OpenShrinks DEF ProgressInv, CompletedMeansApproved
<1>2. ASSUME NEW g \in Groups, Recompute(g)
      PROVE  OpenStages(sub', h) = {}
  <2>1. CASE g # h
    BY <1>1, <1>2, <2>1 DEF Recompute, ProgressInv, IInv, TypeOK
  <2>2. CASE g = h
    <3>1. group'[h] \in RecomputedGroups(sub', h, group[h].status)
      BY <1>2, <2>2 DEF Recompute, ProgressInv, IInv, TypeOK
    <3>2. sub' \in [Slots -> Row]
      BY DEF IInv, TypeOK
    <3> QED
      BY <3>1, <3>2, CompletedHasNoOpenStage
  <2> QED
    BY <2>1, <2>2
<1>3. CASE \E s \in Slots : RowStep(s)
  BY <1>1, <1>2, <1>3, ConfigAssumption DEF RowStep
<1>4. ASSUME NEW g \in Groups, group' = [group EXCEPT ![g].status = "CANCELLED"]
      PROVE  OpenStages(sub', h) = {}
  BY <1>1, <1>4 DEF ProgressInv, IInv, TypeOK
<1> QED
  BY <1>1, <1>3, <1>4, StepShape DEF ProgressInv

\* What is open for a group depends on which of its rows are approved.
LEMMA SameApprovedSameStage ==
    ASSUME NEW t1, NEW t2, NEW g \in Groups,
           \A s \in SlotsOf(g) : t1[s].status \in ApprovedStates <=> t2[s].status \in ApprovedStates
    PROVE  CurrentStages(t1, g) = CurrentStages(t2, g)
<1>1. \A st : IsStageSatisfied(t1, g, st) <=> IsStageSatisfied(t2, g, st)
  BY DEF IsStageSatisfied
<1>2. OpenStages(t1, g) = OpenStages(t2, g)
  BY <1>1 DEF OpenStages
<1> QED
  BY <1>2 DEF CurrentStages

\* A row counts from version 1, a slot without a row has version 0.
LEMMA RowVersion ==
    ASSUME NEW row, NEW vers, NEW apps, HistoryOK(row, vers, apps)
    PROVE  /\ row.version \in Nat
           /\ row.status = "NONE" <=> row.version = 0
<1>1. row.version \in Nat
  BY DEF HistoryOK, Row
<1>2. row.status \notin {"NONE", "DRAFT"} => row.version # 0
  <2> SUFFICES ASSUME row.status \notin {"NONE", "DRAFT"} PROVE row.version # 0
    OBVIOUS
  <2>1. PICK v \in vers : v.number = row.version
    BY DEF HistoryOK, StatusOK
  <2> QED
    BY <1>1, <2>1 DEF HistoryOK, Contiguous
<1> QED
  BY <1>1, <1>2 DEF HistoryOK, StatusOK

\* What a group shows: a status of its own, or that of a newest row of its stage.
Shows(table, h, new) ==
    new.status \in SubmissionStatus =>
        \E s \in SlotsOf(h) :
            /\ StageOf[s] = new.stage /\ table[s].status = new.status
            /\ \A t \in SlotsOf(h) :
                  StageOf[t] = StageOf[s] => table[t].version <= table[s].version

\* The groups a step leaves as they were, with rows that were at most edited.
LEMMA UntouchedGroup ==
    ASSUME ProgressInv, NEW h \in Groups, group'[h].stage = group[h].stage,
           group'[h].status = group[h].status \/ group'[h].status \notin SubmissionStatus,
           \A t \in SlotsOf(h) : sub'[t] = sub[t] \/ Edited(sub[t], sub'[t])
    PROVE  /\ \/ group'[h].stage \in CurrentStages(sub', h)
              \/ group'[h].stage = NoStage
                    /\ \A s \in SlotsOf(h) : sub'[s].status \in {"NONE", "DRAFT"}
           /\ Shows(sub', h, group'[h])
<1>1. CurrentStages(sub', h) = CurrentStages(sub, h)
  <2>1. \A s \in SlotsOf(h) :
            sub'[s].status \in ApprovedStates <=> sub[s].status \in ApprovedStates
    BY DEF Edited, EditedStatus, ApprovedStates
  <2>2. PICK a, b : a = sub /\ b = sub'
    OBVIOUS
  <2>3. CurrentStages(b, h) = CurrentStages(a, h)
    BY <2>1, <2>2, SameApprovedSameStage
  <2> QED
    BY <2>2, <2>3
<1>2. \/ group[h].stage \in CurrentStages(sub, h)
      \/ group[h].stage = NoStage /\ \A s \in SlotsOf(h) : sub[s].status \in {"NONE", "DRAFT"}
  BY DEF ProgressInv, CurrentStageIsFirstOpen
<1>3. Shows(sub', h, group'[h])
  <2> SUFFICES ASSUME group'[h].status \in SubmissionStatus
               PROVE  \E s \in SlotsOf(h) :
                          /\ StageOf[s] = group'[h].stage /\ sub'[s].status = group'[h].status
                          /\ \A t \in SlotsOf(h) :
                                StageOf[t] = StageOf[s] => sub'[t].version <= sub'[s].version
    BY DEF Shows
  <2>1. PICK s \in SlotsOf(h) :
          /\ StageOf[s] = group[h].stage /\ sub[s].status = group[h].status
          /\ \A t \in SlotsOf(h) : StageOf[t] = StageOf[s] => sub[t].version <= sub[s].version
    BY DEF ProgressInv, GroupMirrorsSubmission
  <2>2. sub[s].status # "NONE"
    BY <2>1 DEF SubmissionStatus
  <2>3. sub'[s].status = sub[s].status /\ sub'[s].version = sub[s].version
    BY <2>2 DEF Edited, EditedStatus
  <2>4. sub[s].version \in Nat \ {0}
    BY <2>2, RowVersion DEF ProgressInv, IInv, Histories, SlotsOf
  <2>5. ASSUME NEW t \in SlotsOf(h), StageOf[t] = StageOf[s]
        PROVE  sub'[t].version <= sub[s].version
    <3>1. sub'[t].version = sub[t].version \/ sub'[t].version = 1
      BY DEF Edited
    <3> QED
      BY <2>1, <2>4, <2>5, <3>1
  <2> QED
    BY <2>1, <2>3, <2>5
<1> QED
  BY <1>1, <1>2, <1>3 DEF Edited, EditedStatus

LEMMA RecomputedGroup ==
    ASSUME IInv, IInv', NEW g \in Groups, Recompute(g)
    PROVE  /\ group'[g].stage \in CurrentStages(sub', g)
           /\ Shows(sub', g, group'[g])
<1>1. PICK new \in RecomputedGroups(sub', g, group[g].status) : group'[g] = new
  BY DEF Recompute, IInv, TypeOK
<1>2. PICK st \in CurrentStages(sub', g) :
         \E x \in RecomputedStatuses(sub', g, st, group[g].status) :
             new = [status |-> x, stage |-> st]
  BY DEF RecomputedGroups
<1>3. new.status \in RecomputedStatuses(sub', g, st, group[g].status) /\ new.stage = st
  BY <1>2
<1>4. new.status \in SubmissionStatus => new.status \in LatestStatuses(sub', g, st)
  BY <1>3 DEF RecomputedStatuses, SubmissionStatus
<1>5. ASSUME new.status \in LatestStatuses(sub', g, st)
      PROVE  \E s \in SlotsOf(g) :
                 /\ StageOf[s] = st /\ sub'[s].status = new.status
                 /\ \A t \in SlotsOf(g) :
                       StageOf[t] = StageOf[s] => sub'[t].version <= sub'[s].version
  <2>1. PICK s \in RowsOf(sub', g, st) :
          /\ sub'[s].status = new.status
          /\ \A t \in RowsOf(sub', g, st) : sub'[t].version <= sub'[s].version
    BY <1>5 DEF LatestStatuses
  <2>2. \A t \in SlotsOf(g) : /\ sub'[t].version \in Nat
                              /\ sub'[t].status = "NONE" => sub'[t].version = 0
    BY RowVersion DEF IInv, Histories, SlotsOf
  <2>3. \A t \in SlotsOf(g) : StageOf[t] = st /\ sub'[t].status # "NONE" =>
            sub'[t].version <= sub'[s].version
    BY <2>1 DEF RowsOf
  <2>4. s \in SlotsOf(g) /\ StageOf[s] = st
    BY DEF RowsOf
  <2>5. \A t \in SlotsOf(g) : StageOf[t] = st => sub'[t].version <= sub'[s].version
    BY <2>2, <2>3, <2>4
  <2> QED
    BY <2>1, <2>4, <2>5
<1>6. Shows(sub', g, new)
  BY <1>3, <1>4, <1>5 DEF Shows
<1> QED
  BY <1>1, <1>2, <1>3, <1>6

LEMMA FirstOpenStep ==
    ASSUME ProgressInv, IInv', [Next]_vars
    PROVE  CurrentStageIsFirstOpen' /\ GroupMirrorsSubmission'
<1> SUFFICES ASSUME NEW h \in Groups
             PROVE  /\ \/ group'[h].stage \in CurrentStages(sub', h)
                       \/ group'[h].stage = NoStage
                             /\ \A s \in SlotsOf(h) : sub'[s].status \in {"NONE", "DRAFT"}
                    /\ Shows(sub', h, group'[h])
  BY DEF CurrentStageIsFirstOpen, GroupMirrorsSubmission, Shows
<1>1. CASE sub' = sub /\ group' = group
  BY <1>1, UntouchedGroup
<1>2. ASSUME sub' = sub, NEW g \in Groups, group' = [group EXCEPT ![g].status = "CANCELLED"]
      PROVE  group'[h].stage = group[h].stage
             /\ (group'[h].status = group[h].status \/ group'[h].status \notin SubmissionStatus)
  BY <1>2 DEF ProgressInv, IInv, TypeOK, SubmissionStatus
<1>3. ASSUME NEW s \in Slots, NEW row \in Row, sub' = [sub EXCEPT ![s] = row],
             GroupOf[s] # h, Recompute(GroupOf[s]) \/ group' = group
      PROVE  /\ group'[h] = group[h]
             /\ \A t \in SlotsOf(h) : sub'[t] = sub[t]
  BY <1>3, ConfigAssumption DEF Recompute, SlotsOf, ProgressInv, IInv, TypeOK
<1>4. ASSUME NEW s \in Slots, NEW row \in Row, sub' = [sub EXCEPT ![s] = row],
             Edited(sub[s], row)
      PROVE  \A t \in SlotsOf(h) : sub'[t] = sub[t] \/ Edited(sub[t], sub'[t])
  BY <1>4 DEF SlotsOf, ProgressInv, IInv, TypeOK
<1>5. CASE \E s \in Slots : RowStep(s)
  <2>1. PICK s \in Slots, row \in Row :
          /\ sub' = [sub EXCEPT ![s] = row]
          /\ \/ Recompute(GroupOf[s])
             \/ group' = group /\ Edited(sub[s], row)
    BY <1>5 DEF RowStep
  <2>2. CASE GroupOf[s] # h
    BY <1>3, <2>1, <2>2, UntouchedGroup
  <2>3. CASE GroupOf[s] = h /\ Recompute(GroupOf[s])
    BY <2>3, RecomputedGroup DEF ProgressInv
  <2>4. CASE group' = group /\ Edited(sub[s], row)
    BY <1>4, <2>1, <2>4, UntouchedGroup
  <2> QED
    BY <2>1, <2>2, <2>3, <2>4
<1>6. CASE sub' = sub /\ \E g \in Groups : group' = [group EXCEPT ![g].status = "CANCELLED"]
  BY <1>2, <1>6, UntouchedGroup
<1> QED
  BY <1>1, <1>5, <1>6, StepShape DEF ProgressInv

LEMMA ProgressStep == ProgressInv /\ [Next]_vars => ProgressInv'
  BY ServiceStepKeeps, WorkStep, StageStep, CompletedStep, FirstOpenStep DEF ProgressInv

\* Under the requests that run the services, the progress invariant holds.
THEOREM ProgressInvariant == Spec => []ProgressInv
<1>1. Init => ProgressInv
  BY InitProgress
<1>2. ProgressInv /\ [Next]_vars => ProgressInv'
  BY ProgressStep
<1> QED
  BY <1>1, <1>2, PTL DEF Spec

\* No submission exists on a stage whose prerequisites the group has not had
\* approved: is_stage_unlocked, consulted when the row is created, stays true.
THEOREM WorkOnlyOnUnlockedStages == Spec => []NoWorkOnLockedStages
<1>1. ProgressInv => NoWorkOnLockedStages
  BY DEF ProgressInv
<1> QED
  BY <1>1, ProgressInvariant, PTL

\* The current_stage recompute_group_status writes is unlocked, and stays so,
\* when prerequisites are active and come first in display order.
THEOREM CurrentStageStaysUnlocked == Spec => []CurrentStageUnlocked
<1>1. ProgressInv => CurrentStageUnlocked
  BY DEF ProgressInv
<1> QED
  BY <1>1, ProgressInvariant, PTL

\* A group recompute_group_status calls COMPLETED has an approved submission on
\* each active stage, and keeps it.
THEOREM CompletedIsApproved == Spec => []CompletedMeansApproved
<1>1. ProgressInv => CompletedMeansApproved
  BY DEF ProgressInv
<1> QED
  BY <1>1, ProgressInvariant, PTL

\* The current_stage of a group is a first open stage, whatever the services do
\* to its submissions and to those of other groups.
THEOREM CurrentStageFirstOpen == Spec => []CurrentStageIsFirstOpen
<1>1. ProgressInv => CurrentStageIsFirstOpen
  BY DEF ProgressInv
<1> QED
  BY <1>1, ProgressInvariant, PTL

\* The submission status a group shows is that of a submission of its current
\* stage, one with the highest version_number there, also after edits of drafts,
\* which recompute nothing.
THEOREM GroupShowsSubmission == Spec => []GroupMirrorsSubmission
<1>1. ProgressInv => GroupMirrorsSubmission
  BY DEF ProgressInv
<1> QED
  BY <1>1, ProgressInvariant, PTL

-----------------------------------------------------------------------------
(* What no service call may do *)

\* A request leaves the other rows, and what refers to them, alone.
LEMMA OtherSlots ==
    ASSUME IInv, NEW s \in Slots, NEW t \in Slots, s # t, StudentStep(t) \/ DeciderStep(t)
    PROVE  sub'[s] = sub[s] /\ versions'[s] = versions[s] /\ approvals'[s] = approvals[s]
<1>1. CASE StudentStep(t)
  BY <1>1 DEF StudentStep, Create, SaveDraft, Submit, Snapshot, IInv, TypeOK
<1>2. CASE DeciderStep(t)
  BY <1>2 DEF DeciderStep, BeginReview, RequestChanges, Approve, Lock, Snapshot, AddApproval,
              IInv, TypeOK
<1> QED
  BY <1>1, <1>2

LEMMA ApprovedRowStep ==
    ASSUME IInv, [Next]_vars, NEW s \in Slots, sub[s].status \in ApprovedStates
    PROVE  /\ sub'[s].status \in IF sub[s].status = "LOCKED" THEN {"LOCKED"} ELSE ApprovedStates
           /\ [sub'[s] EXCEPT !.status = sub[s].status] = sub[s]
           /\ versions'[s] = versions[s]
           /\ approvals'[s] = approvals[s]
<1>1. sub[s] \in Row
  BY DEF IInv, TypeOK
<1>2. ASSUME sub'[s] = sub[s]
      PROVE  /\ sub'[s].status \in IF sub[s].status = "LOCKED" THEN {"LOCKED"} ELSE ApprovedStates
             /\ [sub'[s] EXCEPT !.status = sub[s].status] = sub[s]
  BY <1>1, <1>2 DEF Row
<1>3. CASE UNCHANGED <<sub, versions, approvals>>
  BY <1>2, <1>3
<1>4. ASSUME NEW t \in Slots, t # s, StudentStep(t) \/ DeciderStep(t)
      PROVE  sub'[s] = sub[s] /\ versions'[s] = versions[s] /\ approvals'[s] = approvals[s]
  BY <1>4, OtherSlots
<1>5. ~StudentStep(s)
  BY DEF StudentStep, Create, SaveDraft, Submit, CanEdit, AllowedEditStates, ApprovedStates
<1>6. ASSUME DeciderStep(s)
      PROVE  /\ sub[s].status = "APPROVED"
             /\ sub' = [sub EXCEPT ![s].status = "LOCKED"]
             /\ UNCHANGED <<versions, approvals>>
  BY <1>6 DEF DeciderStep, BeginReview, RequestChanges, Approve, Lock, ApprovedStates
<1>7. CASE DeciderStep(s)
  <2>1. sub'[s] = [sub[s] EXCEPT !.status = "LOCKED"]
    BY <1>6, <1>7 DEF IInv, TypeOK
  <2> QED
    BY <1>1, <1>6, <1>7, <2>1 DEF Row, ApprovedStates
<1> QED
  BY <1>2, <1>3, <1>4, <1>5, <1>7 DEF Next, CancelGroup, vars

\* An approved submission keeps its contents, versions and decisions, and can
\* only be locked.
THEOREM ApprovalFinal == Spec => ApprovedIsFinal
<1>1. IInv /\ [Next]_vars =>
        [\A s \in Slots : sub[s].status \in ApprovedStates =>
          /\ sub'[s].status \in IF sub[s].status = "LOCKED" THEN {"LOCKED"}
                                ELSE ApprovedStates
          /\ [sub'[s] EXCEPT !.status = sub[s].status] = sub[s]
          /\ versions'[s] = versions[s]
          /\ approvals'[s] = approvals[s]]_vars
  BY ApprovedRowStep
<1>2. ProgressInv => IInv
  BY DEF ProgressInv
<1> QED
  BY <1>1, <1>2, ProgressInvariant, PTL DEF Spec, ApprovedIsFinal

LEMMA VersionsGrow ==
    ASSUME IInv, [Next]_vars, NEW s \in Slots
    PROVE  versions[s] \subseteq versions'[s]
<1>1. ASSUME NEW t \in Slots, NEW x, versions' = [versions EXCEPT ![t] = @ \cup {x}]
      PROVE  versions[s] \subseteq versions'[s]
  BY <1>1 DEF IInv, TypeOK
<1>2. ASSUME NEW t \in Slots, NEW st, Snapshot(t, st)
      PROVE  versions[s] \subseteq versions'[s]
  BY <1>1, <1>2 DEF Snapshot
<1>3. ASSUME NEW t \in Slots, StudentStep(t) \/ DeciderStep(t)
      PROVE  UNCHANGED versions \/ \E st : Snapshot(t, st)
  <2>1. CASE StudentStep(t)
    BY <2>1 DEF StudentStep, Create, SaveDraft, Submit
  <2>2. CASE DeciderStep(t)
    BY <2>2 DEF DeciderStep, BeginReview, RequestChanges, Approve, Lock
  <2> QED
    BY <1>3, <2>1, <2>2
<1> QED
  BY <1>2, <1>3 DEF Next, CancelGroup, vars

\* A snapshot, once kept, is kept as it is.
THEOREM KeptVersions == Spec => VersionsImmutable
<1>1. IInv /\ [Next]_vars => [\A s \in Slots : versions[s] \subseteq versions'[s]]_vars
  BY VersionsGrow
<1>2. ProgressInv => IInv
  BY DEF ProgressInv
<1> QED
  BY <1>1, <1>2, ProgressInvariant, PTL DEF Spec, VersionsImmutable

LEMMA CancelledStep ==
    ASSUME IInv, IInv', [Next]_vars, NEW g \in Groups, group[g].status = "CANCELLED"
    PROVE  group'[g].status = "CANCELLED"
<1>1. ASSUME NEW h \in Groups, Recompute(h) PROVE group'[g].status = "CANCELLED"
  <2>1. CASE h # g
    BY <1>1, <2>1 DEF Recompute, IInv, TypeOK
  <2>2. CASE h = g
    <3>1. PICK new \in RecomputedGroups(sub', g, "CANCELLED") : group'[g] = new
      BY <1>1, <2>2 DEF Recompute, IInv, TypeOK
    <3>2. new.status = "CANCELLED"
      BY DEF RecomputedGroups, RecomputedStatuses
    <3> QED
      BY <3>1, <3>2
  <2> QED
    BY <2>1, <2>2
<1>2. CASE \E s \in Slots : RowStep(s)
  BY <1>1, <1>2, ConfigAssumption DEF RowStep
<1>3. CASE \E h \in Groups : group' = [group EXCEPT ![h].status = "CANCELLED"]
  BY <1>3 DEF IInv, TypeOK
<1> QED
  BY <1>2, <1>3, StepShape

\* A group the admin cancelled stays cancelled.
THEOREM CancellationFinal == Spec => CancelledIsFinal
<1>1. IInv /\ IInv' /\ [Next]_vars =>
        [\A g \in Groups : group[g].status = "CANCELLED" =>
            group'[g].status = "CANCELLED"]_vars
  BY CancelledStep
<1>2. ProgressInv => IInv
  BY DEF ProgressInv
<1> QED
  BY <1>1, <1>2, ProgressInvariant, PTL DEF Spec, CancelledIsFinal
=============================================================================
