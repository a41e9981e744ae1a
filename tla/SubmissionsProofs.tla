-------------------------- MODULE SubmissionsProofs -------------------------
(***************************************************************************)
(* Proofs about Submissions, for all groups, stages, configurations and    *)
(* bounds.                                                                 *)
(*                                                                         *)
(* The history invariants speak of one slot at a time, so they are proved  *)
(* through HistoryOK, a predicate of one row, its snapshots and its        *)
(* decisions: one lemma per way a request changes the three, then one step *)
(* per action.  They hold of FullSpec, generic endpoints included.         *)
(***************************************************************************)
EXTENDS Submissions, SequenceTheorems, TLAPS

-----------------------------------------------------------------------------
(* One submission *)

\* The snapshots of a row: numbered from 2 to its version_number.
Contiguous(row, vers) ==
    /\ \A n \in Nat : (2 <= n /\ n <= row.version) <=> \E v \in vers : v.number = n
    /\ \A v, w \in vers : v.number = w.number => v = w

StatusOK(row, vers) ==
    /\ row.status = "NONE" => row.version = 0
    /\ row.status = "DRAFT" => row.version = 1
    /\ row.status \notin {"NONE", "DRAFT"} =>
          \E v \in vers : v.number = row.version /\ v.status \in RecordedAs(row.status)

DecisionsOK(vers, apps) ==
    \A i \in DOMAIN apps :
        /\ \E v \in vers : /\ v.number = apps[i].version
                           /\ v.status \in {"SUBMITTED", "RESUBMITTED"}
        /\ \E w \in vers : /\ w.number = apps[i].version + 1
                           /\ w.status = apps[i].decision
        /\ \A j \in DOMAIN apps : apps[i].version = apps[j].version => i = j

ApprovedOK(row, apps) ==
    /\ (row.status \in ApprovedStates) <=> (row.approved # 0)
    /\ row.approved # 0 =>
          /\ row.approved = row.version - 1
          /\ \E i \in DOMAIN apps :
                apps[i] = [decision |-> "APPROVED", version |-> row.approved]

HistoryOK(row, vers, apps) ==
    /\ row \in Row /\ vers \in SUBSET Version /\ apps \in Seq(Approval)
    /\ Contiguous(row, vers)
    /\ StatusOK(row, vers)
    /\ DecisionsOK(vers, apps)
    /\ ApprovedOK(row, apps)

\* A slot without a row.
LEMMA EmptyHistory == HistoryOK(NoRow, {}, << >>)
  BY DataAssumption DEF HistoryOK, NoRow, Row, Version, Approval, Contiguous,
     StatusOK, DecisionsOK, ApprovedOK, ApprovedStates

\* A new draft is version 1 and has no snapshot.
LEMMA DraftHistory ==
    ASSUME NEW d \in Data
    PROVE  HistoryOK([status |-> "DRAFT", version |-> 1, data |-> d, approved |-> 0],
                     {}, << >>)
  BY DEF HistoryOK, Row, Version, Approval, Contiguous, SubmissionStatus,
     StatusOK, DecisionsOK, ApprovedOK, ApprovedStates

\* Changing the data of a row does not concern its history.
LEMMA EditHistory ==
    ASSUME NEW row, NEW vers, NEW apps, NEW d \in Data, HistoryOK(row, vers, apps)
    PROVE  HistoryOK([row EXCEPT !.data = d], vers, apps)
<1>1. [row EXCEPT !.data = d] \in Row
  BY DEF HistoryOK, Row
<1> DEFINE new == [row EXCEPT !.data = d]
<1>2. new.status = row.status /\ new.version = row.version /\ new.approved = row.approved
  BY DEF HistoryOK, Row
<1> HIDE DEF new
<1> QED
  BY <1>1, <1>2 DEF HistoryOK, Contiguous, StatusOK, DecisionsOK, ApprovedOK, new

\* A transition without a snapshot: begin_review.
LEMMA ReviewHistory ==
    ASSUME NEW row, NEW vers, NEW apps, HistoryOK(row, vers, apps),
           row.status \in {"SUBMITTED", "RESUBMITTED"}
    PROVE  HistoryOK([row EXCEPT !.status = "UNDER_REVIEW"], vers, apps)
<1> DEFINE new == [row EXCEPT !.status = "UNDER_REVIEW"]
<1>1. new \in Row /\ new.status = "UNDER_REVIEW" /\ new.version = row.version
      /\ new.approved = row.approved
  BY DEF HistoryOK, Row, SubmissionStatus
<1> HIDE DEF new
<1>2. StatusOK(new, vers)
  BY <1>1 DEF HistoryOK, StatusOK, RecordedAs
<1>3. ApprovedOK(new, apps)
  BY <1>1 DEF HistoryOK, ApprovedOK, ApprovedStates
<1>4. Contiguous(new, vers)
  BY <1>1 DEF HistoryOK, Contiguous
<1> QED
  BY <1>1, <1>2, <1>3, <1>4 DEF HistoryOK, new

\* A transition without a snapshot: lock.
LEMMA LockHistory ==
    ASSUME NEW row, NEW vers, NEW apps, HistoryOK(row, vers, apps),
           row.status = "APPROVED"
    PROVE  HistoryOK([row EXCEPT !.status = "LOCKED"], vers, apps)
<1> DEFINE new == [row EXCEPT !.status = "LOCKED"]
<1>1. new \in Row /\ new.status = "LOCKED" /\ new.version = row.version
      /\ new.approved = row.approved
  BY DEF HistoryOK, Row, SubmissionStatus
<1> HIDE DEF new
<1>2. StatusOK(new, vers)
  BY <1>1 DEF HistoryOK, StatusOK, RecordedAs
<1>3. ApprovedOK(new, apps)
  BY <1>1 DEF HistoryOK, ApprovedOK, ApprovedStates
<1>4. Contiguous(new, vers)
  BY <1>1 DEF HistoryOK, Contiguous
<1> QED
  BY <1>1, <1>2, <1>3, <1>4 DEF HistoryOK, new

\* A snapshot with the next number keeps the numbering contiguous.
LEMMA NextNumber ==
    ASSUME NEW row \in Row, NEW vers \in SUBSET Version, Contiguous(row, vers),
           row.version >= 1,
           NEW new \in Row, new.version = row.version + 1, NEW snap \in Version,
           snap.number = new.version
    PROVE  Contiguous(new, vers \cup {snap})
<1>1. row.version \in Nat /\ new.version \in Nat
  BY DEF Row
<1>2. \A v \in vers : v.number \in Nat /\ v.number <= row.version
  BY <1>1 DEF Contiguous, Version
<1>3. \A n \in Nat : (2 <= n /\ n <= new.version) <=>
                     \E v \in vers \cup {snap} : v.number = n
  <2> SUFFICES ASSUME NEW n \in Nat
               PROVE  (2 <= n /\ n <= new.version) <=>
                      \E v \in vers \cup {snap} : v.number = n
    OBVIOUS
  <2>1. CASE n = new.version
    BY <2>1, <1>1
  <2>2. CASE n # new.version
    <3>1. (2 <= n /\ n <= new.version) <=> (2 <= n /\ n <= row.version)
      BY <2>2, <1>1
    <3>2. (\E v \in vers \cup {snap} : v.number = n) <=> \E v \in vers : v.number = n
      BY <2>2
    <3> QED
      BY <3>1, <3>2 DEF Contiguous
  <2> QED
    BY <2>1, <2>2
<1>4. \A v, w \in vers \cup {snap} : v.number = w.number => v = w
  BY <1>1, <1>2 DEF Contiguous
<1> QED
  BY <1>3, <1>4 DEF Contiguous

\* The decisions on older versions stay as they are.
LEMMA SnapshotContiguous ==
    ASSUME NEW row \in Row, NEW vers \in SUBSET Version, NEW apps \in Seq(Approval),
           Contiguous(row, vers), DecisionsOK(vers, apps), row.status # "NONE",
           StatusOK(row, vers),
           NEW new \in Row, new.version = row.version + 1, NEW snap \in Version,
           snap.number = new.version
    PROVE  /\ Contiguous(new, vers \cup {snap})
           /\ DecisionsOK(vers \cup {snap}, apps)
           /\ row.version >= 1
<1>1. row.version \in Nat
  BY DEF Row
<1>2. row.version >= 1
  <2>1. CASE row.status = "DRAFT"
    BY <2>1 DEF StatusOK
  <2>2. CASE row.status # "DRAFT"
    <3>1. PICK v \in vers : v.number = row.version
      BY <2>2 DEF StatusOK
    <3> QED
      BY <3>1, <1>1 DEF Contiguous
  <2> QED
    BY <2>1, <2>2
<1>3. Contiguous(new, vers \cup {snap})
  BY <1>2, NextNumber
<1>4. DecisionsOK(vers \cup {snap}, apps)
  BY DEF DecisionsOK
<1> QED
  BY <1>2, <1>3, <1>4

\* Handing in: submit, of the contents the request has in memory.  A row in
\* review is one a decider took up while the request ran.
LEMMA SubmitHistory ==
    ASSUME NEW row, NEW vers, NEW apps, HistoryOK(row, vers, apps),
           row.status \in AllowedEditStates \cup {"UNDER_REVIEW"},
           NEW st \in {"SUBMITTED", "RESUBMITTED"}, NEW d \in Data, NEW new, NEW snap,
           new = [status |-> st, version |-> row.version + 1, data |-> d,
                  approved |-> row.approved],
           snap = [number |-> new.version, status |-> st, data |-> d]
    PROVE  HistoryOK(new, vers \cup {snap}, apps)
<1>1. row \in Row /\ row.version \in Nat /\ row.approved \in Nat
  BY DEF HistoryOK, Row
<1>2. /\ new \in Row /\ new.status = st /\ new.version = row.version + 1
      /\ new.approved = row.approved
  BY <1>1 DEF Row, SubmissionStatus
<1>3. snap \in Version /\ snap.number = new.version /\ snap.status = st
  BY <1>2 DEF Row, Version, SubmissionStatus
<1>4. row.status # "NONE"
  BY DEF AllowedEditStates
<1>5. /\ Contiguous(new, vers \cup {snap}) /\ DecisionsOK(vers \cup {snap}, apps)
      /\ row.version >= 1
  BY <1>1, <1>2, <1>3, <1>4, SnapshotContiguous DEF HistoryOK
<1>6. StatusOK(new, vers \cup {snap})
  BY <1>2, <1>3 DEF StatusOK, RecordedAs
<1>7. row.approved = 0
  BY DEF HistoryOK, ApprovedOK, ApprovedStates, AllowedEditStates
<1>8. ApprovedOK(new, apps)
  BY <1>2, <1>7 DEF ApprovedOK, ApprovedStates
<1> QED
  BY <1>2, <1>3, <1>5, <1>6, <1>8 DEF HistoryOK

\* The newest version of a row in review is the one its version_number names.
LEMMA NewestVersion ==
    ASSUME NEW row \in Row, NEW vers \in SUBSET Version,
           Contiguous(row, vers), row.version >= 2
    PROVE  LET numbers == {v.number : v \in vers}
           IN  (IF numbers = {} THEN 0
                ELSE CHOOSE n \in numbers : \A m \in numbers : m <= n) = row.version
<1> DEFINE numbers == {v.number : v \in vers}
<1>1. row.version \in Nat
  BY DEF Row
<1>2. numbers \subseteq Nat
  BY DEF Version
<1>3. row.version \in numbers
  BY <1>1 DEF Contiguous
<1>4. \A m \in numbers : m <= row.version
  BY <1>1, <1>2 DEF Contiguous
<1> HIDE DEF numbers
<1>5. ASSUME NEW n \in numbers, \A m \in numbers : m <= n
      PROVE  n = row.version
  BY <1>1, <1>2, <1>3, <1>4, <1>5
<1>6. (CHOOSE n \in numbers : \A m \in numbers : m <= n) = row.version
  BY <1>3, <1>4, <1>5
<1> QED
  BY <1>3, <1>6 DEF numbers

\* A decision: request_changes and approve.  The snapshot is of the contents the
\* request has in memory.
LEMMA DecisionHistory ==
    ASSUME NEW row, NEW vers, NEW apps, HistoryOK(row, vers, apps),
           row.status = "UNDER_REVIEW",
           NEW decision \in {"APPROVED", "CHANGES_REQUIRED"}, NEW d \in Data,
           NEW new, NEW snap,
           new = [status |-> decision, version |-> row.version + 1, data |-> row.data,
                  approved |-> IF decision = "APPROVED" THEN row.version
                               ELSE row.approved],
           snap = [number |-> new.version, status |-> decision, data |-> d]
    PROVE  /\ row.version >= 2
           /\ HistoryOK(new, vers \cup {snap},
                        Append(apps, [decision |-> decision, version |-> row.version]))
<1> DEFINE approval == [decision |-> decision, version |-> row.version]
           apps2 == Append(apps, approval)
<1>1. /\ row \in Row /\ row.version \in Nat /\ row.data \in Data /\ row.approved \in Nat
      /\ vers \in SUBSET Version /\ apps \in Seq(Approval)
  BY DEF HistoryOK, Row
<1>2. new \in Row /\ new.status = decision /\ new.version = row.version + 1
  <2>1. CASE decision = "APPROVED"
    BY <1>1, <2>1 DEF Row, SubmissionStatus
  <2>2. CASE decision = "CHANGES_REQUIRED"
    BY <1>1, <2>2 DEF Row, SubmissionStatus
  <2> QED
    BY <2>1, <2>2
<1>3. snap \in Version /\ snap.number = row.version + 1 /\ snap.status = decision
  <2>1. snap = [number |-> row.version + 1, status |-> decision, data |-> d]
    OBVIOUS
  <2>2. row.version + 1 \in Nat
    BY <1>1
  <2>3. decision \in SubmissionStatus
    BY DEF SubmissionStatus
  <2> QED
    BY <1>1, <2>1, <2>2, <2>3 DEF Version
<1>4. PICK v \in vers : v.number = row.version /\ v.status \in {"SUBMITTED", "RESUBMITTED"}
  BY DEF HistoryOK, StatusOK, RecordedAs
<1>5. row.version >= 2
  BY <1>1, <1>4 DEF HistoryOK, Contiguous
<1>6. Contiguous(new, vers \cup {snap}) /\ DecisionsOK(vers \cup {snap}, apps)
  BY <1>1, <1>2, <1>3, SnapshotContiguous DEF HistoryOK
<1>7. row.approved = 0
  BY DEF HistoryOK, ApprovedOK, ApprovedStates
<1>8. approval \in Approval
  BY <1>1 DEF Approval
<1>9. /\ apps2 \in Seq(Approval) /\ DOMAIN apps = 1..Len(apps) /\ Len(apps) \in Nat
      /\ DOMAIN apps2 = 1..(Len(apps) + 1)
      /\ apps2[Len(apps) + 1] = approval
      /\ \A i \in 1..Len(apps) : apps2[i] = apps[i]
  BY <1>1, <1>8
<1>10. \A i \in DOMAIN apps : apps[i] \in Approval /\ apps[i].version < row.version
  <2> SUFFICES ASSUME NEW i \in DOMAIN apps
               PROVE  apps[i] \in Approval /\ apps[i].version < row.version
    OBVIOUS
  <2>1. apps[i] \in Approval
    BY <1>1, <1>9
  <2>2. PICK w \in vers : w.number = apps[i].version + 1
    BY DEF HistoryOK, DecisionsOK
  <2>3. w.number \in Nat /\ apps[i].version \in Nat
    BY <1>1, <2>1 DEF Version, Approval
  <2>4. w.number <= row.version
    BY <2>3 DEF HistoryOK, Contiguous
  <2> QED
    BY <1>1, <2>1, <2>2, <2>3, <2>4
<1>11. DecisionsOK(vers \cup {snap}, apps2)
  <2> HIDE DEF apps2
  <2> SUFFICES ASSUME NEW i \in DOMAIN apps2
      PROVE  /\ \E x \in vers \cup {snap} :
                   x.number = apps2[i].version /\ x.status \in {"SUBMITTED", "RESUBMITTED"}
             /\ \E x \in vers \cup {snap} :
                   x.number = apps2[i].version + 1 /\ x.status = apps2[i].decision
             /\ \A j \in DOMAIN apps2 : apps2[i].version = apps2[j].version => i = j
    BY DEF DecisionsOK
  <2>1. CASE i \in DOMAIN apps
    <3>1. apps2[i] = apps[i]
      BY <1>9, <2>1
    <3>2. \A j \in DOMAIN apps2 : apps[i].version = apps2[j].version => i = j
      <4> SUFFICES ASSUME NEW j \in DOMAIN apps2, apps[i].version = apps2[j].version
                   PROVE  i = j
        OBVIOUS
      <4>1. apps[i].version < row.version /\ apps[i].version \in Nat
        BY <1>10, <2>1 DEF Approval
      <4>2. apps2[j] # approval
        BY <4>1, <1>1
      <4>3. j \in DOMAIN apps /\ apps2[j] = apps[j]
        BY <1>9, <4>2
      <4> QED
        BY <2>1, <4>3, <1>6 DEF DecisionsOK
    <3> QED
      BY <2>1, <3>1, <3>2, <1>6 DEF DecisionsOK
  <2>2. CASE i = Len(apps) + 1
    <3>1. apps2[i] = approval /\ apps2[i].version = row.version /\ apps2[i].decision = decision
      BY <1>9, <2>2
    <3>2. \A j \in DOMAIN apps2 : apps2[i].version = apps2[j].version => i = j
      <4> SUFFICES ASSUME NEW j \in DOMAIN apps2, j # i
                   PROVE  apps2[j].version # row.version
        BY <3>1
      <4>1. j \in DOMAIN apps /\ apps2[j] = apps[j]
        BY <1>9, <2>2
      <4>2. apps[j].version < row.version /\ apps[j].version \in Nat
        BY <1>10, <4>1 DEF Approval
      <4> QED
        BY <4>1, <4>2, <1>1
    <3> QED
      BY <3>1, <3>2, <1>3, <1>4
  <2> QED
    BY <1>9, <2>1, <2>2
<1>12. StatusOK(new, vers \cup {snap})
  BY <1>2, <1>3 DEF StatusOK, RecordedAs
<1>13. ApprovedOK(new, apps2)
  <2> HIDE DEF apps2
  <2>1. CASE decision = "APPROVED"
    <3>1. new.approved = row.version /\ new.approved # 0 /\ new.approved = new.version - 1
      BY <1>1, <1>2, <1>5, <2>1
    <3>2. apps2[Len(apps) + 1] = [decision |-> "APPROVED", version |-> new.approved]
          /\ Len(apps) + 1 \in DOMAIN apps2
      BY <1>9, <2>1, <3>1
    <3> QED
      BY <1>2, <2>1, <3>1, <3>2 DEF ApprovedOK, ApprovedStates
  <2>2. CASE decision = "CHANGES_REQUIRED"
    BY <1>2, <1>7, <2>2 DEF ApprovedOK, ApprovedStates
  <2> QED
    BY <2>1, <2>2
<1> QED
  BY <1>2, <1>1, <1>3, <1>5, <1>6, <1>9, <1>11, <1>12, <1>13 DEF HistoryOK

-----------------------------------------------------------------------------
(* The tables *)

Histories == \A s \in Slots : HistoryOK(sub[s], versions[s], approvals[s])

IInv == TypeOK /\ Histories

\* A recomputation writes a group row of the right type.
LEMMA RecomputedType ==
    ASSUME NEW table \in [Slots -> Row], NEW g \in Groups, NEW old,
           NEW new \in RecomputedGroups(table, g, old)
    PROVE  new \in [status: GroupStatus \cup SubmissionStatus,
                    stage: Stages \cup {NoStage}]
<1>1. PICK st \in CurrentStages(table, g) :
         \E x \in RecomputedStatuses(table, g, st, old) : new = [status |-> x, stage |-> st]
  BY DEF RecomputedGroups
<1>2. PICK x \in RecomputedStatuses(table, g, st, old) : new = [status |-> x, stage |-> st]
  BY <1>1
<1>3. st \in Stages \cup {NoStage}
  BY ConfigAssumption DEF CurrentStages, OpenStages
<1>4. LatestStatuses(table, g, st) \subseteq SubmissionStatus
  BY DEF LatestStatuses, RowsOf, SlotsOf, Row
<1>5. x \in GroupStatus \cup SubmissionStatus
  BY <1>4 DEF RecomputedStatuses, GroupStatus
<1> QED
  BY <1>2, <1>3, <1>5

\* A request that changes one slot keeps the other histories.
LEMMA OneSlotChanges ==
    ASSUME IInv, NEW s \in Slots, NEW row, NEW vers, NEW apps,
           HistoryOK(row, vers, apps),
           sub' = [sub EXCEPT ![s] = row],
           versions' = [versions EXCEPT ![s] = vers],
           approvals' = [approvals EXCEPT ![s] = apps]
    PROVE  /\ sub' \in [Slots -> Row]
           /\ versions' \in [Slots -> SUBSET Version]
           /\ approvals' \in [Slots -> Seq(Approval)]
           /\ Histories'
<1>1. row \in Row /\ vers \in SUBSET Version /\ apps \in Seq(Approval)
  BY DEF HistoryOK
<1>2. /\ sub' \in [Slots -> Row]
      /\ versions' \in [Slots -> SUBSET Version]
      /\ approvals' \in [Slots -> Seq(Approval)]
  BY <1>1 DEF IInv, TypeOK
<1>3. ASSUME NEW t \in Slots
      PROVE  HistoryOK(sub'[t], versions'[t], approvals'[t])
  <2>1. CASE t = s
    <3>1. sub'[t] = row /\ versions'[t] = vers /\ approvals'[t] = apps
      BY <2>1 DEF IInv, TypeOK
    <3> QED
      BY <3>1
  <2>2. CASE t # s
    <3>1. sub'[t] = sub[t] /\ versions'[t] = versions[t] /\ approvals'[t] = approvals[t]
      BY <2>2 DEF IInv, TypeOK
    <3> QED
      BY <3>1 DEF IInv, Histories
  <2> QED
    BY <2>1, <2>2
<1> QED
  BY <1>2, <1>3 DEF Histories

LEMMA RecomputeType ==
    ASSUME IInv, sub' \in [Slots -> Row], NEW g \in Groups, Recompute(g)
    PROVE  group' \in [Groups -> [status: GroupStatus \cup SubmissionStatus,
                                  stage: Stages \cup {NoStage}]]
<1>1. PICK new \in RecomputedGroups(sub', g, group[g].status) :
         group' = [group EXCEPT ![g] = new]
  BY DEF Recompute
<1>2. new \in [status: GroupStatus \cup SubmissionStatus, stage: Stages \cup {NoStage}]
  BY RecomputedType
<1> QED
  BY <1>1, <1>2 DEF IInv, TypeOK

\* A recorded update of one slot whose snapshot is taken by Snapshot.
LEMMA SnapshotIs ==
    ASSUME IInv, NEW s \in Slots, NEW row, sub' = [sub EXCEPT ![s] = row], NEW st,
           Snapshot(s, st)
    PROVE  versions' = [versions EXCEPT ![s] = versions[s] \cup
               {[number |-> row.version, status |-> st, data |-> row.data]}]
<1>1. sub'[s] = row
  BY DEF IInv, TypeOK
<1> QED
  BY <1>1 DEF Snapshot

\* The approval of a row in review names the row's version.
LEMMA ApprovalIs ==
    ASSUME IInv, NEW s \in Slots, sub[s].version >= 2, NEW decision,
           AddApproval(s, decision)
    PROVE  approvals' = [approvals EXCEPT ![s] =
               Append(approvals[s], [decision |-> decision, version |-> sub[s].version])]
<1>1. sub[s] \in Row /\ versions[s] \in SUBSET Version /\ Contiguous(sub[s], versions[s])
  BY DEF IInv, Histories, HistoryOK
<1>2. (IF Numbers(s) = {} THEN 0
       ELSE CHOOSE n \in Numbers(s) : \A m \in Numbers(s) : m <= n) = sub[s].version
  BY <1>1, NewestVersion DEF Numbers
<1> QED
  BY <1>2 DEF AddApproval

-----------------------------------------------------------------------------
(* One step per action *)

LEMMA EmptyIfNoIndex ==
    ASSUME NEW S, NEW q \in Seq(S), \A i \in DOMAIN q : FALSE
    PROVE  q = << >>
<1>1. Len(q) \in Nat /\ DOMAIN q = 1..Len(q)
  OBVIOUS
<1>2. Len(q) = 0
  <2> SUFFICES ASSUME Len(q) # 0 PROVE FALSE
    OBVIOUS
  <2>1. 1 \in 1..Len(q)
    BY <1>1
  <2> QED
    BY <1>1, <2>1
<1> QED
  BY <1>2, EmptySeq

\* The row a decision saves, field by field.
LEMMA ChangedRow ==
    ASSUME NEW r \in Row, NEW st
    PROVE  /\ [r EXCEPT !.status = st, !.version = @ + 1] =
                 [status |-> st, version |-> r.version + 1, data |-> r.data,
                  approved |-> r.approved]
           /\ \A a : [r EXCEPT !.status = st, !.version = @ + 1, !.approved = a] =
                 [status |-> st, version |-> r.version + 1, data |-> r.data,
                  approved |-> a]
<1> DEFINE r1 == [r EXCEPT !.status = st]
           r2 == [r1 EXCEPT !.version = r.version + 1]
<1>1. r1 = [status |-> st, version |-> r.version, data |-> r.data,
            approved |-> r.approved]
  BY DEF Row
<1> HIDE DEF r1
<1>2. r2 = [status |-> st, version |-> r.version + 1, data |-> r.data,
            approved |-> r.approved]
  BY <1>1
<1> HIDE DEF r2
<1>3. \A a : [r2 EXCEPT !.approved = a] =
         [status |-> st, version |-> r.version + 1, data |-> r.data, approved |-> a]
  BY <1>2
<1> QED
  BY <1>1, <1>2, <1>3 DEF r1, r2

LEMMA CreateKeeps ==
    ASSUME IInv, NEW s \in Slots, NEW u, NEW d \in Data, Create(u, s, d)
    PROVE  IInv'
<1> DEFINE row == IF sub[s].status = "NONE"
                  THEN [status |-> "DRAFT", version |-> 1, data |-> d, approved |-> 0]
                  ELSE [sub[s] EXCEPT !.data = d]
<1>1. /\ sub' = [sub EXCEPT ![s] = row]
      /\ versions' = [versions EXCEPT ![s] = versions[s]]
      /\ approvals' = [approvals EXCEPT ![s] = approvals[s]]
  BY DEF Create, IInv, TypeOK
<1>2. HistoryOK(sub[s], versions[s], approvals[s])
  BY DEF IInv, Histories
<1>3. HistoryOK(row, versions[s], approvals[s])
  <2>1. CASE sub[s].status = "NONE"
    <3>1. sub[s].version = 0 /\ sub[s].version \in Nat
      BY <1>2, <2>1 DEF HistoryOK, StatusOK
    <3>2. versions[s] = {}
      BY <1>2, <3>1 DEF HistoryOK, Contiguous, Version
    <3>3. approvals[s] = << >>
      <4>1. approvals[s] \in Seq(Approval)
        BY <1>2 DEF HistoryOK
      <4>2. \A i \in DOMAIN approvals[s] : FALSE
        BY <1>2, <3>2 DEF HistoryOK, DecisionsOK
      <4> QED
        BY <4>1, <4>2, EmptyIfNoIndex
    <3> QED
      BY <2>1, <3>2, <3>3, DraftHistory
  <2>2. CASE sub[s].status # "NONE"
    BY <1>2, <2>2, EditHistory
  <2> QED
    BY <2>1, <2>2
<1> HIDE DEF row
<1>4. /\ sub' \in [Slots -> Row] /\ versions' \in [Slots -> SUBSET Version]
      /\ approvals' \in [Slots -> Seq(Approval)] /\ Histories'
  BY <1>1, <1>3, OneSlotChanges
<1> QED
  BY <1>4 DEF Create, IInv, TypeOK

\* What save_draft and a PATCH of the data do to the tables.
EditRow(s, d) ==
    /\ sub' = [sub EXCEPT ![s].data = d]
    /\ UNCHANGED <<versions, approvals, changeRequests, group>>

LEMMA EditKeeps ==
    ASSUME IInv, NEW s \in Slots, NEW d \in Data, EditRow(s, d)
    PROVE  IInv'
<1> DEFINE row == [sub[s] EXCEPT !.data = d]
<1>1. /\ sub' = [sub EXCEPT ![s] = row]
      /\ versions' = [versions EXCEPT ![s] = versions[s]]
      /\ approvals' = [approvals EXCEPT ![s] = approvals[s]]
  BY DEF EditRow, IInv, TypeOK
<1>2. HistoryOK(row, versions[s], approvals[s])
  BY EditHistory DEF IInv, Histories
<1> HIDE DEF row
<1>3. /\ sub' \in [Slots -> Row] /\ versions' \in [Slots -> SUBSET Version]
      /\ approvals' \in [Slots -> Seq(Approval)] /\ Histories'
  BY <1>1, <1>2, OneSlotChanges
<1> QED
  BY <1>3 DEF EditRow, IInv, TypeOK

LEMMA SubmitKeeps ==
    ASSUME IInv, NEW s \in Slots, NEW u, Submit(u, s)
    PROVE  IInv'
<1> DEFINE st == IF sub[s].status = "DRAFT" THEN "SUBMITTED" ELSE "RESUBMITTED"
           row == [sub[s] EXCEPT !.status = st, !.version = @ + 1]
           snap == [number |-> row.version, status |-> st, data |-> row.data]
<1>1. sub' = [sub EXCEPT ![s] = row]
  BY DEF Submit, IInv, TypeOK
<1>2. versions' = [versions EXCEPT ![s] = versions[s] \cup {snap}]
  <2>1. Snapshot(s, st)
    BY DEF Submit
  <2> HIDE DEF row, st
  <2> QED
    BY <1>1, <2>1, SnapshotIs
<1>3. approvals' = [approvals EXCEPT ![s] = approvals[s]]
  BY DEF Submit, IInv, TypeOK
<1>4. HistoryOK(row, versions[s] \cup {snap}, approvals[s])
  <2>1. HistoryOK(sub[s], versions[s], approvals[s]) /\ sub[s].status \in AllowedEditStates
    BY DEF IInv, Histories, Submit, CanEdit
  <2>2. st \in {"SUBMITTED", "RESUBMITTED"}
    OBVIOUS
  <2> HIDE DEF st
  <2>3. sub[s] \in Row /\ sub[s].data \in Data
    BY DEF IInv, TypeOK, Row
  <2>4. row = [status |-> st, version |-> sub[s].version + 1, data |-> sub[s].data,
               approved |-> sub[s].approved]
    BY <2>3, ChangedRow
  <2>5. snap = [number |-> row.version, status |-> st, data |-> sub[s].data]
    BY <2>4
  <2> HIDE DEF row, snap
  <2> QED
    BY <2>1, <2>2, <2>3, <2>4, <2>5, SubmitHistory
<1> HIDE DEF row, snap, st
<1>5. /\ sub' \in [Slots -> Row] /\ versions' \in [Slots -> SUBSET Version]
      /\ approvals' \in [Slots -> Seq(Approval)] /\ Histories'
  BY <1>1, <1>2, <1>3, <1>4, OneSlotChanges
<1>6. group' \in [Groups -> [status: GroupStatus \cup SubmissionStatus,
                             stage: Stages \cup {NoStage}]]
  BY <1>5, RecomputeType, ConfigAssumption DEF Submit
<1> QED
  BY <1>5, <1>6 DEF Submit, IInv, TypeOK

LEMMA BeginReviewKeeps ==
    ASSUME IInv, NEW s \in Slots, NEW u, BeginReview(u, s)
    PROVE  IInv'
<1> DEFINE row == [sub[s] EXCEPT !.status = "UNDER_REVIEW"]
<1>1. /\ sub' = [sub EXCEPT ![s] = row]
      /\ versions' = [versions EXCEPT ![s] = versions[s]]
      /\ approvals' = [approvals EXCEPT ![s] = approvals[s]]
  BY DEF BeginReview, IInv, TypeOK
<1>2. HistoryOK(row, versions[s], approvals[s])
  BY ReviewHistory DEF IInv, Histories, BeginReview
<1> HIDE DEF row
<1>3. /\ sub' \in [Slots -> Row] /\ versions' \in [Slots -> SUBSET Version]
      /\ approvals' \in [Slots -> Seq(Approval)] /\ Histories'
  BY <1>1, <1>2, OneSlotChanges
<1>4. group' \in [Groups -> [status: GroupStatus \cup SubmissionStatus,
                             stage: Stages \cup {NoStage}]]
  BY <1>3, RecomputeType, ConfigAssumption DEF BeginReview
<1> QED
  BY <1>3, <1>4 DEF BeginReview, IInv, TypeOK

LEMMA LockKeeps ==
    ASSUME IInv, NEW s \in Slots, NEW u, Lock(u, s)
    PROVE  IInv'
<1> DEFINE row == [sub[s] EXCEPT !.status = "LOCKED"]
<1>1. /\ sub' = [sub EXCEPT ![s] = row]
      /\ versions' = [versions EXCEPT ![s] = versions[s]]
      /\ approvals' = [approvals EXCEPT ![s] = approvals[s]]
  BY DEF Lock, IInv, TypeOK
<1>2. HistoryOK(row, versions[s], approvals[s])
  BY LockHistory DEF IInv, Histories, Lock
<1> HIDE DEF row
<1>3. /\ sub' \in [Slots -> Row] /\ versions' \in [Slots -> SUBSET Version]
      /\ approvals' \in [Slots -> Seq(Approval)] /\ Histories'
  BY <1>1, <1>2, OneSlotChanges
<1>4. group' \in [Groups -> [status: GroupStatus \cup SubmissionStatus,
                             stage: Stages \cup {NoStage}]]
  BY <1>3, RecomputeType, ConfigAssumption DEF Lock
<1> QED
  BY <1>3, <1>4 DEF Lock, IInv, TypeOK

\* What both decisions do to the row: a new version, approved or not.
DecidedRow(s, decision) ==
    [status |-> decision, version |-> sub[s].version + 1, data |-> sub[s].data,
     approved |-> IF decision = "APPROVED" THEN sub[s].version ELSE sub[s].approved]

Decide(s, decision) ==
    /\ sub[s].status = "UNDER_REVIEW"
    /\ sub' = [sub EXCEPT ![s] = DecidedRow(s, decision)]
    /\ AddApproval(s, decision)
    /\ Snapshot(s, decision)
    /\ Recompute(GroupOf[s])

LEMMA DecideKeeps ==
    ASSUME IInv, NEW s \in Slots, NEW decision \in {"APPROVED", "CHANGES_REQUIRED"},
           Decide(s, decision), changeRequests' \in [Slots -> Nat]
    PROVE  IInv'
<1> DEFINE row == DecidedRow(s, decision)
           snap == [number |-> row.version, status |-> decision, data |-> row.data]
           apps == Append(approvals[s], [decision |-> decision, version |-> sub[s].version])
<1>1. sub' = [sub EXCEPT ![s] = row] /\ Snapshot(s, decision) /\ AddApproval(s, decision)
      /\ Recompute(GroupOf[s]) /\ sub[s].status = "UNDER_REVIEW"
  BY DEF Decide
<1>2. HistoryOK(sub[s], versions[s], approvals[s])
  BY DEF IInv, Histories
<1>3. sub[s].version >= 2 /\ HistoryOK(row, versions[s] \cup {snap}, apps)
  <2>1. sub[s].data \in Data /\ row.data = sub[s].data
    BY <1>2 DEF HistoryOK, Row, DecidedRow
  <2>2. row = [status |-> decision, version |-> sub[s].version + 1, data |-> sub[s].data,
               approved |-> IF decision = "APPROVED" THEN sub[s].version
                            ELSE sub[s].approved]
    BY DEF DecidedRow
  <2>3. snap = [number |-> row.version, status |-> decision, data |-> sub[s].data]
    BY <2>1
  <2> DEFINE r == sub[s]
             vs == versions[s]
             as == approvals[s]
  <2>4. /\ HistoryOK(r, vs, as) /\ r.status = "UNDER_REVIEW" /\ r.data \in Data
        /\ row = [status |-> decision, version |-> r.version + 1, data |-> r.data,
                  approved |-> IF decision = "APPROVED" THEN r.version ELSE r.approved]
        /\ snap = [number |-> row.version, status |-> decision, data |-> r.data]
    BY <1>1, <1>2, <2>1, <2>2, <2>3
  <2> HIDE DEF row, snap, r, vs, as
  <2>5. /\ r.version >= 2
        /\ HistoryOK(row, vs \cup {snap},
                     Append(as, [decision |-> decision, version |-> r.version]))
    BY <2>4, DecisionHistory
  <2> QED
    BY <2>5 DEF r, vs, as
<1> HIDE DEF row
<1>4. versions' = [versions EXCEPT ![s] = versions[s] \cup {snap}]
  BY <1>1, SnapshotIs
<1>5. approvals' = [approvals EXCEPT ![s] = apps]
  BY <1>1, <1>3, ApprovalIs
<1> HIDE DEF snap, apps
<1>6. /\ sub' \in [Slots -> Row] /\ versions' \in [Slots -> SUBSET Version]
      /\ approvals' \in [Slots -> Seq(Approval)] /\ Histories'
  BY <1>1, <1>3, <1>4, <1>5, OneSlotChanges
<1>7. group' \in [Groups -> [status: GroupStatus \cup SubmissionStatus,
                             stage: Stages \cup {NoStage}]]
  BY <1>1, <1>6, RecomputeType, ConfigAssumption
<1> QED
  BY <1>6, <1>7 DEF IInv, TypeOK

LEMMA RequestChangesDecides ==
    ASSUME IInv, NEW s \in Slots, NEW u, RequestChanges(u, s)
    PROVE  Decide(s, "CHANGES_REQUIRED") /\ changeRequests' \in [Slots -> Nat]
<1>1. sub[s] \in Row
  BY DEF IInv, TypeOK
<1>3. sub' = [sub EXCEPT ![s] = [sub[s] EXCEPT !.status = "CHANGES_REQUIRED",
                                             !.version = @ + 1]]
  BY DEF RequestChanges, IInv, TypeOK
<1>4. [sub[s] EXCEPT !.status = "CHANGES_REQUIRED", !.version = @ + 1]
         = DecidedRow(s, "CHANGES_REQUIRED")
  BY <1>1, ChangedRow DEF DecidedRow
<1>5. changeRequests' \in [Slots -> Nat]
  BY DEF RequestChanges, IInv, TypeOK
<1> QED
  BY <1>3, <1>4, <1>5 DEF RequestChanges, Decide

LEMMA ApproveDecides ==
    ASSUME IInv, NEW s \in Slots, NEW u, Approve(u, s)
    PROVE  Decide(s, "APPROVED") /\ changeRequests' \in [Slots -> Nat]
<1>1. sub[s] \in Row
  BY DEF IInv, TypeOK
<1>3. sub' = [sub EXCEPT ![s] = [sub[s] EXCEPT !.status = "APPROVED", !.version = @ + 1,
                                             !.approved = sub[s].version]]
  BY DEF Approve, IInv, TypeOK
<1>4. [sub[s] EXCEPT !.status = "APPROVED", !.version = @ + 1, !.approved = sub[s].version]
         = DecidedRow(s, "APPROVED")
  BY <1>1, ChangedRow DEF DecidedRow
<1>5. changeRequests' \in [Slots -> Nat]
  BY DEF Approve, IInv, TypeOK
<1> QED
  BY <1>3, <1>4, <1>5 DEF Approve, Decide

LEMMA MoveKeeps ==
    ASSUME IInv, NEW s \in Slots, NEW t \in Slots, Move(s, t)
    PROVE  IInv'
<1>1. /\ sub' = [sub EXCEPT ![t] = sub[s], ![s] = NoRow]
      /\ versions' = [versions EXCEPT ![t] = versions[s], ![s] = {}]
      /\ approvals' = [approvals EXCEPT ![t] = approvals[s], ![s] = << >>]
      /\ changeRequests' = [changeRequests EXCEPT ![t] = changeRequests[s], ![s] = 0]
      /\ group' = group
      /\ s # t
  BY DEF Move
<1>2. NoRow \in Row
  BY EmptyHistory DEF HistoryOK
<1>3. TypeOK'
  <2>1. sub' \in [Slots -> Row]
    BY <1>1, <1>2 DEF IInv, TypeOK
  <2>2. versions' \in [Slots -> SUBSET Version]
    BY <1>1 DEF IInv, TypeOK
  <2>3. << >> \in Seq(Approval)
    OBVIOUS
  <2>4. approvals' \in [Slots -> Seq(Approval)]
    BY <1>1, <2>3 DEF IInv, TypeOK
  <2>5. changeRequests' \in [Slots -> Nat]
    BY <1>1 DEF IInv, TypeOK
  <2> QED
    BY <1>1, <2>1, <2>2, <2>4, <2>5 DEF IInv, TypeOK
<1>4. ASSUME NEW r \in Slots
      PROVE  HistoryOK(sub'[r], versions'[r], approvals'[r])
  <2>1. CASE r = s
    <3>1. sub'[r] = NoRow /\ versions'[r] = {} /\ approvals'[r] = << >>
      BY <1>1, <2>1 DEF IInv, TypeOK
    <3> QED
      BY <3>1, EmptyHistory
  <2>2. CASE r = t
    <3>1. sub'[r] = sub[s] /\ versions'[r] = versions[s] /\ approvals'[r] = approvals[s]
      BY <1>1, <2>2 DEF IInv, TypeOK
    <3> QED
      BY <3>1 DEF IInv, Histories
  <2>3. CASE r # s /\ r # t
    <3>1. sub'[r] = sub[r] /\ versions'[r] = versions[r] /\ approvals'[r] = approvals[r]
      BY <1>1, <2>3 DEF IInv, TypeOK
    <3> QED
      BY <3>1 DEF IInv, Histories
  <2> QED
    BY <2>1, <2>2, <2>3
<1> QED
  BY <1>3, <1>4 DEF IInv, Histories

LEMMA DestroyKeeps ==
    ASSUME IInv, NEW s \in Slots, Destroy(s)
    PROVE  IInv'
<1>1. /\ sub' = [sub EXCEPT ![s] = NoRow]
      /\ versions' = [versions EXCEPT ![s] = {}]
      /\ approvals' = [approvals EXCEPT ![s] = << >>]
  BY DEF Destroy
<1>2. /\ sub' \in [Slots -> Row] /\ versions' \in [Slots -> SUBSET Version]
      /\ approvals' \in [Slots -> Seq(Approval)] /\ Histories'
  BY <1>1, EmptyHistory, OneSlotChanges
<1> QED
  BY <1>2 DEF Destroy, IInv, TypeOK

-----------------------------------------------------------------------------
(* The invariant, and what follows from it *)

LEMMA InitEstablishes == Init => IInv
<1> SUFFICES ASSUME Init PROVE IInv
  OBVIOUS
<1>1. NoRow \in Row
  BY EmptyHistory DEF HistoryOK
<1>2. << >> \in Seq(Approval)
  OBVIOUS
<1>3. \A g \in Groups : group[g] \in [status: GroupStatus \cup SubmissionStatus,
                                      stage: Stages \cup {NoStage}]
  BY DEF Init, GroupStatus
<1>4. TypeOK
  BY <1>1, <1>2, <1>3 DEF Init, TypeOK
<1>5. Histories
  BY EmptyHistory DEF Init, Histories
<1> QED
  BY <1>4, <1>5 DEF IInv

LEMMA StudentKeeps ==
    ASSUME IInv, NEW s \in Slots, StudentStep(s)
    PROVE  IInv'
<1>1. PICK u : \/ \E d \in Data : Create(u, s, d) \/ SaveDraft(u, s, d)
               \/ Submit(u, s)
  BY DEF StudentStep
<1>2. ASSUME NEW d \in Data, SaveDraft(u, s, d)
      PROVE  IInv'
  BY <1>2, EditKeeps DEF SaveDraft, EditRow
<1> QED
  BY <1>1, <1>2, CreateKeeps, SubmitKeeps

LEMMA DeciderKeeps ==
    ASSUME IInv, NEW s \in Slots, DeciderStep(s)
    PROVE  IInv'
<1>1. PICK u : BeginReview(u, s) \/ RequestChanges(u, s) \/ Approve(u, s) \/ Lock(u, s)
  BY DEF DeciderStep
<1>2. CASE RequestChanges(u, s)
  <2>1. Decide(s, "CHANGES_REQUIRED") /\ changeRequests' \in [Slots -> Nat]
    BY <1>2, RequestChangesDecides
  <2> QED
    BY <2>1, DecideKeeps
<1>3. CASE Approve(u, s)
  <2>1. Decide(s, "APPROVED") /\ changeRequests' \in [Slots -> Nat]
    BY <1>3, ApproveDecides
  <2> QED
    BY <2>1, DecideKeeps
<1> QED
  BY <1>1, <1>2, <1>3, BeginReviewKeeps, LockKeeps

LEMMA CancelKeeps ==
    ASSUME IInv, NEW g \in Groups, CancelGroup(g)
    PROVE  IInv'
<1>1. group' \in [Groups -> [status: GroupStatus \cup SubmissionStatus,
                             stage: Stages \cup {NoStage}]]
  BY DEF CancelGroup, IInv, TypeOK, GroupStatus
<1> QED
  BY <1>1 DEF CancelGroup, IInv, TypeOK, Histories

LEMMA GenericKeeps ==
    ASSUME IInv, NEW s \in Slots, GenericStep(s)
    PROVE  IInv'
<1>1. ASSUME NEW d \in Data, UpdateData(s, d)
      PROVE  IInv'
  BY <1>1, EditKeeps DEF UpdateData, EditRow
<1> QED
  BY <1>1, MoveKeeps, DestroyKeeps DEF GenericStep

\* Every request, generic or not, keeps the invariant.
LEMMA StepKeeps == IInv /\ [FullNext]_vars => IInv'
<1> SUFFICES ASSUME IInv, [FullNext]_vars PROVE IInv'
  OBVIOUS
<1>1. CASE UNCHANGED vars
  BY <1>1 DEF vars, IInv, TypeOK, Histories
<1>2. CASE FullNext
  BY <1>2, StudentKeeps, DeciderKeeps, CancelKeeps, GenericKeeps DEF FullNext, Next
<1> QED
  BY <1>1, <1>2

LEMMA ContiguousNumbers ==
    ASSUME NEW s, sub[s] \in Row, versions[s] \in SUBSET Version,
           Contiguous(sub[s], versions[s])
    PROVE  /\ Numbers(s) = 2..sub[s].version
           /\ \A v, w \in versions[s] : v.number = w.number => v = w
<1>1. sub[s].version \in Nat
  BY DEF Row
<1>2. Numbers(s) \subseteq Nat
  BY DEF Numbers, Version
<1>3. ASSUME NEW n \in Nat
      PROVE  n \in Numbers(s) <=> n \in 2..sub[s].version
  BY <1>1 DEF Numbers, Contiguous
<1>4. 2..sub[s].version \subseteq Nat
  BY <1>1
<1>5. Numbers(s) = 2..sub[s].version
  BY <1>2, <1>3, <1>4
<1> QED
  BY <1>5 DEF Contiguous

\* Whatever requests arrive, each table keeps its type and each row the history
\* its services wrote: the inductive invariant of the module.
THEOREM HistoryInvariant == FullSpec => []IInv
<1>1. Init => IInv
  BY InitEstablishes
<1>2. IInv /\ [FullNext]_vars => IInv'
  BY StepKeeps
<1> QED
  BY <1>1, <1>2, PTL DEF FullSpec

\* The tables hold only rows of their types (SubmissionService and the generic
\* endpoints of SubmissionViewSet).
THEOREM TypeCorrect == FullSpec => []TypeOK
<1>1. IInv => TypeOK
  BY DEF IInv
<1> QED
  BY <1>1, HistoryInvariant, PTL

\* The snapshots _snapshot keeps are numbered 2, 3, up to the row's
\* version_number, so the unique constraint on versions refuses none.
THEOREM ContiguousVersions == FullSpec => []VersionsContiguous
<1>1. IInv => VersionsContiguous
  <2> SUFFICES ASSUME IInv, NEW s \in Slots
               PROVE  /\ Numbers(s) = 2..sub[s].version
                      /\ \A v, w \in versions[s] : v.number = w.number => v = w
    BY DEF VersionsContiguous
  <2>1. /\ sub[s] \in Row /\ versions[s] \in SUBSET Version
        /\ Contiguous(sub[s], versions[s])
    BY DEF IInv, Histories, HistoryOK
  <2> QED
    BY <2>1, ContiguousNumbers
<1> QED
  BY <1>1, HistoryInvariant, PTL

\* The status of a row is the one its newest snapshot records, up to the two
\* transitions that take none, begin_review and lock.
THEOREM StatusFollowsHistory == FullSpec => []StatusMatchesHistory
<1>1. IInv => StatusMatchesHistory
  BY DEF IInv, Histories, HistoryOK, StatusOK, StatusMatchesHistory
<1> QED
  BY <1>1, HistoryInvariant, PTL

\* Every Approval row was filed on a version a student handed in.
THEOREM DecisionsOnSubmissions == FullSpec => []DecisionsAnswerSubmissions
<1>1. IInv => DecisionsAnswerSubmissions
  BY DEF IInv, Histories, HistoryOK, DecisionsOK, DecisionsAnswerSubmissions
<1> QED
  BY <1>1, HistoryInvariant, PTL

\* No version is decided twice, and the version after a decided one records
\* the decision.
THEOREM DecisionsInHistory == FullSpec => []DecisionsRecorded
<1>1. IInv => DecisionsRecorded
  BY DEF IInv, Histories, HistoryOK, DecisionsOK, DecisionsRecorded
<1> QED
  BY <1>1, HistoryInvariant, PTL

\* current_approved_version is set on approved and locked rows only, and names
\* the version the approval was given to.
THEOREM ApprovalNamesSubmission == FullSpec => []ApprovedVersionIsSubmission
<1>1. IInv => ApprovedVersionIsSubmission
  BY DEF IInv, Histories, HistoryOK, ApprovedOK, ApprovedVersionIsSubmission
<1> QED
  BY <1>1, HistoryInvariant, PTL
=============================================================================
