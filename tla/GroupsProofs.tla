----------------------------- MODULE GroupsProofs ---------------------------
(***************************************************************************)
(* Proofs about Groups: what the unique constraints give on either         *)
(* database, and what the checks of add_member add to that on SQLite.      *)
(***************************************************************************)
EXTENDS Groups, SequenceTheorems, TLAPS

MemberStatus == {"ACTIVE", "REMOVED"}

PostRow == [holder: Teachers, active: BOOLEAN]

\* What a request has in memory.
GroupMemory(m) ==
    \/ m.pc = "idle"
    \/ m.pc \in {"add", "remove"} /\ m.group \in GroupIds /\ m.student \in Students
    \/ m.pc = "assign" /\ m.group \in GroupIds /\ m.post \in Posts /\ m.holder \in Teachers
    \/ m.pc = "patch" /\ m.group \in GroupIds /\ m.to \in GroupIds
                      /\ m.guide \in Teachers \cup {Nobody}

GroupMemoriesOK == DOMAIN req = Workers /\ \A w \in Workers : GroupMemory(req[w])

GroupInv == GroupsTypeOK /\ GroupMemoriesOK /\ OneActiveHolder

-----------------------------------------------------------------------------
(* Sequences of rows *)

LEMMA SetInSeq ==
    ASSUME NEW T, NEW s \in Seq(T), NEW i, NEW x \in T
    PROVE  [s EXCEPT ![i] = x] \in Seq(T)
<1> DEFINE r == [s EXCEPT ![i] = x]
<1>1. Len(s) \in Nat /\ DOMAIN s = 1..Len(s) /\ \A k \in 1..Len(s) : s[k] \in T
    BY LenProperties, ElementOfSeq
<1>2. r = [k \in 1..Len(s) |-> r[k]] /\ \A k \in 1..Len(s) : r[k] \in T
    BY <1>1
<1> HIDE DEF r
<1>3. r \in Seq(T)
    BY <1>1, <1>2
<1> QED BY <1>3 DEF r

LEMMA AppendedRow ==
    ASSUME NEW T, NEW s \in Seq(T), NEW x \in T
    PROVE  /\ Append(s, x) \in Seq(T)
           /\ DOMAIN Append(s, x) = (DOMAIN s) \cup {Len(s) + 1}
           /\ Len(s) + 1 \notin DOMAIN s
           /\ Append(s, x)[Len(s) + 1] = x
           /\ \A i \in DOMAIN s : Append(s, x)[i] = s[i]
BY AppendProperties

LEMMA EndedRows ==
    ASSUME NEW s \in Seq(PostRow), NEW E
    PROVE  /\ Ended(s, E) \in Seq(PostRow)
           /\ DOMAIN Ended(s, E) = DOMAIN s
           /\ \A i \in DOMAIN s : Ended(s, E)[i].active <=> s[i].active /\ i \notin E
<1>1. \A i \in DOMAIN s : Ended(s, E)[i] \in PostRow
    <2>1. \A i \in DOMAIN s : s[i] \in PostRow
        BY ElementOfSeq, LenProperties
    <2> QED BY <2>1 DEF Ended, PostRow
<1>2. Len(s) \in Nat /\ DOMAIN s = 1..Len(s)
    BY LenProperties
<1>3. Ended(s, E) \in Seq(PostRow)
    BY <1>1, <1>2 DEF Ended
<1>4. \A i \in DOMAIN s : s[i] \in PostRow
    BY ElementOfSeq, LenProperties
<1> QED BY <1>3, <1>4 DEF Ended, PostRow

\* The rows of one post change to rows with at most one of them active, the
\* others of them stay.
LEMMA OnePostChanges ==
    ASSUME GroupInv, NEW g \in GroupIds, NEW p \in Posts, NEW rows \in Seq(PostRow),
           assignments' = [assignments EXCEPT ![g][p] = rows],
           \A i, j \in DOMAIN rows : rows[i].active /\ rows[j].active => i = j
    PROVE  /\ assignments' \in [GroupIds -> [Posts -> Seq(PostRow)]]
           /\ OneActiveHolder'
           /\ \A h \in GroupIds, q \in Posts :
                 assignments'[h][q] = IF h = g /\ q = p THEN rows ELSE assignments[h][q]
<1>1. \A h \in GroupIds, q \in Posts :
          assignments'[h][q] = IF h = g /\ q = p THEN rows ELSE assignments[h][q]
    BY DEF GroupInv, GroupsTypeOK
<1>2. assignments' \in [GroupIds -> [Posts -> Seq(PostRow)]]
    BY DEF GroupInv, GroupsTypeOK, PostRow
<1>3. OneActiveHolder'
    BY <1>1 DEF GroupInv, OneActiveHolder, ActiveRows
<1> QED BY <1>1, <1>2, <1>3

-----------------------------------------------------------------------------
(* The invariant *)

LEMMA GroupInvInit == GroupsInit => GroupInv
BY DEF GroupsInit, TransactionsInit, Idle, GroupInv, GroupsTypeOK, GroupMemoriesOK, GroupMemory,
       OneActiveHolder, ActiveRows

\* A request that takes something into memory, or ends.
LEMMA GroupMemoriesKept ==
    ASSUME GroupMemoriesOK, NEW w \in Workers, NEW m, GroupMemory(m),
           req' = [req EXCEPT ![w] = m]
    PROVE  GroupMemoriesOK'
BY DEF GroupMemoriesOK, GroupMemory

LEMMA GroupFinish ==
    ASSUME GroupMemoriesOK, NEW w \in Workers, Finish(w)
    PROVE  GroupMemoriesOK'
BY GroupMemoriesKept DEF Finish, Idle, GroupMemory

LEMMA GroupTablesKept ==
    ASSUME GroupInv, UNCHANGED groupVars
    PROVE  GroupsTypeOK' /\ OneActiveHolder'
<1>1. memberships' = memberships /\ assignments' = assignments /\ project' = project
    BY DEF groupVars
<1>2. GroupsTypeOK'
    BY <1>1 DEF GroupInv, GroupsTypeOK
<1>3. OneActiveHolder'
    BY <1>1 DEF GroupInv, OneActiveHolder, ActiveRows
<1> QED BY <1>2, <1>3

LEMMA GroupLoads ==
    ASSUME GroupInv, NEW w \in Workers,
           \/ \E g \in GroupIds, s \in Students : LoadAdd(w, g, s) \/ LoadRemove(w, g, s)
           \/ \E g \in GroupIds, p \in Posts, f \in Teachers : LoadAssign(w, g, p, f)
           \/ \E g, h \in GroupIds : LoadProject(w, g, h)
    PROVE  GroupInv'
<1>1. UNCHANGED groupVars
    BY DEF LoadAdd, LoadRemove, LoadAssign, LoadProject
<1>2. PICK m : GroupMemory(m) /\ req' = [req EXCEPT ![w] = m]
    <2>1. ASSUME NEW g \in GroupIds, NEW s \in Students, LoadAdd(w, g, s)
          PROVE  \E m : GroupMemory(m) /\ req' = [req EXCEPT ![w] = m]
        BY <2>1 DEF LoadAdd, Begin, GroupMemory
    <2>2. ASSUME NEW g \in GroupIds, NEW s \in Students, LoadRemove(w, g, s)
          PROVE  \E m : GroupMemory(m) /\ req' = [req EXCEPT ![w] = m]
        BY <2>2 DEF LoadRemove, Begin, GroupMemory
    <2>3. ASSUME NEW g \in GroupIds, NEW p \in Posts, NEW f \in Teachers, LoadAssign(w, g, p, f)
          PROVE  \E m : GroupMemory(m) /\ req' = [req EXCEPT ![w] = m]
        BY <2>3 DEF LoadAssign, Begin, GroupMemory
    <2>4. ASSUME NEW g \in GroupIds, NEW h \in GroupIds, LoadProject(w, g, h)
          PROVE  \E m : GroupMemory(m) /\ req' = [req EXCEPT ![w] = m]
        BY <2>4 DEF LoadProject, Begin, GroupMemory, GroupInv, GroupsTypeOK
    <2> QED BY <2>1, <2>2, <2>3, <2>4
<1> QED BY <1>1, <1>2, GroupTablesKept, GroupMemoriesKept DEF GroupInv

LEMMA GroupMembers ==
    ASSUME GroupInv, NEW w \in Workers, CommitAdd(w) \/ CommitRemove(w)
    PROVE  GroupInv'
<1>1. PICK g \in GroupIds, s \in Students : g = req[w].group /\ s = req[w].student
    BY DEF CommitAdd, CommitRemove, GroupInv, GroupMemoriesOK, GroupMemory
<1>2. memberships[g][s] \in Seq(MemberStatus)
    BY DEF GroupInv, GroupsTypeOK, MemberStatus
<1>3. PICK rows \in Seq(MemberStatus) : memberships' = [memberships EXCEPT ![g][s] = rows]
    <2>1. CASE CommitAdd(w)
        BY <1>1, <1>2, <2>1, AppendedRow DEF CommitAdd, MemberStatus
    <2>2. CASE CommitRemove(w)
        <3>1. [memberships[g][s] EXCEPT ![req[w].row] = "REMOVED"] \in Seq(MemberStatus)
            BY <1>2, SetInSeq DEF MemberStatus
        <3>2. memberships' = [memberships EXCEPT ![g][s] =
                                 [memberships[g][s] EXCEPT ![req[w].row] = "REMOVED"]]
            BY <1>1, <2>2 DEF CommitRemove, GroupInv, GroupsTypeOK
        <3> QED BY <3>1, <3>2
    <2> QED BY <2>1, <2>2
<1>4. UNCHANGED <<assignments, project>> /\ Finish(w)
    BY DEF CommitAdd, CommitRemove
<1>5. GroupsTypeOK'
    BY <1>3, <1>4 DEF GroupInv, GroupsTypeOK, MemberStatus
<1>6. OneActiveHolder'
    BY <1>4 DEF GroupInv, OneActiveHolder, ActiveRows
<1> QED BY <1>4, <1>5, <1>6, GroupFinish DEF GroupInv

\* A step that leaves the members and the requests alone and gives one post new
\* rows, at most one of them active.
LEMMA GroupPosts ==
    ASSUME GroupInv, NEW g \in GroupIds, NEW p \in Posts, NEW rows \in Seq(PostRow),
           assignments' = [assignments EXCEPT ![g][p] = rows],
           \A i, j \in DOMAIN rows : rows[i].active /\ rows[j].active => i = j,
           memberships' = memberships,
           project' \in [GroupIds -> Teachers \cup {Nobody, NoProject}]
    PROVE  GroupsTypeOK' /\ OneActiveHolder'
BY OnePostChanges DEF GroupInv, GroupsTypeOK, PostRow

LEMMA GroupAssign ==
    ASSUME GroupInv, NEW w \in Workers, CommitAssign(w)
    PROVE  GroupInv'
<1>0. PICK E : E = req[w].ended
    OBVIOUS
<1>1. PICK g \in GroupIds, p \in Posts, f \in Teachers :
        g = req[w].group /\ p = req[w].post /\ f = req[w].holder /\ E = req[w].ended
    BY <1>0 DEF CommitAssign, GroupInv, GroupMemoriesOK, GroupMemory
<1>2. PICK x : x = [holder |-> f, active |-> TRUE]
    OBVIOUS
<1>3. PICK old : old = assignments[g][p] /\ old \in Seq(PostRow)
    BY DEF GroupInv, GroupsTypeOK, PostRow
<1>4. PICK ended : ended = Ended(old, E)
    OBVIOUS
<1>5. PICK rows : rows = Append(ended, x)
    OBVIOUS
<1>6. x \in PostRow
    BY <1>2 DEF PostRow
<1>7. ended \in Seq(PostRow) /\ \A i \in DOMAIN ended : ~ended[i].active
    <2>1. \A i \in DOMAIN old : old[i].active => i \in E
        BY <1>1, <1>3 DEF CommitAssign, ActiveRows
    <2> QED BY <1>3, <1>4, <2>1, EndedRows
<1>8. rows \in Seq(PostRow) /\ \A i, j \in DOMAIN rows : rows[i].active /\ rows[j].active => i = j
    BY <1>5, <1>6, <1>7, AppendedRow
<1>9. assignments' = [assignments EXCEPT ![g][p] = rows]
    BY <1>1, <1>2, <1>3, <1>4, <1>5 DEF CommitAssign, GroupInv, GroupsTypeOK
<1>10. project' \in [GroupIds -> Teachers \cup {Nobody, NoProject}]
    BY <1>1 DEF CommitAssign, SyncGuide, GroupInv, GroupsTypeOK
<1>11. memberships' = memberships /\ Finish(w)
    BY DEF CommitAssign
<1> QED BY <1>8, <1>9, <1>10, <1>11, GroupPosts, GroupFinish DEF GroupInv

\* A row set in place, or appended, while no other row of the post is active.
LEMMA OneMoreRow ==
    ASSUME NEW s \in Seq(PostRow), NEW row \in PostRow,
           row.active => \A i \in DOMAIN s : ~s[i].active,
           \A i, j \in DOMAIN s : s[i].active /\ s[j].active => i = j
    PROVE  LET rows == Append(s, row)
           IN  /\ rows \in Seq(PostRow)
               /\ \A i, j \in DOMAIN rows : rows[i].active /\ rows[j].active => i = j
BY AppendedRow DEF PostRow

LEMMA GroupReviewers ==
    ASSUME GroupInv, ReviewersStep
    PROVE  GroupInv'
<1>1. PICK g \in GroupIds, st \in ReviewStages, row \in PostRow :
        \/ PostReviewer(g, st, row)
        \/ \E i \in DOMAIN assignments[g][st] :
               \/ SetReviewer(g, st, i, row)
               \/ \E h \in GroupIds, q \in ReviewStages : MoveReviewer(g, st, i, h, q, row)
    BY DEF ReviewersStep, PostRow
<1>2. UNCHANGED <<memberships, project, req>>
    BY <1>1 DEF PostReviewer, SetReviewer, MoveReviewer
<1>3. GroupMemoriesOK'
    BY <1>2 DEF GroupInv, GroupMemoriesOK, GroupMemory
<1>4. \A h \in GroupIds, q \in Posts : assignments[h][q] \in Seq(PostRow)
    BY DEF GroupInv, GroupsTypeOK, PostRow
<1>5. \A h \in GroupIds, q \in Posts : \A i, j \in DOMAIN assignments[h][q] :
          assignments[h][q][i].active /\ assignments[h][q][j].active => i = j
    BY DEF GroupInv, OneActiveHolder, ActiveRows
<1>6. ReviewStages \subseteq Posts
    BY DEF Posts
<1>7. project' \in [GroupIds -> Teachers \cup {Nobody, NoProject}]
    BY <1>2 DEF GroupInv, GroupsTypeOK
<1>8. PICK s : s = assignments[g][st]
    OBVIOUS
<1>9. s \in Seq(PostRow) /\ \A i, j \in DOMAIN s : s[i].active /\ s[j].active => i = j
    BY <1>4, <1>5, <1>6, <1>8
<1>10. CASE PostReviewer(g, st, row)
    <2>1. PICK rows : rows = Append(s, row)
        OBVIOUS
    <2>2. row.active => \A i \in DOMAIN s : ~s[i].active
        BY <1>8, <1>10 DEF PostReviewer, ActiveRows
    <2>3. /\ rows \in Seq(PostRow)
          /\ \A i, j \in DOMAIN rows : rows[i].active /\ rows[j].active => i = j
        BY <1>9, <2>1, <2>2, OneMoreRow
    <2>4. assignments' = [assignments EXCEPT ![g][st] = rows]
        BY <1>8, <1>10, <2>1 DEF PostReviewer, GroupInv, GroupsTypeOK
    <2> QED BY <1>2, <1>3, <1>6, <1>7, <2>3, <2>4, GroupPosts DEF GroupInv
<1>11. ASSUME NEW i \in DOMAIN s, SetReviewer(g, st, i, row) PROVE GroupInv'
    <2>1. PICK rows : rows = [s EXCEPT ![i] = row]
        OBVIOUS
    <2>2. rows \in Seq(PostRow)
        BY <1>9, <2>1, SetInSeq
    <2>3. row.active => \A j \in DOMAIN s : s[j].active => j = i
        BY <1>8, <1>11 DEF SetReviewer, ActiveRows
    <2>4. \A j, k \in DOMAIN rows : rows[j].active /\ rows[k].active => j = k
        BY <1>9, <2>1, <2>3
    <2>5. assignments' = [assignments EXCEPT ![g][st] = rows]
        BY <1>8, <1>11, <2>1 DEF SetReviewer, GroupInv, GroupsTypeOK
    <2> QED BY <1>2, <1>3, <1>6, <1>7, <2>2, <2>4, <2>5, GroupPosts DEF GroupInv
<1>12. ASSUME NEW i \in DOMAIN s, NEW h \in GroupIds, NEW q \in ReviewStages,
              MoveReviewer(g, st, i, h, q, row)
       PROVE  GroupInv'
    <2>1. PICK left : left = [s EXCEPT ![i].active = FALSE]
        OBVIOUS
    <2>2. left \in Seq(PostRow)
        <3>1. s[i] \in PostRow
            BY <1>9, ElementOfSeq, LenProperties
        <3>2. [s[i] EXCEPT !.active = FALSE] \in PostRow
            BY <3>1 DEF PostRow
        <3>3. left = [s EXCEPT ![i] = [s[i] EXCEPT !.active = FALSE]]
            BY <2>1
        <3> QED BY <1>9, <3>2, <3>3, SetInSeq
    <2>3. \A j, k \in DOMAIN left : left[j].active /\ left[k].active => j = k
        <3>1. \A j \in DOMAIN s : j # i => left[j] = s[j]
            BY <2>1
        <3>2. DOMAIN left = DOMAIN s /\ ~left[i].active
            <4>1. s[i] \in PostRow
                BY <1>9, ElementOfSeq, LenProperties
            <4> QED BY <2>1, <4>1 DEF PostRow
        <3> QED BY <1>9, <3>1, <3>2
    <2>4. PICK there : there = assignments[h][q]
        OBVIOUS
    <2>5. PICK rows : rows = Append(there, row)
        OBVIOUS
    <2>6. /\ rows \in Seq(PostRow)
          /\ \A j, k \in DOMAIN rows : rows[j].active /\ rows[k].active => j = k
        <3>1. row.active => \A j \in DOMAIN there : ~there[j].active
            BY <1>12, <2>4 DEF MoveReviewer, ActiveRows
        <3> QED BY <1>4, <1>5, <1>6, <2>4, <2>5, <3>1, OneMoreRow
    <2>7. PICK a \in [GroupIds -> [Posts -> Seq(PostRow)]] :
            a = [assignments EXCEPT ![g][st] = left]
        BY <1>6, <2>2 DEF GroupInv, GroupsTypeOK, PostRow
    <2>8. a = [assignments EXCEPT ![g][st][i].active = FALSE]
        BY <1>8, <2>1, <2>7 DEF GroupInv, GroupsTypeOK
    <2>9. a[h][q] = there
        BY <1>6, <1>12, <2>4, <2>7 DEF MoveReviewer, GroupInv, GroupsTypeOK
    <2>10. assignments' = [a EXCEPT ![h][q] = rows]
        BY <1>12, <2>5, <2>8, <2>9 DEF MoveReviewer
    <2>11. assignments' \in [GroupIds -> [Posts -> Seq(PostRow)]]
        BY <1>6, <2>6, <2>7, <2>10
    <2>12. \A x \in GroupIds, y \in Posts :
              assignments'[x][y] = IF x = h /\ y = q THEN rows
                                   ELSE IF x = g /\ y = st THEN left ELSE assignments[x][y]
        BY <1>6, <2>7, <2>10 DEF GroupInv, GroupsTypeOK
    <2>13. OneActiveHolder'
        <3>1. ASSUME NEW x \in GroupIds, NEW y \in Posts,
                     NEW j \in DOMAIN assignments'[x][y], NEW k \in DOMAIN assignments'[x][y],
                     assignments'[x][y][j].active, assignments'[x][y][k].active
              PROVE  j = k
            <4>1. CASE x = h /\ y = q
                BY <2>6, <2>12, <3>1, <4>1
            <4>2. CASE ~(x = h /\ y = q) /\ x = g /\ y = st
                BY <2>3, <2>12, <3>1, <4>2
            <4>3. CASE ~(x = h /\ y = q) /\ ~(x = g /\ y = st)
                BY <1>5, <2>12, <3>1, <4>3
            <4> QED BY <4>1, <4>2, <4>3
        <3> QED BY <3>1 DEF OneActiveHolder, ActiveRows
    <2>14. GroupsTypeOK'
        BY <1>2, <1>7, <2>11 DEF GroupInv, GroupsTypeOK, PostRow
    <2> QED BY <1>3, <2>13, <2>14 DEF GroupInv
<1> QED BY <1>1, <1>8, <1>10, <1>11, <1>12

LEMMA GroupProjects ==
    ASSUME GroupInv,
           \/ \E g \in GroupIds : CreateProject(g) \/ DestroyProject(g)
           \/ \E w \in Workers : CommitProject(w)
    PROVE  GroupInv'
<1>1. UNCHANGED <<memberships, assignments>>
    BY DEF CreateProject, DestroyProject, CommitProject
<1>2. project' \in [GroupIds -> Teachers \cup {Nobody, NoProject}]
    <2>1. ASSUME NEW g \in GroupIds, CreateProject(g) \/ DestroyProject(g)
          PROVE  project' \in [GroupIds -> Teachers \cup {Nobody, NoProject}]
        BY <2>1 DEF CreateProject, DestroyProject, GroupInv, GroupsTypeOK
    <2>2. ASSUME NEW w \in Workers, CommitProject(w)
          PROVE  project' \in [GroupIds -> Teachers \cup {Nobody, NoProject}]
        BY <2>2 DEF CommitProject, GroupInv, GroupsTypeOK, GroupMemoriesOK, GroupMemory
    <2> QED BY <2>1, <2>2
<1>3. GroupMemoriesOK'
    BY GroupFinish DEF CreateProject, DestroyProject, CommitProject, GroupInv, GroupMemoriesOK,
                       GroupMemory
<1>4. GroupsTypeOK'
    BY <1>1, <1>2 DEF GroupInv, GroupsTypeOK
<1>5. OneActiveHolder'
    BY <1>1 DEF GroupInv, OneActiveHolder, ActiveRows
<1> QED BY <1>3, <1>4, <1>5 DEF GroupInv

LEMMA GroupRollBack ==
    ASSUME GroupInv, NEW w \in Workers, RollBack(w), UNCHANGED groupVars
    PROVE  GroupInv'
BY GroupTablesKept, GroupFinish DEF RollBack, GroupInv

\* The steps one by one: a worker's loads and commits, and the single statements.
GroupStep(w) ==
    \/ \E g \in GroupIds, s \in Students : LoadAdd(w, g, s) \/ LoadRemove(w, g, s)
    \/ \E g \in GroupIds, p \in Posts, f \in Teachers : LoadAssign(w, g, p, f)
    \/ \E g, h \in GroupIds : LoadProject(w, g, h)
    \/ CommitAdd(w)
    \/ CommitRemove(w)
    \/ CommitAssign(w)
    \/ CommitProject(w)
    \/ RollBack(w) /\ UNCHANGED groupVars

LEMMA GroupSteps ==
    ASSUME GroupsNext
    PROVE  \/ \E w \in Workers : GroupStep(w)
           \/ \E g \in GroupIds : CreateProject(g) \/ DestroyProject(g)
           \/ ReviewersStep
BY DEF GroupsNext, MembersNext, GuidesNext, ReviewersNext, MembersStep, AssignStep, ProjectStep,
       GroupStep

LEMMA GroupInvStep == GroupInv /\ [GroupsNext /\ UNCHANGED engine]_groupRequestVars => GroupInv'
<1> SUFFICES ASSUME GroupInv, [GroupsNext /\ UNCHANGED engine]_groupRequestVars PROVE GroupInv'
    OBVIOUS
<1>1. ASSUME NEW w \in Workers, GroupStep(w) PROVE GroupInv'
    BY <1>1, GroupLoads, GroupMembers, GroupAssign, GroupProjects, GroupRollBack DEF GroupStep
<1>2. CASE UNCHANGED groupRequestVars
    <2>1. UNCHANGED groupVars /\ req' = req
        BY <1>2 DEF groupRequestVars
    <2>2. GroupMemoriesOK'
        BY <2>1 DEF GroupInv, GroupMemoriesOK, GroupMemory
    <2> QED BY <2>1, <2>2, GroupTablesKept DEF GroupInv
<1> QED BY <1>1, <1>2, GroupSteps, GroupProjects, GroupReviewers

\* Rows keep their types, whoever writes them.
THEOREM GroupsTyped == GroupsSpec => []GroupsTypeOK
<1>1. GroupInv => GroupsTypeOK
    BY DEF GroupInv
<1> QED BY <1>1, GroupInvInit, GroupInvStep, PTL DEF GroupsSpec

\* A post has one active holder on either database, for any number of requests,
\* those past the service included: the unique constraints see to it.
THEOREM SingleHolder == GroupsSpec => []OneActiveHolder
<1>1. GroupInv => OneActiveHolder
    BY DEF GroupInv
<1> QED BY <1>1, GroupInvInit, GroupInvStep, PTL DEF GroupsSpec

-----------------------------------------------------------------------------
(* The guide of a group *)

GuideIsRow ==
    \A g \in GroupIds : ActiveGuide(g) # Nobody <=> ActiveRows(g, GuidePost) # {}

LEMMA GuideIsARow == GroupInv => GuideIsRow
<1> SUFFICES ASSUME GroupInv, NEW g \in GroupIds
             PROVE  ActiveGuide(g) # Nobody <=> ActiveRows(g, GuidePost) # {}
    BY DEF GuideIsRow
<1>1. ASSUME NEW i \in ActiveRows(g, GuidePost)
      PROVE  assignments[g][GuidePost][i].holder \in Teachers
    <2>1. PICK s : s = assignments[g][GuidePost] /\ s \in Seq(PostRow)
        BY DEF GroupInv, GroupsTypeOK, PostRow, Posts
    <2>2. s[i] \in PostRow
        BY <1>1, <2>1, ElementOfSeq, LenProperties DEF ActiveRows
    <2> QED BY <2>1, <2>2 DEF PostRow
<1>2. ActiveRows(g, GuidePost) # {} =>
          (CHOOSE i \in ActiveRows(g, GuidePost) : TRUE) \in ActiveRows(g, GuidePost)
    OBVIOUS
<1> QED BY <1>1, <1>2, GroupsAssumption DEF ActiveGuide

LEMMA GuideStep ==
    ASSUME GroupInv, GroupInv', [GroupsNext /\ UNCHANGED engine]_groupRequestVars,
           NEW g \in GroupIds, ActiveRows(g, GuidePost) # {}
    PROVE  ActiveRows(g, GuidePost)' # {}
<1>1. CASE assignments'[g][GuidePost] = assignments[g][GuidePost]
    BY <1>1 DEF ActiveRows
<1>2. ASSUME NEW w \in Workers, CommitAssign(w) PROVE ActiveRows(g, GuidePost)' # {}
    <2>1. PICK h \in GroupIds, p \in Posts : h = req[w].group /\ p = req[w].post
        BY <1>2 DEF CommitAssign, GroupInv, GroupMemoriesOK, GroupMemory
    <2>2. PICK x, E : x = [holder |-> req[w].holder, active |-> TRUE] /\ E = req[w].ended
        OBVIOUS
    <2>3. PICK old : old = assignments[h][p] /\ old \in Seq(PostRow)
        BY DEF GroupInv, GroupsTypeOK, PostRow
    <2>4. PICK rows : rows = Append(Ended(old, E), x)
        OBVIOUS
    <2>5. assignments' = [assignments EXCEPT ![h][p] = rows]
        BY <1>2, <2>1, <2>2, <2>3, <2>4 DEF CommitAssign, GroupInv, GroupsTypeOK
    <2>6. CASE h = g /\ p = GuidePost
        <3>1. x \in PostRow /\ x.active
            BY <1>2, <2>2 DEF CommitAssign, GroupInv, GroupMemoriesOK, GroupMemory, PostRow
        <3>2. PICK n \in DOMAIN rows : rows[n] = x
            BY <2>3, <2>4, <3>1, AppendedRow, EndedRows
        <3>3. assignments'[g][GuidePost] = rows
            BY <2>1, <2>5, <2>6 DEF GroupInv, GroupsTypeOK
        <3> QED BY <3>1, <3>2, <3>3 DEF ActiveRows
    <2>7. CASE ~(h = g /\ p = GuidePost)
        BY <1>1, <2>1, <2>5, <2>7 DEF GroupInv, GroupsTypeOK, Posts
    <2> QED BY <2>6, <2>7
<1>3. CASE ReviewersStep
    <2>1. PICK h \in GroupIds, st \in ReviewStages, row \in PostRow :
            \/ PostReviewer(h, st, row)
            \/ \E i : \/ SetReviewer(h, st, i, row)
                     \/ \E k \in GroupIds, q \in ReviewStages : MoveReviewer(h, st, i, k, q, row)
        BY <1>3 DEF ReviewersStep, PostRow
    <2>2. st # GuidePost /\ \A q \in ReviewStages : q # GuidePost /\ q \in Posts
        BY GroupsAssumption DEF Posts
    <2>3. GuidePost \in Posts
        BY DEF Posts
    <2>4. assignments \in [GroupIds -> [Posts -> Seq(PostRow)]]
        BY DEF GroupInv, GroupsTypeOK, PostRow
    <2>5. CASE PostReviewer(h, st, row)
        BY <1>1, <2>2, <2>3, <2>4, <2>5 DEF PostReviewer
    <2>6. ASSUME NEW i, SetReviewer(h, st, i, row) PROVE ActiveRows(g, GuidePost)' # {}
        BY <1>1, <2>2, <2>3, <2>4, <2>6 DEF SetReviewer
    <2>7. ASSUME NEW i, NEW k \in GroupIds, NEW q \in ReviewStages,
                 MoveReviewer(h, st, i, k, q, row)
          PROVE  ActiveRows(g, GuidePost)' # {}
        BY <1>1, <2>2, <2>3, <2>4, <2>7 DEF MoveReviewer
    <2> QED BY <2>1, <2>5, <2>6, <2>7
<1>4. ASSUME UNCHANGED assignments PROVE ActiveRows(g, GuidePost)' # {}
    BY <1>1, <1>4
<1>5. ASSUME NEW w \in Workers, GroupStep(w) PROVE ActiveRows(g, GuidePost)' # {}
    BY <1>2, <1>4, <1>5 DEF GroupStep, LoadAdd, LoadRemove, LoadAssign, LoadProject, CommitAdd,
                            CommitRemove, CommitProject, groupVars
<1>6. CASE GroupsNext
    BY <1>3, <1>4, <1>5, <1>6, GroupSteps DEF CreateProject, DestroyProject
<1> QED BY <1>4, <1>6 DEF groupRequestVars, groupVars

\* A group that was given a guide keeps one, whatever reassignments race.
THEOREM GuideKept == GroupsSpec => GuideStays
<1>1. GroupInv' => GuideIsRow'
    BY GuideIsARow, PTL
<1>2. GroupInv /\ GroupInv' /\ [GroupsNext /\ UNCHANGED engine]_groupRequestVars
        => [\A g \in GroupIds : ActiveGuide(g) # Nobody => ActiveGuide(g)' # Nobody]_groupVars
    <2> SUFFICES ASSUME GroupInv, GroupInv', [GroupsNext /\ UNCHANGED engine]_groupRequestVars,
                        NEW g \in GroupIds, ActiveGuide(g) # Nobody
                 PROVE  ActiveGuide(g)' # Nobody
        OBVIOUS
    <2>1. ActiveRows(g, GuidePost)' # {}
        BY GuideIsARow, GuideStep DEF GuideIsRow
    <2> QED BY <1>1, <2>1 DEF GuideIsRow
<1> QED BY <1>2, GroupInvInit, GroupInvStep, PTL DEF GroupsSpec, GuideStays

-----------------------------------------------------------------------------
(* The members of a group: on SQLite nothing commits between the checks of  *)
(* add_member and its INSERT.                                               *)

OneGroup ==
    \A s \in Students : \A g \in GroupIds :
        /\ Len(memberships[g][s]) <= 1
        /\ \A h \in GroupIds : IsMember(s, g) /\ IsMember(s, h) => g = h

FreshAdds ==
    \A w \in Workers : req[w].pc = "add" =>
        /\ memberships[req[w].group][req[w].student] = << >>
        /\ \A h \in GroupIds : ~IsMember(req[w].student, h)

MemberInv == GroupInv /\ (engine = "sqlite" => OneGroup /\ FreshAdds)

LEMMA MemberInvInit == GroupsInit => MemberInv
BY GroupInvInit DEF GroupsInit, TransactionsInit, Idle, MemberInv, OneGroup, FreshAdds, IsMember

LEMMA MemberAdd ==
    ASSUME GroupInv, OneGroup, FreshAdds, engine = "sqlite", NEW w \in Workers, CommitAdd(w)
    PROVE  OneGroup' /\ FreshAdds'
<1>1. PICK g \in GroupIds, s \in Students : g = req[w].group /\ s = req[w].student
    BY DEF CommitAdd, GroupInv, GroupMemoriesOK, GroupMemory
<1>2. memberships[g][s] = << >> /\ \A h \in GroupIds : ~IsMember(s, h)
    BY <1>1 DEF CommitAdd, FreshAdds
<1>3. \A h \in GroupIds, x \in Students :
          memberships'[h][x] = IF h = g /\ x = s THEN <<"ACTIVE">> ELSE memberships[h][x]
    BY <1>1, <1>2 DEF CommitAdd, GroupInv, GroupsTypeOK
<1>4. \A h \in GroupIds, x \in Students :
          IsMember(x, h)' <=> (h = g /\ x = s) \/ IsMember(x, h)
    BY <1>2, <1>3 DEF IsMember
<1>5. OneGroup'
    <2>1. Len(<<"ACTIVE">>) <= 1
        OBVIOUS
    <2>2. \A x \in Students, h \in GroupIds : Len(memberships'[h][x]) <= 1
        BY <1>3, <2>1 DEF OneGroup
    <2>3. \A x \in Students, h, k \in GroupIds : IsMember(x, h)' /\ IsMember(x, k)' => h = k
        BY <1>2, <1>4 DEF OneGroup
    <2> QED BY <2>2, <2>3 DEF OneGroup
<1>6. FreshAdds'
    BY DEF CommitAdd, MayCommit, Finish, Idle, Busy, GroupInv, GroupMemoriesOK, FreshAdds
<1> QED BY <1>5, <1>6

LEMMA MemberRemove ==
    ASSUME GroupInv, OneGroup, FreshAdds, engine = "sqlite", NEW w \in Workers, CommitRemove(w)
    PROVE  OneGroup' /\ FreshAdds'
<1>0. PICK i : i = req[w].row
    OBVIOUS
<1>1. PICK g \in GroupIds, s \in Students :
        g = req[w].group /\ s = req[w].student /\ i = req[w].row
    BY <1>0 DEF CommitRemove, GroupInv, GroupMemoriesOK, GroupMemory
<1>2. \A h \in GroupIds, x \in Students : memberships[h][x] \in Seq(MemberStatus)
    BY DEF GroupInv, GroupsTypeOK, MemberStatus
<1>3. PICK rows : rows = [memberships[g][s] EXCEPT ![i] = "REMOVED"]
    OBVIOUS
<1>4. \A h \in GroupIds, x \in Students :
          memberships'[h][x] = IF h = g /\ x = s THEN rows ELSE memberships[h][x]
    BY <1>1, <1>3 DEF CommitRemove, GroupInv, GroupsTypeOK
<1>5. DOMAIN rows = DOMAIN memberships[g][s]
      /\ \A k \in DOMAIN rows : rows[k] = "ACTIVE" => memberships[g][s][k] = "ACTIVE"
    BY <1>3
<1>6. Len(rows) = Len(memberships[g][s])
    BY <1>2, <1>3, <1>5, SetInSeq, LenProperties DEF MemberStatus
<1>7. \A h \in GroupIds, x \in Students : IsMember(x, h)' => IsMember(x, h)
    BY <1>4, <1>5 DEF IsMember
<1>8. OneGroup'
    BY <1>4, <1>6, <1>7 DEF OneGroup
<1>9. FreshAdds'
    BY DEF CommitRemove, MayCommit, Finish, Idle, Busy, GroupInv, GroupMemoriesOK, FreshAdds
<1> QED BY <1>8, <1>9

LEMMA MemberInvStep ==
    MemberInv /\ [GroupsNext /\ UNCHANGED engine]_groupRequestVars => MemberInv'
<1> SUFFICES ASSUME MemberInv, [GroupsNext /\ UNCHANGED engine]_groupRequestVars
             PROVE  MemberInv'
    OBVIOUS
<1>1. GroupInv /\ GroupInv' /\ engine' = engine
    BY GroupInvStep DEF MemberInv, groupRequestVars
<1> SUFFICES ASSUME engine = "sqlite" PROVE OneGroup' /\ FreshAdds'
    BY <1>1 DEF MemberInv
<1>2. OneGroup /\ FreshAdds
    BY DEF MemberInv
<1>3. ASSUME memberships' = memberships,
             \A w \in Workers : req'[w].pc = "add" => req'[w] = req[w]
      PROVE  OneGroup' /\ FreshAdds'
    BY <1>2, <1>3 DEF OneGroup, FreshAdds, IsMember
<1>4. ASSUME NEW w \in Workers, NEW m, m.pc # "add", req' = [req EXCEPT ![w] = m],
             memberships' = memberships
      PROVE  OneGroup' /\ FreshAdds'
    BY <1>1, <1>3, <1>4 DEF GroupInv, GroupMemoriesOK
<1>5. ASSUME NEW w \in Workers, NEW g \in GroupIds, NEW s \in Students, LoadAdd(w, g, s)
      PROVE  OneGroup' /\ FreshAdds'
    BY <1>1, <1>2, <1>5 DEF LoadAdd, Begin, groupVars, GroupInv, GroupMemoriesOK, OneGroup,
                            FreshAdds, IsMember
<1>6. ASSUME NEW w \in Workers, GroupStep(w) PROVE OneGroup' /\ FreshAdds'
    <2>1. ASSUME NEW g \in GroupIds, NEW s \in Students, LoadRemove(w, g, s)
          PROVE  OneGroup' /\ FreshAdds'
        BY <1>4, <2>1 DEF LoadRemove, Begin, groupVars
    <2>2. ASSUME NEW g \in GroupIds, NEW p \in Posts, NEW f \in Teachers, LoadAssign(w, g, p, f)
          PROVE  OneGroup' /\ FreshAdds'
        BY <1>4, <2>2 DEF LoadAssign, Begin, groupVars
    <2>3. ASSUME NEW g \in GroupIds, NEW h \in GroupIds, LoadProject(w, g, h)
          PROVE  OneGroup' /\ FreshAdds'
        BY <1>4, <2>3 DEF LoadProject, Begin, groupVars
    <2>4. CASE CommitAssign(w) \/ CommitProject(w) \/ (RollBack(w) /\ UNCHANGED groupVars)
        BY <1>4, <2>4 DEF CommitAssign, CommitProject, RollBack, Finish, Idle, groupVars
    <2> QED BY <1>1, <1>2, <1>5, <1>6, <2>1, <2>2, <2>3, <2>4, MemberAdd, MemberRemove
            DEF GroupStep
<1>7. CASE GroupsNext
    <2>1. ASSUME NEW g \in GroupIds, CreateProject(g) \/ DestroyProject(g)
          PROVE  OneGroup' /\ FreshAdds'
        BY <1>3, <2>1 DEF CreateProject, DestroyProject
    <2>2. CASE ReviewersStep
        <3>1. UNCHANGED <<memberships, req>>
            <4>1. \A g, st, i, h, q, row :
                      PostReviewer(g, st, row) \/ SetReviewer(g, st, i, row)
                          \/ MoveReviewer(g, st, i, h, q, row)
                      => UNCHANGED <<memberships, req>>
                BY DEF PostReviewer, SetReviewer, MoveReviewer
            <4> QED BY <2>2, <4>1 DEF ReviewersStep
        <3> QED BY <1>3, <3>1
    <2> QED BY <1>6, <1>7, <2>1, <2>2, GroupSteps
<1>8. CASE UNCHANGED groupRequestVars
    BY <1>3, <1>8 DEF groupRequestVars, groupVars
<1> QED BY <1>7, <1>8

\* On SQLite a student is in one group at a time, and in each at most once, for
\* any number of groups, students and requests at once.
THEOREM OneGroupEach == GroupsSpec => []OneGroupPerStudent
<1>1. MemberInv => OneGroupPerStudent
    BY DEF MemberInv, OneGroup, OneGroupPerStudent
<1> QED BY <1>1, MemberInvInit, MemberInvStep, PTL DEF GroupsSpec
-----------------------------------------------------------------------------
(* The guide of the project *)

\* On SQLite a patch saves the guide its project still has.
FreshPatches ==
    \A w \in Workers : req[w].pc = "patch" => project[req[w].group] = req[w].guide

SyncInv == GroupInv /\ (engine = "sqlite" => FreshPatches)

LEMMA SyncInvInit == GroupsInit => SyncInv
BY GroupInvInit DEF GroupsInit, TransactionsInit, Idle, SyncInv, FreshPatches

\* While a request is under way, no other step writes the projects.
LEMMA SyncInvStep == SyncInv /\ [GroupsNext /\ UNCHANGED engine]_groupRequestVars => SyncInv'
<1> SUFFICES ASSUME SyncInv, [GroupsNext /\ UNCHANGED engine]_groupRequestVars
             PROVE  SyncInv'
    OBVIOUS
<1>1. GroupInv /\ GroupInv' /\ engine' = engine
    BY GroupInvStep DEF SyncInv, groupRequestVars
<1> SUFFICES ASSUME engine = "sqlite" PROVE FreshPatches'
    BY <1>1 DEF SyncInv
<1>2. FreshPatches
    BY DEF SyncInv
<1>3. ASSUME project' = project, \A w \in Workers : req'[w].pc = "patch" => req'[w] = req[w]
      PROVE  FreshPatches'
    BY <1>2, <1>3 DEF FreshPatches
<1>4. ASSUME NEW w \in Workers, NEW m, m.pc # "patch", req' = [req EXCEPT ![w] = m],
             project' = project
      PROVE  FreshPatches'
    BY <1>1, <1>3, <1>4 DEF GroupInv, GroupMemoriesOK
<1>5. ASSUME NEW w \in Workers, MayCommit(w), Finish(w) PROVE FreshPatches'
    BY <1>1, <1>5 DEF MayCommit, Finish, Idle, Busy, GroupInv, GroupMemoriesOK, FreshPatches
<1>6. ASSUME Alone, req' = req PROVE FreshPatches'
    BY <1>1, <1>6 DEF Alone, Busy, FreshPatches
<1>7. ASSUME NEW w \in Workers, GroupStep(w) PROVE FreshPatches'
    <2>1. ASSUME NEW g \in GroupIds, NEW s \in Students, LoadAdd(w, g, s) \/ LoadRemove(w, g, s)
          PROVE  FreshPatches'
        BY <1>4, <2>1 DEF LoadAdd, LoadRemove, Begin, groupVars
    <2>2. ASSUME NEW g \in GroupIds, NEW p \in Posts, NEW f \in Teachers, LoadAssign(w, g, p, f)
          PROVE  FreshPatches'
        BY <1>4, <2>2 DEF LoadAssign, Begin, groupVars
    <2>3. ASSUME NEW g \in GroupIds, NEW h \in GroupIds, LoadProject(w, g, h)
          PROVE  FreshPatches'
        BY <1>1, <1>2, <2>3 DEF LoadProject, Begin, groupVars, GroupInv, GroupMemoriesOK,
                                FreshPatches
    <2>4. CASE CommitAdd(w) \/ CommitRemove(w) \/ CommitAssign(w) \/ CommitProject(w)
        BY <1>5, <2>4 DEF CommitAdd, CommitRemove, CommitAssign, CommitProject
    <2>5. CASE RollBack(w) /\ UNCHANGED groupVars
        BY <1>4, <2>5 DEF RollBack, Finish, Idle, groupVars
    <2> QED BY <1>7, <2>1, <2>2, <2>3, <2>4, <2>5 DEF GroupStep
<1>8. CASE GroupsNext
    <2>1. ASSUME NEW g \in GroupIds, CreateProject(g) \/ DestroyProject(g)
          PROVE  FreshPatches'
        BY <1>6, <2>1 DEF CreateProject, DestroyProject
    <2>2. CASE ReviewersStep
        <3>1. Alone /\ req' = req
            <4>1. \A g, st, i, h, q, row :
                      PostReviewer(g, st, row) \/ SetReviewer(g, st, i, row)
                          \/ MoveReviewer(g, st, i, h, q, row)
                      => Alone /\ req' = req
                BY DEF PostReviewer, SetReviewer, MoveReviewer
            <4> QED BY <2>2, <4>1 DEF ReviewersStep
        <3> QED BY <1>6, <3>1
    <2> QED BY <1>7, <1>8, <2>1, <2>2, GroupSteps
<1>9. CASE UNCHANGED groupRequestVars
    BY <1>3, <1>9 DEF groupRequestVars, groupVars
<1> QED BY <1>8, <1>9

\* The rows of a guide change by an assignment alone.
LEMMA GuideRows ==
    ASSUME GroupInv, [GroupsNext /\ UNCHANGED engine]_groupRequestVars, NEW g \in GroupIds,
           assignments'[g][GuidePost] # assignments[g][GuidePost]
    PROVE  \E w \in Workers : CommitAssign(w) /\ req[w].group = g /\ req[w].post = GuidePost
<1>1. assignments \in [GroupIds -> [Posts -> Seq(PostRow)]]
    BY DEF GroupInv, GroupsTypeOK, PostRow
<1>2. GuidePost \in Posts /\ \A st \in ReviewStages : st # GuidePost /\ st \in Posts
    BY GroupsAssumption DEF Posts
<1>3. ~ReviewersStep
    <2> SUFFICES ASSUME ReviewersStep PROVE FALSE
        OBVIOUS
    <2>1. PICK h \in GroupIds, st \in ReviewStages, row \in PostRow :
            \/ PostReviewer(h, st, row)
            \/ \E i : \/ SetReviewer(h, st, i, row)
                     \/ \E k \in GroupIds, q \in ReviewStages : MoveReviewer(h, st, i, k, q, row)
        BY DEF ReviewersStep, PostRow
    <2>2. ASSUME NEW y, assignments' = [assignments EXCEPT ![h][st] = y]
          PROVE  FALSE
        <3>1. st # GuidePost
            BY <1>2
        <3>2. PICK posts : posts = [assignments[h] EXCEPT ![st] = y]
            OBVIOUS
        <3>3. posts[GuidePost] = assignments[h][GuidePost]
            BY <1>1, <1>2, <3>1, <3>2
        <3>4. assignments' = [assignments EXCEPT ![h] = posts]
            BY <2>2, <3>2
        <3> QED BY <1>1, <3>3, <3>4
    <2>3. ~PostReviewer(h, st, row)
        BY <2>2 DEF PostReviewer
    <2>4. ASSUME NEW i, SetReviewer(h, st, i, row)
          PROVE  FALSE
        <3>1. assignments' = [assignments EXCEPT ![h][st] = [assignments[h][st] EXCEPT ![i] = row]]
            BY <2>4 DEF SetReviewer
        <3> QED BY <2>2, <3>1
    <2>5. ASSUME NEW i, NEW k \in GroupIds, NEW q \in ReviewStages,
                 MoveReviewer(h, st, i, k, q, row)
          PROVE  FALSE
        <3>1. PICK ended : ended = [assignments EXCEPT ![h][st][i].active = FALSE]
            OBVIOUS
        <3>2. assignments' = [ended EXCEPT ![k][q] = Append(@, row)]
            BY <2>5, <3>1 DEF MoveReviewer
        <3>3. DOMAIN ended = GroupIds /\ DOMAIN ended[g] = Posts
              /\ ended[g][GuidePost] = assignments[g][GuidePost]
            BY <1>1, <1>2, <3>1
        <3> QED BY <1>2, <3>2, <3>3
    <2> QED BY <2>1, <2>3, <2>4, <2>5
<1>4. assignments' # assignments
    OBVIOUS
<1>5. GroupsNext
    BY <1>4 DEF groupRequestVars, groupVars
<1>6. PICK w \in Workers : GroupStep(w)
    BY <1>3, <1>4, <1>5, GroupSteps DEF CreateProject, DestroyProject
<1>7. CommitAssign(w)
    BY <1>4, <1>6 DEF GroupStep, LoadAdd, LoadRemove, LoadAssign, LoadProject, CommitAdd,
                      CommitRemove, CommitProject, groupVars
<1>8. PICK h \in GroupIds, p \in Posts : h = req[w].group /\ p = req[w].post
    BY <1>7 DEF GroupInv, GroupMemoriesOK, GroupMemory, CommitAssign
<1>9. \E rows : assignments' = [assignments EXCEPT ![h][p] = rows]
    BY <1>1, <1>7, <1>8 DEF CommitAssign
<1>10. h = g /\ p = GuidePost
    BY <1>1, <1>2, <1>9
<1> QED BY <1>7, <1>8, <1>10

\* A new guide is who was assigned.
LEMMA GuideAssigned ==
    ASSUME GroupInv, GroupInv', NEW w \in Workers, CommitAssign(w), req[w].post = GuidePost,
           NEW g \in GroupIds, req[w].group = g
    PROVE  ActiveGuide(g)' = req[w].holder
<1>1. PICK x, E : x = [holder |-> req[w].holder, active |-> TRUE] /\ E = req[w].ended
    OBVIOUS
<1>2. x \in PostRow /\ x.active /\ x.holder = req[w].holder
    BY <1>1 DEF CommitAssign, GroupInv, GroupMemoriesOK, GroupMemory, PostRow
<1>3. GuidePost \in Posts
    BY DEF Posts
<1>4. PICK old : old = assignments[g][GuidePost] /\ old \in Seq(PostRow)
    BY <1>3 DEF GroupInv, GroupsTypeOK, PostRow
<1>5. PICK rows : rows = Append(Ended(old, E), x)
    OBVIOUS
<1>6. assignments'[g][GuidePost] = rows
    BY <1>1, <1>3, <1>4, <1>5 DEF CommitAssign, GroupInv, GroupsTypeOK
<1>7. PICK n \in DOMAIN rows : rows[n] = x
    BY <1>2, <1>4, <1>5, AppendedRow, EndedRows
<1>8. n \in ActiveRows(g, GuidePost)'
    BY <1>2, <1>6, <1>7 DEF ActiveRows
<1>9. \A i \in ActiveRows(g, GuidePost)' : i = n
    BY <1>3, <1>8 DEF GroupInv, OneActiveHolder
<1>10. (CHOOSE i \in ActiveRows(g, GuidePost)' : TRUE) = n
    BY <1>8, <1>9
<1>11. ActiveGuide(g)' = assignments'[g][GuidePost][n].holder
    BY <1>8, <1>10 DEF ActiveGuide
<1> QED BY <1>2, <1>6, <1>7, <1>11

SyncStays(g) ==
    /\ NoProject \notin {project[g], project'[g]}
    /\ project[g] = ActiveGuide(g) \/ ActiveGuide(g)' # ActiveGuide(g)
    => project'[g] = ActiveGuide(g)'

LEMMA SyncStep ==
    ASSUME GroupInv, GroupInv', FreshPatches, engine = "sqlite",
           [GroupsNext /\ UNCHANGED engine]_groupRequestVars, NEW g \in GroupIds
    PROVE  SyncStays(g)
<1>1. CASE assignments'[g][GuidePost] # assignments[g][GuidePost]
    <2>1. PICK w \in Workers : CommitAssign(w) /\ req[w].group = g /\ req[w].post = GuidePost
        BY <1>1, GuideRows
    <2>2. ActiveGuide(g)' = req[w].holder
        BY <2>1, GuideAssigned
    <2>3. project[g] # NoProject => project'[g] = req[w].holder
        BY <2>1 DEF CommitAssign, SyncGuide, GroupInv, GroupsTypeOK
    <2> QED BY <2>2, <2>3 DEF SyncStays
<1>2. CASE assignments'[g][GuidePost] = assignments[g][GuidePost]
    <2>1. ActiveGuide(g)' = ActiveGuide(g)
        BY <1>2 DEF ActiveGuide, ActiveRows
    <2>2. CASE project'[g] = project[g]
        BY <2>1, <2>2 DEF SyncStays
    <2>3. ASSUME NEW w \in Workers, CommitAssign(w) PROVE SyncStays(g)
        <3>1. CASE req[w].post = GuidePost /\ req[w].group = g
            <4>1. ActiveGuide(g)' = req[w].holder
                BY <2>3, <3>1, GuideAssigned
            <4>2. project[g] # NoProject => project'[g] = req[w].holder
                BY <2>3, <3>1 DEF CommitAssign, SyncGuide, GroupInv, GroupsTypeOK
            <4> QED BY <4>1, <4>2 DEF SyncStays
        <3>2. CASE ~(req[w].post = GuidePost /\ req[w].group = g)
            <4>1. project'[g] = project[g]
                BY <2>3, <3>2 DEF CommitAssign, SyncGuide, GroupInv, GroupsTypeOK
            <4> QED BY <2>2, <4>1
        <3> QED BY <3>1, <3>2
    <2>4. ASSUME NEW w \in Workers, CommitProject(w) PROVE SyncStays(g)
        <3>1. PICK h \in GroupIds, k \in GroupIds : h = req[w].group /\ k = req[w].to
            BY <2>4 DEF CommitProject, GroupInv, GroupMemoriesOK, GroupMemory
        <3> DEFINE f == req[w].guide
        <3>2. project[h] = f
            BY <2>4, <3>1 DEF CommitProject, FreshPatches
        <3>3. project' = [[project EXCEPT ![h] = NoProject] EXCEPT ![k] = f]
            BY <2>4, <3>1 DEF CommitProject
        <3>4. k # h => project[k] = NoProject
            BY <2>4, <3>1 DEF CommitProject
        <3> HIDE DEF f
        <3>5. NoProject \notin {project[g], project'[g]} => project'[g] = project[g]
            BY <3>2, <3>3, <3>4 DEF GroupInv, GroupsTypeOK
        <3> QED BY <2>1, <3>5 DEF SyncStays
    <2>5. ASSUME NEW h \in GroupIds, CreateProject(h) \/ DestroyProject(h) PROVE SyncStays(g)
        <3>1. NoProject \in {project[g], project'[g]} \/ project'[g] = project[g]
            BY <2>5 DEF CreateProject, DestroyProject, GroupInv, GroupsTypeOK
        <3> QED BY <2>2, <3>1 DEF SyncStays
    <2>6. CASE ReviewersStep
        <3>1. project' = project
            <4>1. \A h, st, i, k, q, row :
                      PostReviewer(h, st, row) \/ SetReviewer(h, st, i, row)
                          \/ MoveReviewer(h, st, i, k, q, row)
                      => project' = project
                BY DEF PostReviewer, SetReviewer, MoveReviewer
            <4> QED BY <2>6, <4>1 DEF ReviewersStep
        <3> QED BY <2>2, <3>1
    <2>7. ASSUME NEW w \in Workers, GroupStep(w) PROVE SyncStays(g)
        BY <2>2, <2>3, <2>4, <2>7 DEF GroupStep, LoadAdd, LoadRemove, LoadAssign, LoadProject,
                                     CommitAdd, CommitRemove, groupVars
    <2>8. CASE UNCHANGED groupRequestVars
        BY <2>2, <2>8 DEF groupRequestVars, groupVars
    <2> QED BY <2>5, <2>6, <2>7, <2>8, GroupSteps
<1> QED BY <1>1, <1>2

\* On SQLite the guide written on a project follows the guide assigned, through
\* reassignments and through patches that save the guide they loaded.
THEOREM GuideSynced == GroupsSpec => GuideSyncs
<1>1. SyncInv /\ SyncInv' /\ [GroupsNext /\ UNCHANGED engine]_groupRequestVars
        => [engine = "sqlite" =>
              \A g \in GroupIds :
                  /\ NoProject \notin {project[g], project'[g]}
                  /\ project[g] = ActiveGuide(g) \/ ActiveGuide(g)' # ActiveGuide(g)
                  => project'[g] = ActiveGuide(g)']_groupVars
    BY SyncStep DEF SyncInv, SyncStays
<1> QED BY <1>1, SyncInvInit, SyncInvStep, PTL DEF GroupsSpec, GuideSyncs
=============================================================================
