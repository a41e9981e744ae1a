------------------------------- MODULE Groups -------------------------------
(***************************************************************************)
(* be_logbook/groups and the guide of be_logbook/projects: who belongs to  *)
(* a group, who guides it and who reviews it at each stage, with several   *)
(* requests at once.  The posts of a group are its guide and its reviewer  *)
(* of each stage: GuideAssignment and ReviewAssignment rows are handled    *)
(* alike.                                                                  *)
(*                                                                         *)
(* The service is modelled as its callers (seed, tests) use it.  Of the    *)
(* endpoints, add_member, remove_member, assign_guide and assign_reviewer  *)
(* name User, which groups/views.py does not import.  Members, guides and  *)
(* reviewers are given as users of their role.                             *)
(***************************************************************************)
EXTENDS Naturals, SequencesExt, Transactions

CONSTANTS
    GroupIds,        \* ProjectGroup rows
    Students,        \* users with role STUDENT
    Teachers,        \* users with role FACULTY
    ReviewStages,    \* the stages that have a reviewer
    GuidePost,       \* the post of the guide
    Nobody,          \* no holder, no guide
    NoProject,       \* the group has no project
    MaxAssignments   \* bound on the assignment rows, of all posts together

ASSUME GroupsAssumption ==
    /\ GuidePost \notin ReviewStages
    /\ {Nobody, NoProject} \cap Teachers = {}
    /\ Nobody # NoProject
    /\ MaxAssignments \in Nat

VARIABLES
    memberships,   \* groups_groupmembership: statuses, per group and student
    assignments,   \* the rows of each post of a group, oldest first
    project        \* projects_project.guide, of the group's project if it has one

groupVars == <<memberships, assignments, project>>

groupRequestVars == <<groupVars, engine, req>>

-----------------------------------------------------------------------------
Posts == ReviewStages \cup {GuidePost}

GroupsInit ==
    /\ memberships = [g \in GroupIds |-> [s \in Students |-> << >>]]
    /\ assignments = [g \in GroupIds |-> [p \in Posts |-> << >>]]
    /\ project = [g \in GroupIds |-> NoProject]
    /\ TransactionsInit

IsMember(s, g) == \E i \in DOMAIN memberships[g][s] : memberships[g][s][i] = "ACTIVE"

ActiveRows(g, p) == {i \in DOMAIN assignments[g][p] : assignments[g][p][i].active}

AssignmentRows ==
    Cardinality({r \in GroupIds \X Posts \X (1..MaxAssignments) :
                     r[3] \in DOMAIN assignments[r[1]][r[2]]})

Holds(f, g, p) == \E i \in ActiveRows(g, p) : assignments[g][p][i].holder = f

\* ProjectGroup.active_guide
ActiveGuide(g) ==
    IF ActiveRows(g, GuidePost) = {} THEN Nobody
    ELSE assignments[g][GuidePost][CHOOSE i \in ActiveRows(g, GuidePost) : TRUE].holder

-----------------------------------------------------------------------------
(* GroupService *)

\* Mutant: only the memberships in this group are looked at.
LoadAddToGroup(w, g, s) ==
    /\ memberships[g][s] = << >>
    /\ Begin(w, [pc |-> "add", group |-> g, student |-> s])
    /\ UNCHANGED groupVars

\* add_member: not in any active group, never in this one.
LoadAdd(w, g, s) ==
    /\ \A h \in GroupIds : ~IsMember(s, h)
    /\ memberships[g][s] = << >>
    /\ Begin(w, [pc |-> "add", group |-> g, student |-> s])
    /\ UNCHANGED groupVars

\* The INSERT, under uniq_active_membership_per_group.
CommitAdd(w) ==
    LET g == req[w].group
        s == req[w].student
    IN  /\ req[w].pc = "add"
        /\ MayCommit(w)
        /\ ~IsMember(s, g)
        /\ memberships' = [memberships EXCEPT ![g][s] = Append(@, "ACTIVE")]
        /\ Finish(w)
        /\ UNCHANGED <<assignments, project>>

\* remove_member: the first active row is loaded, changed and saved.
LoadRemove(w, g, s) ==
    /\ IsMember(s, g)
    /\ Begin(w, [pc |-> "remove", group |-> g, student |-> s,
                 row |-> CHOOSE i \in DOMAIN memberships[g][s] :
                             memberships[g][s][i] = "ACTIVE"])
    /\ UNCHANGED groupVars

CommitRemove(w) ==
    LET t == req[w]
    IN  /\ t.pc = "remove"
        /\ MayCommit(w)
        /\ memberships' = [memberships EXCEPT ![t.group][t.student][t.row] = "REMOVED"]
        /\ Finish(w)
        /\ UNCHANGED <<assignments, project>>

\* assign_guide and assign_reviewer: one UPDATE ends the active rows there are.
LoadAssign(w, g, p, f) ==
    /\ AssignmentRows < MaxAssignments
    /\ Begin(w, [pc |-> "assign", group |-> g, post |-> p, holder |-> f,
                 ended |-> ActiveRows(g, p)])
    /\ UNCHANGED groupVars

Ended(rows, ended) ==
    [i \in DOMAIN rows |-> IF i \in ended THEN [rows[i] EXCEPT !.active = FALSE] ELSE rows[i]]

\* Mutant: the project's guide is left as it was.
NoSync(t) == UNCHANGED project

\* sync_guide, for a group that has a project.
SyncGuide(t) ==
    project' = IF t.post = GuidePost /\ project[t.group] # NoProject
               THEN [project EXCEPT ![t.group] = t.holder] ELSE project

\* Mutant: who already holds the post is not inserted again, though ended.
CommitAssignOnce(w) ==
    LET t == req[w]
        g == t.group
        p == t.post
    IN  /\ t.pc = "assign"
        /\ MayCommit(w)
        /\ ActiveRows(g, p) \subseteq t.ended
        /\ assignments' = [assignments EXCEPT ![g][p] =
               IF Holds(t.holder, g, p) THEN Ended(@, t.ended)
               ELSE Append(Ended(@, t.ended), [holder |-> t.holder, active |-> TRUE])]
        /\ SyncGuide(t)
        /\ Finish(w)
        /\ UNCHANGED memberships

\* Mutant: no constraint on the active rows.
CommitAssignUnconstrained(w) ==
    LET t == req[w]
    IN  /\ t.pc = "assign"
        /\ MayCommit(w)
        /\ assignments' = [assignments EXCEPT ![t.group][t.post] =
               Append(Ended(@, t.ended), [holder |-> t.holder, active |-> TRUE])]
        /\ SyncGuide(t)
        /\ Finish(w)
        /\ UNCHANGED memberships

\* The INSERT of the active row, under uniq_active_guide_per_group and
\* uniq_active_reviewer_per_group_stage: refused while a row the UPDATE did not
\* see is active.
CommitAssign(w) ==
    LET t == req[w]
    IN  /\ t.pc = "assign"
        /\ MayCommit(w)
        /\ ActiveRows(t.group, t.post) \subseteq t.ended
        /\ assignments' = [assignments EXCEPT ![t.group][t.post] =
               Append(Ended(@, t.ended), [holder |-> t.holder, active |-> TRUE])]
        /\ SyncGuide(t)
        /\ Finish(w)
        /\ UNCHANGED memberships

-----------------------------------------------------------------------------
(* ReviewAssignmentViewSet: the HOD writes the rows of a reviewer's post    *)
(* under the same constraint, past the service.  A deleted row is kept as   *)
(* an inactive one, which nothing reads.  A request that saves what it      *)
(* loaded before is one that sets those values now.                         *)

Alone == engine = "sqlite" => \A w \in Workers : ~Busy(w)

PostReviewer(g, st, row) ==
    /\ Alone
    /\ AssignmentRows < MaxAssignments
    /\ row.active => ActiveRows(g, st) = {}
    /\ assignments' = [assignments EXCEPT ![g][st] = Append(@, row)]
    /\ UNCHANGED <<memberships, project, req>>

\* PUT, PATCH and DELETE in place.
SetReviewer(g, st, i, row) ==
    /\ Alone
    /\ row.active => ActiveRows(g, st) \subseteq {i}
    /\ assignments' = [assignments EXCEPT ![g][st][i] = row]
    /\ UNCHANGED <<memberships, project, req>>

\* PUT and PATCH of the group or the stage.
MoveReviewer(g, st, i, h, q, row) ==
    /\ Alone
    /\ AssignmentRows < MaxAssignments
    /\ <<h, q>> # <<g, st>>
    /\ row.active => ActiveRows(h, q) = {}
    /\ assignments' = [[assignments EXCEPT ![g][st][i].active = FALSE]
                          EXCEPT ![h][q] = Append(@, row)]
    /\ UNCHANGED <<memberships, project, req>>

-----------------------------------------------------------------------------
(* ProjectViewSet: guide is read-only in its serializer *)

\* POST: one INSERT, without a guide.
CreateProject(g) ==
    /\ Alone
    /\ project[g] = NoProject
    /\ project' = [project EXCEPT ![g] = Nobody]
    /\ UNCHANGED <<memberships, assignments, req>>

DestroyProject(g) ==
    /\ Alone
    /\ project[g] # NoProject
    /\ project' = [project EXCEPT ![g] = NoProject]
    /\ UNCHANGED <<memberships, assignments, req>>

LoadProject(w, g, h) ==
    /\ project[g] # NoProject
    /\ Begin(w, [pc |-> "patch", group |-> g, to |-> h, guide |-> project[g]])
    /\ UNCHANGED groupVars

\* PUT and PATCH save every column from memory, the group among them.
CommitProject(w) ==
    LET t == req[w]
    IN  /\ t.pc = "patch"
        /\ MayCommit(w)
        /\ project[t.group] # NoProject
        /\ t.to # t.group => project[t.to] = NoProject
        /\ project' = [[project EXCEPT ![t.group] = NoProject] EXCEPT ![t.to] = t.guide]
        /\ Finish(w)
        /\ UNCHANGED <<memberships, assignments>>

MembersStep(w) ==
    \/ \E g \in GroupIds, s \in Students : LoadAdd(w, g, s) \/ LoadRemove(w, g, s)
    \/ CommitAdd(w)
    \/ CommitRemove(w)

AssignStep(w) ==
    \/ \E g \in GroupIds, p \in Posts, f \in Teachers : LoadAssign(w, g, p, f)
    \/ CommitAssign(w)

ProjectStep(w) ==
    \/ \E g, h \in GroupIds : LoadProject(w, g, h)
    \/ CommitProject(w)

ReviewersStep ==
    \E g \in GroupIds, st \in ReviewStages, row \in [holder: Teachers, active: BOOLEAN] :
        \/ PostReviewer(g, st, row)
        \/ \E i \in DOMAIN assignments[g][st] :
               \/ SetReviewer(g, st, i, row)
               \/ \E h \in GroupIds, q \in ReviewStages : MoveReviewer(g, st, i, h, q, row)

MembersNext ==
    \E w \in Workers : MembersStep(w) \/ (RollBack(w) /\ UNCHANGED groupVars)

GuidesNext ==
    \/ \E g \in GroupIds : CreateProject(g) \/ DestroyProject(g)
    \/ \E w \in Workers :
           AssignStep(w) \/ ProjectStep(w) \/ (RollBack(w) /\ UNCHANGED groupVars)

ReviewersNext ==
    \/ ReviewersStep
    \/ \E w \in Workers : AssignStep(w) \/ (RollBack(w) /\ UNCHANGED groupVars)

GroupsNext == MembersNext \/ GuidesNext \/ ReviewersNext

GroupsSpec == GroupsInit /\ [][GroupsNext /\ UNCHANGED engine]_groupRequestVars

-----------------------------------------------------------------------------
(* Properties *)

\* Rows of their types; a project's guide is a teacher.
GroupsTypeOK ==
    /\ memberships \in [GroupIds -> [Students -> Seq({"ACTIVE", "REMOVED"})]]
    /\ assignments \in [GroupIds -> [Posts -> Seq([holder: Teachers, active: BOOLEAN])]]
    /\ project \in [GroupIds -> Teachers \cup {Nobody, NoProject}]

\* On SQLite a student is in one group at a time, and in each at most once: the
\* checks of add_member hold until its INSERT.
OneGroupPerStudent ==
    engine = "sqlite" =>
        \A s \in Students : \A g \in GroupIds :
            /\ Len(memberships[g][s]) <= 1
            /\ \A h \in GroupIds : IsMember(s, g) /\ IsMember(s, h) => g = h

\* On either database a post has one active holder, whatever assignments race.
OneActiveHolder ==
    \A g \in GroupIds, p \in Posts : \A i, j \in ActiveRows(g, p) : i = j

\* A group that was given a guide is never found without one.
GuideStays ==
    [][\A g \in GroupIds :
          ActiveGuide(g) # Nobody => ActiveGuide(g)' # Nobody]_groupVars

\* "Active guide (kept in sync with GuideAssignment)": on SQLite a change of
\* guide reaches the project the group has, and a project that agrees with the
\* assignments keeps agreeing while it is the same group's.
GuideSyncs ==
    [][engine = "sqlite" =>
          \A g \in GroupIds :
              /\ NoProject \notin {project[g], project'[g]}
              /\ project[g] = ActiveGuide(g) \/ ActiveGuide(g)' # ActiveGuide(g)
              => project'[g] = ActiveGuide(g)']_groupVars
=============================================================================
