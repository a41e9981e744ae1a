------------------------ MODULE AdministrationProofs ------------------------
(***************************************************************************)
(* Proofs about what the administration sets up: the academic years and    *)
(* the accounts, where on SQLite what a request read is still so when it   *)
(* commits and on either database the unique constraints hold; the stages, *)
(* edited under a group that works through them; and the seed command,     *)
(* which dies anywhere.                                                    *)
(***************************************************************************)
EXTENDS AcademicYears, Accounts, StageConfiguration, Seed, FiniteSetTheorems, TLAPS

-----------------------------------------------------------------------------
(* Academic years *)

\* Types, with what a request has in memory.
YearMemory(m) ==
    \/ m.pc = "idle"
    \/ m.pc = "loaded" /\ m.year \in Years
    \/ m.pc = "saved" /\ m.year \in Years /\ m.state \in {"active", "inactive"}

YearTypes ==
    /\ years \in [Years -> YearState]
    /\ DOMAIN req = Workers
    /\ \A w \in Workers : YearMemory(req[w])

\* On SQLite the years a saved request is about to deactivate are all the
\* others that are active.
FreshUpdate ==
    \A w \in Workers : req[w].pc = "saved" /\ req[w].state = "active" =>
        \A y \in Years \ {req[w].year} : years[y] = "active" => y \in req[w].others

YearInv == YearTypes /\ (engine = "sqlite" => FreshUpdate) /\ OneActiveYear

LEMMA YearInvInit == YearsInit => YearInv
BY DEF YearsInit, TransactionsInit, Idle, YearInv, YearTypes, YearMemory, YearState, FreshUpdate,
       OneActiveYear

LEMMA YearInvStep == YearInv /\ [YearsNext /\ UNCHANGED engine]_yearRequestVars => YearInv'
<1> SUFFICES ASSUME YearInv, [YearsNext /\ UNCHANGED engine]_yearRequestVars PROVE YearInv'
    OBVIOUS
<1> USE DEF YearInv
<1>1. ASSUME NEW y \in Years, DestroyYear(y), UNCHANGED engine PROVE YearInv'
    BY <1>1 DEF DestroyYear, YearTypes, YearMemory, YearState, FreshUpdate, OneActiveYear, Busy
<1>2. ASSUME NEW w \in Workers, NEW y \in Years, LoadYear(w, y), UNCHANGED engine PROVE YearInv'
    BY <1>2 DEF LoadYear, Begin, Busy, YearTypes, YearMemory, FreshUpdate, OneActiveYear
<1>3. ASSUME NEW w \in Workers, NEW s \in YearState \ {"none"}, DeactivateOthers(w, s),
             UNCHANGED engine
      PROVE YearInv'
    BY <1>3 DEF DeactivateOthers, Proceed, YearTypes, YearMemory, YearState, FreshUpdate,
                OneActiveYear
<1>4. ASSUME NEW w \in Workers, CommitYear(w), UNCHANGED engine PROVE YearInv'
    <2>1. YearTypes'
        BY <1>4 DEF CommitYear, Finish, Idle, YearTypes, YearMemory, YearState
    <2>2. ASSUME engine = "sqlite" PROVE FreshUpdate'
        BY <1>4, <2>2 DEF CommitYear, Finish, Idle, MayCommit, Busy, YearTypes, FreshUpdate
    <2>3. OneActiveYear'
        BY <1>4 DEF CommitYear, YearTypes, YearMemory, YearState, FreshUpdate, OneActiveYear
    <2> QED BY <1>4, <2>1, <2>2, <2>3
<1>5. ASSUME NEW w \in Workers, RollBack(w), UNCHANGED years, UNCHANGED engine PROVE YearInv'
    BY <1>5 DEF RollBack, Finish, Idle, YearTypes, YearMemory, FreshUpdate, OneActiveYear
<1>6. CASE UNCHANGED yearRequestVars
    BY <1>6 DEF yearRequestVars, YearTypes, FreshUpdate, OneActiveYear
<1> QED BY <1>1, <1>2, <1>3, <1>4, <1>5, <1>6 DEF YearsNext

\* "Only one active academic year at a time": on SQLite, for any number of
\* years and of requests at once.
THEOREM SingleActiveYear == YearsSpec => []OneActiveYear
BY YearInvInit, YearInvStep, PTL DEF YearsSpec, YearInv

-----------------------------------------------------------------------------
(* Accounts *)

\* Users of their types; a request past its look-ups has the user it will
\* insert in memory.
AccountTypes ==
    /\ accounts \subseteq AccountRow
    /\ DOMAIN req = Workers
    /\ \A w \in Workers :
          \/ req[w].pc = "idle"
          \/ req[w].pc = "checked" /\ req[w].row \in AccountRow

\* On SQLite an e-mail that was looked for in vain is still not taken.
EmailsStillFree ==
    \A w \in Workers : req[w].pc = "checked" => ~EmailTaken(req[w].row)

AccountInv ==
    /\ AccountTypes
    /\ engine = "sqlite" => EmailsStillFree
    /\ AccountsDistinct

\* What a step may do to the table of users.
Grows(old, new) ==
    engine = "sqlite" /\ old \subseteq new =>
        \A a \in new \ old : a.profile # NoProfile =>
            \A b \in old : Fold[b.email] # Fold[a.email]

LEMMA AccountInvInit == AccountsInit => AccountInv
BY DEF AccountsInit, TransactionsInit, Idle, AccountInv, AccountTypes, EmailsStillFree,
       AccountsDistinct

LEMMA AccountInvStep ==
    AccountInv /\ [AccountsNext /\ UNCHANGED engine]_accountRequestVars
        => AccountInv' /\ Grows(accounts, accounts')
<1> SUFFICES ASSUME AccountInv, [AccountsNext /\ UNCHANGED engine]_accountRequestVars
             PROVE AccountInv' /\ Grows(accounts, accounts')
    OBVIOUS
<1> USE DEF AccountInv
<1>1. ASSUME NEW row \in AccountRow, CreateBareUser(row), UNCHANGED engine
      PROVE AccountInv' /\ Grows(accounts, accounts')
    <2>1. AccountTypes'
        BY <1>1 DEF CreateBareUser, AccountTypes
    <2>2. engine' = "sqlite" => EmailsStillFree'
        BY <1>1 DEF CreateBareUser, AccountTypes, EmailsStillFree, Busy
    <2>3. AccountsDistinct'
        BY <1>1 DEF CreateBareUser, AccountsDistinct, Clash, SameProfile
    <2>4. Grows(accounts, accounts')
        BY <1>1 DEF CreateBareUser, Grows
    <2> QED BY <2>1, <2>2, <2>3, <2>4
<1>2. ASSUME NEW user \in AccountRow, NEW email \in Emails, ChangeEmail(user, email),
             UNCHANGED engine
      PROVE AccountInv' /\ Grows(accounts, accounts')
    <2> DEFINE changed == [user EXCEPT !.email = email]
    <2>1. /\ changed \in AccountRow
          /\ changed.email = email
          /\ changed.profile = user.profile
          /\ changed.role = user.role
        BY DEF AccountRow
    <2>2. accounts' = (accounts \ {user}) \cup {changed}
        BY <1>2 DEF ChangeEmail
    <2> HIDE DEF changed
    <2>3. AccountTypes'
        BY <1>2, <2>1, <2>2 DEF ChangeEmail, AccountTypes
    <2>4. engine' = "sqlite" => EmailsStillFree'
        BY <1>2 DEF ChangeEmail, AccountTypes, EmailsStillFree, Busy
    <2>5. ASSUME NEW a \in accounts', NEW b \in accounts',
                 a.email = b.email \/ SameProfile(a, b)
          PROVE a = b
        <3>1. \A c \in accounts \ {user} : c.email # email
            BY <1>2 DEF ChangeEmail
        <3>2. user \in accounts
            BY <1>2 DEF ChangeEmail
        <3>3. CASE a = changed /\ b = changed
            BY <3>3
        <3>4. CASE a = changed /\ b \in accounts \ {user}
            BY <3>4, <3>1, <3>2, <2>1, <2>5 DEF AccountsDistinct, SameProfile
        <3>5. CASE b = changed /\ a \in accounts \ {user}
            BY <3>5, <3>1, <3>2, <2>1, <2>5 DEF AccountsDistinct, SameProfile
        <3>6. CASE a \in accounts /\ b \in accounts
            BY <3>6, <2>5 DEF AccountsDistinct
        <3> QED BY <3>3, <3>4, <3>5, <3>6, <2>2
    <2>6. AccountsDistinct'
        BY <2>5 DEF AccountsDistinct, SameProfile
    <2>7. Grows(accounts, accounts')
        <3>1. CASE changed = user
            BY <3>1, <2>2, <1>2 DEF ChangeEmail, Grows
        <3>2. CASE changed # user
            BY <3>2, <2>2, <1>2 DEF ChangeEmail, Grows
        <3> QED BY <3>1, <3>2
    <2> QED BY <2>3, <2>4, <2>6, <2>7
<1>3. ASSUME NEW user \in AccountRow, DestroyUser(user), UNCHANGED engine
      PROVE AccountInv' /\ Grows(accounts, accounts')
    BY <1>3 DEF DestroyUser, AccountTypes, EmailsStillFree, EmailTaken, AccountsDistinct, Grows,
                Busy
<1>4. ASSUME NEW w \in Workers, NEW row \in AccountRow, LoadAccount(w, row), UNCHANGED engine
      PROVE AccountInv' /\ Grows(accounts, accounts')
    BY <1>4 DEF LoadAccount, Begin, Busy, AccountTypes, EmailsStillFree, EmailTaken,
                AccountsDistinct, Grows
<1>5. ASSUME NEW w \in Workers, CommitAccount(w), UNCHANGED engine
      PROVE AccountInv' /\ Grows(accounts, accounts')
    <2>1. AccountTypes'
        BY <1>5 DEF CommitAccount, Finish, Idle, AccountTypes
    <2>2. engine' = "sqlite" => EmailsStillFree'
        BY <1>5 DEF CommitAccount, Finish, Idle, MayCommit, Busy, AccountTypes, EmailsStillFree
    <2>3. AccountsDistinct'
        BY <1>5 DEF CommitAccount, AccountsDistinct, Clash, SameProfile
    <2>4. Grows(accounts, accounts')
        BY <1>5 DEF CommitAccount, Grows, EmailsStillFree, EmailTaken
    <2> QED BY <2>1, <2>2, <2>3, <2>4
<1>6. ASSUME NEW w \in Workers, RollBack(w), UNCHANGED accounts, UNCHANGED engine
      PROVE AccountInv' /\ Grows(accounts, accounts')
    BY <1>6 DEF RollBack, Finish, Idle, AccountTypes, EmailsStillFree, EmailTaken,
                AccountsDistinct, Grows
<1>7. CASE UNCHANGED accountRequestVars
    BY <1>7 DEF accountRequestVars, AccountTypes, EmailsStillFree, EmailTaken, AccountsDistinct,
                Grows
<1> QED BY <1>1, <1>2, <1>3, <1>4, <1>5, <1>6, <1>7 DEF AccountsNext

\* On either database no e-mail and no id is given to two users, for any number
\* of requests at once.
THEOREM DistinctAccounts == AccountsSpec => []AccountsDistinct
<1>1. AccountInv => AccountsDistinct
    BY DEF AccountInv
<1> QED BY AccountInvInit, AccountInvStep, <1>1, PTL DEF AccountsSpec

\* On SQLite the service gives no account to an e-mail another user has in
\* other case.
THEOREM DistinctPeople == AccountsSpec => PeopleDistinct
<1>1. Grows(accounts, accounts') => [Grows(accounts, accounts')]_accounts
    OBVIOUS
<1>2. [Grows(accounts, accounts')]_accounts =>
        [engine = "sqlite" /\ accounts \subseteq accounts' =>
            \A a \in accounts' \ accounts : a.profile # NoProfile =>
                \A b \in accounts : Fold[b.email] # Fold[a.email]]_accounts
    BY DEF Grows
<1> QED BY AccountInvInit, AccountInvStep, <1>1, <1>2, PTL DEF AccountsSpec, PeopleDistinct

-----------------------------------------------------------------------------
(* The stages as the HOD edits them *)

\* A non-empty set of naturals has a least element.
LEMMA LeastNatural ==
    ASSUME NEW T, T \subseteq Nat, T # {}
    PROVE  \E x \in T : \A y \in T : ~(y < x)
<1>1. \E x \in T : \A y \in T : ~(<<y, x>> \in OpToRel(<, Nat))
    BY NatLessThanWellFounded, WFMin
<1>2. \A x, y \in Nat : y < x => <<y, x>> \in OpToRel(<, Nat)
    BY DEF OpToRel
<1> QED BY <1>1, <1>2

\* The tables of their types; a stage is untouched or approved, and no request
\* here cancels the group.
ConfigTypes ==
    /\ active \subseteq StageIds
    /\ prerequisites \in [StageIds -> SUBSET StageIds]
    /\ work \in [StageIds -> {[status |-> "NONE", version |-> 0],
                             [status |-> "APPROVED", version |-> 3]}]
    /\ progress.status # "CANCELLED"

\* An open stage of the lowest level needs only stages that are not open.
LEMMA LowestOpenStage == ConfigTypes => GroupCanProceed
<1> SUFFICES ASSUME ConfigTypes, Feasible, Stages!OpenStages(work, Team) # {}
             PROVE  \E s \in Stages!OpenStages(work, Team) :
                        Stages!IsStageUnlocked(work, Team, s)
    BY DEF GroupCanProceed
<1> DEFINE open == Stages!OpenStages(work, Team)
<1>1. PICK level \in [StageIds -> 1..Cardinality(StageIds)] :
         \A s \in active : \A dep \in prerequisites[s] : level[dep] < level[s]
    BY DEF Feasible
<1>2. Cardinality(StageIds) \in Nat
    BY StageIdsAssumption, FS_CardinalityType
<1>3. \A s \in Stages!OpenStages(work, Team) :
         s \in active /\ ~Stages!IsStageSatisfied(work, Team, s)
    BY DEF Stages!OpenStages
<1>4. \A s \in active : ~Stages!IsStageSatisfied(work, Team, s) =>
         s \in Stages!OpenStages(work, Team)
    BY DEF Stages!OpenStages
<1> DEFINE levels == {level[s] : s \in open}
<1>5. active \subseteq StageIds
    BY DEF ConfigTypes
<1>6. levels \subseteq Nat /\ levels # {}
    BY <1>1, <1>2, <1>3, <1>5
<1>7. PICK x \in levels : \A y \in levels : ~(y < x)
    BY <1>6, LeastNatural
<1>8. PICK s \in open : level[s] = x
    BY <1>7
<1>9. ASSUME NEW dep \in prerequisites[s] PROVE Stages!IsStageSatisfied(work, Team, dep)
    BY <1>1, <1>3, <1>4, <1>7, <1>8 DEF Feasible
<1> QED BY <1>3, <1>8, <1>9 DEF Stages!IsStageUnlocked, Stages!ArePrerequisitesSatisfied

\* With one section to a stage, the stage is satisfied when its row is approved.
LEMMA StageSatisfied ==
    ASSUME NEW st \in StageIds, NEW w
    PROVE  Stages!IsStageSatisfied(w, Team, st) <=> w[st].status \in {"APPROVED", "LOCKED"}
BY DEF Stages!IsStageSatisfied, Stages!SlotsOf, Stages!ApprovedStates

\* What recompute_group_status makes of a group that has submitted something:
\* completed without open stages, else in progress at one of them.
LEMMA Recomputed ==
    ASSUME NEW w \in [StageIds -> {[status |-> "NONE", version |-> 0],
                                  [status |-> "APPROVED", version |-> 3]}],
           NEW s \in StageIds, w[s].status = "APPROVED",
           NEW old, old # "CANCELLED",
           active \subseteq StageIds,
           NEW p \in Stages!RecomputedGroups(w, Team, old)
    PROVE  /\ p.status # "CANCELLED"
           /\ p.status = "COMPLETED" <=>
                 active \subseteq {t \in StageIds : w[t].status = "APPROVED"}
           /\ p.status # "COMPLETED" => p.stage \in active /\ w[p.stage].status = "NONE"
<1>1. \A t \in StageIds : w[t].status \in {"NONE", "APPROVED"}
    OBVIOUS
<1>2. PICK st \in Stages!CurrentStages(w, Team) :
          \E x \in Stages!RecomputedStatuses(w, Team, st, old) : p = [status |-> x, stage |-> st]
    BY DEF Stages!RecomputedGroups
<1>3. PICK x \in Stages!RecomputedStatuses(w, Team, st, old) : p = [status |-> x, stage |-> st]
    BY <1>2
<1>4. p.status = x /\ p.stage = st
    BY <1>3
<1>5. Stages!OpenStages(w, Team) = {t \in active : w[t].status = "NONE"}
    BY <1>1, StageSatisfied DEF Stages!OpenStages
<1>6. Stages!AnySubmitted(w, Team)
    BY DEF Stages!AnySubmitted, Stages!SlotsOf
<1>7. CASE Stages!OpenStages(w, Team) = {}
    <2>1. st = NoStageYet
        BY <1>7 DEF Stages!CurrentStages
    <2>2. x = "COMPLETED"
        BY <2>1, <1>6 DEF Stages!RecomputedStatuses
    <2>3. active \subseteq {t \in StageIds : w[t].status = "APPROVED"}
        BY <1>1, <1>5, <1>7
    <2> QED BY <2>2, <2>3, <1>4
<1>8. CASE Stages!OpenStages(w, Team) # {}
    <2>1. st \in Stages!OpenStages(w, Team)
        BY <1>8 DEF Stages!CurrentStages
    <2>2. st \in active /\ st \in StageIds /\ w[st].status = "NONE"
        BY <2>1, <1>5
    <2>3. Stages!RowsOf(w, Team, st) = {}
        BY <2>2 DEF Stages!RowsOf, Stages!SlotsOf
    <2>4. x = "IN_PROGRESS"
        BY <2>2, <2>3, <1>6, StageIdsAssumption DEF Stages!RecomputedStatuses
    <2>5. ~(active \subseteq {t \in StageIds : w[t].status = "APPROVED"})
        BY <2>2
    <2> QED BY <2>2, <2>4, <2>5, <1>4
<1> QED BY <1>7, <1>8

\* What ProgressCatchesUp says of a step.
CatchesUp(old, new, inUse, group) ==
    new # old =>
        /\ (group.status = "COMPLETED") <=> (inUse \subseteq {s \in StageIds :
                                                 new[s].status = "APPROVED"})
        /\ group.status # "COMPLETED" =>
              group.stage \in inUse /\ new[group.stage].status = "NONE"

LEMMA ConfigTypesInit == StagesInit => ConfigTypes
BY DEF StagesInit, ConfigTypes

LEMMA ConfigTypesStep ==
    ConfigTypes /\ [StagesNext]_configVars
        => ConfigTypes' /\ CatchesUp(work, work', active', progress')
<1> SUFFICES ASSUME ConfigTypes, [StagesNext]_configVars
             PROVE  ConfigTypes' /\ CatchesUp(work, work', active', progress')
    OBVIOUS
<1>1. ASSUME NEW s \in StageIds, Activate(s)
      PROVE  ConfigTypes' /\ CatchesUp(work, work', active', progress')
    BY <1>1 DEF Activate, ConfigTypes, CatchesUp
<1>2. ASSUME NEW s \in StageIds, Deactivate(s)
      PROVE  ConfigTypes' /\ CatchesUp(work, work', active', progress')
    BY <1>2 DEF Deactivate, ConfigTypes, CatchesUp
<1>3. ASSUME NEW s \in StageIds, DestroyStage(s)
      PROVE  ConfigTypes' /\ CatchesUp(work, work', active', progress')
    <2>1. [progress EXCEPT !.stage = NoStageYet].status = progress.status
        OBVIOUS
    <2> QED BY <1>3, <2>1 DEF DestroyStage, ConfigTypes, CatchesUp
<1>4. ASSUME NEW s \in StageIds, NEW n \in 0..MaxOrder, Reorder(s, n)
      PROVE  ConfigTypes' /\ CatchesUp(work, work', active', progress')
    BY <1>4 DEF Reorder, ConfigTypes, CatchesUp
<1>5. ASSUME NEW s \in StageIds, NEW dep \in StageIds,
             AddDependency(s, dep) \/ RemoveDependency(s, dep)
      PROVE  ConfigTypes' /\ CatchesUp(work, work', active', progress')
    BY <1>5 DEF AddDependency, RemoveDependency, ConfigTypes, CatchesUp
<1>6. ASSUME NEW s \in StageIds, CompleteStage(s)
      PROVE  ConfigTypes' /\ CatchesUp(work, work', active', progress')
    <2>1. /\ work' \in [StageIds -> {[status |-> "NONE", version |-> 0],
                                     [status |-> "APPROVED", version |-> 3]}]
          /\ work'[s].status = "APPROVED"
        BY <1>6 DEF CompleteStage, ConfigTypes
    <2>2. /\ active' = active /\ prerequisites' = prerequisites
          /\ progress' \in Stages!RecomputedGroups(work', Team, progress.status)
        BY <1>6 DEF CompleteStage
    <2>3. /\ progress'.status # "CANCELLED"
          /\ progress'.status = "COMPLETED" <=>
                active \subseteq {t \in StageIds : work'[t].status = "APPROVED"}
          /\ progress'.status # "COMPLETED" =>
                progress'.stage \in active /\ work'[progress'.stage].status = "NONE"
        BY <2>1, <2>2, Recomputed DEF ConfigTypes
    <2> QED BY <2>1, <2>2, <2>3 DEF ConfigTypes, CatchesUp
<1>7. CASE UNCHANGED configVars
    BY <1>7 DEF configVars, ConfigTypes, CatchesUp
<1> QED BY <1>1, <1>2, <1>3, <1>4, <1>5, <1>6, <1>7 DEF StagesNext

\* However the HOD edits the stages, and in whatever order they were approved:
\* while prerequisites are in use and form no cycle, a group with a stage to do
\* finds one unlocked.
THEOREM SomeStageUnlocked == StagesSpec => []GroupCanProceed
BY ConfigTypesInit, ConfigTypesStep, LowestOpenStage, PTL DEF StagesSpec

\* The transition after an edit writes the group's progress by the stages that
\* are in use then.
THEOREM ProgressAfterEdits == StagesSpec => ProgressCatchesUp
<1>1. CatchesUp(work, work', active', progress') =>
        [work' # work =>
            /\ (progress'.status = "COMPLETED") <=> (active' \subseteq {s \in StageIds :
                                                       work'[s].status = "APPROVED"})
            /\ progress'.status # "COMPLETED" =>
                  progress'.stage \in active' /\ work'[progress'.stage].status = "NONE"]_configVars
    BY DEF CatchesUp
<1> QED BY ConfigTypesInit, ConfigTypesStep, <1>1, PTL DEF StagesSpec, ProgressCatchesUp

-----------------------------------------------------------------------------
(* The seed command *)

\* A password or a criterion follows a row ensured earlier; the reviewer waits
\* for one that is.
FollowsAnother(i) ==
    Steps[i].test = "fresh" =>
        \E j \in 1..23 : j < i /\ Steps[j].test = "missing" /\ Steps[j].row = Steps[i].on

WaitsForAnother(i) ==
    Steps[i].test = "present" =>
        \E j \in 1..23 : Steps[j].test = "missing" /\ Steps[j].row = Steps[i].on

\* What the proof needs of the table of steps: a row that others follow or wait
\* for is itself ensured, before those that follow it, and the table ends with a
\* row that is ensured.
LEMMA StepsShape ==
    /\ Len(Steps) = 23
    /\ DOMAIN Steps = 1..23
    /\ Steps[23].test = "missing"
    /\ \A i \in 1..23 :
          /\ Steps[i].test \in {"missing", "fresh", "present"}
          /\ FollowsAnother(i) /\ WaitsForAnother(i)
<1>1. Len(Steps) = 23 /\ DOMAIN Steps = 1..23
    BY DEF Steps
<1>2. Steps[5].test = "fresh" /\ Steps[5].on = Steps[4].row
    BY DEF Steps, Ensure, Follow
<1>3. Steps[8].test = "fresh" /\ Steps[8].on = Steps[7].row
    BY DEF Steps, Ensure, Follow
<1>4. Steps[13].test = "present" /\ Steps[13].on = Steps[14].row
    BY DEF Steps, Ensure, Provided
<1>5. /\ Steps[19].test = "fresh" /\ Steps[19].on = Steps[18].row
      /\ Steps[20].test = "fresh" /\ Steps[20].on = Steps[18].row
    BY DEF Steps, Ensure, Follow
<1>6. /\ Steps[1].test = "missing" /\ Steps[2].test = "missing" /\ Steps[3].test = "missing"
      /\ Steps[4].test = "missing" /\ Steps[6].test = "missing" /\ Steps[7].test = "missing"
      /\ Steps[9].test = "missing" /\ Steps[10].test = "missing" /\ Steps[11].test = "missing"
      /\ Steps[12].test = "missing"
    BY DEF Steps, Ensure
<1>7. /\ Steps[14].test = "missing" /\ Steps[15].test = "missing" /\ Steps[16].test = "missing"
      /\ Steps[17].test = "missing" /\ Steps[18].test = "missing" /\ Steps[21].test = "missing"
      /\ Steps[22].test = "missing" /\ Steps[23].test = "missing"
    BY DEF Steps, Ensure
<1> HIDE DEF Steps
<1>8. ASSUME NEW i \in 1..23
      PROVE  /\ Steps[i].test \in {"missing", "fresh", "present"}
             /\ FollowsAnother(i) /\ WaitsForAnother(i)
    <2>1. CASE i \notin {5, 8, 13, 19, 20}
        BY <2>1, <1>6, <1>7 DEF FollowsAnother, WaitsForAnother
    <2>2. CASE i = 5
        BY <2>2, <1>2, <1>6 DEF FollowsAnother, WaitsForAnother
    <2>3. CASE i = 8
        BY <2>3, <1>3, <1>6 DEF FollowsAnother, WaitsForAnother
    <2>4. CASE i = 13
        BY <2>4, <1>4, <1>7 DEF FollowsAnother, WaitsForAnother
    <2>5. CASE i = 19 \/ i = 20
        BY <2>5, <1>5, <1>7 DEF FollowsAnother, WaitsForAnother
    <2> QED BY <2>1, <2>2, <2>3, <2>4, <2>5
<1> QED BY <1>1, <1>7, <1>8

\* What a row of the table left behind, once the run is past it.
Done(s, passed) ==
    /\ s.test = "missing" /\ (passed \/ seeded > 0) => s.row \in rows
    /\ s.test = "fresh" /\ runs = 1 /\ passed => s.row \in rows
    /\ s.test = "present" =>
          \/ seeded = 0
          \/ seeded = 1 /\ ~(passed /\ step < 24)
          \/ s.row \in rows

\* The first run created every row there is, and whatever it passed; after a
\* whole run every ensured row is there, and each later run adds what waited.
SeedInv ==
    /\ step \in 1..24 /\ runs \in Nat \ {0} /\ seeded \in Nat
    /\ runs = 1 => rows = fresh
    /\ runs = 1 /\ seeded > 0 => step = 24
    /\ \A i \in 1..23 : Done(Steps[i], i < step)

LEMMA SeedInvInit == SeedInit => SeedInv
BY DEF SeedInit, SeedInv, Done

LEMMA SeedInvStep == SeedInv /\ [SeedNext]_seedVars => SeedInv'
<1> SUFFICES ASSUME SeedInv, [SeedNext]_seedVars PROVE SeedInv'
    OBVIOUS
<1>1. CASE SeedStep
    <2> DEFINE s == Steps[step]
    <2>1. step \in 1..23 /\ step' = step + 1 /\ runs' = runs
        BY <1>1, StepsShape DEF SeedStep, SeedInv
    <2>2. seeded' = IF step = 23 THEN seeded + 1 ELSE seeded
        BY <1>1, StepsShape DEF SeedStep
    <2>3. rows \subseteq rows' /\ (runs = 1 => rows' = fresh')
        BY <1>1 DEF SeedStep, SeedInv
    <2>4. Wanted(s) => s.row \in rows'
        BY <1>1 DEF SeedStep
    <2>5. s.test = "missing" => s.row \in rows'
        BY <2>3, <2>4 DEF Wanted
    <2>6. ASSUME s.test = "fresh", runs = 1 PROVE s.row \in rows'
        <3>1. PICK j \in 1..23 : j < step /\ Steps[j].test = "missing" /\ Steps[j].row = s.on
            BY <2>1, <2>6, StepsShape DEF FollowsAnother
        <3>2. Done(Steps[j], TRUE)
            BY <3>1 DEF SeedInv
        <3>3. s.on \in rows /\ rows = fresh
            BY <2>6, <3>1, <3>2 DEF Done, SeedInv
        <3> QED BY <2>3, <2>4, <2>6, <3>3 DEF Wanted
    <2>7. ASSUME s.test = "present", seeded > 0 PROVE s.row \in rows'
        <3>1. PICK j \in 1..23 : Steps[j].test = "missing" /\ Steps[j].row = s.on
            BY <2>1, <2>7, StepsShape DEF WaitsForAnother
        <3>2. Done(Steps[j], j < step)
            BY DEF SeedInv
        <3>3. s.on \in rows
            BY <2>7, <3>1, <3>2 DEF Done
        <3> QED BY <2>3, <2>4, <2>7, <3>3 DEF Wanted
    <2> HIDE DEF s
    <2>8. /\ seeded \in Nat /\ step' \in 1..24 /\ runs' \in Nat \ {0} /\ seeded' \in Nat
          /\ runs' = 1 => rows' = fresh'
          /\ runs' = 1 /\ seeded' > 0 => step' = 24
        BY <2>1, <2>2, <2>3 DEF SeedInv
    <2>9. ASSUME NEW i \in 1..23 PROVE Done(Steps[i], i < step)'
        <3>1. PICK x : x = Steps[i]
            OBVIOUS
        <3>2. /\ Done(x, i < step) /\ x.test \in {"missing", "fresh", "present"}
              /\ i = step => x = s
            BY <3>1, StepsShape DEF SeedInv, s
        <3>3. CASE x.test = "missing"
            <4>1. i < step \/ seeded > 0 => x.row \in rows'
                BY <2>3, <3>2, <3>3 DEF Done
            <4>2. i = step => x.row \in rows'
                BY <2>5, <3>2, <3>3
            <4>3. i < step' \/ seeded' > 0 => i < step \/ seeded > 0 \/ i = step
                BY <2>1, <2>2, <2>8
            <4> QED BY <3>1, <3>3, <4>1, <4>2, <4>3 DEF Done
        <3>4. CASE x.test = "fresh"
            <4>1. runs' = 1 /\ i < step' => x.row \in rows'
                BY <2>1, <2>3, <2>6, <3>2, <3>4 DEF Done, SeedInv
            <4> QED BY <3>1, <3>4, <4>1 DEF Done
        <3>5. CASE x.test = "present"
            <4>1. seeded > 0 /\ i = step => x.row \in rows'
                BY <2>7, <3>2, <3>5
            <4>2. step < 24 /\ seeded > 0 /\ (seeded = 1 => i < step) => x.row \in rows'
                BY <2>3, <2>8, <3>2, <3>5 DEF Done
            <4>3. \/ seeded' = 0
                  \/ seeded' = 1 /\ ~(i < step' /\ step' < 24)
                  \/ x.row \in rows'
                BY <2>1, <2>2, <2>8, <4>1, <4>2
            <4> QED BY <3>1, <3>5, <4>3 DEF Done
        <3> QED BY <3>2, <3>3, <3>4, <3>5
    <2> QED BY <2>8, <2>9 DEF SeedInv
<1>2. CASE Restart
    <2>1. ASSUME NEW i \in 1..23 PROVE Done(Steps[i], i < step)'
        <3>1. PICK x : x = Steps[i]
            OBVIOUS
        <3>2. Done(x, i < step) /\ ~(i < step')
            BY <1>2, <3>1 DEF Restart, SeedInv
        <3>3. Done(x, i < step)'
            BY <1>2, <3>2 DEF Restart, SeedInv, Done
        <3> QED BY <3>1, <3>3
    <2> QED BY <1>2, <2>1 DEF Restart, SeedInv
<1>3. CASE UNCHANGED seedVars
    BY <1>3 DEF seedVars, SeedInv, Done
<1> QED BY <1>1, <1>2, <1>3 DEF SeedNext

\* However often seed died, a run of it that ends leaves no row out but those
\* only the run that created another row adds, and what waits for a stage.
THEOREM SeedCompletes == SeedSpec => []SeedConverges
<1>1. SeedInv => SeedConverges
    BY StepsShape DEF SeedInv, Done, SeedConverges
<1> QED BY SeedInvInit, SeedInvStep, <1>1, PTL DEF SeedSpec
=============================================================================
