# Formal model of BE LogBook

BE LogBook (`be_logbook/`, Django and Django REST Framework) keeps the log book of a
final-year engineering project: student groups hand in submissions stage by stage, a
guide reviews and approves them, reviewers give marks, and a final PDF is generated when
everything is approved. This directory holds TLA+ modules of it, TLC configurations that
check them on small instances, and TLAPS proofs for all instances.

## 1. Inventory

| Component | State | Operations | What makes it correct | Hard part |
| --- | --- | --- | --- | --- |
| Workflow (`workflow/`) | `Stage`, `StageDependency`; writes `status`, `current_stage` of the group | `is_stage_unlocked`, `recompute_group_status`; CRUD of stages by the HOD | a stage opens only after its prerequisites; the group's progress follows from its submissions | progress is a copy, renewed by some requests only; configuration edits recompute nothing; cycles are accepted |
| Submissions (`submissions/`) | `Submission` (status, version_number, data, current_approved_version), `SubmissionVersion`, `Approval`, `ChangeRequest` | `create`, `save_draft`, `submit`, `begin_review`, `request_changes`, `approve`, `lock`; inherited PUT, PATCH, DELETE | status, counter, snapshots and decisions agree; an approval is final and names handed-in work | four tables per transition; RESUBMITTED is editable; the inherited endpoints run no service code |
| Requests (`ATOMIC_REQUESTS`, all views) | the rows each request has in memory | load, check, write, commit or roll back | concurrent requests act as if one after another; each is answered | guards look at memory, almost nothing is locked; depends on the database |
| Reviews (`reviews/`, `assessments/`) | `Review` (status, totals), `ReviewMark`, `ReviewMarkCorrection`, `Rubric` | create, enter mark, submit, finalize, request correction, correct, delete; the rubric grows | totals are the sum of marks; a finalized mark changes only with a correction row | `submit` and `finalize` have no status guard; totals are recomputed from what one request sees |
| Groups (`groups/`) | `ProjectGroup`, `GroupMembership`, `GuideAssignment`, `ReviewAssignment` | add and remove member, assign guide and reviewer; CRUD of reviewer assignments | one active group per student, one active guide per group, one reviewer per stage | check, then insert; two UPDATE-then-INSERT at once |
| Projects (`projects/`) | `Project` (guide) and its forms | CRUD, `sync_guide` | guide equals the active guide | synced in one direction, at one moment; a PATCH saves it from memory |
| Documents (`documents/`) | `Document`, `DocumentVersion`, files | upload, replace, PATCH, DELETE | one ACTIVE document per type; a version per upload; no row without a file | files are outside the transaction; versions counted in memory |
| Log book (`logbook/`) | `GeneratedLogBook`, files | validate, generate, download; placement on the template's pages | generated from approved data only; versions unique; every value in a place of its own | looks texts up in the template; reads six tables, then renders for seconds; nothing keeps them still |
| Academics (`academics/`) | `AcademicYear.is_active` | save, delete | one active year | two saves at once |
| CO/PO (`co_po/`) | none kept | `compute_for_review`, `compute_for_group` | weighted averages of finalized marks | zero weights and maxima; nothing refuses a negative weight |
| Users (`users/`) | `User`, profiles | create student, create faculty, generic CRUD | an e-mail and an id name one person | two look-ups, two INSERTs; case |
| Reports (`reports/`) | none | progress, overdue groups, workload | agree with the submissions they are about | mix the stored status with counts |
| Seed (`users/management/commands/seed.py`) | the rows there are | `get_or_create` of each | run again after a death, it completes what is missing | no transaction; `created` flags in memory |
| Access (`utils/access.py`) | none | who lists, sees, edits, decides | only members, guides, reviewers and the HOD act | two sets of queries, which differ in places |
| Notifications, Audit | appended rows | create, mark read | | nothing reads them |

The components interact through the database alone. Submissions asks Workflow whether a
stage is unlocked before an edit, and calls `recompute_group_status` at the end of each
transition; that reads all submissions of the group and writes the group row. The log
book's gate reads stages, submissions, reviews and documents; CO/PO reads the marks of
finalized reviews; assigning a guide writes the project. Celery only sends e-mail. There
is no retry, no timeout of the program's own and no state outside the database but the
uploaded and generated files.

`PROJECT.json` lists the hazards at their lines.

## 2. Modules

| Module | What it is |
| --- | --- |
| `Workflow` | the stage gate and `recompute_group_status`, as operators over the submission table |
| `Submissions` | the tables and one action per request, each request atomic: `Spec` has the services and the create view, `FullSpec` adds the inherited update and delete endpoints |
| `ReviewRounds`, `SubmissionsRefinement` | the abstract specification (per submission, whose turn it is and a history that only grows) and the mapping under which `Submissions` implements it |
| `SubmissionRequests` | the same requests taken apart, several workers at a time, over the locks of SQLite or PostgreSQL |
| `Transactions` | the short form of that for the other components: what a request may see of another |
| `Reviews`, `ReviewRequests` | reviews, marks, corrections and their assignments: atomic, and taken apart |
| `Groups` | members, guide and reviewers, and the project's guide, with overlapping requests |
| `Documents` | uploads over the rows and the file store |
| `LogBook` | composes `Submissions`, `Reviews` and the project's forms with the gate and the generation, on SQLite |
| `LogBookPages` | which value the book prints where |
| `StageConfiguration` | the HOD's edits of stages and dependencies, over an INSTANCE of `Workflow` |
| `AcademicYears`, `Accounts` | `AcademicYear.save`; accounts and profiles |
| `Attainment`, `Reports` | the CO/PO averages over `Reviews`; the dashboard over `Submissions` |
| `Seed` | the seed command, dying and run again |
| `MC...` | instances for TLC |
| `...Proofs` | theorems, in eight modules: section 4 |

How state corresponds to the code:

* **Submissions.** A *slot* is a (group, stage, section) triple. The unique constraint on
  `Submission` allows one row per slot, so `sub` is a function from slots to rows, with
  status `NONE` for no row. `versions[s]`, `approvals[s]`, `changeRequests[s]` are the rows
  that refer to it; `group[g]` is the pair of columns the workflow writes. Moving a row to
  another slot takes those rows along; deleting it cascades. `version` 0 stands for no row,
  `approved` 0 for a null `current_approved_version`.
* `recompute_group_status` orders stages by `display_order` and submissions by
  `version_number`, and neither is unique: on a tie the database may return either row,
  so `CurrentStages` and `LatestStatuses` are sets and the model takes any member.
* **Reviews.** `review[r]` is the row, `marks[r]` a function from criteria to obtained
  marks, `reviewer` and `assigned` the holders of the stage's assignments, active and of any
  kind. `max_marks` of a mark copies the criterion's.
* **Groups.** The guide and the reviewer of each stage are *posts*; `assignments[g][p]` are
  the rows of a post, oldest first. `project[g]` is `Project.guide`, or `NoProject`. A
  deleted assignment is kept as an inactive one, which no query tells apart.
* **Documents.** A file is a number never reused; the copy kept for a version counts as one
  file with the document's. A document's key is its type, group, project and owner.
* **LogBook.** `books` are the version numbers filed, oldest first; `forms` says which of
  the things the gate asks for (members with names, the report, the final submission) are
  there. A generation is `CheckBook`, `NumberBook`, `FileBook`; all else is `OtherRequest`,
  one step that finds no generation under way. That is what SQLite gives: the overlapping
  requests there implement the atomic ones of `Submissions` and `Reviews`
  (`AtomicServices`, `SqliteSerializes`). On PostgreSQL they do not (`stale_review`), so that
  an approval the gate saw may be taken back, and nothing is claimed of books.
* **LogBookPages.** A place is a page, an anchor text and its occurrence or row. `Runs` is
  the template: how many of a page's text runs contain an anchor. A value is drawn where
  `find_anchor` finds its occurrence, and otherwise not at all.
* Contents of a submission are members of a set `Data`; who may act on a submission is
  given by `Editors` and `Deciders`. Timestamps, remarks, audit rows and notifications are
  left out: they are written in the same transaction and no modelled step reads them.

**The database.** `config/settings/base.py:52-59` configures SQLite and production
inherits it; `README.md:34`, the compose files and a comment in `config/settings/test.py`
name PostgreSQL. What overlapping requests can do to each other depends on it, so both are
checked. On SQLite (Django's deferred transactions, rollback journal) a request holds a
read lock on the file from its first SELECT, there is one writer, a writer commits only
when the readers have gone, and a reader that then wants to write is refused at once. On
PostgreSQL (READ COMMITTED) an UPDATE waits for its row only, and what was read before may
be stale.

`SubmissionRequests` models these locks: `Load` (`get_object`), `Write` (the guards, over
the row in memory, the UPDATE and the INSERTs), `ReadProgress` (the queries of
`recompute_group_status`) and `Commit`; a request ends without a trace when a guard
refuses it (`Reject`), when the unique constraint on versions does (`Fail`) or when SQLite
is locked (`LockedOut`, `CommitTimeout`). DELETE and PATCHes of a slot are not among the
interleaved requests.

`Transactions` keeps only what the locks let one request see of another, which
`requests_sqlite` shows for submissions: the `engine` is chosen in the initial state, a
request loads, works and commits, its writes become visible when it commits, and on SQLite
it commits only while no other request runs. `RollBack` may end a request at any step: a
422, a constraint, a lock, a crash of its worker. Requests of one statement are one step,
which on SQLite finds no other request running. Row locks and constraints that matter are
guards of the actions that meet them (`WorksAlone`, `CommitAssign`, `Clash`...).

## 3. Runs

| Run | Instance | Shows |
| --- | --- | --- |
| `service` | `Spec`; scope *groups*: 2 groups, 2 ordered stages, the first with 2 sections; scope *contents*: 2 stages, 2 contents; `MaxVersion` 5 | the stage gate, the group's progress, the dashboard, final approvals, and the refinement of `ReviewRounds` |
| `full` | `FullSpec`; 2 slots of one stage; `MaxVersion` 6 | status, numbering, decisions and snapshots agree, with moves, deletes and PATCHes |
| `requests_sqlite` | a student's and a decider's worker, PATCHes included, 2 independent stages, 2 contents; `MaxVersion` 3 | concurrent requests implement the atomic ones (`FullSpec`); every request ends |
| `requests_postgresql` | two workers with any service call on one row; `MaxVersion` 5 | the unique constraint alone keeps versions in order; every request ends |
| `requests_one_decider` | PostgreSQL; two student workers, one decider, 2 ordered stages; `MaxVersion` 4 | with one decider at a time approvals stand and name handed-in work |
| `logbook` | scope *book*: 1 stage, 1 review with 2 required criteria, 2 generations at once, SQLite, fixed rubric; scope *review*: the review alone, the rubric grows | on SQLite a book covers the required stages, is filed from final data and numbered; totals follow the marks |
| `records` | in each behaviour one component: reviews, members, guides, reviewers, documents, years, stages, seed, accounts, members' pages, tables' pages; 2 workers, both databases | the properties of those components below |
| `patched` (violated) | `FullSpec` | PATCH changes an approved submission |
| `group_status` (violated) | `Spec` | a group is given a status that is not a choice of its field |
| `stale_review` (violated) | PostgreSQL | a stale `begin_review` overwrites a decision |
| `silent_correction` (violated) | as `logbook` | a requested correction is entered as an ordinary mark, without a correction row |
| `no_guide` (violated) | as `logbook` | a project without a guide makes the gate raise instead of answer |

What `records` checks, by component:

* *reviews*: on SQLite overlapping requests change reviews as atomic ones do
  (`ReviewsSerializable`); whatever a race loses, totals stay plausible; the attainment is
  a percentage, 100 % only for full marks, with a weight of 0 and a maximum of 0 in play,
  as long as no weight of the outcome is negative.
* *groups*: one active group per student on SQLite; a post never becomes empty by a race,
  and on either database never has two holders; the project's guide stays in step with the
  assignments on SQLite.
* *documents*: a row always has its file; on SQLite a document shows its newest version, and
  an upload adds only the one document of its key.
* *years, accounts*: one active year; no second account for an e-mail in other case.
* *stages*: a feasible configuration always leaves a group a stage to work on, and the next
  transition repairs what an edit left stale.
* *seed*: a run that ends leaves nothing missing that a later run would have added.
* *pages*: no two values in one place; the fields of each of the first four members are
  together, as far as the template has their anchors. Who is named in the undertaking is
  not claimed.

**Bounds.** `MaxVersion` bounds `version_number`: three versions reach a first decision,
five a second round with its decision, six one hand-in more. Two stages, one needing the
other, give both answers of the gate; two sections give a stage whose rows disagree; a
second group shows that nothing leaks between groups. Requests race in pairs: each guard
compares one memory with one committed row; a third worker is in `requests_one_decider`.
`MaxMarks` gives one criterion one mark and the other none (`records`) or two (`logbook`),
so that totals differ from counts; `MaxCorrections` 1 lets a correction end a round;
`MaxBooks` 2 and two generations let two books take one number; `MaxAssignments` 2 rows
suffice for two assignments to race; `MaxFiles` 3 for a first upload and two replacements;
three years let two activations find a third active; three stages with `MaxOrder` 1 give
chains, cycles and ties; `MaxRuns` 3 a death, a second death and a run that ends;
`MaxListed` 5 one member more than has a page;
`Runs` is the template of the repository. The behaviours of `records` write different
tables, so that nothing is lost by checking each on its own (reviewer assignments are in
`Reviews` and in `Groups`, seen from each side); `LogBook` checks the composition of
components that read one another's tables. Deadlock is not checked where the program really stops at a bound
(`Submissions`, `records`); it is checked for `SubmissionRequests` and `LogBook`.

**Fairness.** `RequestsEnd` assumes that the server goes on with each request it accepted
(weak fairness of `ReadProgress` and `Commit`) and that a lock that is free again and
again is granted (strong fairness of `Work`): PostgreSQL queues the waiters of a row lock,
and on SQLite no request waits to write. Nothing is assumed of users, and no other module
states fairness: nothing in them has to happen.

**Findings.** The five violated runs. `patched`, `group_status`, `silent_correction`
(`reviews/services.py:39-43` tests for two statuses and raises for one) and `no_guide`
(`logbook/validation.py:31` reads `active_guide_id`, which no model defines) hold on any
database. `stale_review` needs PostgreSQL: `requests_sqlite` shows that SQLite's locks, not
the services' guards, exclude it today.

**Seen, but not claimed by a run**, because no property of the model is about it or no text
of the repository says otherwise:

* `groups/views.py` uses `User` in four endpoints without importing it; the model takes
  `GroupService` as the seed command and the tests call it.
* `users/services.py:100` (`set_active`) saves `updated_at`, which `User` does not have.
* `seed.py:58` tests `has_usable_password`, true of the empty password, so the HOD's is
  never set.
* `utils/access.py:62` says that a HOD sees the groups of the department; any HOD sees all.
* The lists of reviews and documents show some rows that the detail checks refuse:
  `documents/views.py:37` lists the documents a user owns, `utils/access.py:107` refuses them
  to who left the group.
* `status`, the totals, `rubric`, `reviewer`, `assignment`, `stage` and `group` are writable
  in `ReviewSerializer`.
* Weights may be negative (`assessments/serializers.py:40`): 2 and -1 on one outcome, full
  marks and none, make an attainment of 200 %, and 1 and -1 make one of 0.
* The undertaking looks for member 2 at the second text run that contains "2."
  (`logbook/template_mapping.py:242`), and so on. The template has each number once, so that
  only the first student is named; `README.md:101` lists "student names".
* `find_anchor` looks for a text within one run. In the template the second "Email ID:" of
  page 4, "Proposed Project Topic 1:" and "Reviewer 2:" of page 7 are shown in pieces, each
  a text object of its own: where pypdf reports these as separate runs, the fourth member's
  e-mail, the topic and the second reviewer's name are not printed there.
* A removed student cannot rejoin the same group.
* `DISTINCT` over reviewers ordered by `assigned_at` may print a reviewer twice.
* CORRECTED reviews count for the attainment but block the log book.
* A resubmitted row may be saved again without a snapshot, so that what the guide reviews
  is in no version; one approved section satisfies a stage.

## 4. Proofs

All theorems hold for every set of groups, rows, stages, criteria, workers and so on and for
every value of the bounds. What they assume of the constants:

* the named assumptions of the modules: types of the constants; finitely many criteria,
  reviews and stages (they are rows of tables), because totals and averages are sums over
  them and a first open stage is a least one;
* for `AttainmentBounded`, within the property, that no weight of the outcome is negative;
* for `CurrentStageUnlocked`, within the property, `OrderedConfig`: prerequisites are active
  and come first. The code checks neither, and `GroupCanProceed` says what is left without;
* where a theorem says so, `Engine = "sqlite"`, `NoPatches` (only service requests are among
  those in progress) or `SingleDecider` (at most one worker runs the guides' requests).
  Properties of the other components name the engine in their own text.

Every invariant and action property that a passing run checks is the subject of a theorem.
Besides, several invariants that no run lists (`CancelledIsFinal`, `VersionsImmutable`,
`FinalizedMarksStand`, `HandedInComplete`, `CorrectedHasCorrection`, `DocVersionsDistinct`,
 `AccountsDistinct`, the type invariants) are proved, which says more
than a run would.

**`SubmissionsProofs`**: `FullSpec => []IInv` with `IInv == TypeOK /\ Histories`.
`Histories` says of each slot, through `HistoryOK(row, versions, decisions)`, the five
things the run `full` checks. They are not inductive one by one: that a decision is filed
under handed-in work needs the newest snapshot to carry the status the row had
(`StatusOK`), which needs the newest snapshot to be number `version_number`
(`Contiguous`); that no version is decided twice needs each decision to be followed by its
own snapshot (`DecisionsOK`), so that every decided version is older than the row. Because
`HistoryOK` speaks of one row and what refers to it, there is one lemma per way a request
changes these (`SubmitHistory`, `DecisionHistory`, ...), `OneSlotChanges` lifts it to the
tables, and each action has one lemma `...Keeps`.

**`SubmissionProgressProofs`**: `Spec => []ProgressInv`. Every step of `Spec` changes one
row or one group (`StepShape`) and no service takes an approval back, so a satisfied stage
stays satisfied (`SatisfiedStays`): unlocked stages stay unlocked and open stages only
become fewer. With what a recomputation writes (`CurrentIsUnlocked`, which is where
`OrderedConfig` is needed, and `CompletedHasNoOpenStage`) this gives the stage gate, the
current stage, `CompletedIsApproved` and `GroupShowsSubmission` (the shown row stays one of
the highest `version_number` of its stage, because what recomputes nothing, an edit or a new
draft, gives no row a higher number: `Edited`, `RowVersion`); three action properties
(`ApprovalFinal`, `KeptVersions`, `CancellationFinal`) follow step by step. They hold of
`Spec` only: a PATCH of the stage, or a DELETE, breaks them.

**`SubmissionRefinementProofs`** has the refinements below and above `Submissions`, and the
dashboard.

* *Overlapping requests on SQLite.* A commit is an atomic request if what the request has
  in memory is what the tables hold. That is inductive as `CurrentInv`: a request in
  progress has the row and the group's status of the tables (`Current`); one past its UPDATE
  was admitted by the tables, is about to write what its operation leaves of the row
  (`RowWritten`), and has recomputed the group from them (`ProgressRead`). It stays so because
  tables change at a commit only and SQLite lets one commit only when no other request is
  under way (`TablesChangeAlone`). Hence `AtomicRequests`: `RSpec` implements `FullSpec`; and
  `AtomicServices`: without PATCH it implements `Spec`. All that is proved of the atomic
  requests therefore holds of the overlapping ones, which `OverlappingHistories`,
  `OverlappingProgress` and `OverlappingReviewRounds` spell out.
* *Overlapping requests on either database.* `NumbersInv` is what remains when memory may be
  stale: a row in memory is no newer than the table's, and a transition past its UPDATE
  started from the newest version, since an older one would take a number that exists
  (`FreeNumberIsNext`: the unique constraint on versions is the only guard). It gives
  `OverlappingVersions`. With one decider at a time, `OneDeciderInv` adds that the status in
  memory is that of the row or lags by one of the two steps without a snapshot (`Follows`),
  which gives `OverlappingDecisions` and `OverlappingApprovals`. With two deciders both fail,
  as the run `stale_review` shows.
* *Rounds.* `ReviewRoundsImplemented`: under the mapping of `SubmissionsRefinement` each step
  of `Spec` is a step of `ReviewRounds` or a stutter. `Returned` strengthens `IInv`: a RESUBMITTED
  row keeps the snapshot with which it was returned.
* *Dashboard.* `DashboardAgrees` needs `ProgressInv` and `StageStarted`: a group with a
  current stage has started, as a recomputation follows a request and so finds a row.

**`ReviewsProofs`**. `ReviewInv` adds to the types that a review without a row has no marks
(`NoneUnmarked`, so that a new review's zero totals are right), that a CORRECTED review has
a correction, and `TotalsMatchMarks`. The rest is about overlapping requests:

* `PlausibleAlways`, on either database: a race may lose a mark from the totals, but both
  totals are sums over one set of marks that were there at one time, and are saved together;
  so what a request is about to save never makes a plausible row implausible (`Harmless`, of
  every row it may meet).
* `SqliteSerializes`: `SqliteInv` says that what a request read still holds (`Current`), so
  that its commit is the atomic request, column by column of what it saves. So the
  invariants of the atomic requests carry over (`OverlappingTotals`).
* `AttainmentBounded`: obtained marks are bounded by the maxima criterion by criterion, hence
  so are weighted sums (`SumBounds`) and their quotients (`FractionBounds`), also when
  weights or maxima are 0; equality of the sums gives equality of each.
* Totals and averages are folds over finite sets. The library's rules of induction take an
  operator, which the provers cannot instantiate; its fact that strict inclusion is
  well-founded on finite sets is first order, and from it `SetInduction` and `PickInduction`
  derive what the sums need: a fold exists, is typed, and adds up element by element.

**`GroupsProofs`**: `GroupInv` has the types of the tables and of what each request
remembers, and `OneActiveHolder`, which the constraint in `CommitAssign` and the
reviewer endpoints each keep, on either database; a guide is never lost (`GuideKept`) because
whoever ends a row inserts one. `MemberInv` adds, on SQLite, `FreshAdds`: what `add_member`
checked is still so while its request runs, because nobody else commits meanwhile; that
makes one group per student inductive. `SyncInv` likewise keeps `FreshPatches`, the project
a PATCH has in memory, which gives `GuideSynced`.

**`DocumentsProofs`**: `DocInv` has the rows, the files, and of each request's memory that
its file and the files of the row it loaded exist: that is why a PATCH that inserts a deleted
row again leaves no row without a file. `DocSqliteInv` adds `FreshMemories` (a request's
row is the table's) and `Newest`; from it, `UploadsAlone` as a property of steps.

**`AdministrationProofs`**: academic years and accounts, where on SQLite what the UPDATE, or
the look-up of the e-mail, saw is still so at the commit (`FreshUpdate`,
`EmailsStillFree`); the stages (`SomeStageUnlocked`: among the open stages of a feasible
configuration one of lowest order has no open prerequisite; `ProgressAfterEdits`: the next
transition writes the progress by the stages then in use); the seed command (`SeedInv`: what
an interrupted run left out, and each later run may add, by the step it died at).

**`LogBookProofs`**: `LogBookInv` composes `IInv` and `ReviewInv` with what a generation
checked, on SQLite. That the required stages are covered follows from the atomic services:
none takes an approval back, so `MissingStages = {}` stays (`StagesStayCovered`). That the
data is final and the number is the next one needs that no other request commits before the
book is filed (`StillPassed`).
`BookPagesAgree`: whatever the template is, the places of any number of members and of the
rows of any table are distinct, and the fields of the first four members that are found are
together.

Model-checked only: `RequestsEnd`, as the prover does not reach liveness under fairness; and
the five disagreements of the violated runs, which are counterexamples.

## 5. Not modelled

* Notifications and audit rows: appended, read by nothing; e-mail is fire-and-forget.
* Authentication, settings, migrations, templates, the Django admin but for the cancellation
  of a group.
* `FacultyRemark`, `StudentActivity`, `StageDeadline` and the plain rows of departments,
  terms, outcomes and most project forms: no modelled step reads them, or only whether they
  are there.
* Creation, deletion and change of department of a group; edits of a profile; `set_active`.
* A PATCH of a review's `status`, totals, `rubric`, `reviewer`, `assignment`, `stage` or
  `group`: it may write any value, and the properties of reviews do not survive it.
* What each user's lists and detail views show: queries that keep no state.
* The log book on PostgreSQL.
* Validation of uploads (size, type, permission); fonts and coordinates of the PDF, and its
  pages with one value per anchor that does not depend on a list.
* `snapshot_for_group`, `get_current_stage`, `compute_current_stage`: no code calls them.
