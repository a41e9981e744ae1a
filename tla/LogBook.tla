------------------------------ MODULE LogBook -------------------------------
(***************************************************************************)
(* be_logbook/logbook: the eligibility gate and the generation of the book *)
(* of one project, over the tables of Submissions and Reviews.  A          *)
(* generation reads for seconds while it renders, and is taken apart:      *)
(*   Check    LogBookValidationService.validate, then assembly and layout  *)
(*   Number   the count of the project's books                             *)
(*   File     the INSERT of the book and the commit                        *)
(* The requests it runs beside are those of the two services, each one     *)
(* step.  That is what they amount to on SQLite (AtomicServices and        *)
(* SqliteSerializes, proved of SubmissionRequests and ReviewRequests), so  *)
(* the module is about SQLite alone.  On PostgreSQL they overlap, and a    *)
(* begin_review that loaded its row before the approval takes the approval *)
(* back (run stale_review): no claim is made there.  The generic PATCH and *)
(* DELETE of a submission are not among the requests.                      *)
(* The group always has an active guide (Guide); the project's guide is a  *)
(* copy, see Groups.  Its title cannot be empty.                           *)
(***************************************************************************)
EXTENDS Submissions, Reviews, Transactions

CONSTANTS
    RequiredStages,  \* the stages with required
    BookGroup,       \* the group of the project
    MaxBooks         \* bound on the books of the project

ASSUME LogBookAssumption == RequiredStages \subseteq Stages /\ BookGroup \in Groups

VARIABLES
    project,  \* "none", or whether Project.guide is set: "unguided", "guided"
    forms,    \* what else the gate asks for and is there
    books     \* logbook_generatedlogbook: the versions, oldest first

bookVars == <<project, forms, books>>

logBookVars == <<vars, reviewVars, bookVars, engine, req>>

-----------------------------------------------------------------------------
\* Active members with names and roll numbers, an ACTIVE REPORT document, and
\* final_submission.submitted.
Forms == {"members", "report", "final submission"}

LogBookInit ==
    /\ Init
    /\ ReviewsInit
    /\ TransactionsInit
    /\ engine = "sqlite"
    /\ project = "none"
    /\ forms = {}
    /\ books = << >>

\* Mutant: the stages are not consulted.
NoStagesMissing == {}

\* _check_stages
MissingStages ==
    {st \in ActiveStages \cap RequiredStages : ~IsStageSatisfied(sub, BookGroup, st)}

\* Mutant: only drafts are pending.
DraftReviews == {r \in ReviewIds : review[r].status = "DRAFT"}

\* _check_reviews: a group without reviews has none pending.
PendingReviews ==
    {r \in ReviewIds : review[r].status \in {"DRAFT", "SUBMITTED", "CORRECTION_REQUESTED",
                                             "CORRECTED"}}

\* validate, and what the view answers for it.  The guide is looked for on the
\* project and then in group.active_guide_id, which no model defines.
GateAnswer ==
    IF project = "unguided" THEN "server error"
    ELSE IF MissingStages = {} /\ PendingReviews = {} /\ forms = Forms THEN "passed"
    ELSE "missing items"

-----------------------------------------------------------------------------
(* LogBookPDFService.generate *)

CheckBook(w) ==
    /\ project # "none"
    /\ GateAnswer = "passed"
    /\ Begin(w, [pc |-> "checked"])
    /\ UNCHANGED <<vars, reviewVars, bookVars>>

NumberBook(w) ==
    /\ req[w].pc = "checked"
    /\ Proceed(w, [pc |-> "numbered", version |-> Len(books) + 1])
    /\ UNCHANGED <<vars, reviewVars, bookVars>>

\* No constraint keeps two books of a project from having one number.
FileBook(w) ==
    /\ req[w].pc = "numbered"
    /\ MayCommit(w)
    /\ Len(books) < MaxBooks
    /\ books' = Append(books, req[w].version)
    /\ Finish(w)
    /\ UNCHANGED <<vars, reviewVars, project, forms>>

-----------------------------------------------------------------------------
(* The project and its forms *)

\* POST /projects/, without a guide.
OpenProject == project = "none" /\ project' = "unguided" /\ UNCHANGED <<forms, books>>

\* assign_guide, whose sync_guide finds a project.
GuideProject == project = "unguided" /\ project' = "guided" /\ UNCHANGED <<forms, books>>

Provide(form) == form \notin forms /\ forms' = forms \cup {form} /\ UNCHANGED <<project, books>>

Withdraw(form) == form \in forms /\ forms' = forms \ {form} /\ UNCHANGED <<project, books>>

FormsStep ==
    \/ OpenProject
    \/ GuideProject
    \/ \E form \in Forms : Provide(form) \/ Withdraw(form)

\* Any other request: it commits while no generation holds its read lock.
OtherRequest ==
    /\ \A w \in Workers : ~Busy(w)
    /\ \/ Next /\ UNCHANGED <<reviewVars, bookVars>>
       \/ ReviewsNext /\ UNCHANGED <<vars, bookVars>>
       \/ FormsStep /\ UNCHANGED <<vars, reviewVars>>
    /\ UNCHANGED req

LogBookNext ==
    /\ \/ OtherRequest
       \/ \E w \in Workers :
             \/ CheckBook(w)
             \/ NumberBook(w)
             \/ FileBook(w)
             \/ RollBack(w) /\ UNCHANGED <<vars, reviewVars, bookVars>>
    /\ UNCHANGED engine

LogBookSpec == LogBookInit /\ [][LogBookNext]_logBookVars

-----------------------------------------------------------------------------
(* Properties *)

\* Where there is a book, each required stage has an approved submission: on
\* SQLite, an approval that the gate saw is taken back by no request of the
\* services, neither while the book is rendered nor later.
BooksCoverStages ==
    books # << >> =>
        \A st \in ActiveStages \cap RequiredStages : \E s \in SlotsOf(BookGroup) :
            StageOf[s] = st /\ sub[s].status \in {"APPROVED", "LOCKED"}

\* On SQLite the reviews are final and the forms complete not only when they
\* are checked, but still when the book is filed.
FiledFromFinalData ==
    [][books' # books =>
          /\ forms = Forms /\ project = "guided"
          /\ \A r \in ReviewIds : review[r].status \in {"NONE", "FINALIZED"}]_logBookVars

\* On SQLite the books of a project are numbered 1, 2, ..., so that `latest`
\* is the last one.
BooksNumbered == \A i \in DOMAIN books : books[i] = i

-----------------------------------------------------------------------------
(* What the README says of the endpoint, and the code does not do           *)

\* "Returns {success, ...} or 422 with {success:false, missing_items}."
GenerateAnswers == project # "none" => GateAnswer \in {"passed", "missing items"}
=============================================================================
