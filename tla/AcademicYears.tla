--------------------------- MODULE AcademicYears ----------------------------
(***************************************************************************)
(* be_logbook/academics: AcademicYear.save, which deactivates the other    *)
(* years when it saves an active one, under concurrent requests.           *)
(***************************************************************************)
EXTENDS Transactions, FiniteSets

CONSTANT Years  \* AcademicYear rows there may be

VARIABLE
    years  \* academics_academicyear: "active", "inactive", or "none" without a row

yearRequestVars == <<years, engine, req>>

YearState == {"none", "active", "inactive"}

YearsInit ==
    /\ years = [y \in Years |-> "none"]
    /\ TransactionsInit

\* POST begins without a row, PUT and PATCH with the row as it is.
LoadYear(w, y) ==
    /\ Begin(w, [pc |-> "loaded", year |-> y, state |-> years[y]])
    /\ UNCHANGED years

\* Mutant: the other years stay as they are.
DeactivateNone(w, state) ==
    /\ req[w].pc = "loaded"
    /\ Proceed(w, [pc |-> "saved", year |-> req[w].year, state |-> state, others |-> {}])
    /\ UNCHANGED years

\* The UPDATE of the other active years, those it sees.  The request sets
\* is_active, or keeps what it has in memory.
DeactivateOthers(w, state) ==
    LET t == req[w]
    IN  /\ t.pc = "loaded"
        /\ Proceed(w, [pc |-> "saved", year |-> t.year, state |-> state,
               others |-> IF state = "active"
                          THEN {y \in Years \ {t.year} : years[y] = "active"} ELSE {}])
        /\ UNCHANGED years

CommitYear(w) ==
    LET t == req[w]
    IN  /\ t.pc = "saved"
        /\ MayCommit(w)
        /\ years' = [y \in Years |-> IF y = t.year THEN t.state
                                     ELSE IF y \in t.others THEN "inactive" ELSE years[y]]
        /\ Finish(w)

\* DELETE, refused (PROTECT) while groups or rubrics refer to the year.
DestroyYear(y) ==
    /\ engine = "sqlite" => \A w \in Workers : ~Busy(w)
    /\ \A w \in Workers : Busy(w) => req[w].year # y
    /\ years[y] # "none"
    /\ years' = [years EXCEPT ![y] = "none"]
    /\ UNCHANGED req

YearsNext ==
    \/ \E y \in Years : DestroyYear(y)
    \/ \E w \in Workers :
          \/ \E y \in Years : LoadYear(w, y)
          \/ \E state \in YearState \ {"none"} : DeactivateOthers(w, state)
          \/ CommitYear(w)
          \/ RollBack(w) /\ UNCHANGED years

YearsSpec == YearsInit /\ [][YearsNext /\ UNCHANGED engine]_yearRequestVars

-----------------------------------------------------------------------------
(* Properties *)

\* "Only one active academic year at a time", which on SQLite holds for any
\* number of requests: what the UPDATE saw is still so at the commit.
OneActiveYear ==
    engine = "sqlite" =>
        \A y, z \in Years : years[y] = "active" /\ years[z] = "active" => y = z
=============================================================================
