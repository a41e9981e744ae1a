-------------------------------- MODULE Seed --------------------------------
(***************************************************************************)
(* The management command seed, which may die at any row and be run again. *)
(* It opens no transaction, so each row is committed as it is created.     *)
(***************************************************************************)
EXTENDS Naturals, Sequences

CONSTANT MaxRuns  \* bound on the times the command is started

VARIABLES
    rows,    \* the rows there are
    fresh,   \* those this run created: the `created` flags it has in memory
    step,    \* the step it is at
    runs,    \* the times it was started
    seeded   \* the runs that came to the end

seedVars == <<rows, fresh, step, runs, seeded>>

-----------------------------------------------------------------------------
\* get_or_create, or a create behind a test that the row is missing.
Ensure(row) == [row |-> row, test |-> "missing", on |-> row]

\* Done only if this run created another row: a password, the second criterion.
Follow(row, other) == [row |-> row, test |-> "fresh", on |-> other]

\* Done only if another row exists by now.
Provided(row, other) == [row |-> row, test |-> "present", on |-> other]

\* One of several alike (students, stages, outcomes) stands for all.  The HOD's
\* password is missing: has_usable_password is true of the empty one, so that
\* seed never sets it.
Steps == <<
    Ensure("department"), Ensure("year"), Ensure("hod"),
    Ensure("guide"), Follow("guide password", "guide"), Ensure("guide profile"),
    Ensure("student"), Follow("student password", "student"), Ensure("student profile"),
    Ensure("group"), Ensure("membership"), Ensure("guide assignment"),
    Provided("reviewer assignment", "stage"),
    Ensure("stage"), Ensure("dependency"), Ensure("section"),
    Ensure("rubric"), Ensure("criterion 1"),
    Follow("criterion 2", "criterion 1"), Follow("criterion 3", "criterion 1"),
    Ensure("outcome"), Ensure("project"), Ensure("project guide")>>

SeedInit ==
    /\ rows = {}
    /\ fresh = {}
    /\ step = 1
    /\ runs = 1
    /\ seeded = 0

\* Mutant: the flag of an earlier run is trusted, nothing is looked up.
WantedOnce(s) == seeded = 0 /\ runs = 1

Wanted(s) ==
    /\ s.row \notin rows
    /\ s.test = "fresh" => s.on \in fresh
    /\ s.test = "present" => s.on \in rows

SeedStep ==
    /\ step <= Len(Steps)
    /\ IF Wanted(Steps[step])
       THEN rows' = rows \cup {Steps[step].row} /\ fresh' = fresh \cup {Steps[step].row}
       ELSE UNCHANGED <<rows, fresh>>
    /\ step' = step + 1
    /\ seeded' = IF step = Len(Steps) THEN seeded + 1 ELSE seeded
    /\ UNCHANGED runs

\* The command is started again, after it ended or died.
Restart ==
    /\ runs < MaxRuns
    /\ step > 1
    /\ step' = 1
    /\ fresh' = {}
    /\ runs' = runs + 1
    /\ UNCHANGED <<rows, seeded>>

SeedNext == SeedStep \/ Restart

SeedSpec == SeedInit /\ [][SeedNext]_seedVars

-----------------------------------------------------------------------------
(* Properties *)

\* Once a run comes to its end, however many died before it, every row is there
\* that some run could still find missing: all but a password, or a criterion,
\* whose run died between it and the row it follows, and the reviewer, who is
\* assigned before there is a stage to review and so needs a second run.
SeedConverges ==
    seeded > 0 =>
        \A i \in DOMAIN Steps :
            \/ Steps[i].row \in rows
            \/ Steps[i].test = "fresh" /\ runs > 1
            \/ Steps[i].test = "present" /\ seeded = 1
=============================================================================
