--------------------------- MODULE ReviewRequests ---------------------------
(***************************************************************************)
(* The requests on a review, several at a time:                            *)
(*   Load    get_object reads the review row into memory, and the guards   *)
(*           look at the user and the row                                  *)
(*   Work    the guards that read the marks; a mark is written and the     *)
(*           totals are summed over the marks visible then                 *)
(*   Commit  the review row is updated and all of it becomes visible       *)
(* On PostgreSQL a mark is locked from its write to the commit             *)
(* (update_or_create selects it for update), and correct_mark, which       *)
(* saves the status before it sums, holds the review row as well.  A PATCH *)
(* changes the date or the remark and writes the other columns back as it  *)
(* loaded them; one that sets status, totals, rubric, reviewer,            *)
(* assignment, stage or group is left out, as in Reviews.                  *)
(***************************************************************************)
EXTENDS Reviews, Transactions

CONSTANT ReviewOpsOf  \* the operations each worker is asked for

reviewRequestVars == <<reviewVars, engine, req>>

ReviewOps == {"enter_mark", "submit", "finalize", "request_correction",
              "correct_mark", "patch"}

MarkOps == {"enter_mark", "correct_mark"}

ASSUME ReviewOpsAssumption == ReviewOpsOf \in [Workers -> SUBSET ReviewOps]

ReviewRequestsInit == ReviewsInit /\ TransactionsInit

\* The guards of the service that look at the user and at the row in memory; a
\* request they refuse writes nothing and is left out.
Admits(u, op, r) ==
    CASE op = "enter_mark" -> ActsAsReviewer(u) /\ review[r].status # "FINALIZED"
      [] op \in {"submit", "finalize"} -> ActsAsReviewer(u)
      [] op = "request_correction" -> u \in HODs /\ review[r].status = "FINALIZED"
      [] op = "correct_mark" ->
             u \in HODs /\ review[r].status \in {"CORRECTION_REQUESTED", "CORRECTED"}
      [] op = "patch" -> TRUE

LoadReview(w, op, r, c, n) ==
    /\ op \in ReviewOpsOf[w]
    /\ review[r].status # "NONE"
    /\ \E u \in Faculty \cup HODs : Sees(u, r) /\ Admits(u, op, r)
    /\ IF op \in MarkOps
       THEN c \in rubric /\ n <= MaxMarks[c]
       ELSE c = (CHOOSE d \in Criteria : TRUE) /\ n = 0  \* not in the request
    /\ Begin(w, [pc |-> "loaded", op |-> op, review |-> r, criterion |-> c, mark |-> n,
                 mem |-> IF op = "patch" THEN review[r] ELSE NoReview])
    /\ UNCHANGED reviewVars

\* The guards that read the tables again.
StillAdmits(t) ==
    CASE t.op \in {"submit", "finalize"} -> Complete(t.review)
      [] t.op = "correct_mark" ->
             /\ marks[t.review][t.criterion] # Unmarked
             /\ Len(corrections[t.review]) < MaxCorrections
      [] OTHER -> TRUE

\* Row locks: one request at a time works on a mark, or corrects a review.
WorksAlone(w) ==
    \A v \in Workers \ {w} : req[v].pc = "worked" /\ req[v].review = req[w].review =>
        /\ req[w].op \in MarkOps /\ req[v].op \in MarkOps =>
              req[w].criterion # req[v].criterion
        /\ ~(req[w].op = "correct_mark" /\ req[v].op = "correct_mark")

Corrected(totals) ==
    [status |-> "CORRECTED", max |-> totals.max, obtained |-> totals.obtained]

\* Mutant: enter_mark saves total_obtained alone.
ForgetsMaximum(t) ==
    LET seen == [marks[t.review] EXCEPT ![t.criterion] = t.mark]
    IN  CASE t.op = "enter_mark" -> [obtained |-> Totals(seen).obtained]
          [] t.op = "correct_mark" -> Corrected(Totals(seen))
          [] t.op = "submit" -> [status |-> "SUBMITTED"]
          [] t.op = "finalize" -> [status |-> "FINALIZED"]
          [] t.op = "request_correction" -> [status |-> "CORRECTION_REQUESTED"]
          [] t.op = "patch" -> t.mem

\* The columns of the review row a request writes: save(update_fields) names
\* them, the serializer's save writes all, from memory.
ReviewWrites(t) ==
    LET seen == [marks[t.review] EXCEPT ![t.criterion] = t.mark]
    IN  CASE t.op = "enter_mark" -> Totals(seen)
          [] t.op = "correct_mark" -> Corrected(Totals(seen))
          [] t.op = "submit" -> [status |-> "SUBMITTED"]
          [] t.op = "finalize" -> [status |-> "FINALIZED"]
          [] t.op = "request_correction" -> [status |-> "CORRECTION_REQUESTED"]
          [] t.op = "patch" -> t.mem  \* with another date or remark

WorkOnReview(w) ==
    LET t == req[w]
    IN  /\ t.pc = "loaded"
        /\ StillAdmits(t)
        /\ engine = "postgresql" => WorksAlone(w)
        /\ Proceed(w, [pc |-> "worked", op |-> t.op, review |-> t.review,
                       criterion |-> t.criterion, mark |-> t.mark,
                       row |-> ReviewWrites(t)])
        /\ UNCHANGED reviewVars

\* An UPDATE of the review row waits for a correction that holds it.
ReviewRowFree(w) ==
    \A v \in Workers \ {w} :
        ~(req[v].pc = "worked" /\ req[v].op = "correct_mark" /\ req[v].review = req[w].review)

\* The columns that are saved, over those of the row.
Saved(written, row) ==
    [column \in DOMAIN row |->
        IF column \in DOMAIN written THEN written[column] ELSE row[column]]

\* Of a review deleted meanwhile nothing can be updated, and no mark refer to
\* it; the serializer's save inserts the row again.
CommitReview(w) ==
    LET t == req[w]
        r == t.review
    IN  /\ t.pc = "worked"
        /\ MayCommit(w)
        /\ ReviewRowFree(w)
        /\ t.op # "patch" => review[r].status # "NONE"
        /\ review' = [review EXCEPT ![r] = Saved(t.row, @)]
        /\ marks' = IF t.op \in MarkOps THEN [marks EXCEPT ![r][t.criterion] = t.mark]
                    ELSE marks
        /\ corrections' = IF t.op = "correct_mark"
                          THEN [corrections EXCEPT ![r] = Append(@,
                                  [criterion |-> t.criterion, new |-> t.mark])]
                          ELSE corrections
        /\ Finish(w)
        /\ UNCHANGED <<reviewer, assigned, rubric>>

\* Requests that read nothing they depend on later; a new review is a new row,
\* of which no request has anything in memory.
SingleStatement ==
    /\ engine = "sqlite" => \A w \in Workers : ~Busy(w)
    /\ \/ AssessmentStep
       \/ \E u \in Faculty \cup HODs, r \in ReviewIds :
             \/ CreateReview(u, r) /\ \A w \in Workers : Busy(w) => req[w].review # r
             \/ DestroyReview(u, r)
    /\ UNCHANGED req

ReviewRequestsNext ==
    \/ SingleStatement
    \/ \E w \in Workers :
          \/ \E op \in ReviewOps, r \in ReviewIds, c \in Criteria,
                n \in UNION {0..MaxMarks[d] : d \in Criteria} :
                LoadReview(w, op, r, c, n)
          \/ WorkOnReview(w)
          \/ CommitReview(w)
          \/ RollBack(w) /\ UNCHANGED reviewVars

ReviewRequestsSpec ==
    ReviewRequestsInit /\ [][ReviewRequestsNext /\ UNCHANGED engine]_reviewRequestVars

-----------------------------------------------------------------------------
(* Properties *)

\* On SQLite, whatever requests overlap, reviews and marks change as if each
\* request had run alone.
ReviewsSerializable ==
    [][engine = "sqlite" /\ reviewVars' # reviewVars => ReviewsNext]_reviewVars

\* However two requests interleave, and whichever total is lost, a total never
\* exceeds the maximum printed beside it.
TotalsPlausible ==
    \A r \in ReviewIds : 0 <= review[r].obtained /\ review[r].obtained <= review[r].max
=============================================================================
