------------------------- MODULE SubmissionRequests -------------------------
(***************************************************************************)
(* The requests of SubmissionViewSet as the workers of the web server run  *)
(* them, several at a time, over the tables of Submissions.  A request is  *)
(* one transaction (ATOMIC_REQUESTS) and no query of the code takes a lock *)
(* (no select_for_update):                                                 *)
(*   Load          get_object reads the row and its group into memory      *)
(*   Write         the guards look at the row in memory, and at fresh      *)
(*                 reads for the prerequisites; the UPDATE of the row      *)
(*                 writes the named columns from memory                    *)
(*   ReadProgress  recompute_group_status reads the committed rows and its *)
(*                 own write                                               *)
(*   Commit        the group row is saved and the transaction is visible   *)
(* A worker whose guard fails answers 422; one whose statement the         *)
(* database refuses answers 500: either way nothing is written.            *)
(*                                                                         *)
(* What one request can see of another is up to the database.  The         *)
(* settings name SQLite (base.py), the README and the compose files name   *)
(* PostgreSQL, so Engine is a parameter:                                   *)
(*   sqlite      Django's deferred transactions on a rollback journal: a   *)
(*               read lock on the whole file from the first SELECT to the  *)
(*               end, one writer, who waits for the readers to commit; a   *)
(*               reader who then wants to write is refused at once         *)
(*   postgresql  READ COMMITTED: an UPDATE waits for the lock of its row,  *)
(*               reads wait for nothing                                    *)
(***************************************************************************)
EXTENDS Submissions

CONSTANTS
    Workers,  \* requests in progress at once
    OpsOf,    \* the operations each worker is asked for
    Engine    \* "sqlite" or "postgresql"

VARIABLE txn  \* what each worker's request has in memory

rvars == <<vars, txn>>

Ops == {"save_draft", "submit", "begin_review", "request_changes", "approve",
        "lock", "update"}

StudentOps == {"save_draft", "submit"}
SnapshotOps == {"submit", "request_changes", "approve"}
RecomputeOps == {"submit", "begin_review", "request_changes", "approve", "lock"}

ASSUME WorkersAssumption == OpsOf \in [Workers -> SUBSET Ops]

ASSUME EngineAssumption == Engine \in {"sqlite", "postgresql"}

RInit ==
    /\ Init
    /\ txn = [w \in Workers |-> [pc |-> "idle"]]

Busy(w) == txn[w].pc # "idle"

Writing(w) == txn[w].pc \in {"written", "computed"}

-----------------------------------------------------------------------------
(* The locks *)

\* May a request run its first SELECT?  On SQLite not while a writer waits to
\* commit.
MayRead ==
    Engine = "sqlite" => \A v \in Workers : txn[v].pc # "computed"

\* May w run its UPDATE of slot s?  SQLite has one writer; PostgreSQL one per
\* row, from the UPDATE to the end of the transaction.
MayWrite(w, s) ==
    \A v \in Workers \ {w} : Writing(v) => Engine = "postgresql" /\ txn[v].slot # s

\* Mutant: the writer commits while others still read.
CommitsPastReaders(w) == TRUE

\* May w commit?  On SQLite once no other request holds a read lock.
MayCommit(w) ==
    Engine = "sqlite" => \A v \in Workers \ {w} : ~Busy(v)

Finish(w) == txn' = [txn EXCEPT ![w] = [pc |-> "idle"]]

-----------------------------------------------------------------------------
\* The first POST for a slot: one INSERT, which the unique constraint
\* serializes; a POST for a row that exists behaves as save_draft.
CreateRow(u, s, d) ==
    /\ Engine = "sqlite" => \A w \in Workers : ~Busy(w)
    /\ sub[s].status = "NONE"
    /\ Create(u, s, d)
    /\ UNCHANGED txn

\* get_object, with select_related("group").
Load(w, op, s, d) ==
    /\ ~Busy(w)
    /\ MayRead
    /\ op \in OpsOf[w]
    /\ sub[s].status # "NONE"
    /\ op \in SnapshotOps => sub[s].version < MaxVersion
    /\ op \notin {"save_draft", "update"} => d = EmptyData  \* no data in the request
    /\ txn' = [txn EXCEPT ![w] =
           [pc |-> "loaded", op |-> op, slot |-> s, data |-> d, mem |-> sub[s],
            groupStatus |-> group[GroupOf[s]].status]]
    /\ UNCHANGED vars

\* The status each operation asks of the row in memory.
AdmittedStatus == [op \in Ops |->
    CASE op \in StudentOps -> AllowedEditStates
      [] op = "begin_review" -> {"SUBMITTED", "RESUBMITTED"}
      [] op \in {"request_changes", "approve"} -> {"UNDER_REVIEW"}
      [] op = "lock" -> {"APPROVED"}
      [] op = "update" -> SubmissionStatus]

\* Mutant: the version number is taken from the table, not from memory, so
\* that the unique constraint no longer notices a stale request.
SnapshotNumberFresh(t) == sub[t.slot].version + 1

SnapshotNumber(t) == t.mem.version + 1

\* _assert_can_edit and _assert_guide_or_hod, for the user of the request; a
\* PATCH asks neither.
Actors(t) ==
    IF t.op \in StudentOps THEN Editors[GroupOf[t.slot]] ELSE Deciders[GroupOf[t.slot]]

Admitted(t) ==
    /\ t.op # "update" => Actors(t) # {}
    /\ t.mem.status \in AdmittedStatus[t.op]
    /\ t.op \in StudentOps => Unlocked(t.slot)

\* 422: BusinessRuleViolation.
Reject(w) ==
    /\ txn[w].pc = "loaded"
    /\ ~Admitted(txn[w])
    /\ Finish(w)
    /\ UNCHANGED vars

\* Mutant: no unique constraint on (submission, version_number).
NoConstraint(t) == FALSE

Duplicate(t) == t.op \in SnapshotOps /\ SnapshotNumber(t) \in Numbers(t.slot)

\* Mutant: the request is tried again with what it has in memory.
FailRetries(w) ==
    /\ txn[w].pc = "loaded"
    /\ Admitted(txn[w])
    /\ MayWrite(w, txn[w].slot)
    /\ Duplicate(txn[w])
    /\ UNCHANGED rvars

\* 500: IntegrityError on uniq_submission_version, the transaction rolls back.
Fail(w) ==
    /\ txn[w].pc = "loaded"
    /\ Admitted(txn[w])
    /\ MayWrite(w, txn[w].slot)
    /\ Duplicate(txn[w])
    /\ Finish(w)
    /\ UNCHANGED vars

\* Mutant: the refused request waits for the writer and tries again.
LockedOutWaits(w) ==
    /\ Engine = "sqlite"
    /\ txn[w].pc = "loaded"
    /\ Admitted(txn[w])
    /\ ~MayWrite(w, txn[w].slot)
    /\ UNCHANGED rvars

\* 500: OperationalError "database is locked".  SQLite refuses a reader the
\* write lock another holds, since waiting for it would be a deadlock.
LockedOut(w) ==
    /\ Engine = "sqlite"
    /\ txn[w].pc = "loaded"
    /\ Admitted(txn[w])
    /\ ~MayWrite(w, txn[w].slot)
    /\ Finish(w)
    /\ UNCHANGED vars

DecisionOf(op) == IF op = "approve" THEN "APPROVED" ELSE "CHANGES_REQUIRED"

\* The status a transition leaves; from the row in memory, like the guards.
NewStatus(t) ==
    CASE t.op = "submit" -> IF t.mem.status = "DRAFT" THEN "SUBMITTED" ELSE "RESUBMITTED"
      [] t.op = "begin_review" -> "UNDER_REVIEW"
      [] t.op \in {"request_changes", "approve"} -> DecisionOf(t.op)
      [] t.op = "lock" -> "LOCKED"

\* The row after the UPDATEs of the request: save(update_fields) writes the
\* named columns over the committed row, the serializer's save all of them.
WrittenRow(t) ==
    LET old == sub[t.slot]
    IN  CASE t.op = "save_draft" -> [old EXCEPT !.data = t.data]
          [] t.op = "submit" -> [old EXCEPT !.data = t.mem.data, !.status = NewStatus(t),
                                            !.version = SnapshotNumber(t)]
          [] t.op \in {"begin_review", "lock"} -> [old EXCEPT !.status = NewStatus(t)]
          [] t.op = "request_changes" -> [old EXCEPT !.status = NewStatus(t),
                                                     !.version = SnapshotNumber(t)]
          [] t.op = "approve" -> [old EXCEPT !.status = NewStatus(t),
                                             !.version = SnapshotNumber(t),
                                             !.approved = t.mem.version]
          [] t.op = "update" -> [t.mem EXCEPT !.data = t.data]

Write(w) ==
    LET t == txn[w]
    IN  /\ t.pc = "loaded"
        /\ Admitted(t)
        /\ MayWrite(w, t.slot)
        /\ ~Duplicate(t)
        /\ txn' = [txn EXCEPT ![w] =
               [pc |-> IF t.op \in RecomputeOps THEN "written" ELSE "computed",
                op |-> t.op, slot |-> t.slot, mem |-> t.mem,
                groupStatus |-> t.groupStatus, row |-> WrittenRow(t),
                group |-> group[GroupOf[t.slot]]]]
        /\ UNCHANGED vars

\* recompute_group_status, before its save of the group row.
ReadProgress(w) ==
    LET t == txn[w]
    IN  /\ t.pc = "written"
        /\ \E new \in RecomputedGroups([sub EXCEPT ![t.slot] = t.row],
                                       GroupOf[t.slot], t.groupStatus) :
               txn' = [txn EXCEPT ![w] = [t EXCEPT !.pc = "computed", !.group = new]]
        /\ UNCHANGED vars

\* The rows become visible; the UPDATE of the group waits for no one, since a
\* transaction ends with its own.
Commit(w) ==
    LET t == txn[w]
        s == t.slot
    IN  /\ t.pc = "computed"
        /\ MayCommit(w)
        /\ sub' = [sub EXCEPT ![s] = t.row]
        /\ versions' = IF t.op \in SnapshotOps
                       THEN [versions EXCEPT ![s] = @ \cup
                               {[number |-> t.row.version, status |-> t.row.status,
                                 data |-> t.mem.data]}]
                       ELSE versions
        /\ IF t.op \in {"request_changes", "approve"}
           THEN AddApproval(s, DecisionOf(t.op))
           ELSE UNCHANGED approvals
        /\ changeRequests' = IF t.op = "request_changes"
                             THEN [changeRequests EXCEPT ![s] = @ + 1]
                             ELSE changeRequests
        /\ group' = IF t.op \in RecomputeOps
                    THEN [group EXCEPT ![GroupOf[s]] = t.group]
                    ELSE group
        /\ Finish(w)

\* 500: the readers are still there when SQLite's busy timeout ends.
CommitTimeout(w) ==
    /\ txn[w].pc = "computed"
    /\ ~MayCommit(w)
    /\ Finish(w)
    /\ UNCHANGED vars

Work(w) == Write(w) \/ Fail(w) \/ LockedOut(w) \/ Reject(w)

RNext ==
    \/ \E s \in Slots, d \in Data : \E u \in Editors[GroupOf[s]] : CreateRow(u, s, d)
    \/ \E w \in Workers :
          \/ \E op \in Ops, s \in Slots, d \in Data : Load(w, op, s, d)
          \/ Work(w)
          \/ ReadProgress(w)
          \/ Commit(w)
          \/ CommitTimeout(w)

\* The server runs every request it accepted, and the lock manager grants a
\* row lock to each transaction that waits for it.
Fairness ==
    \A w \in Workers :
        /\ SF_rvars(Work(w))
        /\ WF_rvars(ReadProgress(w))
        /\ WF_rvars(Commit(w))

RSpec == RInit /\ [][RNext]_rvars /\ Fairness

-----------------------------------------------------------------------------
(* Properties *)

\* Every request is answered: no lock is held for ever, no two requests wait
\* for each other.
RequestsEnd == \A w \in Workers : Busy(w) ~> ~Busy(w)

\* Whatever requests run at once, the tables change as if each request had run
\* alone: the steps of FullSpec.
ImplementsAtomicRequests == FullSpec

\* An approval, once given, stands: the row stays approved or locked.
ApprovalStands ==
    [][\A s \in Slots :
          /\ sub[s].status \in ApprovedStates => sub'[s].status \in ApprovedStates
          /\ sub[s].status = "LOCKED" => sub'[s].status = "LOCKED"]_rvars

\* The transitions of SubmissionService.
Transitions == {<<"NONE", "DRAFT">>, <<"DRAFT", "SUBMITTED">>,
    <<"CHANGES_REQUIRED", "RESUBMITTED">>, <<"SUBMITTED", "UNDER_REVIEW">>,
    <<"RESUBMITTED", "UNDER_REVIEW">>, <<"UNDER_REVIEW", "CHANGES_REQUIRED">>,
    <<"UNDER_REVIEW", "APPROVED">>, <<"APPROVED", "LOCKED">>}

\* "All transitions are server-enforced": the status of a committed row moves
\* only along the transitions of SubmissionService.
TransitionsEnforced ==
    [][\A s \in Slots : sub[s].status # sub'[s].status =>
          <<sub[s].status, sub'[s].status>> \in Transitions]_rvars
=============================================================================
