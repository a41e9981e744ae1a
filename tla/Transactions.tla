---------------------------- MODULE Transactions ----------------------------
(***************************************************************************)
(* A request is one transaction (ATOMIC_REQUESTS).  SubmissionRequests     *)
(* models the locks of the two databases step by step; here only what they *)
(* let one request see of another is left.  A request loads rows into      *)
(* memory, works on them, and its writes become visible when it commits:   *)
(*   sqlite      only while no other request runs                          *)
(*   postgresql  whatever others do, up to the row locks each module names *)
(* A request may end without writing at any step: refused by a guard (422),*)
(* by a constraint, a lock or a time-out (500), or by a crash of its       *)
(* worker.                                                                 *)
(***************************************************************************)
CONSTANT Workers  \* requests in progress at once

VARIABLES
    engine,  \* the database, "sqlite" or "postgresql", fixed for a behaviour
    req      \* what each worker's request has in memory

Idle == [pc |-> "idle"]

TransactionsInit ==
    /\ engine \in {"sqlite", "postgresql"}
    /\ req = [w \in Workers |-> Idle]

Busy(w) == req[w].pc # "idle"

Begin(w, memory) == ~Busy(w) /\ req' = [req EXCEPT ![w] = memory]

Proceed(w, memory) == req' = [req EXCEPT ![w] = memory]

\* Mutant: a writer commits while others still read.
CommitsAnyTime(w) == TRUE

MayCommit(w) == engine = "sqlite" => \A v \in Workers \ {w} : ~Busy(v)

Finish(w) == req' = [req EXCEPT ![w] = Idle]

RollBack(w) == Busy(w) /\ Finish(w)
=============================================================================
