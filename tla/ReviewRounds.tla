---------------------------- MODULE ReviewRounds ----------------------------
(***************************************************************************)
(* What be_logbook/submissions promises of every submission, with nothing  *)
(* of how: students and their guide take turns, each hand-over is kept in  *)
(* a history that only grows, a verdict is given on work that was handed   *)
(* in, and an acceptance ends the exchange.  SubmissionsRefinement shows   *)
(* that the tables of Submissions implement it.                            *)
(***************************************************************************)
EXTENDS Naturals, Sequences

CONSTANT Works  \* the submissions

VARIABLES
    turn,     \* per work, whose move it is
    history   \* per work, the moves on record

rounds == <<turn, history>>

Turns == {"none", "students", "queue", "guide", "accepted", "sealed"}
Moves == {"handed in", "returned", "accepted"}

Init ==
    /\ turn = [w \in Works |-> "none"]
    /\ history = [w \in Works |-> << >>]

Pass(w, from, to) == turn[w] \in from /\ turn' = [turn EXCEPT ![w] = to]

Record(w, move) == history' = [history EXCEPT ![w] = Append(@, move)]

Open(w) == Pass(w, {"none"}, "students") /\ UNCHANGED history

\* Work that was returned once may be handed in again while it waits.
HandIn(w) ==
    /\ turn[w] = "queue" => \E i \in DOMAIN history[w] : history[w][i] = "returned"
    /\ Pass(w, {"students", "queue"}, "queue")
    /\ Record(w, "handed in")

TakeUp(w) == Pass(w, {"queue"}, "guide") /\ UNCHANGED history

Return(w) == Pass(w, {"guide"}, "students") /\ Record(w, "returned")

Accept(w) == Pass(w, {"guide"}, "accepted") /\ Record(w, "accepted")

Seal(w) == Pass(w, {"accepted"}, "sealed") /\ UNCHANGED history

Next ==
    \E w \in Works :
        Open(w) \/ HandIn(w) \/ TakeUp(w) \/ Return(w) \/ Accept(w) \/ Seal(w)

Spec == Init /\ [][Next]_rounds
=============================================================================
