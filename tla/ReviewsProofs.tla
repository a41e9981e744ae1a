---------------------------- MODULE ReviewsProofs ---------------------------
(***************************************************************************)
(* Proofs about Reviews, ReviewRequests and Attainment: first the services *)
(* as atomic steps, then requests that overlap, what they keep on either   *)
(* database and what SQLite adds, and the attainment of an outcome.        *)
(***************************************************************************)
EXTENDS ReviewRequests, Attainment, SequenceTheorems, FiniteSetTheorems, TLAPS

\* A row with its four columns; the totals are whatever Totals makes them.
ReviewRow(x) ==
    /\ x = [status |-> x.status, by |-> x.by, max |-> x.max, obtained |-> x.obtained]
    /\ x.status \in ReviewStatus \cup {"NONE"}
    /\ x.by \in Faculty \cup HODs \cup {NoOne}

AssignmentsOK ==
    reviewer \in Faculty \cup {NoOne} /\ assigned \subseteq Faculty /\ rubric \subseteq Criteria

RowsOK == DOMAIN review = ReviewIds /\ \A r \in ReviewIds : ReviewRow(review[r])

MarksOK ==
    /\ marks \in [ReviewIds -> [Criteria -> Int]]
    /\ \A r \in ReviewIds : \A c \in Criteria : marks[r][c] \in Mark(c)

CorrectionRow == [criterion: Criteria, new: Nat]

CorrectionsOK == corrections \in [ReviewIds -> Seq(CorrectionRow)]

\* A review that is not there has no marks, from which its totals start.
NoneUnmarked == \A r \in ReviewIds : review[r].status = "NONE" => marks[r] = NoMarks

ReviewInv ==
    /\ AssignmentsOK /\ RowsOK /\ MarksOK /\ CorrectionsOK /\ NoneUnmarked
    /\ CorrectedHasCorrection /\ TotalsMatchMarks

-----------------------------------------------------------------------------
(* Sums *)

\* What holds of a set when it holds of every smaller one holds of all.
LEMMA SetInduction ==
    ASSUME NEW S, IsFiniteSet(S), NEW good,
           \A T \in SUBSET S : (\A U \in SUBSET T : U # T => U \in good) => T \in good
    PROVE  \A T \in SUBSET S : T \in good
<1> DEFINE bad == {T \in SUBSET S : T \notin good}
<1>1. IsWellFoundedOn(StrictSubsetOrdering(S), SUBSET S)
    BY FS_StrictSubsetOrderingWellFounded, FS_FiniteSubsetsOfFinite
<1>2. bad \subseteq SUBSET S
    OBVIOUS
<1> SUFFICES ASSUME bad # {} PROVE FALSE
    OBVIOUS
<1>3. \E T \in bad : \A U \in bad : ~(<<U, T>> \in StrictSubsetOrdering(S))
    <2> HIDE DEF bad
    <2> QED BY <1>1, <1>2, WFMin
<1>4. PICK T \in bad : \A U \in bad : <<U, T>> \notin StrictSubsetOrdering(S)
    BY <1>3
<1>5. \A U \in SUBSET T : U # T => U \in good
    <2> SUFFICES ASSUME NEW U \in SUBSET T, U # T, U \notin good PROVE FALSE
        OBVIOUS
    <2>1. U \in bad
        OBVIOUS
    <2>2. <<U, T>> \in StrictSubsetOrdering(S)
        BY DEF StrictSubsetOrdering
    <2> QED BY <1>4, <2>1, <2>2
<1> QED BY <1>5

\* The element a fold over s takes first, and the rest.
Pick(s) == CHOOSE x \in s : TRUE

Rest(s) == s \ {Pick(s)}

LEMMA PickRest ==
    ASSUME NEW S, NEW s \in SUBSET S, s # {}
    PROVE  Pick(s) \in S /\ Rest(s) \in SUBSET s /\ Rest(s) \in SUBSET S /\ Rest(s) # s
BY DEF Pick, Rest

LEMMA PickInduction ==
    ASSUME NEW S, IsFiniteSet(S), NEW good, {} \in good,
           \A T \in SUBSET S : T # {} /\ Rest(T) \in good => T \in good
    PROVE  \A T \in SUBSET S : T \in good
<1>1. \A T \in SUBSET S : (\A U \in SUBSET T : U # T => U \in good) => T \in good
    BY PickRest
<1> QED BY <1>1, SetInduction

\* A fold over S: step takes an element and the result so far.
IsFold(g, step, base, S) ==
    /\ g = [s \in SUBSET S |-> g[s]]
    /\ g[{}] = base
    /\ \A s \in SUBSET S : s # {} => g[s] = step[<<Pick(s), g[Rest(s)]>>]

LEMMA FoldUnique ==
    ASSUME NEW S, IsFiniteSet(S), NEW step, NEW base, NEW T \in SUBSET S, NEW U \in SUBSET S,
           NEW g, NEW h, IsFold(g, step, base, T), IsFold(h, step, base, U)
    PROVE  \A t \in SUBSET T : t \in SUBSET U => g[t] = h[t]
<1> DEFINE good == {t \in SUBSET S : t \in SUBSET T /\ t \in SUBSET U => g[t] = h[t]}
<1>1. {} \in good
    BY DEF IsFold
<1>2. ASSUME NEW t \in SUBSET S, t # {}, Rest(t) \in good
      PROVE  t \in good
    <2> SUFFICES ASSUME t \in SUBSET T, t \in SUBSET U PROVE g[t] = h[t]
        OBVIOUS
    <2>1. g[Rest(t)] = h[Rest(t)]
        BY <1>2, PickRest
    <2> QED BY <1>2, <2>1 DEF IsFold
<1>3. \A t \in SUBSET S : t \in good
    <2> HIDE DEF good
    <2> QED BY <1>1, <1>2, PickInduction
<1> QED BY <1>3

\* A fold over a finite set is well defined.
LEMMA FoldExists ==
    ASSUME NEW S, IsFiniteSet(S), NEW step, NEW base
    PROVE  \E g : IsFold(g, step, base, S)
<1> DEFINE good == {T \in SUBSET S : \E g : IsFold(g, step, base, T)}
<1>1. ASSUME NEW T \in SUBSET S, \A U \in SUBSET T : U # T => U \in good
      PROVE  T \in good
    <2> DEFINE part(U) == CHOOSE g : IsFold(g, step, base, U)
               value(s) == IF s = {} THEN base ELSE step[<<Pick(s), part(Rest(s))[Rest(s)]>>]
               G == [s \in SUBSET T |-> value(s)]
    <2>1. ASSUME NEW U \in SUBSET T, U # T PROVE IsFold(part(U), step, base, U)
        <3>1. \E g : IsFold(g, step, base, U)
            BY <1>1, <2>1
        <3> QED BY <3>1
    <2>2. ASSUME NEW r \in SUBSET T, r # T PROVE G[r] = part(r)[r]
        <3>1. PICK p : p = part(r) /\ IsFold(p, step, base, r)
            BY <2>1, <2>2
        <3>2. CASE r = {}
            BY <3>1, <3>2 DEF IsFold
        <3>3. CASE r # {}
            <4>1. PICK q : q = Rest(r)
                OBVIOUS
            <4>2. q \in SUBSET r /\ q \in SUBSET T /\ q # T /\ q \in SUBSET q
                BY <2>2, <3>3, <4>1, PickRest
            <4>3. PICK h : h = part(q) /\ IsFold(h, step, base, q)
                BY <2>1, <4>2
            <4>4. p[q] = h[q]
                BY <3>1, <4>2, <4>3, FoldUnique
            <4>5. p[r] = step[<<Pick(r), p[q]>>]
                BY <3>1, <3>3, <4>1 DEF IsFold
            <4>6. value(r) = step[<<Pick(r), h[q]>>]
                <5> HIDE DEF part
                <5> QED BY <3>3, <4>1, <4>3
            <4> HIDE DEF part, value
            <4> QED BY <3>1, <4>4, <4>5, <4>6
        <3> QED BY <3>2, <3>3
    <2>3. \A s \in SUBSET T : s # {} => G[s] = step[<<Pick(s), G[Rest(s)]>>]
        <3> SUFFICES ASSUME NEW s \in SUBSET T, s # {}
                     PROVE  G[s] = step[<<Pick(s), G[Rest(s)]>>]
            OBVIOUS
        <3>1. G[Rest(s)] = part(Rest(s))[Rest(s)]
            <4>1. Pick(s) \in T /\ Rest(s) \in SUBSET T
                BY PickRest
            <4>2. Pick(s) \notin Rest(s)
                BY DEF Rest
            <4>3. Rest(s) # T
                BY <4>1, <4>2
            <4> HIDE DEF part, value, G
            <4> QED BY <2>2, <4>1, <4>3
        <3>2. value(s) = step[<<Pick(s), part(Rest(s))[Rest(s)]>>]
            <4> HIDE DEF part
            <4> QED OBVIOUS
        <3>3. G[s] = value(s)
            <4> HIDE DEF value
            <4> QED OBVIOUS
        <3> HIDE DEF part, value, G
        <3> QED BY <3>1, <3>2, <3>3
    <2>4. G = [s \in SUBSET T |-> G[s]] /\ G[{}] = base
        <3>1. value({}) = base
            OBVIOUS
        <3> HIDE DEF value
        <3> QED BY <3>1
    <2>5. IsFold(G, step, base, T)
        <3> HIDE DEF G
        <3> QED BY <2>3, <2>4 DEF IsFold
    <2> HIDE DEF G
    <2> QED BY <2>5
<1>2. \A T \in SUBSET S : T \in good
    <2> HIDE DEF good
    <2> QED BY <1>1, SetInduction
<1> QED BY <1>2

\* What the steps of a fold preserve holds of all its results.
LEMMA FoldStays ==
    ASSUME NEW S, IsFiniteSet(S), NEW Acc, NEW g, g = [s \in SUBSET S |-> g[s]], g[{}] \in Acc,
           \A s \in SUBSET S : s # {} /\ g[Rest(s)] \in Acc => g[s] \in Acc
    PROVE  g \in [SUBSET S -> Acc]
<1> DEFINE good == {s \in SUBSET S : g[s] \in Acc}
<1>1. {} \in good
    OBVIOUS
<1>2. \A s \in SUBSET S : s # {} /\ Rest(s) \in good => s \in good
    OBVIOUS
<1>3. \A s \in SUBSET S : s \in good
    <2> HIDE DEF good
    <2> QED BY <1>1, <1>2, PickInduction
<1> QED BY <1>3

LEMMA FoldTyped ==
    ASSUME NEW S, IsFiniteSet(S), NEW Acc, NEW base \in Acc, NEW step \in [S \X Acc -> Acc]
    PROVE  \E g \in [SUBSET S -> Acc] : IsFold(g, step, base, S)
<1>1. PICK g : IsFold(g, step, base, S)
    BY FoldExists
<1>2. g[{}] \in Acc
    BY <1>1 DEF IsFold
<1>3. \A s \in SUBSET S : s # {} /\ g[Rest(s)] \in Acc => g[s] \in Acc
    <2> SUFFICES ASSUME NEW s \in SUBSET S, s # {}, g[Rest(s)] \in Acc PROVE g[s] \in Acc
        OBVIOUS
    <2>1. <<Pick(s), g[Rest(s)]>> \in S \X Acc
        BY PickRest
    <2>2. g[s] = step[<<Pick(s), g[Rest(s)]>>]
        BY <1>1 DEF IsFold
    <2> QED BY <2>1, <2>2
<1>4. g \in [SUBSET S -> Acc]
    BY <1>1, <1>2, <1>3, FoldStays DEF IsFold
<1> QED BY <1>1, <1>4

\* The sums over the subsets of S.
IsSum(g, m, S) ==
    /\ g \in [SUBSET S -> Int]
    /\ g[{}] = 0
    /\ \A s \in SUBSET S : s # {} => g[s] = m[Pick(s)] + g[Rest(s)]

LEMMA SumDefined ==
    ASSUME NEW S, IsFiniteSet(S), NEW m, \A x \in S : m[x] \in Int
    PROVE  \E g : IsSum(g, m, S) /\ g[S] = SumFunctionOnSet(m, S)
<1> DEFINE Sums(it) == it = [s \in SUBSET S |-> IF s = {} THEN 0 ELSE m[Pick(s)] + it[Rest(s)]]
           it == CHOOSE g : Sums(g)
<1>1. \E g : Sums(g)
    <2> DEFINE step == [p \in S \X Int |-> m[p[1]] + p[2]]
    <2>1. step \in [S \X Int -> Int]
        OBVIOUS
    <2>2. PICK g \in [SUBSET S -> Int] : IsFold(g, step, 0, S)
        <3>1. 0 \in Int
            OBVIOUS
        <3> HIDE DEF step, it, Sums
        <3> QED BY <2>1, <3>1, FoldTyped
    <2>3. \A s \in SUBSET S : s # {} => g[s] = m[Pick(s)] + g[Rest(s)]
        BY <2>2, PickRest DEF IsFold
    <2>4. g[{}] = 0
        BY <2>2 DEF IsFold
    <2> HIDE DEF step
    <2> QED BY <2>3, <2>4
<1>2. Sums(it)
    <2> HIDE DEF Sums
    <2> QED BY <1>1
<1>3. it[{}] = 0
    <2> HIDE DEF it
    <2> QED BY <1>2
<1>4. \A s \in SUBSET S : s # {} => it[s] = m[Pick(s)] + it[Rest(s)]
    <2> HIDE DEF it
    <2> QED BY <1>2
<1>5. it \in [SUBSET S -> Int]
    <2>1. it = [s \in SUBSET S |-> it[s]]
        <3> HIDE DEF it
        <3> QED BY <1>2
    <2>2. it[{}] \in Int
        <3> HIDE DEF it, Sums
        <3> QED BY <1>3
    <2>3. \A s \in SUBSET S : s # {} /\ it[Rest(s)] \in Int => it[s] \in Int
        <3> HIDE DEF it, Sums
        <3> QED BY <1>4, PickRest
    <2> HIDE DEF it, Sums
    <2> QED BY <2>1, <2>2, <2>3, FoldStays
<1>6. it[S] = SumFunctionOnSet(m, S)
    BY DEF SumFunctionOnSet, FoldFunctionOnSet, MapThenFoldSet, Pick, Rest
<1> HIDE DEF it
<1> QED BY <1>3, <1>4, <1>5, <1>6 DEF IsSum

\* A sum of terms that are at most k times others is at most k times their sum,
\* and k times it only where each term is.
LEMMA SumBounds ==
    ASSUME NEW S, IsFiniteSet(S), NEW m, NEW n, NEW k \in Int,
           \A x \in S : m[x] \in Int /\ n[x] \in Int /\ 0 <= m[x] /\ m[x] <= k * n[x]
    PROVE  /\ SumFunctionOnSet(m, S) \in Int /\ SumFunctionOnSet(n, S) \in Int
           /\ 0 <= SumFunctionOnSet(m, S) /\ SumFunctionOnSet(m, S) <= k * SumFunctionOnSet(n, S)
           /\ SumFunctionOnSet(m, S) = k * SumFunctionOnSet(n, S) => \A x \in S : m[x] = k * n[x]
<1>1. PICK g : IsSum(g, m, S) /\ g[S] = SumFunctionOnSet(m, S)
    BY SumDefined
<1>2. PICK h : IsSum(h, n, S) /\ h[S] = SumFunctionOnSet(n, S)
    BY SumDefined
<1> DEFINE good == {s \in SUBSET S : /\ 0 <= g[s] /\ g[s] <= k * h[s]
                                     /\ g[s] = k * h[s] => \A x \in s : m[x] = k * n[x]}
<1>3. {} \in good
    BY <1>1, <1>2 DEF IsSum
<1>4. ASSUME NEW s \in SUBSET S, s # {}, Rest(s) \in good PROVE s \in good
    <2>1. Pick(s) \in S /\ Rest(s) \in SUBSET S
        BY <1>4, PickRest
    <2>2. g[s] = m[Pick(s)] + g[Rest(s)] /\ h[s] = n[Pick(s)] + h[Rest(s)]
        BY <1>1, <1>2, <1>4 DEF IsSum
    <2>3. PICK a, b, c, d \in Int :
              a = m[Pick(s)] /\ b = n[Pick(s)] /\ c = g[Rest(s)] /\ d = h[Rest(s)]
        BY <1>1, <1>2, <2>1 DEF IsSum
    <2>4. 0 <= a /\ a <= k * b /\ 0 <= c /\ c <= k * d
        BY <1>4, <2>1, <2>3
    <2>5. k * (b + d) = k * b + k * d
        BY <2>3
    <2>6. g[s] = a + c /\ k * h[s] = k * b + k * d
        BY <2>2, <2>3, <2>5
    <2>7. k * b \in Int /\ k * d \in Int
        OBVIOUS
    <2>8. 0 <= g[s] /\ g[s] <= k * h[s]
        BY <2>4, <2>6, <2>7
    <2>9. ASSUME g[s] = k * h[s] PROVE \A x \in s : m[x] = k * n[x]
        <3>1. a = k * b /\ c = k * d
            BY <2>4, <2>6, <2>7, <2>9
        <3>2. \A x \in Rest(s) : m[x] = k * n[x]
            BY <1>4, <2>3, <3>1
        <3> QED BY <2>3, <3>1, <3>2 DEF Rest
    <2> QED BY <2>8, <2>9
<1>5. \A s \in SUBSET S : s \in good
    <2> HIDE DEF good
    <2> QED BY <1>3, <1>4, PickInduction
<1> QED BY <1>1, <1>2, <1>5 DEF IsSum

\* A sum over no criterion.
LEMMA EmptySum == ASSUME NEW m PROVE SumFunctionOnSet(m, {}) = 0
<1>1. PICK g : IsSum(g, m, {}) /\ g[{}] = SumFunctionOnSet(m, {})
    BY SumDefined, FS_EmptySet
<1> QED BY <1>1 DEF IsSum

LEMMA NoTotals == Totals(NoMarks) = [max |-> 0, obtained |-> 0]
<1>1. {c \in Criteria : NoMarks[c] # Unmarked} = {}
    BY DEF NoMarks
<1>2. SumFunctionOnSet(MaxMarks, {}) = 0
    BY EmptySum
<1>3. SumFunctionOnSet(NoMarks, {}) = 0
    BY EmptySum
<1> QED BY <1>1, <1>2, <1>3 DEF Totals

LEMMA TotalsShape ==
    ASSUME NEW m
    PROVE  Totals(m) = [max |-> Totals(m).max, obtained |-> Totals(m).obtained]
BY DEF Totals

LEMMA TotalsOfRow ==
    ASSUME NEW x, ReviewRow(x), NEW m
    PROVE  /\ ReviewRow(WithTotals(x, m))
           /\ WithTotals(x, m).status = x.status
           /\ [max |-> WithTotals(x, m).max, obtained |-> WithTotals(x, m).obtained] = Totals(m)
<1>1. PICK a, b : a = Totals(m).max /\ b = Totals(m).obtained
    OBVIOUS
<1>2. Totals(m) = [max |-> a, obtained |-> b]
    BY <1>1, TotalsShape
<1>3. WithTotals(x, m) = [status |-> x.status, by |-> x.by, max |-> a, obtained |-> b]
    <2>1. PICK st, u, p, q : x = [status |-> st, by |-> u, max |-> p, obtained |-> q]
        BY DEF ReviewRow
    <2>2. WithTotals(x, m) = [x EXCEPT !.max = a, !.obtained = b]
        BY <1>1 DEF WithTotals
    <2> QED BY <2>1, <2>2
<1> QED BY <1>2, <1>3 DEF ReviewRow

-----------------------------------------------------------------------------
(* The invariant *)

LEMMA ReviewInvInit == ReviewsInit => ReviewInv
<1> SUFFICES ASSUME ReviewsInit PROVE ReviewInv
    OBVIOUS
<1>1. AssignmentsOK /\ RowsOK /\ CorrectionsOK /\ NoneUnmarked /\ CorrectedHasCorrection
    BY ReviewsAssumption DEF ReviewsInit, AssignmentsOK, RowsOK, ReviewRow, NoReview,
       CorrectionsOK, NoneUnmarked, CorrectedHasCorrection
<1>2. MarksOK
    BY DEF ReviewsInit, MarksOK, NoMarks, Unmarked, Mark
<1>3. TotalsMatchMarks
    BY NoTotals DEF ReviewsInit, TotalsMatchMarks, NoReview
<1> QED BY <1>1, <1>2, <1>3 DEF ReviewInv

\* A step that writes one review row, and neither marks nor corrections.
LEMMA OneRow ==
    ASSUME ReviewInv, NEW r \in ReviewIds, NEW x, ReviewRow(x),
           review' = [review EXCEPT ![r] = x],
           UNCHANGED <<reviewer, assigned, rubric, marks, corrections>>,
           x.status = "NONE" => marks[r] = NoMarks,
           x.status = "CORRECTED" => corrections[r] # << >>,
           [max |-> x.max, obtained |-> x.obtained] = Totals(marks[r])
    PROVE  ReviewInv'
<1>1. \A s \in ReviewIds : review'[s] = IF s = r THEN x ELSE review[s]
    BY DEF ReviewInv, RowsOK
<1>2. RowsOK'
    BY <1>1 DEF ReviewInv, RowsOK
<1>3. AssignmentsOK' /\ MarksOK' /\ CorrectionsOK'
    BY DEF ReviewInv, AssignmentsOK, MarksOK, CorrectionsOK
<1>4. NoneUnmarked' /\ CorrectedHasCorrection'
    BY <1>1 DEF ReviewInv, NoneUnmarked, CorrectedHasCorrection
<1>5. TotalsMatchMarks'
    BY <1>1 DEF ReviewInv, TotalsMatchMarks
<1> QED BY <1>2, <1>3, <1>4, <1>5 DEF ReviewInv

\* What a step that sets the status alone needs.
LEMMA StatusSet ==
    ASSUME ReviewInv, NEW r \in ReviewIds, NEW st \in ReviewStatus \ {"CORRECTED"},
           SetStatus(r, st)
    PROVE  ReviewInv'
<1>1. PICK x : x = [review[r] EXCEPT !.status = st]
    OBVIOUS
<1>2. ReviewRow(x) /\ x.status = st /\ x.max = review[r].max /\ x.obtained = review[r].obtained
    BY <1>1 DEF ReviewInv, RowsOK, ReviewRow
<1>3. review' = [review EXCEPT ![r] = x]
    BY <1>1 DEF SetStatus, ReviewInv, RowsOK
<1>4. [max |-> x.max, obtained |-> x.obtained] = Totals(marks[r])
    BY <1>2 DEF ReviewInv, TotalsMatchMarks
<1> QED BY <1>2, <1>3, <1>4, OneRow DEF SetStatus, ReviewStatus

\* Mark n of criterion c, with the totals, and the row's status set to st.
LEMMA MarkSet ==
    ASSUME ReviewInv, NEW r \in ReviewIds, NEW c \in Criteria, NEW n \in Nat, n <= MaxMarks[c],
           NEW x, ReviewRow(x), review' = [review EXCEPT ![r] = x],
           marks' = [marks EXCEPT ![r][c] = n],
           UNCHANGED <<reviewer, assigned, rubric>>, CorrectionsOK',
           \A s \in ReviewIds : corrections[s] # << >> => corrections'[s] # << >>,
           x.status # "NONE",
           x.status = "CORRECTED" => corrections'[r] # << >>,
           [max |-> x.max, obtained |-> x.obtained] = Totals(marks'[r])
    PROVE  ReviewInv'
<1>1. \A s \in ReviewIds : review'[s] = IF s = r THEN x ELSE review[s]
    BY DEF ReviewInv, RowsOK
<1>2. RowsOK' /\ AssignmentsOK'
    BY <1>1 DEF ReviewInv, RowsOK, AssignmentsOK
<1>3. \A s \in ReviewIds : s # r => marks'[s] = marks[s]
    BY DEF ReviewInv, MarksOK
<1>4. MarksOK'
    <2>1. n \in Mark(c) /\ n \in Int
        BY ReviewsAssumption DEF Mark
    <2>2. marks' \in [ReviewIds -> [Criteria -> Int]]
        BY <2>1 DEF ReviewInv, MarksOK
    <2>3. \A s \in ReviewIds : \A d \in Criteria :
              marks'[s][d] = IF s = r /\ d = c THEN n ELSE marks[s][d]
        BY DEF ReviewInv, MarksOK
    <2>4. \A s \in ReviewIds : \A d \in Criteria : marks'[s][d] \in Mark(d)
        BY <2>1, <2>3 DEF ReviewInv, MarksOK
    <2> QED BY <2>2, <2>4 DEF MarksOK, Mark
<1>5. NoneUnmarked' /\ CorrectedHasCorrection'
    BY <1>1, <1>3 DEF ReviewInv, NoneUnmarked, CorrectedHasCorrection
<1>6. TotalsMatchMarks'
    <2> SUFFICES ASSUME NEW s \in ReviewIds
                 PROVE  [max |-> review'[s].max, obtained |-> review'[s].obtained]
                            = Totals(marks'[s])
        BY DEF TotalsMatchMarks
    <2>1. CASE s = r
        BY <1>1, <2>1
    <2>2. CASE s # r
        <3>1. [max |-> review[s].max, obtained |-> review[s].obtained] = Totals(marks[s])
            BY DEF ReviewInv, TotalsMatchMarks
        <3> QED BY <1>1, <1>3, <2>2, <3>1
    <2> QED BY <2>1, <2>2
<1> QED BY <1>2, <1>4, <1>5, <1>6 DEF ReviewInv

Grades == UNION {0..MaxMarks[d] : d \in Criteria}

LEMMA GradesAreNat == Grades \subseteq Nat
BY ReviewsAssumption DEF Grades

LEMMA EnterStep ==
    ASSUME ReviewInv, NEW u, NEW r \in ReviewIds, NEW c \in Criteria, NEW n \in Nat,
           EnterMark(u, r, c, n)
    PROVE  ReviewInv'
<1>1. PICK m : m = marks'[r]
    OBVIOUS
<1>2. PICK x : x = WithTotals(review[r], m)
    OBVIOUS
<1>3. ReviewRow(review[r])
    BY DEF ReviewInv, RowsOK
<1>4. /\ ReviewRow(x) /\ x.status = review[r].status
      /\ [max |-> x.max, obtained |-> x.obtained] = Totals(m)
    BY <1>2, <1>3, TotalsOfRow
<1>5. review' = [review EXCEPT ![r] = x]
    BY <1>1, <1>2 DEF EnterMark, ReviewInv, RowsOK
<1>6. review[r].status # "NONE" /\ n <= MaxMarks[c]
      /\ marks' = [marks EXCEPT ![r][c] = n]
      /\ UNCHANGED <<reviewer, assigned, rubric, corrections>>
    BY DEF EnterMark, MayAct
<1>7. CorrectionsOK'
    BY <1>6 DEF ReviewInv, CorrectionsOK
<1>8. x.status = "CORRECTED" => corrections'[r] # << >>
    BY <1>4, <1>6 DEF ReviewInv, CorrectedHasCorrection
<1> QED BY <1>1, <1>4, <1>5, <1>6, <1>7, <1>8, MarkSet

LEMMA CorrectStep ==
    ASSUME ReviewInv, NEW u, NEW r \in ReviewIds, NEW c \in Criteria, NEW n \in Nat,
           CorrectMark(u, r, c, n)
    PROVE  ReviewInv'
<1>1. PICK m : m = marks'[r]
    OBVIOUS
<1>2. PICK y : y = WithTotals(review[r], m)
    OBVIOUS
<1>3. PICK x : x = [y EXCEPT !.status = "CORRECTED"]
    OBVIOUS
<1>4. ReviewRow(review[r])
    BY DEF ReviewInv, RowsOK
<1>5. ReviewRow(y) /\ [max |-> y.max, obtained |-> y.obtained] = Totals(m)
    BY <1>2, <1>4, TotalsOfRow
<1>6. /\ ReviewRow(x) /\ x.status = "CORRECTED"
      /\ [max |-> x.max, obtained |-> x.obtained] = Totals(m)
    <2>1. x.max = y.max /\ x.obtained = y.obtained /\ x.status = "CORRECTED" /\ ReviewRow(x)
        BY <1>3, <1>5 DEF ReviewRow, ReviewStatus
    <2> QED BY <1>5, <2>1
<1>7. review' = [review EXCEPT ![r] = x]
    BY <1>1, <1>2, <1>3 DEF CorrectMark, ReviewInv, RowsOK
<1>8. PICK e \in CorrectionRow : e = [criterion |-> c, new |-> n]
    BY DEF CorrectionRow
<1>9. PICK old \in Seq(CorrectionRow) : old = corrections[r]
    BY DEF ReviewInv, CorrectionsOK
<1>10. PICK rows : rows = Append(old, e)
    OBVIOUS
<1>11. rows \in Seq(CorrectionRow) /\ rows # << >>
    BY <1>10, AppendProperties
<1>12. corrections' = [corrections EXCEPT ![r] = rows]
    BY <1>8, <1>9, <1>10 DEF CorrectMark, ReviewInv, CorrectionsOK
<1>13. CorrectionsOK'
    BY <1>11, <1>12 DEF ReviewInv, CorrectionsOK
<1>14. \A s \in ReviewIds : corrections[s] # << >> => corrections'[s] # << >>
    BY <1>11, <1>12 DEF ReviewInv, CorrectionsOK
<1>15. corrections'[r] # << >>
    BY <1>11, <1>12 DEF ReviewInv, CorrectionsOK
<1>16. n <= MaxMarks[c] /\ marks' = [marks EXCEPT ![r][c] = n]
       /\ UNCHANGED <<reviewer, assigned, rubric>>
    BY DEF CorrectMark
<1> QED BY <1>1, <1>6, <1>7, <1>13, <1>14, <1>15, <1>16, MarkSet

LEMMA CreateStep ==
    ASSUME ReviewInv, NEW u, NEW r \in ReviewIds, CreateReview(u, r)
    PROVE  ReviewInv'
<1>1. PICK x : x = [status |-> "DRAFT", by |-> u, max |-> 0, obtained |-> 0]
    OBVIOUS
<1>2. ReviewRow(x)
    BY <1>1 DEF CreateReview, ReviewInv, AssignmentsOK, ReviewRow, ReviewStatus
<1>3. review' = [review EXCEPT ![r] = x]
    BY <1>1 DEF CreateReview
<1>4. [max |-> x.max, obtained |-> x.obtained] = Totals(marks[r])
    BY <1>1, NoTotals DEF CreateReview, ReviewInv, NoneUnmarked
<1>5. UNCHANGED <<reviewer, assigned, rubric, marks, corrections>>
    BY DEF CreateReview
<1> QED BY <1>1, <1>2, <1>3, <1>4, <1>5, OneRow

LEMMA DestroyStep ==
    ASSUME ReviewInv, NEW u, NEW r \in ReviewIds, DestroyReview(u, r)
    PROVE  ReviewInv'
<1>1. \A s \in ReviewIds : /\ review'[s] = IF s = r THEN NoReview ELSE review[s]
                           /\ marks'[s] = IF s = r THEN NoMarks ELSE marks[s]
    BY DEF DestroyReview, ReviewInv, RowsOK, MarksOK
<1>2. UNCHANGED <<reviewer, assigned, rubric, corrections>>
    BY DEF DestroyReview
<1>3. AssignmentsOK' /\ CorrectionsOK'
    BY <1>2 DEF ReviewInv, AssignmentsOK, CorrectionsOK
<1>4. ReviewRow(NoReview)
    BY DEF ReviewRow, NoReview
<1>5. RowsOK'
    BY <1>1, <1>4 DEF DestroyReview, ReviewInv, RowsOK
<1>6. MarksOK'
    <2>1. NoMarks \in [Criteria -> Int] /\ \A c \in Criteria : NoMarks[c] \in Mark(c)
        BY DEF NoMarks, Unmarked, Mark
    <2>2. marks' \in [ReviewIds -> [Criteria -> Int]]
        BY <2>1 DEF DestroyReview, ReviewInv, MarksOK
    <2> QED BY <1>1, <2>1, <2>2 DEF ReviewInv, MarksOK, Mark
<1>7. NoneUnmarked' /\ CorrectedHasCorrection'
    BY <1>1, <1>2 DEF ReviewInv, NoneUnmarked, CorrectedHasCorrection, NoReview
<1>8. TotalsMatchMarks'
    <2> SUFFICES ASSUME NEW s \in ReviewIds
                 PROVE  [max |-> review'[s].max, obtained |-> review'[s].obtained]
                            = Totals(marks'[s])
        BY DEF TotalsMatchMarks
    <2>1. CASE s = r
        BY <1>1, <2>1, NoTotals DEF NoReview
    <2>2. CASE s # r
        <3>1. [max |-> review[s].max, obtained |-> review[s].obtained] = Totals(marks[s])
            BY DEF ReviewInv, TotalsMatchMarks
        <3> QED BY <1>1, <2>2, <3>1
    <2> QED BY <2>1, <2>2
<1> QED BY <1>3, <1>5, <1>6, <1>7, <1>8 DEF ReviewInv

\* Steps that write no review.
LEMMA OtherStep ==
    ASSUME ReviewInv, AssignmentsOK', UNCHANGED <<review, marks, corrections>>
    PROVE  ReviewInv'
<1>1. RowsOK' /\ MarksOK' /\ CorrectionsOK' /\ NoneUnmarked' /\ CorrectedHasCorrection'
    BY DEF ReviewInv, RowsOK, MarksOK, CorrectionsOK, NoneUnmarked, CorrectedHasCorrection
<1>2. TotalsMatchMarks'
    BY DEF ReviewInv, TotalsMatchMarks
<1> QED BY <1>1, <1>2 DEF ReviewInv

LEMMA AssessStep ==
    ASSUME ReviewInv, AssessmentStep
    PROVE  ReviewInv'
<1>1. UNCHANGED <<review, marks, corrections>>
    BY DEF AssessmentStep, AddCriterion, AssignReviewer, ReassignReviewer, DeleteAssignments,
           EndAssignment
<1>2. AssignmentsOK'
    BY DEF AssessmentStep, AddCriterion, AssignReviewer, ReassignReviewer, DeleteAssignments,
           EndAssignment, ReviewInv, AssignmentsOK
<1> QED BY <1>1, <1>2, OtherStep

LEMMA ReviewInvStep == ReviewInv /\ [ReviewsNext]_reviewVars => ReviewInv'
<1> SUFFICES ASSUME ReviewInv, [ReviewsNext]_reviewVars PROVE ReviewInv'
    OBVIOUS
<1>1. ASSUME NEW u \in Faculty \cup HODs, NEW r \in ReviewIds, ReviewStep(u, r)
      PROVE  ReviewInv'
    <2>1. CASE SubmitReview(u, r) \/ FinalizeReview(u, r) \/ RequestCorrection(u, r)
        BY <2>1, StatusSet DEF SubmitReview, FinalizeReview, RequestCorrection, ReviewStatus
    <2>2. ASSUME NEW c \in Criteria, NEW n \in Grades,
                 EnterMark(u, r, c, n) \/ CorrectMark(u, r, c, n)
          PROVE  ReviewInv'
        BY <2>2, GradesAreNat, EnterStep, CorrectStep
    <2> QED BY <1>1, <2>1, <2>2, CreateStep, DestroyStep DEF ReviewStep, Grades
<1>2. CASE UNCHANGED reviewVars
    <2>1. AssignmentsOK'
        BY <1>2 DEF reviewVars, ReviewInv, AssignmentsOK
    <2> QED BY <1>2, <2>1, OtherStep DEF reviewVars
<1> QED BY <1>1, <1>2, AssessStep DEF ReviewsNext

\* Rows keep their types, and every mark its range.
THEOREM ReviewsTyped == ReviewsSpec => []ReviewsTypeOK
<1>1. ReviewInv => ReviewsTypeOK
    BY DEF ReviewInv, AssignmentsOK, RowsOK, ReviewRow, MarksOK, ReviewsTypeOK
<1> QED BY <1>1, ReviewInvInit, ReviewInvStep, PTL DEF ReviewsSpec

\* The totals printed for a review are those of its marks, for any rubric and
\* any number of marks and corrections.
THEOREM TotalsKept == ReviewsSpec => []TotalsMatchMarks
<1>1. ReviewInv => TotalsMatchMarks
    BY DEF ReviewInv
<1> QED BY <1>1, ReviewInvInit, ReviewInvStep, PTL DEF ReviewsSpec

\* A review shows as corrected only with a correction on record.
THEOREM CorrectionsShown == ReviewsSpec => []CorrectedHasCorrection
<1>1. ReviewInv => CorrectedHasCorrection
    BY DEF ReviewInv
<1> QED BY <1>1, ReviewInvInit, ReviewInvStep, PTL DEF ReviewsSpec

-----------------------------------------------------------------------------
(* Steps *)

LEMMA StandStep ==
    ASSUME ReviewInv, [ReviewsNext]_reviewVars, NEW r \in ReviewIds,
           review[r].status = "FINALIZED", marks'[r] # marks[r]
    PROVE  review'[r].status # "FINALIZED"
<1>1. PICK u \in Faculty \cup HODs, s \in ReviewIds : ReviewStep(u, s)
    BY DEF ReviewsNext, AssessmentStep, AddCriterion, AssignReviewer, ReassignReviewer,
           DeleteAssignments, EndAssignment, reviewVars
<1>2. ASSUME NEW c \in Criteria, NEW n, EnterMark(u, s, c, n) \/ CorrectMark(u, s, c, n)
      PROVE  FALSE
    <2>1. review[s].status # "FINALIZED"
        BY <1>2 DEF EnterMark, CorrectMark
    <2>2. marks' = [marks EXCEPT ![s][c] = n]
        BY <1>2 DEF EnterMark, CorrectMark
    <2>3. marks'[r] = marks[r]
        BY <2>1, <2>2 DEF ReviewInv, MarksOK
    <2> QED BY <2>3
<1>3. DestroyReview(u, s)
    BY <1>1, <1>2 DEF ReviewStep, CreateReview, SubmitReview, FinalizeReview, RequestCorrection,
                      SetStatus
<1>4. s = r
    BY <1>3 DEF DestroyReview, ReviewInv, MarksOK
<1> QED BY <1>3, <1>4 DEF DestroyReview, NoReview, ReviewInv, RowsOK

\* A mark of a finalized review changes only as the review leaves FINALIZED.
THEOREM FinalizedStand == ReviewsSpec => FinalizedMarksStand
<1>1. ReviewInv /\ [ReviewsNext]_reviewVars =>
        [\A r \in ReviewIds :
            review[r].status = "FINALIZED" /\ marks'[r] # marks[r]
                => review'[r].status # "FINALIZED"]_reviewVars
    BY StandStep
<1> QED BY <1>1, ReviewInvInit, ReviewInvStep, PTL DEF ReviewsSpec, FinalizedMarksStand

LEMMA HandedStep ==
    ASSUME ReviewInv, [ReviewsNext]_reviewVars, rubric' = rubric, NEW r \in ReviewIds,
           Handed(r) => Complete(r), Handed(r)'
    PROVE  Complete(r)'
<1>1. ASSUME review'[r].status = review[r].status, marks'[r] = marks[r]
      PROVE  Complete(r)'
    BY <1>1 DEF Handed, Complete
<1>2. CASE UNCHANGED <<review, marks>>
    BY <1>1, <1>2
<1>3. ASSUME NEW u \in Faculty \cup HODs, NEW s \in ReviewIds, ReviewStep(u, s)
      PROVE  Complete(r)'
    <2>1. ASSUME NEW c \in Criteria, NEW n \in Grades,
                 EnterMark(u, s, c, n) \/ CorrectMark(u, s, c, n)
          PROVE  Complete(r)'
        <3>1. n \in Nat
            BY GradesAreNat
        <3>2. marks' = [marks EXCEPT ![s][c] = n]
            BY <2>1 DEF EnterMark, CorrectMark
        <3>3. \A d \in Criteria : marks'[r][d] = IF r = s /\ d = c THEN n ELSE marks[r][d]
            BY <3>2 DEF ReviewInv, MarksOK
        <3>4. CASE Complete(r)
            BY <3>1, <3>3, <3>4 DEF Complete, Unmarked, ReviewInv, AssignmentsOK
        <3>5. CASE ~Handed(r)
            <4>1. review[s].status \in {"CORRECTION_REQUESTED", "CORRECTED"} => s # r
                BY <3>5 DEF Handed, ReviewStatus
            <4>2. PICK x : review' = [review EXCEPT ![s] = x]
                           /\ (EnterMark(u, s, c, n) => x.status = review[s].status)
                BY <2>1, TotalsOfRow DEF EnterMark, CorrectMark, ReviewInv, RowsOK
            <4> QED BY <2>1, <3>5, <4>1, <4>2 DEF Handed, CorrectMark, ReviewInv, RowsOK
        <3> QED BY <3>4, <3>5
    <2>2. CASE CreateReview(u, s) \/ DestroyReview(u, s)
        <3>1. s # r
            <4>1. review'[r].status \in ReviewStatus \ {"DRAFT"}
                BY DEF Handed
            <4>2. review'[s].status = "DRAFT" \/ review'[s].status = "NONE"
                <5>1. NoReview.status = "NONE"
                    BY DEF NoReview
                <5> QED BY <2>2, <5>1 DEF CreateReview, DestroyReview, ReviewInv, RowsOK
            <4> QED BY <4>1, <4>2 DEF ReviewStatus
        <3> QED BY <1>1, <2>2, <3>1 DEF CreateReview, DestroyReview, ReviewInv, RowsOK, MarksOK
    <2>3. CASE SubmitReview(u, s) \/ FinalizeReview(u, s)
        <3>1. Complete(s) /\ marks' = marks
            BY <2>3 DEF SubmitReview, FinalizeReview, SetStatus
        <3>2. CASE s = r
            BY <3>1, <3>2 DEF Complete
        <3>3. CASE s # r
            BY <1>1, <2>3, <3>1, <3>3 DEF SubmitReview, FinalizeReview, SetStatus, ReviewInv, RowsOK
        <3> QED BY <3>2, <3>3
    <2>4. CASE RequestCorrection(u, s)
        <3>1. CASE s = r
            BY <2>4, <3>1 DEF RequestCorrection, SetStatus, Handed, Complete, ReviewStatus
        <3>2. CASE s # r
            BY <1>1, <2>4, <3>2 DEF RequestCorrection, SetStatus, ReviewInv, RowsOK
        <3> QED BY <3>1, <3>2
    <2> QED BY <1>3, <2>1, <2>2, <2>3, <2>4 DEF ReviewStep, Grades
<1>4. CASE AssessmentStep
    BY <1>2, <1>4 DEF AssessmentStep, AddCriterion, AssignReviewer, ReassignReviewer,
                      DeleteAssignments, EndAssignment
<1> QED BY <1>2, <1>3, <1>4 DEF ReviewsNext, reviewVars

\* The requests of the service hand a review in with a mark for each required
\* criterion and keep it so while the rubric does not grow (_check_required).
\* The PATCH that gives a review another rubric is not one of them.
THEOREM HandedComplete == ReviewsSpec => HandedInComplete
<1>1. ReviewInv /\ [ReviewsNext]_reviewVars =>
        [rubric' = rubric =>
            \A r \in ReviewIds :
                (Handed(r) => Complete(r)) => (Handed(r) => Complete(r))']_reviewVars
    BY HandedStep
<1> QED BY <1>1, ReviewInvInit, ReviewInvStep, PTL DEF ReviewsSpec, HandedInComplete

-----------------------------------------------------------------------------
(* Requests that overlap *)

\* The marks of a review, as the criteria allow.
Marked(m) == m \in [Criteria -> Int] /\ \A c \in Criteria : m[c] \in Mark(c)

\* A row, or what a request writes of one, with totals that are plausible.
PlausibleTotals(x) ==
    /\ "max" \in DOMAIN x /\ "obtained" \in DOMAIN x
    /\ x.max \in Int /\ x.obtained \in Int
    /\ 0 <= x.obtained /\ x.obtained <= x.max

LEMMA TotalsArePlausible ==
    ASSUME NEW m, Marked(m)
    PROVE  PlausibleTotals(Totals(m))
<1> DEFINE marked == {c \in Criteria : m[c] # Unmarked}
<1>1. IsFiniteSet(marked)
    BY ReviewsAssumption, FS_Subset
<1>2. \A c \in marked : m[c] \in Int /\ MaxMarks[c] \in Int /\ 0 <= m[c] /\ m[c] <= 1 * MaxMarks[c]
    BY ReviewsAssumption DEF Marked, Mark
<1>3. Totals(m) = [max |-> SumFunctionOnSet(MaxMarks, marked),
                  obtained |-> SumFunctionOnSet(m, marked)]
    BY DEF Totals
<1>4. PICK a, b \in Int : /\ a = SumFunctionOnSet(m, marked)
                         /\ b = SumFunctionOnSet(MaxMarks, marked)
                         /\ 0 <= a /\ a <= 1 * b
    <2> HIDE DEF marked
    <2> QED BY <1>1, <1>2, SumBounds
<1> HIDE DEF marked
<1> QED BY <1>3, <1>4 DEF PlausibleTotals

\* What a request writes of a row leaves its totals plausible.
Harmless(y) == \A x : PlausibleTotals(x) => PlausibleTotals(Saved(y, x))

LEMMA SavedPlausible ==
    /\ \A y : PlausibleTotals(y) => Harmless(y)
    /\ \A st : Harmless([status |-> st])
<1>1. ASSUME NEW x, PlausibleTotals(x), NEW y,
             \/ "max" \notin DOMAIN y /\ "obtained" \notin DOMAIN y
             \/ PlausibleTotals(y)
      PROVE  PlausibleTotals(Saved(y, x))
    <2>1. PICK z : z = Saved(y, x)
        OBVIOUS
    <2>2. /\ DOMAIN z = DOMAIN x
          /\ \A column \in DOMAIN x :
                z[column] = IF column \in DOMAIN y THEN y[column] ELSE x[column]
        BY <2>1 DEF Saved
    <2>3. /\ "max" \in DOMAIN z /\ "obtained" \in DOMAIN z
          /\ \/ z["max"] = x["max"] /\ z["obtained"] = x["obtained"]
             \/ z["max"] = y["max"] /\ z["obtained"] = y["obtained"] /\ PlausibleTotals(y)
        BY <1>1, <2>2 DEF PlausibleTotals
    <2>4. PlausibleTotals(z)
        BY <1>1, <2>3 DEF PlausibleTotals
    <2> QED BY <2>1, <2>4
<1>2. ASSUME NEW st PROVE Harmless([status |-> st])
    <2>1. PICK y : y = [status |-> st]
        OBVIOUS
    <2>2. "max" \notin DOMAIN y /\ "obtained" \notin DOMAIN y
        BY <2>1
    <2>3. Harmless(y)
        BY <1>1, <2>2 DEF Harmless
    <2> QED BY <2>1, <2>3
<1> QED BY <1>1, <1>2 DEF Harmless

\* What a request has in memory, and what it will write.
ReviewMemory(m) ==
    \/ m.pc = "idle"
    \/ /\ m.pc \in {"loaded", "worked"}
       /\ m.op \in ReviewOps /\ m.review \in ReviewIds
       /\ m.op \in MarkOps => m.criterion \in Criteria /\ m.mark \in 0..MaxMarks[m.criterion]
       /\ m.pc = "loaded" /\ m.op = "patch" => PlausibleTotals(m.mem)
       /\ m.pc = "worked" => Harmless(m.row)

RequestTablesOK ==
    /\ rubric \subseteq Criteria
    /\ DOMAIN review = ReviewIds /\ \A r \in ReviewIds : PlausibleTotals(review[r])
    /\ DOMAIN marks = ReviewIds /\ \A r \in ReviewIds : Marked(marks[r])

ReviewMemoriesOK == DOMAIN req = Workers /\ \A w \in Workers : ReviewMemory(req[w])

RequestInv == RequestTablesOK /\ ReviewMemoriesOK

LEMMA NoMarksMarked == Marked(NoMarks)
BY DEF Marked, NoMarks, Unmarked, Mark

LEMMA RequestInvInit == ReviewRequestsInit => RequestInv
<1> SUFFICES ASSUME ReviewRequestsInit PROVE RequestInv
    OBVIOUS
<1>1. PlausibleTotals(NoReview)
    BY DEF NoReview, PlausibleTotals
<1>2. RequestTablesOK
    BY <1>1, NoMarksMarked, ReviewsAssumption
    DEF ReviewRequestsInit, ReviewsInit, RequestTablesOK
<1>3. ReviewMemoriesOK
    BY DEF ReviewRequestsInit, TransactionsInit, Idle, ReviewMemoriesOK, ReviewMemory
<1> QED BY <1>2, <1>3 DEF RequestInv

\* A mark set in its range.
LEMMA MarkedSet ==
    ASSUME NEW m, Marked(m), NEW c \in Criteria, NEW n \in 0..MaxMarks[c]
    PROVE  Marked([m EXCEPT ![c] = n])
<1>1. n \in Int /\ n \in Mark(c)
    BY ReviewsAssumption DEF Mark
<1> QED BY <1>1 DEF Marked

\* A request takes something into memory that is in order, or ends.
LEMMA MemoryReplaced ==
    ASSUME ReviewMemoriesOK, NEW w \in Workers, NEW m, ReviewMemory(m),
           req' = [req EXCEPT ![w] = m]
    PROVE  ReviewMemoriesOK'
BY DEF ReviewMemoriesOK, ReviewMemory

LEMMA RequestLoads ==
    ASSUME RequestInv, NEW w \in Workers, NEW op \in ReviewOps, NEW r \in ReviewIds,
           NEW c \in Criteria, NEW n \in Grades, LoadReview(w, op, r, c, n)
    PROVE  RequestInv'
<1>1. PICK m : /\ m = [pc |-> "loaded", op |-> op, review |-> r, criterion |-> c, mark |-> n,
                       mem |-> IF op = "patch" THEN review[r] ELSE NoReview]
               /\ req' = [req EXCEPT ![w] = m]
    BY DEF LoadReview, Begin
<1>2. op \in MarkOps => n \in 0..MaxMarks[c]
    BY GradesAreNat, ReviewsAssumption DEF LoadReview
<1>3. op = "patch" => PlausibleTotals(review[r])
    BY DEF RequestInv, RequestTablesOK
<1>4. ReviewMemory(m)
    BY <1>1, <1>2, <1>3 DEF ReviewMemory
<1>5. UNCHANGED reviewVars
    BY DEF LoadReview
<1> QED BY <1>1, <1>4, <1>5, MemoryReplaced DEF RequestInv, RequestTablesOK, reviewVars

\* The columns a request writes, operation by operation.
LEMMA WritesOf ==
    ASSUME NEW t, NEW seen, seen = [marks[t.review] EXCEPT ![t.criterion] = t.mark]
    PROVE  /\ t.op = "enter_mark" => ReviewWrites(t) = Totals(seen)
           /\ t.op = "correct_mark" => ReviewWrites(t) = Corrected(Totals(seen))
           /\ t.op = "submit" => ReviewWrites(t) = [status |-> "SUBMITTED"]
           /\ t.op = "finalize" => ReviewWrites(t) = [status |-> "FINALIZED"]
           /\ t.op = "request_correction" => ReviewWrites(t) = [status |-> "CORRECTION_REQUESTED"]
           /\ t.op = "patch" => ReviewWrites(t) = t.mem
<1>1. CASE t.op = "enter_mark"
    BY <1>1, Zenon DEF ReviewWrites
<1>2. CASE t.op = "correct_mark"
    BY <1>2, Zenon DEF ReviewWrites
<1>3. CASE t.op = "submit"
    BY <1>3, Zenon DEF ReviewWrites
<1>4. CASE t.op = "finalize"
    BY <1>4, Zenon DEF ReviewWrites
<1>5. CASE t.op = "request_correction"
    BY <1>5, Zenon DEF ReviewWrites
<1>6. CASE t.op = "patch"
    BY <1>6, Zenon DEF ReviewWrites
<1> QED BY <1>1, <1>2, <1>3, <1>4, <1>5, <1>6, Zenon

\* Totals summed over the marks the request saw are plausible, whatever the
\* marks are when they are written.
LEMMA WritesHarmless ==
    ASSUME RequestInv, NEW w \in Workers, req[w].pc = "loaded"
    PROVE  Harmless(ReviewWrites(req[w]))
<1>1. PICK t : t = req[w] /\ ReviewMemory(t) /\ t.pc = "loaded"
    BY DEF RequestInv, ReviewMemoriesOK
<1>2. PICK seen : seen = [marks[t.review] EXCEPT ![t.criterion] = t.mark]
    OBVIOUS
<1>3. PICK row : row = ReviewWrites(t)
    OBVIOUS
<1>4. t.op \in MarkOps => PlausibleTotals(Totals(seen)) /\ PlausibleTotals(Corrected(Totals(seen)))
    <2> SUFFICES ASSUME t.op \in MarkOps
                 PROVE  PlausibleTotals(Totals(seen)) /\ PlausibleTotals(Corrected(Totals(seen)))
        OBVIOUS
    <2>1. PlausibleTotals(Totals(seen))
        BY <1>1, <1>2, MarkedSet, TotalsArePlausible
        DEF ReviewMemory, RequestInv, RequestTablesOK
    <2> QED BY <2>1 DEF Corrected, PlausibleTotals
<1>5. t.op = "patch" => PlausibleTotals(t.mem)
    BY <1>1 DEF ReviewMemory
<1>6. PlausibleTotals(row) \/ \E st : row = [status |-> st]
    <2> t.op \in ReviewOps
        BY <1>1 DEF ReviewMemory
    <2> QED BY <1>2, <1>3, <1>4, <1>5, WritesOf DEF ReviewOps, MarkOps
<1> QED BY <1>1, <1>3, <1>6, SavedPlausible

LEMMA RequestWorks ==
    ASSUME RequestInv, NEW w \in Workers, WorkOnReview(w)
    PROVE  RequestInv'
<1>1. PICK t, row : t = req[w] /\ ReviewMemory(t) /\ row = ReviewWrites(t) /\ Harmless(row)
    BY WritesHarmless DEF WorkOnReview, RequestInv, ReviewMemoriesOK
<1>2. PICK m : /\ m = [pc |-> "worked", op |-> t.op, review |-> t.review,
                       criterion |-> t.criterion, mark |-> t.mark, row |-> row]
               /\ req' = [req EXCEPT ![w] = m]
    BY <1>1 DEF WorkOnReview, Proceed
<1>3. t.pc = "loaded" /\ UNCHANGED reviewVars
    BY <1>1 DEF WorkOnReview
<1>4. ReviewMemory(m)
    BY <1>1, <1>2, <1>3 DEF ReviewMemory
<1> QED BY <1>2, <1>3, <1>4, MemoryReplaced DEF RequestInv, RequestTablesOK, reviewVars

LEMMA RequestEnds ==
    ASSUME RequestInv, NEW w \in Workers, Finish(w)
    PROVE  ReviewMemoriesOK'
<1>1. ReviewMemory(Idle)
    BY DEF ReviewMemory, Idle
<1> QED BY <1>1, MemoryReplaced DEF Finish, RequestInv

LEMMA RequestCommits ==
    ASSUME RequestInv, NEW w \in Workers, CommitReview(w)
    PROVE  RequestInv'
<1>1. PICK t, r, row : t = req[w] /\ r = t.review /\ row = t.row
    OBVIOUS
<1>2. ReviewMemory(t) /\ r \in ReviewIds /\ Harmless(row)
    BY <1>1 DEF CommitReview, RequestInv, ReviewMemoriesOK, ReviewMemory
<1>3. PICK new : new = Saved(row, review[r])
    OBVIOUS
<1>4. PlausibleTotals(new)
    BY <1>2, <1>3 DEF Harmless, RequestInv, RequestTablesOK
<1>5. review' = [review EXCEPT ![r] = new]
    BY <1>1, <1>2, <1>3 DEF CommitReview
<1>6. DOMAIN review' = ReviewIds /\ \A s \in ReviewIds : PlausibleTotals(review'[s])
    BY <1>4, <1>5 DEF RequestInv, RequestTablesOK
<1>7. DOMAIN marks' = ReviewIds /\ \A s \in ReviewIds : Marked(marks'[s])
    <2>1. CASE t.op \in MarkOps
        <3>1. PICK c \in Criteria : c = t.criterion
            BY <1>1, <1>2, <2>1 DEF ReviewMemory, CommitReview
        <3>1a. PICK n \in 0..MaxMarks[c] : n = t.mark
            BY <1>1, <1>2, <2>1, <3>1 DEF ReviewMemory, CommitReview
        <3>2. PICK seen : seen = [marks[r] EXCEPT ![c] = n]
            OBVIOUS
        <3>3. Marked(seen)
            BY <1>2, <3>2, MarkedSet DEF RequestInv, RequestTablesOK
        <3>4. marks' = [marks EXCEPT ![r][c] = n]
            BY <1>1, <2>1, <3>1, <3>1a DEF CommitReview
        <3>5. marks' = [marks EXCEPT ![r] = seen]
            BY <1>2, <3>2, <3>4 DEF RequestInv, RequestTablesOK
        <3> QED BY <3>3, <3>5 DEF RequestInv, RequestTablesOK
    <2>2. CASE t.op \notin MarkOps
        <3>1. marks' = marks
            BY <1>1, <2>2 DEF CommitReview
        <3> QED BY <3>1 DEF RequestInv, RequestTablesOK
    <2> QED BY <2>1, <2>2
<1>8. rubric' = rubric /\ Finish(w)
    BY DEF CommitReview
<1> QED BY <1>6, <1>7, <1>8, RequestEnds DEF RequestInv, RequestTablesOK

LEMMA RequestSingle == RequestInv /\ SingleStatement => RequestInv'
<1> SUFFICES ASSUME RequestInv, SingleStatement PROVE RequestInv'
    OBVIOUS
<1>1. req' = req
    BY DEF SingleStatement
<1>2. CASE AssessmentStep
    <2>1. UNCHANGED <<review, marks>> /\ rubric' \subseteq Criteria
        BY <1>2 DEF AssessmentStep, AddCriterion, AssignReviewer, ReassignReviewer,
                    DeleteAssignments, EndAssignment, RequestInv, RequestTablesOK
    <2> QED BY <1>1, <2>1 DEF RequestInv, RequestTablesOK, ReviewMemoriesOK
<1>3. ASSUME NEW u, NEW r \in ReviewIds, CreateReview(u, r) PROVE RequestInv'
    <2>1. PICK x : /\ x = [status |-> "DRAFT", by |-> u, max |-> 0, obtained |-> 0]
                   /\ review' = [review EXCEPT ![r] = x]
        BY <1>3 DEF CreateReview
    <2>2. PlausibleTotals(x)
        BY <2>1 DEF PlausibleTotals
    <2>3. UNCHANGED <<rubric, marks>>
        BY <1>3 DEF CreateReview
    <2> QED BY <1>1, <2>1, <2>2, <2>3 DEF RequestInv, RequestTablesOK, ReviewMemoriesOK
<1>4. ASSUME NEW u, NEW r \in ReviewIds, DestroyReview(u, r) PROVE RequestInv'
    <2>1. /\ review' = [review EXCEPT ![r] = NoReview]
          /\ marks' = [marks EXCEPT ![r] = NoMarks]
          /\ rubric' = rubric
        BY <1>4 DEF DestroyReview
    <2>2. PlausibleTotals(NoReview)
        BY DEF PlausibleTotals, NoReview
    <2> QED BY <1>1, <2>1, <2>2, NoMarksMarked DEF RequestInv, RequestTablesOK, ReviewMemoriesOK
<1> QED BY <1>2, <1>3, <1>4 DEF SingleStatement

LEMMA RequestInvStep ==
    RequestInv /\ [ReviewRequestsNext /\ UNCHANGED engine]_reviewRequestVars => RequestInv'
<1> SUFFICES ASSUME RequestInv, [ReviewRequestsNext /\ UNCHANGED engine]_reviewRequestVars
             PROVE  RequestInv'
    OBVIOUS
<1>1. ASSUME NEW w \in Workers, RollBack(w), UNCHANGED reviewVars PROVE RequestInv'
    BY <1>1, RequestEnds DEF RollBack, RequestInv, RequestTablesOK, reviewVars
<1>2. CASE UNCHANGED reviewRequestVars
    BY <1>2 DEF reviewRequestVars, reviewVars, RequestInv, RequestTablesOK, ReviewMemoriesOK
<1>3. ASSUME NEW w \in Workers, NEW op \in ReviewOps, NEW r \in ReviewIds, NEW c \in Criteria,
             NEW n \in UNION {0..MaxMarks[d] : d \in Criteria}, LoadReview(w, op, r, c, n)
      PROVE  RequestInv'
    <2>1. n \in Grades
        BY DEF Grades
    <2> QED BY <1>3, <2>1, RequestLoads
<1> QED BY <1>1, <1>2, <1>3, RequestWorks, RequestCommits, RequestSingle DEF ReviewRequestsNext

\* However requests interleave, on either database and for any rubric, a total
\* never exceeds the maximum saved beside it: each is a sum over marks that
\* were there at one time, and both are saved together.
THEOREM PlausibleAlways == ReviewRequestsSpec => []TotalsPlausible
<1>1. RequestInv => TotalsPlausible
    BY DEF RequestInv, RequestTablesOK, PlausibleTotals, TotalsPlausible
<1> QED BY <1>1, RequestInvInit, RequestInvStep, PTL DEF ReviewRequestsSpec

-----------------------------------------------------------------------------
(* Attainment *)

LEMMA Monotonic ==
    ASSUME NEW x \in Int, NEW y \in Int, NEW z \in Int, x <= y, 0 < z
    PROVE  x * z <= y * z /\ (x * z = y * z => x = y)
OBVIOUS

LEMMA PositiveProduct ==
    ASSUME NEW x \in Int, NEW y \in Int, 0 < x, 0 < y
    PROVE  x * y \in Int /\ 0 < x * y
OBVIOUS

LEMMA ScalePositive == Scale \in Int /\ 0 < Scale
<1> DEFINE S == {c \in Criteria : MaxMarks[c] > 0}
           Positive == {n \in Int : 0 < n}
           Products(it) ==
               it = [s \in SUBSET S |-> IF s = {} THEN 1 ELSE MaxMarks[Pick(s)] * it[Rest(s)]]
           it == CHOOSE g : Products(g)
<1>1. IsFiniteSet(S) /\ 1 \in Positive
    BY ReviewsAssumption, FS_Subset
<1>2. \A c \in S : MaxMarks[c] \in Positive
    BY ReviewsAssumption
<1>3. \A x, y \in Positive : x * y \in Positive
    BY PositiveProduct
<1>4. \E g : Products(g)
    <2> DEFINE step == [p \in S \X Positive |-> MaxMarks[p[1]] * p[2]]
    <2>1. step \in [S \X Positive -> Positive]
        <3> HIDE DEF S, Positive
        <3> QED BY <1>2, <1>3
    <2>2. PICK g \in [SUBSET S -> Positive] : IsFold(g, step, 1, S)
        <3> HIDE DEF step, it, Products, S, Positive
        <3> QED BY <1>1, <2>1, FoldTyped
    <2>3. g = [s \in SUBSET S |-> g[s]] /\ g[{}] = 1
        BY <2>2 DEF IsFold
    <2>4. ASSUME NEW s \in SUBSET S, s # {} PROVE g[s] = MaxMarks[Pick(s)] * g[Rest(s)]
        <3> HIDE DEF S, Positive
        <3>1. Pick(s) \in S /\ Rest(s) \in SUBSET S
            BY <2>4, PickRest
        <3>2. g[s] = step[<<Pick(s), g[Rest(s)]>>]
            BY <2>2, <2>4 DEF IsFold
        <3> QED BY <2>2, <3>1, <3>2
    <2> HIDE DEF step, S
    <2> QED BY <2>3, <2>4
<1>5. Products(it)
    <2> HIDE DEF Products
    <2> QED BY <1>4
<1>6. it = [s \in SUBSET S |-> it[s]] /\ it[{}] = 1
    <2> HIDE DEF it, S
    <2> QED BY <1>5
<1>7. \A s \in SUBSET S : s # {} => it[s] = MaxMarks[Pick(s)] * it[Rest(s)]
    <2> HIDE DEF it, S
    <2> QED BY <1>5
<1>8. \A s \in SUBSET S : s # {} /\ it[Rest(s)] \in Positive => it[s] \in Positive
    <2> HIDE DEF it, S, Positive, Products
    <2> QED BY <1>2, <1>3, <1>7, PickRest
<1>9. it \in [SUBSET S -> Positive]
    <2>1. it = [s \in SUBSET S |-> it[s]]
        BY <1>6
    <2>2. it[{}] \in Positive
        <3> HIDE DEF it, Positive
        <3> QED BY <1>1, <1>6
    <2> HIDE DEF it, S, Positive, Products
    <2> QED BY <1>1, <1>8, <2>1, <2>2, FoldStays
<1>10. it[S] = Scale
    BY DEF Scale, FoldFunctionOnSet, MapThenFoldSet, Pick, Rest
<1>11. it[S] \in Positive
    <2> HIDE DEF it, S, Positive
    <2> QED BY <1>9
<1> HIDE DEF it
<1> QED BY <1>10, <1>11

Fraction == [num: Int, den: Int]

\* The sums of fractions over the subsets of S.
IsFractionSum(g, f, S) ==
    /\ g \in [SUBSET S -> Fraction]
    /\ g[{}] = [num |-> 0, den |-> 1]
    /\ \A s \in SUBSET S : s # {} => g[s] = PlusFraction(f[Pick(s)], g[Rest(s)])

LEMMA FractionSumDefined ==
    ASSUME NEW S, IsFiniteSet(S), NEW f, \A x \in S : f[x] \in Fraction
    PROVE  \E g : /\ IsFractionSum(g, f, S)
                  /\ g[S] = FoldFunctionOnSet(PlusFraction, [num |-> 0, den |-> 1], f, S)
<1> DEFINE zero == [num |-> 0, den |-> 1]
           Sums(it) == it = [s \in SUBSET S |-> IF s = {} THEN zero
                                                ELSE PlusFraction(f[Pick(s)], it[Rest(s)])]
           it == CHOOSE g : Sums(g)
<1>1. zero \in Fraction
    BY DEF Fraction
<1>2. \A x, y \in Fraction : PlusFraction(x, y) \in Fraction
    BY DEF PlusFraction, Fraction
<1>3. \E g : Sums(g)
    <2> DEFINE step == [p \in S \X Fraction |-> PlusFraction(f[p[1]], p[2])]
    <2>1. step \in [S \X Fraction -> Fraction]
        BY <1>2
    <2>2. PICK g \in [SUBSET S -> Fraction] : IsFold(g, step, zero, S)
        <3> HIDE DEF step, it, Sums, zero
        <3> QED BY <1>1, <2>1, FoldTyped
    <2>3. g = [s \in SUBSET S |-> g[s]] /\ g[{}] = zero
        BY <2>2 DEF IsFold
    <2>4. ASSUME NEW s \in SUBSET S, s # {} PROVE g[s] = PlusFraction(f[Pick(s)], g[Rest(s)])
        <3>1. Pick(s) \in S /\ Rest(s) \in SUBSET S
            BY <2>4, PickRest
        <3>2. g[s] = step[<<Pick(s), g[Rest(s)]>>]
            BY <2>2, <2>4 DEF IsFold
        <3> QED BY <2>2, <3>1, <3>2
    <2> HIDE DEF step, zero
    <2> QED BY <2>3, <2>4
<1>4. Sums(it)
    <2> HIDE DEF Sums
    <2> QED BY <1>3
<1>5. it[{}] = zero
    <2> HIDE DEF it, zero
    <2> QED BY <1>4
<1>6. \A s \in SUBSET S : s # {} => it[s] = PlusFraction(f[Pick(s)], it[Rest(s)])
    <2> HIDE DEF it
    <2> QED BY <1>4
<1>7. it \in [SUBSET S -> Fraction]
    <2>1. it = [s \in SUBSET S |-> it[s]]
        <3> HIDE DEF it
        <3> QED BY <1>4
    <2>2. \A s \in SUBSET S : s # {} /\ it[Rest(s)] \in Fraction => it[s] \in Fraction
        <3> HIDE DEF it, Sums
        <3> QED BY <1>2, <1>6, PickRest
    <2>3. it[{}] \in Fraction
        <3> HIDE DEF it, Sums, zero
        <3> QED BY <1>1, <1>5
    <2> HIDE DEF it, Sums
    <2> QED BY <2>1, <2>2, <2>3, FoldStays
<1>8. it[S] = FoldFunctionOnSet(PlusFraction, zero, f, S)
    BY DEF FoldFunctionOnSet, MapThenFoldSet, Pick, Rest
<1> HIDE DEF it
<1> QED BY <1>5, <1>6, <1>7, <1>8 DEF IsFractionSum

\* One more fraction between 0 and 1 in a sum of k.
LEMMA FractionAdded ==
    ASSUME NEW an \in Int, NEW ad \in Int, NEW bn \in Int, NEW bd \in Int, NEW k \in Int,
           0 <= an, an <= ad, 0 < ad, 0 <= bn, bn <= bd * k, 0 < bd
    PROVE  /\ 0 < ad * bd /\ 0 <= an * bd + bn * ad
           /\ an * bd + bn * ad <= (ad * bd) * (k + 1)
           /\ an * bd + bn * ad = (ad * bd) * (k + 1) => an = ad /\ bn = bd * k
<1>1. bd * k \in Int /\ ad * bd \in Int /\ 0 < ad * bd
    BY PositiveProduct
<1>2. an * bd \in Int /\ an * bd <= ad * bd /\ (an * bd = ad * bd => an = ad)
    BY Monotonic
<1>3. /\ bn * ad \in Int /\ (bd * k) * ad \in Int /\ bn * ad <= (bd * k) * ad
      /\ bn * ad = (bd * k) * ad => bn = bd * k
    BY <1>1, Monotonic
<1>4. (ad * bd) * (k + 1) = ad * bd + (bd * k) * ad
    OBVIOUS
<1>5. 0 * bd <= an * bd /\ 0 * ad <= bn * ad
    BY Monotonic
<1>6. 0 <= an * bd /\ 0 <= bn * ad
    BY <1>5
<1> QED BY <1>1, <1>2, <1>3, <1>4, <1>6

\* Fractions between 0 and 1 have a mean between 0 and 1.
LEMMA FractionBounds ==
    ASSUME NEW S, IsFiniteSet(S), NEW f, NEW sum, NEW n,
           n = Cardinality(S),
           sum = FoldFunctionOnSet(PlusFraction, [num |-> 0, den |-> 1], f, S),
           \A x \in S : f[x] \in Fraction /\ 0 <= f[x].num /\ f[x].num <= f[x].den /\ 0 < f[x].den
    PROVE  /\ sum \in Fraction /\ n \in Int /\ 0 < sum.den
           /\ 0 <= sum.num /\ sum.num <= sum.den * n
           /\ sum.num = sum.den * n => \A x \in S : f[x].num = f[x].den
<1>1. PICK g : IsFractionSum(g, f, S) /\ g[S] = sum
    BY FractionSumDefined
<1> DEFINE good == {s \in SUBSET S :
               /\ 0 < g[s].den /\ 0 <= g[s].num /\ g[s].num <= g[s].den * Cardinality(s)
               /\ g[s].num = g[s].den * Cardinality(s) => \A x \in s : f[x].num = f[x].den}
<1>2. {} \in good
    BY <1>1, FS_EmptySet DEF IsFractionSum
<1>3. ASSUME NEW s \in SUBSET S, s # {}, Rest(s) \in good PROVE s \in good
    <2>1. Pick(s) \in s /\ Pick(s) \in S /\ Rest(s) \in SUBSET S
        BY <1>3, PickRest DEF Pick
    <2>2. IsFiniteSet(s) /\ Cardinality(Rest(s)) = Cardinality(s) - 1
        BY <2>1, FS_Subset, FS_RemoveElement DEF Rest
    <2>3. PICK k \in Int : k = Cardinality(Rest(s)) /\ Cardinality(s) = k + 1
        BY <2>2, FS_CardinalityType
    <2>4. PICK a, b : a = f[Pick(s)] /\ b = g[Rest(s)]
        OBVIOUS
    <2>5. a \in Fraction /\ b \in Fraction
        BY <1>1, <2>1, <2>4 DEF IsFractionSum
    <2>6. PICK an, ad, bn, bd \in Int : an = a.num /\ ad = a.den /\ bn = b.num /\ bd = b.den
        BY <2>5 DEF Fraction
    <2>7. g[s] = [num |-> an * bd + bn * ad, den |-> ad * bd]
        BY <1>1, <1>3, <2>4, <2>6 DEF IsFractionSum, PlusFraction
    <2>8. 0 <= an /\ an <= ad /\ 0 < ad
        BY <2>1, <2>4, <2>6
    <2>9. 0 <= bn /\ bn <= bd * k /\ 0 < bd
        BY <1>3, <2>3, <2>4, <2>6
    <2>10. /\ 0 < ad * bd /\ 0 <= an * bd + bn * ad
           /\ an * bd + bn * ad <= (ad * bd) * (k + 1)
           /\ an * bd + bn * ad = (ad * bd) * (k + 1) => an = ad /\ bn = bd * k
        BY <2>8, <2>9, FractionAdded
    <2>11. ASSUME g[s].num = g[s].den * Cardinality(s)
           PROVE  \A x \in s : f[x].num = f[x].den
        <3>1. an = ad /\ bn = bd * k
            BY <2>3, <2>7, <2>10, <2>11
        <3>2. \A x \in Rest(s) : f[x].num = f[x].den
            BY <1>3, <2>3, <2>4, <2>6, <3>1
        <3> QED BY <2>4, <2>6, <3>1, <3>2 DEF Rest
    <2> QED BY <2>3, <2>7, <2>10, <2>11
<1>4. \A s \in SUBSET S : s \in good
    <2> HIDE DEF good
    <2> QED BY <1>2, <1>3, PickInduction
<1>5. S \in good
    BY <1>4
<1>6. sum \in Fraction /\ n \in Int
    BY <1>1, FS_CardinalityType DEF IsFractionSum
<1> QED BY <1>1, <1>5, <1>6

\* The marks of the criteria of an outcome make a fraction between 0 and 1.
LEMMA ReviewFraction ==
    ASSUME RequestInv, NEW r \in ReviewIds, NEW o, MarkedFor(r, o) # {}, NoNegativeWeight(o),
           NEW a, a = ReviewAttainment(r, o)
    PROVE  /\ a \in Fraction /\ 0 <= a.num /\ a.num <= a.den /\ 0 < a.den
           /\ a.num = a.den => \A c \in MarkedFor(r, o) :
                                   marks[r][c] = MaxMarks[c] /\ MaxMarks[c] > 0
<1> DEFINE S == MarkedFor(r, o)
           share == [c \in Criteria |-> Ratio(r, c) * WeightOf(c)]
           weight == [c \in Criteria |-> WeightOf(c)]
           zero == [c \in Criteria |-> 0]
<1>1. IsFiniteSet(S) /\ S \subseteq Criteria
    BY ReviewsAssumption, FS_Subset DEF MarkedFor
<1>2. PICK k \in Int : k = Scale /\ 0 < k
    BY ScalePositive
<1>3. ASSUME NEW c \in S
      PROVE  /\ Ratio(r, c) \in Int /\ 0 <= Ratio(r, c) /\ Ratio(r, c) <= k
             /\ Ratio(r, c) = k => marks[r][c] = MaxMarks[c] /\ MaxMarks[c] > 0
    <2>1. PICK x \in Int, y \in Int : x = marks[r][c] /\ y = MaxMarks[c] /\ 0 <= x /\ x <= y
        BY <1>3, ReviewsAssumption DEF MarkedFor, RequestInv, RequestTablesOK, Marked, Mark
    <2>2. CASE y = 0
        BY <1>2, <2>1, <2>2 DEF Ratio
    <2>3. CASE y > 0
        <3>1. PICK q \in Int : q = k \div y
            BY <2>3
        <3>2. 0 <= q /\ y * q <= k
            BY <1>2, <2>3, <3>1
        <3>3. Ratio(r, c) = x * q
            BY <1>2, <2>1, <2>3, <3>1 DEF Ratio
        <3>4. x * q \in Int /\ 0 <= x * q /\ x * q <= y * q
            BY <2>1, <3>2
        <3>5. ASSUME x * q = k PROVE x = y
            <4>1. q # 0
                BY <1>2, <3>5
            <4>2. x * q = y * q /\ 0 < q
                BY <3>2, <3>4, <3>5, <4>1
            <4> QED BY <2>1, <4>2, Monotonic
        <3> QED BY <2>1, <2>3, <3>2, <3>3, <3>4, <3>5
    <2> QED BY <2>1, <2>2, <2>3
<1>4. \A c \in S : WeightOf(c) \in Int /\ 0 < WeightOf(c)
    <2>1. \A c \in S : Weight[c] \in Int /\ Weight[c] >= 0
        BY AttainmentAssumption DEF MarkedFor, NoNegativeWeight
    <2> HIDE DEF S
    <2> QED BY <2>1 DEF WeightOf
<1>5. ASSUME NEW c \in S
      PROVE  /\ share[c] \in Int /\ weight[c] \in Int /\ 0 < weight[c]
             /\ 0 <= share[c] /\ share[c] <= k * weight[c]
             /\ share[c] = k * weight[c] => marks[r][c] = MaxMarks[c] /\ MaxMarks[c] > 0
    <2>1. PICK x \in Int, w \in Int : x = Ratio(r, c) /\ w = WeightOf(c)
        BY <1>3, <1>4
    <2>2. 0 <= x /\ x <= k /\ 0 < w
        BY <1>3, <1>4, <2>1
    <2>3. share[c] = x * w /\ weight[c] = w
        BY <1>1, <2>1
    <2>4. x * w \in Int /\ 0 <= x * w /\ x * w <= k * w /\ (x * w = k * w => x = k)
        <3>1. 0 * w <= x * w
            BY <2>2, Monotonic
        <3> QED BY <2>2, <3>1, Monotonic
    <2> QED BY <1>3, <2>1, <2>2, <2>3, <2>4
<1>6. PICK n, d \in Int : n = SumFunctionOnSet(share, S) /\ d = SumFunctionOnSet(weight, S)
    <2> HIDE DEF share, weight, S
    <2> QED BY <1>1, <1>2, <1>5, SumBounds
<1>7. 0 <= n /\ n <= k * d /\ (n = k * d => \A c \in S : share[c] = k * weight[c])
    <2> HIDE DEF share, weight, S
    <2> QED BY <1>1, <1>2, <1>5, <1>6, SumBounds
<1>8. 0 < d
    <2>1. \A c \in S : zero[c] = 0
        BY <1>1
    <2>2. PICK z \in Int :
              /\ z = SumFunctionOnSet(zero, S)
              /\ 0 <= z /\ z <= 1 * d
              /\ z = 1 * d => \A c \in S : zero[c] = 1 * weight[c]
        <3>1. \A c \in S : /\ zero[c] \in Int /\ weight[c] \in Int
                           /\ 0 <= zero[c] /\ zero[c] <= 1 * weight[c]
            <4> HIDE DEF share, weight, zero, S
            <4> QED BY <1>5, <2>1
        <3> HIDE DEF share, weight, zero, S
        <3> QED BY <1>1, <1>6, <3>1, SumBounds
    <2>3. d = 0 => z = 1 * d
        BY <2>2
    <2> HIDE DEF share, weight, zero
    <2> QED BY <1>5, <2>1, <2>2, <2>3
<1>9. a = [num |-> n, den |-> k * d]
    BY <1>2, <1>6, <1>8 DEF ReviewAttainment
<1>10. k * d \in Int /\ 0 < k * d
    BY <1>2, <1>8, PositiveProduct
<1> HIDE DEF share, weight, zero
<1> QED BY <1>5, <1>7, <1>9, <1>10 DEF Fraction

\* The mean of the reviews is a percentage where their marks are in range.
LEMMA GroupFraction == RequestInv => AttainmentIsAPercentage
<1> SUFFICES ASSUME RequestInv, NEW o, NoNegativeWeight(o), CountedReviews(o) # {},
                    NEW a, a = GroupAttainment(o)
             PROVE  /\ 0 <= a.num /\ a.num <= a.den /\ a.den > 0
                    /\ a.num = a.den =>
                          \A r \in CountedReviews(o) : \A c \in MarkedFor(r, o) :
                              marks[r][c] = MaxMarks[c] /\ MaxMarks[c] > 0
    BY DEF AttainmentIsAPercentage
<1> DEFINE S == CountedReviews(o)
           f == [r \in ReviewIds |-> ReviewAttainment(r, o)]
<1>1. IsFiniteSet(S) /\ S \subseteq ReviewIds
    BY AttainmentAssumption, FS_Subset DEF CountedReviews
<1>2. ASSUME NEW r \in S
      PROVE  /\ f[r] \in Fraction /\ 0 <= f[r].num /\ f[r].num <= f[r].den /\ 0 < f[r].den
             /\ f[r].num = f[r].den => \A c \in MarkedFor(r, o) :
                                           marks[r][c] = MaxMarks[c] /\ MaxMarks[c] > 0
    <2>1. MarkedFor(r, o) # {} /\ r \in ReviewIds
        BY <1>1, <1>2 DEF CountedReviews
    <2>2. PICK x : x = ReviewAttainment(r, o)
        OBVIOUS
    <2>3. f[r] = x
        BY <2>1, <2>2
    <2> HIDE DEF f, S
    <2> QED BY <2>1, <2>2, <2>3, ReviewFraction
<1>3. PICK n, sum : /\ n = Cardinality(S)
                    /\ sum = FoldFunctionOnSet(PlusFraction, [num |-> 0, den |-> 1], f, S)
    OBVIOUS
<1>4. /\ sum \in Fraction /\ n \in Int /\ 0 < sum.den
      /\ 0 <= sum.num /\ sum.num <= sum.den * n
      /\ sum.num = sum.den * n => \A r \in S : f[r].num = f[r].den
    <2> HIDE DEF f, S
    <2> QED BY <1>1, <1>2, <1>3, FractionBounds
<1>5. 0 < n
    BY <1>1, <1>3, FS_CardinalityType, FS_EmptySet
<1>6. a = [sum EXCEPT !.den = @ * n]
    BY <1>3 DEF GroupAttainment
<1>7. PICK p, q \in Int : sum = [num |-> p, den |-> q]
    BY <1>4 DEF Fraction
<1>8. a = [num |-> p, den |-> q * n]
    BY <1>6, <1>7
<1>9. 0 < q * n
    BY <1>4, <1>5, <1>7, PositiveProduct
<1>10. 0 <= p /\ p <= q * n /\ (p = q * n => \A r \in S : f[r].num = f[r].den)
    BY <1>4, <1>7
<1>11. p = q * n => \A r \in S : \A c \in MarkedFor(r, o) :
                        marks[r][c] = MaxMarks[c] /\ MaxMarks[c] > 0
    <2> HIDE DEF f, S
    <2> QED BY <1>2, <1>10
<1> HIDE DEF f
<1> QED BY <1>8, <1>9, <1>10, <1>11

\* Whatever the rubric, and however requests on the reviews interleave, the
\* attainment of an outcome without negative weights is between 0 and 100 %, and
\* 100 % only for full marks.
THEOREM AttainmentBounded == ReviewRequestsSpec => []AttainmentIsAPercentage
BY GroupFraction, RequestInvInit, RequestInvStep, PTL DEF ReviewRequestsSpec

-----------------------------------------------------------------------------
(* On SQLite *)

Columns == {"status", "by", "max", "obtained"}

\* Each row has its four columns.
WholeRow(x) == x = [column \in Columns |-> x[column]]

\* The guards that looked at the user and the row when a request was loaded.
Admitted(t) ==
    /\ review[t.review].status # "NONE"
    /\ \E u \in Faculty \cup HODs : Sees(u, t.review) /\ Admits(u, t.op, t.review)
    /\ t.op \in MarkOps => t.criterion \in rubric /\ t.mark <= MaxMarks[t.criterion]

\* What a request has in memory is what the tables still hold.
Current(t) ==
    \/ t.pc = "idle"
    \/ /\ t.pc = "loaded"
       /\ t.op \in ReviewOps /\ t.review \in ReviewIds
       /\ t.op \in MarkOps => t.criterion \in Criteria /\ t.mark \in Grades
       /\ Admitted(t)
       /\ t.op = "patch" => t.mem = review[t.review]
    \/ /\ t.pc = "worked"
       /\ t.op \in ReviewOps /\ t.review \in ReviewIds
       /\ t.op \in MarkOps => t.criterion \in Criteria /\ t.mark \in Grades
       /\ Admitted(t)
       /\ StillAdmits(t)
       /\ IF t.op = "patch" THEN t.row = review[t.review] ELSE t.row = ReviewWrites(t)

SqliteInv ==
    /\ review = [r \in ReviewIds |-> review[r]] /\ \A r \in ReviewIds : WholeRow(review[r])
    /\ DOMAIN req = Workers
    /\ engine = "sqlite" => \A w \in Workers : Current(req[w])

LEMMA WholeRowRecord ==
    ASSUME NEW a, NEW b, NEW c, NEW d
    PROVE  WholeRow([status |-> a, by |-> b, max |-> c, obtained |-> d])
BY DEF WholeRow, Columns

LEMMA SavedWhole == ASSUME NEW x, WholeRow(x), NEW y PROVE WholeRow(Saved(y, x))
<1>1. DOMAIN x = Columns
    BY DEF WholeRow
<1>2. Saved(y, x) = [column \in Columns |-> IF column \in DOMAIN y THEN y[column] ELSE x[column]]
    BY <1>1 DEF Saved
<1> QED BY <1>2 DEF WholeRow

\* Saving these columns is what the services' steps do to a row.
LEMMA SavedColumns ==
    ASSUME NEW x, WholeRow(x), NEW m
    PROVE  /\ Saved(x, x) = x
           /\ \A st : Saved([status |-> st], x) = [x EXCEPT !.status = st]
           /\ Saved(Totals(m), x) = WithTotals(x, m)
           /\ Saved(Corrected(Totals(m)), x) = [WithTotals(x, m) EXCEPT !.status = "CORRECTED"]
<1>1. DOMAIN x = Columns
    BY DEF WholeRow
<1>2. \A y : Saved(y, x) =
          [column \in Columns |-> IF column \in DOMAIN y THEN y[column] ELSE x[column]]
    BY <1>1 DEF Saved
<1>3. Saved(x, x) = x
    BY <1>1, <1>2 DEF WholeRow
<1>4. ASSUME NEW st PROVE Saved([status |-> st], x) = [x EXCEPT !.status = st]
    <2>1. PICK z : z = [x EXCEPT !.status = st]
        OBVIOUS
    <2>2. z = [column \in Columns |-> IF column = "status" THEN st ELSE x[column]]
        BY <1>1, <2>1 DEF Columns, WholeRow
    <2>3. PICK y : y = [status |-> st]
        OBVIOUS
    <2>4. \A column \in Columns :
              (IF column \in DOMAIN y THEN y[column] ELSE x[column]) =
              (IF column = "status" THEN st ELSE x[column])
        BY <2>3
    <2>5. Saved(y, x) = z
        BY <1>2, <2>2, <2>4
    <2> QED BY <2>1, <2>3, <2>5
<1>5. PICK a, b : Totals(m) = [max |-> a, obtained |-> b] /\ a = Totals(m).max
                  /\ b = Totals(m).obtained
    BY TotalsShape
<1>6. PICK z : z = WithTotals(x, m)
    OBVIOUS
<1>7. z = [column \in Columns |-> IF column = "max" THEN a
                                  ELSE IF column = "obtained" THEN b ELSE x[column]]
    <2>1. z = [x EXCEPT !.max = a, !.obtained = b]
        BY <1>5, <1>6 DEF WithTotals
    <2> QED BY <1>1, <2>1 DEF Columns, WholeRow
<1>8. Saved(Totals(m), x) = z
    BY <1>2, <1>5, <1>7
<1>9. Saved(Corrected(Totals(m)), x) = [z EXCEPT !.status = "CORRECTED"]
    <2>1. PICK y : y = [status |-> "CORRECTED", max |-> a, obtained |-> b]
        OBVIOUS
    <2>2. Corrected(Totals(m)) = y
        BY <1>5, <2>1 DEF Corrected
    <2>3. PICK v : v = [z EXCEPT !.status = "CORRECTED"]
        OBVIOUS
    <2>4. DOMAIN z = Columns
        BY <1>7
    <2>5. DOMAIN v = Columns /\ v["status"] = "CORRECTED"
          /\ \A column \in Columns \ {"status"} : v[column] = z[column]
        BY <2>3, <2>4 DEF Columns
    <2>6. v = [column \in Columns |-> IF column \in DOMAIN y THEN y[column] ELSE x[column]]
        <3>1. v = [column \in Columns |-> v[column]]
            BY <2>3, <2>4
        <3>2. \A column \in Columns :
                  v[column] = IF column \in DOMAIN y THEN y[column] ELSE x[column]
            BY <1>7, <2>1, <2>5 DEF Columns
        <3> QED BY <3>1, <3>2
    <2>7. Saved(y, x) = v
        BY <1>2, <2>6
    <2> QED BY <2>2, <2>3, <2>7
<1> QED BY <1>3, <1>4, <1>6, <1>8, <1>9

LEMMA SqliteInvInit == ReviewRequestsInit => SqliteInv
BY WholeRowRecord
DEF ReviewRequestsInit, ReviewsInit, TransactionsInit, SqliteInv, NoReview, Idle, Current

\* The tables stand still and one request goes on.
LEMMA OneRequestMoves ==
    ASSUME SqliteInv, UNCHANGED <<reviewVars, engine>>, NEW w \in Workers, NEW m,
           req' = [req EXCEPT ![w] = m], engine = "sqlite" => Current(m)'
    PROVE  SqliteInv'
<1>1. ASSUME NEW t, Current(t) PROVE Current(t)'
    BY <1>1, Zenon DEF Current, Admitted, StillAdmits, Admits, Sees, ActsAsReviewer,
                       Complete, ReviewWrites, reviewVars
<1>2. ASSUME engine' = "sqlite", NEW v \in Workers, NEW t, t = req'[v] PROVE Current(t)'
    <2>1. t = IF v = w THEN m ELSE req[v]
        BY <1>2 DEF SqliteInv
    <2> QED BY <1>1, <1>2, <2>1 DEF SqliteInv
<1>3. UNCHANGED <<review, engine>> /\ DOMAIN req' = Workers
    BY DEF SqliteInv, reviewVars
<1> QED BY <1>2, <1>3 DEF SqliteInv, WholeRow

\* A request whose memory has the same operation and target.
LEMMA SameRequest ==
    ASSUME NEW t, NEW m, m.op = t.op, m.review = t.review, m.criterion = t.criterion,
           m.mark = t.mark
    PROVE  /\ Admitted(t) => Admitted(m)
           /\ StillAdmits(t) => StillAdmits(m)
           /\ t.op \in ReviewOps \ {"patch"} => ReviewWrites(m) = ReviewWrites(t)
<1>1. Admitted(t) => Admitted(m)
    BY DEF Admitted
<1>2. StillAdmits(t) => StillAdmits(m)
    BY Zenon DEF StillAdmits
<1>3. PICK seen : seen = [marks[t.review] EXCEPT ![t.criterion] = t.mark]
    OBVIOUS
<1>4. seen = [marks[m.review] EXCEPT ![m.criterion] = m.mark]
    BY <1>3
<1>5. t.op \in ReviewOps \ {"patch"} => ReviewWrites(m) = ReviewWrites(t)
    BY <1>3, <1>4, WritesOf DEF ReviewOps
<1> QED BY <1>1, <1>2, <1>5

LEMMA SqliteLoads ==
    ASSUME SqliteInv, NEW w \in Workers, NEW op \in ReviewOps, NEW r \in ReviewIds,
           NEW c \in Criteria, NEW n \in Grades, LoadReview(w, op, r, c, n), UNCHANGED engine
    PROVE  SqliteInv'
<1>1. PICK m : /\ m = [pc |-> "loaded", op |-> op, review |-> r, criterion |-> c, mark |-> n,
                       mem |-> IF op = "patch" THEN review[r] ELSE NoReview]
               /\ req' = [req EXCEPT ![w] = m]
    BY DEF LoadReview, Begin
<1>2. Admitted(m)
    BY <1>1 DEF LoadReview, Admitted
<1>3. Current(m)
    BY <1>1, <1>2 DEF Current
<1>4. UNCHANGED reviewVars
    BY DEF LoadReview
<1>5. Current(m)'
    BY <1>3, <1>4, Zenon DEF Current, Admitted, StillAdmits, Admits, Sees, ActsAsReviewer,
                             Complete, ReviewWrites, reviewVars
<1> QED BY <1>1, <1>4, <1>5, OneRequestMoves

LEMMA SqliteWorks ==
    ASSUME SqliteInv, NEW w \in Workers, WorkOnReview(w), UNCHANGED engine
    PROVE  SqliteInv'
<1>1. PICK t, row : t = req[w] /\ row = ReviewWrites(t)
    OBVIOUS
<1>2. t.pc = "loaded" /\ StillAdmits(t) /\ UNCHANGED reviewVars
    BY <1>1 DEF WorkOnReview
<1>3. PICK m : /\ m = [pc |-> "worked", op |-> t.op, review |-> t.review,
                       criterion |-> t.criterion, mark |-> t.mark, row |-> row]
               /\ req' = [req EXCEPT ![w] = m]
    BY <1>1 DEF WorkOnReview, Proceed
<1>4. ASSUME engine = "sqlite" PROVE Current(m)
    <2>1. /\ t.op \in ReviewOps /\ t.review \in ReviewIds
          /\ t.op \in MarkOps => t.criterion \in Criteria /\ t.mark \in Grades
          /\ Admitted(t)
          /\ t.op = "patch" => t.mem = review[t.review]
        BY <1>1, <1>2, <1>4 DEF SqliteInv, Current
    <2>2. Admitted(m) /\ StillAdmits(m)
        BY <1>2, <1>3, <2>1, SameRequest
    <2>3. CASE t.op = "patch"
        <3>1. PICK seen : seen = [marks[t.review] EXCEPT ![t.criterion] = t.mark]
            OBVIOUS
        <3>2. row = review[t.review]
            BY <1>1, <2>1, <2>3, <3>1, WritesOf
        <3> QED BY <1>3, <2>1, <2>2, <2>3, <3>2 DEF Current
    <2>4. CASE t.op # "patch"
        <3>1. ReviewWrites(m) = row
            BY <1>1, <1>3, <2>1, <2>4, SameRequest
        <3> QED BY <1>3, <2>1, <2>2, <2>4, <3>1 DEF Current
    <2> QED BY <2>3, <2>4
<1>5. engine = "sqlite" => Current(m)'
    BY <1>2, <1>4, Zenon DEF Current, Admitted, StillAdmits, Admits, Sees, ActsAsReviewer,
                             Complete, ReviewWrites, reviewVars
<1> QED BY <1>2, <1>3, <1>5, OneRequestMoves

\* The tables change while, on SQLite, no request has read them.
LEMMA NoneReads ==
    ASSUME review' = [s \in ReviewIds |-> review'[s]], \A r \in ReviewIds : WholeRow(review'[r]),
           DOMAIN req' = Workers,
           engine' = "sqlite" => \A w \in Workers : req'[w].pc = "idle"
    PROVE  SqliteInv'
BY DEF SqliteInv, Current, WholeRow

LEMMA SqliteCommits ==
    ASSUME SqliteInv, NEW w \in Workers, CommitReview(w), UNCHANGED engine
    PROVE  SqliteInv'
<1>1. PICK r, row, new : /\ r = req[w].review /\ row = req[w].row
                         /\ new = Saved(row, review[r])
    OBVIOUS
<1>2. review' = [review EXCEPT ![r] = Saved(row, review[r])]
    BY <1>1 DEF CommitReview, SqliteInv
<1>3. review' = [s \in ReviewIds |-> review'[s]] /\ \A s \in ReviewIds : WholeRow(review'[s])
    BY <1>2, SavedWhole DEF SqliteInv
<1>4. req' = [req EXCEPT ![w] = Idle] /\ MayCommit(w)
    BY DEF CommitReview, Finish
<1>5. DOMAIN req' = Workers /\ (engine' = "sqlite" => \A v \in Workers : req'[v].pc = "idle")
    BY <1>4 DEF SqliteInv, MayCommit, Busy, Idle
<1> QED BY <1>3, <1>5, NoneReads

LEMMA SqliteSingle == SqliteInv /\ SingleStatement /\ UNCHANGED engine => SqliteInv'
<1> SUFFICES ASSUME SqliteInv, SingleStatement, UNCHANGED engine PROVE SqliteInv'
    OBVIOUS
<1>1. DOMAIN req' = Workers /\ (engine' = "sqlite" => \A w \in Workers : req'[w].pc = "idle")
    BY DEF SingleStatement, SqliteInv, Busy
<1>2. WholeRow(NoReview)
    BY WholeRowRecord DEF NoReview
<1>3. review' = [s \in ReviewIds |-> review'[s]] /\ \A r \in ReviewIds : WholeRow(review'[r])
    <2>1. CASE AssessmentStep
        <3>1. review' = review
            BY <2>1 DEF AssessmentStep, AddCriterion, AssignReviewer, ReassignReviewer,
                        DeleteAssignments, EndAssignment
        <3> QED BY <3>1 DEF SqliteInv
    <2>2. ASSUME NEW u, NEW r \in ReviewIds, CreateReview(u, r)
          PROVE  /\ review' = [s \in ReviewIds |-> review'[s]]
                 /\ \A s \in ReviewIds : WholeRow(review'[s])
        BY <2>2, WholeRowRecord DEF CreateReview, SqliteInv
    <2>3. ASSUME NEW u, NEW r \in ReviewIds, DestroyReview(u, r)
          PROVE  /\ review' = [s \in ReviewIds |-> review'[s]]
                 /\ \A s \in ReviewIds : WholeRow(review'[s])
        BY <1>2, <2>3 DEF DestroyReview, SqliteInv
    <2> QED BY <2>1, <2>2, <2>3 DEF SingleStatement
<1> QED BY <1>1, <1>3, NoneReads

LEMMA SqliteInvStep ==
    SqliteInv /\ [ReviewRequestsNext /\ UNCHANGED engine]_reviewRequestVars => SqliteInv'
<1> SUFFICES ASSUME SqliteInv, [ReviewRequestsNext /\ UNCHANGED engine]_reviewRequestVars
             PROVE  SqliteInv'
    OBVIOUS
<1>1. ASSUME NEW w \in Workers, RollBack(w), UNCHANGED <<reviewVars, engine>>
      PROVE  SqliteInv'
    <2>1. PICK m : m.pc = "idle" /\ req' = [req EXCEPT ![w] = m]
        BY <1>1 DEF RollBack, Finish, Idle
    <2>2. Current(m)'
        BY <2>1 DEF Current
    <2> QED BY <1>1, <2>1, <2>2, OneRequestMoves
<1>2. CASE UNCHANGED reviewRequestVars
    <2>1. ASSUME NEW t, Current(t) PROVE Current(t)'
        BY <1>2, <2>1, Zenon DEF Current, Admitted, StillAdmits, Admits, Sees, ActsAsReviewer,
                                 Complete, ReviewWrites, reviewVars, reviewRequestVars
    <2>2. UNCHANGED <<review, req, engine>>
        BY <1>2 DEF reviewVars, reviewRequestVars
    <2> QED BY <2>1, <2>2 DEF SqliteInv, WholeRow
<1>3. ASSUME NEW w \in Workers, NEW op \in ReviewOps, NEW r \in ReviewIds, NEW c \in Criteria,
             NEW n \in UNION {0..MaxMarks[d] : d \in Criteria}, LoadReview(w, op, r, c, n),
             UNCHANGED engine
      PROVE  SqliteInv'
    <2>1. n \in Grades
        BY DEF Grades
    <2> QED BY <1>3, <2>1, SqliteLoads
<1> QED BY <1>1, <1>2, <1>3, SqliteWorks, SqliteCommits, SqliteSingle DEF ReviewRequestsNext

\* On SQLite a commit is the step of a service that runs alone, or changes
\* nothing.
LEMMA CommitIsAStep ==
    ASSUME RequestInv, SqliteInv, engine = "sqlite", NEW w \in Workers, CommitReview(w),
           reviewVars' # reviewVars
    PROVE  ReviewsNext
<1>1. PICK t, r, c, n, x, row, op :
          /\ t = req[w] /\ r = t.review /\ c = t.criterion /\ n = t.mark /\ op = t.op
          /\ x = review[r] /\ row = t.row
    OBVIOUS
<1>2. /\ op \in ReviewOps /\ r \in ReviewIds /\ (op \in MarkOps => c \in Criteria /\ n \in Grades)
      /\ Admitted(t) /\ StillAdmits(t)
      /\ IF op = "patch" THEN row = x ELSE row = ReviewWrites(t)
    <2>1. t.pc = "worked"
        BY <1>1 DEF CommitReview
    <2> QED BY <1>1, <2>1 DEF SqliteInv, Current
<1>3. /\ x.status # "NONE"
      /\ op \in MarkOps => c \in rubric /\ n <= MaxMarks[c]
    BY <1>1, <1>2 DEF Admitted
<1>4. PICK u \in Faculty \cup HODs : Sees(u, r) /\ Admits(u, op, r)
    BY <1>1, <1>2 DEF Admitted
<1>5. PICK seen : seen = [marks[r] EXCEPT ![c] = n]
    OBVIOUS
<1>5a. /\ op = "enter_mark" => row = Totals(seen)
       /\ op = "submit" => row = [status |-> "SUBMITTED"]
       /\ op = "finalize" => row = [status |-> "FINALIZED"]
       /\ op = "request_correction" => row = [status |-> "CORRECTION_REQUESTED"]
       /\ op = "correct_mark" => row = Corrected(Totals(seen))
    <2>1. seen = [marks[t.review] EXCEPT ![t.criterion] = t.mark] /\ op = t.op
        BY <1>1, <1>5
    <2>2. op # "patch" => row = ReviewWrites(t)
        BY <1>2
    <2> QED BY <2>1, <2>2, WritesOf, Zenon
<1>6. /\ review' = [review EXCEPT ![r] = Saved(row, x)]
      /\ op \in MarkOps => marks' = [marks EXCEPT ![r][c] = n]
      /\ op \notin MarkOps => marks' = marks
      /\ op = "correct_mark" =>
            corrections' = [corrections EXCEPT ![r] = Append(@, [criterion |-> c, new |-> n])]
      /\ op # "correct_mark" => corrections' = corrections
      /\ UNCHANGED <<reviewer, assigned, rubric>>
    BY <1>1, <1>2 DEF CommitReview, SqliteInv
<1>7. WholeRow(x)
    BY <1>1, <1>2 DEF SqliteInv
<1>8. CASE op = "patch"
    <2>1. Saved(row, x) = x
        BY <1>2, <1>7, <1>8, SavedColumns
    <2>2. UNCHANGED reviewVars
        BY <1>1, <1>6, <1>8, <2>1 DEF SqliteInv, MarkOps, reviewVars
    <2> QED BY <2>2
<1>9. ASSUME op \in MarkOps
      PROVE  c \in Criteria /\ n \in Grades /\ marks'[r] = seen
    BY <1>2, <1>5, <1>6, <1>9 DEF RequestInv, RequestTablesOK
<1>10. CASE op = "enter_mark"
    <2>1. row = Totals(seen)
        BY <1>5a, <1>10
    <2>2. Saved(row, x) = WithTotals(x, marks'[r])
        BY <1>7, <1>9, <1>10, <2>1, SavedColumns DEF MarkOps
    <2>3. ActsAsReviewer(u) /\ x.status # "FINALIZED"
        BY <1>1, <1>4, <1>10, Zenon DEF Admits
    <2>4. MayAct(u, r)
        BY <1>1, <1>3, <1>4, <2>3 DEF MayAct
    <2>5. EnterMark(u, r, c, n)
        BY <1>1, <1>3, <1>6, <1>10, <2>2, <2>3, <2>4 DEF EnterMark, MarkOps
    <2> QED BY <1>2, <1>9, <1>10, <2>5 DEF ReviewsNext, ReviewStep, Grades, MarkOps
<1>11. ASSUME NEW st, row = [status |-> st], op \in ReviewOps \ (MarkOps \cup {"patch"})
       PROVE  SetStatus(r, st)
    <2>1. Saved(row, x) = [x EXCEPT !.status = st]
        BY <1>7, <1>11, SavedColumns
    <2>2. review' = [review EXCEPT ![r].status = st]
        BY <1>1, <1>6, <2>1
    <2> QED BY <1>6, <1>11, <2>2 DEF SetStatus, MarkOps
<1>12. CASE op = "submit"
    <2>1. row = [status |-> "SUBMITTED"]
        BY <1>5a, <1>12
    <2>2. SetStatus(r, "SUBMITTED")
        BY <1>11, <1>12, <2>1 DEF ReviewOps, MarkOps
    <2>3. ActsAsReviewer(u) /\ Complete(r)
        BY <1>1, <1>2, <1>4, <1>12, Zenon DEF Admits, StillAdmits
    <2>4. SubmitReview(u, r)
        BY <1>1, <1>3, <1>4, <2>2, <2>3 DEF SubmitReview, MayAct
    <2> QED BY <1>2, <2>4 DEF ReviewsNext, ReviewStep
<1>13. CASE op = "finalize"
    <2>1. row = [status |-> "FINALIZED"]
        BY <1>5a, <1>13
    <2>2. SetStatus(r, "FINALIZED")
        BY <1>11, <1>13, <2>1 DEF ReviewOps, MarkOps
    <2>3. ActsAsReviewer(u) /\ Complete(r)
        BY <1>1, <1>2, <1>4, <1>13, Zenon DEF Admits, StillAdmits
    <2>4. FinalizeReview(u, r)
        BY <1>1, <1>3, <1>4, <2>2, <2>3 DEF FinalizeReview, MayAct
    <2> QED BY <1>2, <2>4 DEF ReviewsNext, ReviewStep
<1>14. CASE op = "request_correction"
    <2>1. row = [status |-> "CORRECTION_REQUESTED"]
        BY <1>5a, <1>14
    <2>2. SetStatus(r, "CORRECTION_REQUESTED")
        BY <1>11, <1>14, <2>1 DEF ReviewOps, MarkOps
    <2>3. u \in HODs /\ x.status = "FINALIZED"
        BY <1>1, <1>4, <1>14, Zenon DEF Admits
    <2>4. RequestCorrection(u, r)
        BY <1>1, <2>2, <2>3 DEF RequestCorrection
    <2> QED BY <1>2, <2>4 DEF ReviewsNext, ReviewStep
<1>15. CASE op = "correct_mark"
    <2>1. row = Corrected(Totals(seen))
        BY <1>5a, <1>15
    <2>2. Saved(row, x) = [WithTotals(x, marks'[r]) EXCEPT !.status = "CORRECTED"]
        BY <1>7, <1>9, <1>15, <2>1, SavedColumns DEF MarkOps
    <2>3. /\ u \in HODs /\ x.status \in {"CORRECTION_REQUESTED", "CORRECTED"}
          /\ marks[r][c] # Unmarked /\ Len(corrections[r]) < MaxCorrections
        BY <1>1, <1>2, <1>4, <1>15, Zenon DEF Admits, StillAdmits
    <2>4. CorrectMark(u, r, c, n)
        BY <1>1, <1>3, <1>6, <1>15, <2>2, <2>3 DEF CorrectMark, MarkOps
    <2> QED BY <1>2, <1>9, <1>15, <2>4 DEF ReviewsNext, ReviewStep, Grades, MarkOps
<1> QED BY <1>2, <1>8, <1>10, <1>12, <1>13, <1>14, <1>15 DEF ReviewOps

LEMMA SqliteSerial ==
    ASSUME RequestInv, SqliteInv, engine = "sqlite", reviewVars' # reviewVars,
           [ReviewRequestsNext /\ UNCHANGED engine]_reviewRequestVars
    PROVE  ReviewsNext
<1>1. CASE SingleStatement
    BY <1>1 DEF SingleStatement, ReviewsNext, ReviewStep
<1>2. ~UNCHANGED reviewRequestVars
    BY DEF reviewRequestVars
<1>3. ASSUME NEW w \in Workers, NEW op, NEW r, NEW c, NEW n,
             LoadReview(w, op, r, c, n) \/ WorkOnReview(w) \/ (RollBack(w) /\ UNCHANGED reviewVars)
      PROVE  FALSE
    BY <1>3 DEF LoadReview, WorkOnReview
<1> QED BY <1>1, <1>2, <1>3, CommitIsAStep DEF ReviewRequestsNext

\* On SQLite the services run as if alone whatever requests overlap: only the
\* one that is left when all others have ended commits, and until then the
\* tables are as it read them, so its guards still hold and the columns it
\* saves are those of the row.
THEOREM SqliteSerializes == ReviewRequestsSpec => ReviewsSerializable
<1>1. /\ RequestInv /\ SqliteInv
      /\ [ReviewRequestsNext /\ UNCHANGED engine]_reviewRequestVars
      => [engine = "sqlite" /\ reviewVars' # reviewVars => ReviewsNext]_reviewVars
    BY SqliteSerial
<1> QED BY <1>1, RequestInvInit, RequestInvStep, SqliteInvInit, SqliteInvStep, PTL
        DEF ReviewRequestsSpec, ReviewsSerializable

\* On SQLite no race costs a mark its place in the totals: with any number of
\* requests under way, the totals saved are the sums of the marks saved, and a
\* review that shows as corrected has its correction row.
THEOREM OverlappingTotals ==
    ReviewRequestsSpec => [](engine = "sqlite" => TotalsMatchMarks /\ CorrectedHasCorrection)
<1>1. ReviewRequestsInit => (engine = "sqlite" => ReviewInv)
    BY ReviewInvInit DEF ReviewRequestsInit
<1>2. ASSUME RequestInv, SqliteInv, engine = "sqlite" => ReviewInv,
             [ReviewRequestsNext /\ UNCHANGED engine]_reviewRequestVars, engine' = "sqlite"
      PROVE  ReviewInv'
    <2>1. engine = "sqlite"
        BY <1>2 DEF reviewRequestVars
    <2>2. [ReviewsNext]_reviewVars
        BY <1>2, <2>1, SqliteSerial
    <2> QED BY <1>2, <2>1, <2>2, ReviewInvStep
<1>3. /\ RequestInv /\ SqliteInv /\ (engine = "sqlite" => ReviewInv)
      /\ [ReviewRequestsNext /\ UNCHANGED engine]_reviewRequestVars
      => (engine = "sqlite" => ReviewInv)'
    BY <1>2
<1>4. (engine = "sqlite" => ReviewInv)
        => (engine = "sqlite" => TotalsMatchMarks /\ CorrectedHasCorrection)
    BY DEF ReviewInv
<1> QED BY <1>1, <1>3, <1>4, RequestInvInit, RequestInvStep, SqliteInvInit, SqliteInvStep, PTL
        DEF ReviewRequestsSpec
=============================================================================
