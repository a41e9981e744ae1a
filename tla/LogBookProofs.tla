---------------------------- MODULE LogBookProofs ---------------------------
(***************************************************************************)
(* Proofs about LogBook, on SQLite: what the gate saw when a generation    *)
(* began, and what is still so when the book is filed.  The reviews and    *)
(* the forms stay since nothing commits beside a generation; the approved  *)
(* stages stay afterwards too, since no service takes an approval back     *)
(* (SatisfiedStays).  Then LogBookPages: what is printed, and where.       *)
(***************************************************************************)
EXTENDS LogBook, LogBookPages, SubmissionProgressProofs, ReviewsProofs, SequenceTheorems

-----------------------------------------------------------------------------
(* The invariant *)

\* What a generation has in memory.
BookMemory(m) ==
    \/ m.pc = "idle"
    \/ m.pc = "checked"
    \/ m.pc = "numbered" /\ m.version \in Nat

BookTypes ==
    /\ engine = "sqlite"
    /\ project \in {"none", "unguided", "guided"}
    /\ books \in Seq(Nat)
    /\ DOMAIN req = Workers
    /\ \A w \in Workers : BookMemory(req[w])

\* Once the gate let a generation through, no required stage is missing.
StagesStayCovered ==
    books # << >> \/ (\E w \in Workers : Busy(w)) => MissingStages = {}

\* The rest of what a generation checked or counted is still so.
StillPassed ==
    \A w \in Workers : Busy(w) =>
        /\ forms = Forms /\ project = "guided" /\ PendingReviews = {}
        /\ req[w].pc = "numbered" => req[w].version = Len(books) + 1

LogBookInv ==
    /\ IInv /\ ReviewInv /\ BookTypes /\ StagesStayCovered
    /\ StillPassed
    /\ BooksNumbered

\* What a step files, and from which data.
FiledFinal ==
    books' # books =>
        /\ forms = Forms /\ project = "guided"
        /\ \A r \in ReviewIds : review[r].status \in {"NONE", "FINALIZED"}

LEMMA LogBookInvInit == LogBookInit => LogBookInv
<1> SUFFICES ASSUME LogBookInit PROVE LogBookInv
    OBVIOUS
<1>1. IInv /\ ReviewInv
    BY InitEstablishes, ReviewInvInit DEF LogBookInit
<1>2. \A w \in Workers : req[w].pc = "idle"
    BY DEF LogBookInit, TransactionsInit, Idle
<1>3. books = << >> /\ project = "none" /\ DOMAIN req = Workers
    BY DEF LogBookInit, TransactionsInit
<1>4. engine = "sqlite"
    BY DEF LogBookInit
<1> QED BY <1>1, <1>2, <1>3, <1>4 DEF LogBookInv, BookTypes, BookMemory, StagesStayCovered,
                                StillPassed, BooksNumbered, Busy

-----------------------------------------------------------------------------
(* The steps *)

\* No service takes back what satisfies a stage.
LEMMA CoverageStays ==
    ASSUME IInv, IInv', [Next]_vars, MissingStages = {}
    PROVE  MissingStages' = {}
<1> SUFFICES ASSUME NEW st \in ActiveStages \cap RequiredStages
             PROVE  IsStageSatisfied(sub', BookGroup, st)
    BY DEF MissingStages
<1>1. IsStageSatisfied(sub, BookGroup, st)
    BY DEF MissingStages
<1>2. st \in Stages /\ BookGroup \in Groups
    BY LogBookAssumption
<1> QED BY <1>1, <1>2, SatisfiedStays

\* What any other request may change.
LEMMA OtherRequestStep ==
    ASSUME LogBookInv, OtherRequest, UNCHANGED engine
    PROVE  LogBookInv' /\ FiledFinal
<1>1. UNCHANGED <<books, req, engine>>
    BY DEF OtherRequest, bookVars, FormsStep, OpenProject, GuideProject, Provide, Withdraw
<1>2. [Next]_vars /\ IInv'
    <2>1. [Next]_vars
        BY DEF OtherRequest
    <2> QED BY <2>1, ServiceStepKeeps DEF LogBookInv
<1>3. ReviewInv'
    <2>1. [ReviewsNext]_reviewVars
        BY DEF OtherRequest
    <2> QED BY <2>1, ReviewInvStep DEF LogBookInv
<1>4. BookTypes'
    BY <1>1 DEF OtherRequest, bookVars, FormsStep, OpenProject, GuideProject, Provide, Withdraw,
                LogBookInv, BookTypes
<1>5. StagesStayCovered'
    BY <1>1, <1>2, CoverageStays DEF LogBookInv, StagesStayCovered, Busy
<1>6. StillPassed'
    BY <1>1 DEF OtherRequest, StillPassed, Busy
<1>7. BooksNumbered' /\ FiledFinal
    BY <1>1 DEF LogBookInv, BooksNumbered, FiledFinal
<1> QED BY <1>2, <1>3, <1>4, <1>5, <1>6, <1>7 DEF LogBookInv

\* A step of a generation leaves the tables it reads alone.
LEMMA TablesKept ==
    ASSUME LogBookInv, UNCHANGED <<vars, reviewVars>>
    PROVE  IInv' /\ ReviewInv' /\ MissingStages' = MissingStages
           /\ PendingReviews' = PendingReviews
<1>1. [Next]_vars /\ [ReviewsNext]_reviewVars
    OBVIOUS
<1>2. IInv' /\ ReviewInv'
    BY <1>1, ServiceStepKeeps, ReviewInvStep DEF LogBookInv
<1>3. sub' = sub /\ review' = review
    BY DEF vars, reviewVars
<1> QED BY <1>2, <1>3 DEF MissingStages, PendingReviews

LEMMA CheckStep ==
    ASSUME LogBookInv, NEW w \in Workers, CheckBook(w), UNCHANGED engine
    PROVE  LogBookInv' /\ FiledFinal
<1>1. UNCHANGED <<vars, reviewVars>> /\ UNCHANGED <<project, forms, books, engine>>
    BY DEF CheckBook, bookVars
<1>2. /\ IInv' /\ ReviewInv' /\ MissingStages' = MissingStages
      /\ PendingReviews' = PendingReviews
    BY <1>1, TablesKept
<1>3. MissingStages = {} /\ PendingReviews = {} /\ forms = Forms /\ project = "guided"
    BY DEF CheckBook, GateAnswer, LogBookInv, BookTypes
<1>4. /\ DOMAIN req' = Workers
      /\ \A v \in Workers : req'[v] = IF v = w THEN [pc |-> "checked"] ELSE req[v]
    BY DEF CheckBook, Begin, LogBookInv, BookTypes
<1>5. BookTypes'
    BY <1>1, <1>4 DEF LogBookInv, BookTypes, BookMemory
<1>6. StagesStayCovered'
    BY <1>2, <1>3 DEF StagesStayCovered
<1>7. StillPassed'
    BY <1>1, <1>2, <1>3, <1>4 DEF LogBookInv, StillPassed, Busy
<1>8. BooksNumbered' /\ FiledFinal
    BY <1>1 DEF LogBookInv, BooksNumbered, FiledFinal
<1> QED BY <1>2, <1>5, <1>6, <1>7, <1>8 DEF LogBookInv

LEMMA NumberStep ==
    ASSUME LogBookInv, NEW w \in Workers, NumberBook(w), UNCHANGED engine
    PROVE  LogBookInv' /\ FiledFinal
<1>1. UNCHANGED <<vars, reviewVars>> /\ UNCHANGED <<project, forms, books, engine>>
    BY DEF NumberBook, bookVars
<1>2. /\ IInv' /\ ReviewInv' /\ MissingStages' = MissingStages
      /\ PendingReviews' = PendingReviews
    BY <1>1, TablesKept
<1>3. /\ req[w].pc = "checked" /\ DOMAIN req' = Workers
      /\ \A v \in Workers : req'[v] = IF v = w THEN [pc |-> "numbered", version |-> Len(books) + 1]
                                      ELSE req[v]
    BY DEF NumberBook, Proceed, LogBookInv, BookTypes
<1>4. Len(books) + 1 \in Nat
    BY LenProperties DEF LogBookInv, BookTypes
<1>5. BookTypes'
    BY <1>1, <1>3, <1>4 DEF LogBookInv, BookTypes, BookMemory
<1>6. StagesStayCovered'
    BY <1>2, <1>3 DEF LogBookInv, StagesStayCovered, Busy
<1>7. StillPassed'
    BY <1>1, <1>2, <1>3 DEF LogBookInv, StillPassed, Busy
<1>8. BooksNumbered' /\ FiledFinal
    BY <1>1 DEF LogBookInv, BooksNumbered, FiledFinal
<1> QED BY <1>2, <1>5, <1>6, <1>7, <1>8 DEF LogBookInv

LEMMA FileStep ==
    ASSUME LogBookInv, NEW w \in Workers, FileBook(w), UNCHANGED engine
    PROVE  LogBookInv' /\ FiledFinal
<1>1. UNCHANGED <<vars, reviewVars>> /\ UNCHANGED <<project, forms, engine>>
    BY DEF FileBook
<1>2. /\ IInv' /\ ReviewInv' /\ MissingStages' = MissingStages
    BY <1>1, TablesKept
<1>3. /\ req[w].pc = "numbered" /\ DOMAIN req' = Workers
      /\ \A v \in Workers : req'[v] = IF v = w THEN Idle ELSE req[v]
    BY DEF FileBook, Finish, LogBookInv, BookTypes
<1>4. Busy(w) /\ req[w].version \in Nat
    BY <1>3 DEF Busy, LogBookInv, BookTypes, BookMemory
<1> DEFINE app == Append(books, req[w].version)
<1>5. /\ app \in Seq(Nat) /\ Len(app) = Len(books) + 1
      /\ \A i \in 1..Len(books) : app[i] = books[i]
      /\ app[Len(books) + 1] = req[w].version
    BY <1>4, AppendProperties DEF LogBookInv, BookTypes
<1>6. books' = app
    BY DEF FileBook
<1> HIDE DEF app
<1>7. BookTypes'
    BY <1>1, <1>3, <1>5, <1>6 DEF LogBookInv, BookTypes, BookMemory, Idle
<1>8. StagesStayCovered'
    BY <1>2, <1>4 DEF LogBookInv, StagesStayCovered
<1>9. StillPassed'
    BY <1>1, <1>3 DEF FileBook, MayCommit, LogBookInv, BookTypes, StillPassed, Busy, Idle
<1>10. BooksNumbered'
    <2> SUFFICES ASSUME NEW i \in DOMAIN app PROVE app[i] = i
        BY <1>1, <1>6 DEF BooksNumbered
    <2>1. i \in 1..Len(books) + 1 /\ Len(books) \in Nat
        BY <1>5, LenProperties DEF LogBookInv, BookTypes
    <2>2. req[w].version = Len(books) + 1
        BY <1>3, <1>4 DEF LogBookInv, StillPassed
    <2>3. \A j \in 1..Len(books) : books[j] = j
        BY LenProperties DEF LogBookInv, BooksNumbered, BookTypes
    <2> QED BY <1>5, <2>1, <2>2, <2>3
<1>11. FiledFinal
    <2>1. ASSUME NEW r \in ReviewIds
          PROVE  review[r].status \in {"NONE", "FINALIZED"}
        <3>1. r \notin PendingReviews
            BY <1>4 DEF LogBookInv, StillPassed
        <3>2. review[r].status \in ReviewStatus \cup {"NONE"}
            BY DEF LogBookInv, ReviewInv, RowsOK, ReviewRow
        <3> QED BY <3>1, <3>2 DEF PendingReviews, ReviewStatus
    <2> QED BY <1>4, <2>1 DEF FiledFinal, LogBookInv, StillPassed
<1> QED BY <1>2, <1>7, <1>8, <1>9, <1>10, <1>11 DEF LogBookInv

LEMMA RollBackStep ==
    ASSUME LogBookInv, NEW w \in Workers, RollBack(w), UNCHANGED <<vars, reviewVars, bookVars>>,
           UNCHANGED engine
    PROVE  LogBookInv' /\ FiledFinal
<1>1. UNCHANGED <<project, forms, books, engine>>
    BY DEF bookVars
<1>2. /\ IInv' /\ ReviewInv' /\ MissingStages' = MissingStages
      /\ PendingReviews' = PendingReviews
    BY TablesKept
<1>3. /\ Busy(w) /\ DOMAIN req' = Workers
      /\ \A v \in Workers : req'[v] = IF v = w THEN Idle ELSE req[v]
    BY DEF RollBack, Finish, LogBookInv, BookTypes
<1>4. BookTypes'
    BY <1>1, <1>3 DEF LogBookInv, BookTypes, BookMemory, Idle
<1>5. StagesStayCovered'
    BY <1>2, <1>3 DEF LogBookInv, StagesStayCovered
<1>6. StillPassed'
    BY <1>1, <1>2, <1>3 DEF LogBookInv, StillPassed, Busy, Idle
<1>7. BooksNumbered' /\ FiledFinal
    BY <1>1 DEF LogBookInv, BooksNumbered, FiledFinal
<1> QED BY <1>2, <1>4, <1>5, <1>6, <1>7 DEF LogBookInv

LEMMA LogBookInvStep == LogBookInv /\ [LogBookNext]_logBookVars => LogBookInv' /\ FiledFinal
<1> SUFFICES ASSUME LogBookInv, [LogBookNext]_logBookVars PROVE LogBookInv' /\ FiledFinal
    OBVIOUS
<1>1. CASE UNCHANGED logBookVars
    <2>1. UNCHANGED <<vars, reviewVars>> /\ UNCHANGED <<project, forms, books, engine, req>>
        BY <1>1 DEF logBookVars, bookVars
    <2>2. /\ IInv' /\ ReviewInv' /\ MissingStages' = MissingStages
          /\ PendingReviews' = PendingReviews
        BY <2>1, TablesKept
    <2> QED BY <2>1, <2>2 DEF LogBookInv, BookTypes, StagesStayCovered, StillPassed,
                              BooksNumbered, FiledFinal, Busy
<1> QED BY <1>1, OtherRequestStep, CheckStep, NumberStep, FileStep, RollBackStep DEF LogBookNext

-----------------------------------------------------------------------------
(* The theorems *)

LEMMA LogBookInvariant == LogBookSpec => []LogBookInv
<1>1. LogBookInv /\ [LogBookNext]_logBookVars => LogBookInv'
    BY LogBookInvStep
<1> QED BY <1>1, LogBookInvInit, PTL DEF LogBookSpec

\* On SQLite, a project with a book has each required stage approved: what
\* _check_stages saw is taken back by no service, neither while the book is
\* rendered nor after.
THEOREM BooksCovered == LogBookSpec => []BooksCoverStages
<1>1. LogBookInv => BooksCoverStages
    <2> SUFFICES ASSUME LogBookInv, books # << >>, NEW st \in ActiveStages \cap RequiredStages
                 PROVE  \E s \in SlotsOf(BookGroup) :
                            StageOf[s] = st /\ sub[s].status \in {"APPROVED", "LOCKED"}
        BY DEF BooksCoverStages
    <2>1. IsStageSatisfied(sub, BookGroup, st)
        BY DEF LogBookInv, StagesStayCovered, MissingStages
    <2> QED BY <2>1 DEF IsStageSatisfied, ApprovedStates
<1> QED BY <1>1, LogBookInvariant, PTL

\* On SQLite the n-th book generated for a project is version n, for any number
\* of generations at once.
THEOREM BooksInOrder == LogBookSpec => []BooksNumbered
<1>1. LogBookInv => BooksNumbered
    BY DEF LogBookInv
<1> QED BY <1>1, LogBookInvariant, PTL

\* On SQLite, what validate saw of the reviews and forms holds until the book is
\* committed.
THEOREM FiledFinalData == LogBookSpec => FiledFromFinalData
<1>1. LogBookInv /\ [LogBookNext]_logBookVars =>
        [books' # books =>
            /\ forms = Forms /\ project = "guided"
            /\ \A r \in ReviewIds : review[r].status \in {"NONE", "FINALIZED"}]_logBookVars
    BY LogBookInvStep DEF FiledFinal
<1> QED BY <1>1, LogBookInvariant, PTL DEF LogBookSpec, FiledFromFinalData
-----------------------------------------------------------------------------
(* The pages of the book *)

\* The lists the book is filled from, of their types.
PaperOK ==
    paper \in [members: Seq(People), panel: Seq(Panel), competitions: Seq(Entries),
               publications: Seq(Entries), topic: {"none", "proposed", "approved"}]

\* A list without one of its rows is a list of the same rows.
LEMMA RowRemoved ==
    ASSUME NEW S, NEW s \in Seq(S), NEW i \in DOMAIN s
    PROVE  RemoveAt(s, i) \in Seq(S)
<1>1. i \in 1..Len(s) /\ Len(s) \in Nat
    BY LenProperties
<1>2. \A j \in 1..Len(s) : s[j] \in S
    BY ElementOfSeq
<1>3. SubSeq(s, 1, i - 1) \in Seq(S)
    BY <1>1, <1>2, SubSeqProperties
<1>4. SubSeq(s, i + 1, Len(s)) \in Seq(S)
    BY <1>1, <1>2, SubSeqProperties
<1> QED BY <1>3, <1>4, ConcatProperties DEF RemoveAt

\* A step on one of the lists.
LEMMA ListStep ==
    ASSUME NEW list, NEW S, paper[list] \in Seq(S), ListRow(list, S) \/ DropRow(list)
    PROVE  \E new \in Seq(S) : paper' = [paper EXCEPT ![list] = new]
<1>1. CASE ListRow(list, S)
    <2>1. PICK x \in S : paper' = [paper EXCEPT ![list] = Append(paper[list], x)]
        BY <1>1 DEF ListRow
    <2>2. Append(paper[list], x) \in Seq(S)
        BY AppendProperties
    <2> QED BY <2>1, <2>2
<1>2. CASE DropRow(list)
    <2>1. PICK i \in DOMAIN paper[list] :
              paper' = [paper EXCEPT ![list] = RemoveAt(paper[list], i)]
        BY <1>2 DEF DropRow
    <2>2. RemoveAt(paper[list], i) \in Seq(S)
        BY RowRemoved
    <2> QED BY <2>1, <2>2
<1> QED BY <1>1, <1>2

LEMMA PaperOKInit == PagesInit => PaperOK
BY EmptySeq DEF PagesInit, PaperOK

LEMMA PaperOKStep == PaperOK /\ [PagesNext]_paper => PaperOK'
<1> SUFFICES ASSUME PaperOK, [PagesNext]_paper PROVE PaperOK'
    OBVIOUS
<1>1. CASE ListRow("members", People) \/ DropRow("members")
    <2>1. paper["members"] \in Seq(People)
        BY DEF PaperOK
    <2>2. PICK new \in Seq(People) : paper' = [paper EXCEPT !["members"] = new]
        BY <1>1, <2>1, ListStep
    <2> QED BY <2>2 DEF PaperOK
<1>2. CASE ListRow("panel", Panel) \/ DropRow("panel")
    <2>1. paper["panel"] \in Seq(Panel)
        BY DEF PaperOK
    <2>2. PICK new \in Seq(Panel) : paper' = [paper EXCEPT !["panel"] = new]
        BY <1>2, <2>1, ListStep
    <2> QED BY <2>2 DEF PaperOK
<1>3. CASE ListRow("competitions", Entries) \/ DropRow("competitions")
    <2>1. paper["competitions"] \in Seq(Entries)
        BY DEF PaperOK
    <2>2. PICK new \in Seq(Entries) : paper' = [paper EXCEPT !["competitions"] = new]
        BY <1>3, <2>1, ListStep
    <2> QED BY <2>2 DEF PaperOK
<1>4. CASE ListRow("publications", Entries) \/ DropRow("publications")
    <2>1. paper["publications"] \in Seq(Entries)
        BY DEF PaperOK
    <2>2. PICK new \in Seq(Entries) : paper' = [paper EXCEPT !["publications"] = new]
        BY <1>4, <2>1, ListStep
    <2> QED BY <2>2 DEF PaperOK
<1>5. CASE SetTopic
    BY <1>5 DEF SetTopic, PaperOK
<1>6. CASE UNCHANGED paper
    BY <1>6 DEF PaperOK
<1> QED BY <1>1, <1>2, <1>3, <1>4, <1>5, <1>6 DEF PagesNext

\* The rows that are printed are numbered, and few.
LEMMA FirstRows ==
    ASSUME PaperOK, NEW n \in Nat
    PROVE  /\ FirstOf(paper.members, n) \subseteq 1..n
           /\ FirstOf(paper.panel, n) \subseteq 1..n
           /\ FirstOf(paper.competitions, n) \subseteq 1..n
           /\ FirstOf(paper.publications, n) \subseteq 1..n
<1>1. \A S : \A s \in Seq(S) : FirstOf(s, n) \subseteq 1..n
    BY LenProperties DEF FirstOf
<1> QED BY <1>1 DEF PaperOK

-----------------------------------------------------------------------------
(* Each value in a place of its own *)

Place(p) == <<p.page, p.anchor, p.at>>

\* Values at different places.
Apart(ps) == \A p, q \in ps : Place(p) = Place(q) => p = q

\* Room for finitely many values.
Anchors ==
    MemberFields \cup {"1.", "2.", "3.", "4.", "5.", "Approved (Yes / No)",
                       "Proposed Project Topic 1:", "Name and Signature of Reviewer 1:",
                       "Reviewer 2:", "Prof."}
                 \cup CompetitionColumns \cup PublicationColumns

Fits(ps) == \A p \in ps : p.anchor \in Anchors /\ p.at \in 0..5

LEMMA Named ==
    /\ \A i \in 1..5 : Number[i] \in Anchors
    /\ "Approved (Yes / No)" \in Anchors
    /\ "Proposed Project Topic 1:" \in Anchors /\ "Name and Signature of Reviewer 1:" \in Anchors
    /\ "Reviewer 2:" \in Anchors /\ "Prof." \in Anchors
<1>1. \A i \in 1..5 : i = 1 \/ i = 2 \/ i = 3 \/ i = 4 \/ i = 5
    OBVIOUS
<1>2. \A i \in 1..5 : Number[i] \in {"1.", "2.", "3.", "4.", "5."}
    BY <1>1 DEF Number
<1> QED BY <1>2 DEF Anchors

LEMMA PutFields ==
    ASSUME NEW page, NEW anchor, NEW at, NEW value
    PROVE  LET p == Put(page, anchor, at, value)
           IN  p.page = page /\ p.anchor = anchor /\ p.at = at /\ p.value = value
BY DEF Put

LEMMA DrawnOnly == \A ps : Drawn(ps) \subseteq ps
BY DEF Drawn

LEMMA MembersApart ==
    ASSUME PaperOK
    PROVE  Apart(MemberPages) /\ Fits(MemberPages) /\ \A p \in MemberPages : p.page \in {3, 4}
<1>1. FirstOf(paper.members, 4) \subseteq 1..4
    BY FirstRows
<1>2. \A i \in 1..4 : MemberPage(i) \in {3, 4}
    BY DEF MemberPage
<1>3. \A i, j \in 1..4 : MemberPage(i) = MemberPage(j) /\ (i - 1) % 2 = (j - 1) % 2 => i = j
    BY DEF MemberPage
<1>4. ASSUME NEW p \in MemberPages
      PROVE  \E i \in 1..4, field \in MemberFields :
                p = Put(MemberPage(i), field, (i - 1) % 2, <<paper.members[i], field>>)
    BY <1>1, DrawnOnly DEF MemberPages
<1>5. ASSUME NEW p \in MemberPages, NEW q \in MemberPages, Place(p) = Place(q)
      PROVE  p = q
    <2>1. PICK i \in 1..4, f \in MemberFields :
              p = Put(MemberPage(i), f, (i - 1) % 2, <<paper.members[i], f>>)
        BY <1>4
    <2>2. PICK j \in 1..4, g \in MemberFields :
              q = Put(MemberPage(j), g, (j - 1) % 2, <<paper.members[j], g>>)
        BY <1>4
    <2>3. p.page = MemberPage(i) /\ p.anchor = f /\ p.at = (i - 1) % 2
        BY <2>1, PutFields
    <2>4. q.page = MemberPage(j) /\ q.anchor = g /\ q.at = (j - 1) % 2
        BY <2>2, PutFields
    <2>5. p.page = q.page /\ p.anchor = q.anchor /\ p.at = q.at
        BY <1>5 DEF Place
    <2>6. i = j /\ f = g
        BY <1>3, <2>3, <2>4, <2>5
    <2> QED BY <2>1, <2>2, <2>6
<1>6. ASSUME NEW p \in MemberPages
      PROVE  p.page \in {3, 4} /\ p.anchor \in Anchors /\ p.at \in 0..5
    <2>1. PICK i \in 1..4, f \in MemberFields :
              p = Put(MemberPage(i), f, (i - 1) % 2, <<paper.members[i], f>>)
        BY <1>4
    <2>2. p.page = MemberPage(i) /\ p.anchor = f /\ p.at = (i - 1) % 2
        BY <2>1, PutFields
    <2>3. (i - 1) % 2 \in 0..5
        OBVIOUS
    <2> QED BY <1>2, <2>2, <2>3 DEF Anchors
<1> QED BY <1>5, <1>6 DEF Apart, Fits

LEMMA UndertakingApart ==
    ASSUME PaperOK
    PROVE  Apart(Undertaking) /\ Fits(Undertaking) /\ \A p \in Undertaking : p.page = 5
<1> DEFINE Line(i) == Put(5, Number[i], i - 1, <<paper.members[i], "Name:">>)
<1>1. ASSUME NEW p \in Undertaking
      PROVE  \E i \in 1..5 : p = Line(i)
    <2>1. FirstOf(paper.members, 5) \subseteq 1..5
        BY FirstRows
    <2> QED BY <2>1, DrawnOnly DEF Undertaking
<1>2. ASSUME NEW i \in 1..5
      PROVE  Line(i).page = 5 /\ Line(i).anchor = Number[i] /\ Line(i).at = i - 1
    BY DEF Put
<1> HIDE DEF Line
<1>3. ASSUME NEW p \in Undertaking
      PROVE  p.page = 5 /\ p.anchor \in Anchors /\ p.at \in 0..5
    <2>1. PICK i \in 1..5 : p = Line(i)
        BY <1>1
    <2>2. i - 1 \in 0..5
        OBVIOUS
    <2> QED BY <1>2, <2>1, <2>2, Named
<1>4. ASSUME NEW p \in Undertaking, NEW q \in Undertaking, Place(p) = Place(q)
      PROVE  p = q
    <2>1. PICK i \in 1..5, j \in 1..5 : p = Line(i) /\ q = Line(j)
        BY <1>1
    <2>2. p.at = i - 1 /\ q.at = j - 1
        BY <1>2, <2>1
    <2>3. p.at = q.at
        BY <1>4 DEF Place
    <2>4. i = j
        BY <2>2, <2>3
    <2> QED BY <2>1, <2>4
<1> QED BY <1>3, <1>4 DEF Apart, Fits

\* On page 7 each of the four anchors has one value.
LEMMA TopicApart ==
    ASSUME PaperOK
    PROVE  Apart(TopicPage) /\ Fits(TopicPage) /\ \A p \in TopicPage : p.page = 7
<1> DEFINE Decided == Put(7, "Approved (Yes / No)", 0,
                          IF paper.topic = "approved" THEN "Yes" ELSE "No")
           Titled == Put(7, "Proposed Project Topic 1:", 0, paper.topic)
           First == Put(7, "Name and Signature of Reviewer 1:", 0, paper.panel[1])
           Second == Put(7, "Reviewer 2:", 0, paper.panel[2])
<1>1. FirstOf(paper.panel, 2) \subseteq 1..2
    BY FirstRows
<1>2. ASSUME NEW p \in TopicPage PROVE p = Decided \/ p = Titled \/ p = First \/ p = Second
    <2>1. ASSUME NEW i \in Evaluators,
                 p = Put(7, IF i = 1 THEN "Name and Signature of Reviewer 1:" ELSE "Reviewer 2:",
                         0, paper.panel[i])
          PROVE  p = First \/ p = Second
        <3>1. i = 1 \/ i = 2
            BY <1>1 DEF Evaluators
        <3> QED BY <2>1, <3>1
    <2> HIDE DEF First, Second
    <2> QED BY <2>1, DrawnOnly DEF TopicPage
<1>3. Decided.page = 7 /\ Decided.at = 0 /\ Decided.anchor = "Approved (Yes / No)"
    BY DEF Put
<1>4. Titled.page = 7 /\ Titled.at = 0 /\ Titled.anchor = "Proposed Project Topic 1:"
    BY DEF Put
<1>5. First.page = 7 /\ First.at = 0 /\ First.anchor = "Name and Signature of Reviewer 1:"
    BY DEF Put
<1>6. Second.page = 7 /\ Second.at = 0 /\ Second.anchor = "Reviewer 2:"
    BY DEF Put
<1> HIDE DEF Decided, Titled, First, Second
<1>7. ASSUME NEW p \in TopicPage, NEW q \in TopicPage, Place(p) = Place(q)
      PROVE  p = q
    <2>1. p.anchor = q.anchor
        BY <1>7 DEF Place
    <2>2. p = Decided => q = Decided
        BY <1>2, <1>3, <1>4, <1>5, <1>6, <2>1
    <2>3. p = Titled => q = Titled
        BY <1>2, <1>3, <1>4, <1>5, <1>6, <2>1
    <2>4. p = First => q = First
        BY <1>2, <1>3, <1>4, <1>5, <1>6, <2>1
    <2>5. p = Second => q = Second
        BY <1>2, <1>3, <1>4, <1>5, <1>6, <2>1
    <2> QED BY <1>2, <2>2, <2>3, <2>4, <2>5
<1>8. ASSUME NEW p \in TopicPage PROVE p.page = 7 /\ p.anchor \in Anchors /\ p.at \in 0..5
    <2>1. 0 \in 0..5
        OBVIOUS
    <2> QED BY <1>2, <1>3, <1>4, <1>5, <1>6, <2>1, Named, Zenon
<1> QED BY <1>7, <1>8 DEF Apart, Fits

LEMMA CommitteeApart ==
    ASSUME PaperOK
    PROVE  Apart(CommitteePages) /\ Fits(CommitteePages)
           /\ \A p \in CommitteePages : p.page \in {25, 34}
<1>1. ASSUME NEW p \in CommitteePages
      PROVE  /\ p.page \in {25, 34} /\ p.anchor \in Anchors /\ p.at \in 0..5
             /\ p = Put(p.page, "Prof.", p.at, paper.panel[p.at + 1])
    <2>1. PICK page \in {25, 34}, i \in Evaluators :
              p = Put(page, "Prof.", i - 1, paper.panel[i])
        BY DrawnOnly DEF CommitteePages
    <2>2. p.page = page /\ p.anchor = "Prof." /\ p.at = i - 1
        BY <2>1 DEF Put
    <2>3. i \in 1..2
        BY FirstRows DEF Evaluators
    <2>4. p.at \in 0..5 /\ p.at + 1 = i
        BY <2>2, <2>3
    <2> QED BY <2>1, <2>2, <2>4 DEF Anchors
<1> QED BY <1>1 DEF Apart, Fits, Place

\* A cell of a table.
IsCell(p, columns, entries) ==
    /\ p.page \in {28, 39} /\ p.anchor \in columns /\ p.at \in 0..5
    /\ p = Put(p.page, p.anchor, p.at, <<entries[p.at], p.anchor>>)

LEMMA CellPlaced ==
    ASSUME NEW first, NEW columns, NEW entries, FirstOf(entries, 4) \subseteq 1..4,
           NEW p \in TableRows(first, columns, entries)
    PROVE  IsCell(p, columns, entries)
<1>1. PICK page \in {28, 39}, column \in columns, i \in FirstOf(entries, 4) :
          p = Put(page, column, i, <<entries[i], column>>)
    BY DEF TableRows
<1>2. p.page = page /\ p.anchor = column /\ p.at = i
    BY <1>1 DEF Put
<1>3. i \in 0..5
    OBVIOUS
<1> QED BY <1>1, <1>2, <1>3, Zenon DEF IsCell

LEMMA TablesApart ==
    ASSUME PaperOK
    PROVE  Apart(TablePages) /\ Fits(TablePages) /\ \A p \in TablePages : p.page \in {28, 39}
<1>1. CompetitionColumns \cap PublicationColumns = {}
    BY DEF CompetitionColumns, PublicationColumns
<1>2. ASSUME NEW p \in TablePages
      PROVE  \/ IsCell(p, CompetitionColumns, paper.competitions)
             \/ IsCell(p, PublicationColumns, paper.publications)
    <2>1. FirstOf(paper.competitions, 4) \subseteq 1..4
          /\ FirstOf(paper.publications, 4) \subseteq 1..4
        BY FirstRows
    <2> QED BY <2>1, CellPlaced DEF TablePages
<1>3. ASSUME NEW p \in TablePages
      PROVE  p.page \in {28, 39} /\ p.anchor \in Anchors /\ p.at \in 0..5
    BY <1>2 DEF IsCell, Anchors
<1>4. ASSUME NEW p \in TablePages, NEW q \in TablePages, Place(p) = Place(q)
      PROVE  p = q
    <2>1. p.page = q.page /\ p.anchor = q.anchor /\ p.at = q.at
        BY <1>4 DEF Place
    <2>2. ASSUME NEW columns, NEW entries, IsCell(p, columns, entries),
                 IsCell(q, columns, entries)
          PROVE  p = q
        BY <2>1, <2>2, Zenon DEF IsCell
    <2>3. CASE p.anchor \in CompetitionColumns
        <3>1. /\ IsCell(p, CompetitionColumns, paper.competitions)
              /\ IsCell(q, CompetitionColumns, paper.competitions)
            BY <1>1, <1>2, <2>1, <2>3 DEF IsCell
        <3> QED BY <2>2, <3>1
    <2>4. CASE p.anchor \notin CompetitionColumns
        <3>1. /\ IsCell(p, PublicationColumns, paper.publications)
              /\ IsCell(q, PublicationColumns, paper.publications)
            BY <1>2, <2>1, <2>4 DEF IsCell
        <3> QED BY <2>2, <3>1
    <2> QED BY <2>3, <2>4
<1> QED BY <1>3, <1>4 DEF Apart, Fits

LEMMA AllApart ==
    ASSUME PaperOK
    PROVE  Apart(Placements) /\ Fits(Placements) /\ \A p \in Placements : p.page \in 3..39
<1>1. \A p, q : Place(p) = Place(q) => p.page = q.page
    BY DEF Place
<1>2. Apart(Placements)
    BY <1>1, MembersApart, UndertakingApart, TopicApart, CommitteeApart, TablesApart
    DEF Placements, Apart
<1>3. Fits(Placements)
    BY MembersApart, UndertakingApart, TopicApart, CommitteeApart, TablesApart
    DEF Placements, Fits
<1>4. \A p \in Placements : p.page \in 3..39
    BY MembersApart, UndertakingApart, TopicApart, CommitteeApart, TablesApart DEF Placements
<1> QED BY <1>2, <1>3, <1>4

\* There are finitely many anchors.
LEMMA AnchorsFinite == IsFiniteSet(Anchors)
<1>1. \A S, x : IsFiniteSet(S) => IsFiniteSet(S \cup {x})
    BY FS_AddElement
<1>2. IsFiniteSet({})
    BY FS_EmptySet
<1>3. IsFiniteSet({} \cup {"Name:"} \cup {"TE Result:"} \cup {"Roll No:"} \cup {"Mobile No:"}
                  \cup {"Exam Seat No:"} \cup {"Email ID:"} \cup {"Contribution:"}
                  \cup {"photo"})
    BY <1>1, <1>2, Zenon
<1>4. MemberFields = {} \cup {"Name:"} \cup {"TE Result:"} \cup {"Roll No:"} \cup {"Mobile No:"}
                  \cup {"Exam Seat No:"} \cup {"Email ID:"} \cup {"Contribution:"}
                  \cup {"photo"}
    BY DEF MemberFields
<1>5. IsFiniteSet(MemberFields)
    BY <1>3, <1>4
<1> DEFINE Titles == MemberFields \cup {"1."} \cup {"2."} \cup {"3."} \cup {"4."} \cup {"5."}
                     \cup {"Approved (Yes / No)"} \cup {"Proposed Project Topic 1:"}
<1>6. IsFiniteSet(Titles)
    BY <1>1, <1>5, Zenon
<1> HIDE DEF Titles
<1>7. IsFiniteSet(Titles \cup {"Name and Signature of Reviewer 1:"} \cup {"Reviewer 2:"}
                  \cup {"Prof."} \cup {"Name of Project"} \cup {"Date"} \cup {"Award/"}
                  \cup {"Title of Paper"} \cup {"Conference"})
    BY <1>1, <1>6, Zenon
<1>8. Anchors = Titles \cup {"Name and Signature of Reviewer 1:"} \cup {"Reviewer 2:"}
                  \cup {"Prof."} \cup {"Name of Project"} \cup {"Date"} \cup {"Award/"}
                  \cup {"Title of Paper"} \cup {"Conference"}
    BY DEF Anchors, CompetitionColumns, PublicationColumns, Titles
<1> QED BY <1>7, <1>8

\* Values that are apart are as many as their places.
LEMMA EachInItsPlace == PaperOK => PlacesDistinct
<1> SUFFICES ASSUME PaperOK PROVE PlacesDistinct
    OBVIOUS
<1> DEFINE places == {<<p.page, p.anchor, p.at>> : p \in Placements}
           placing == [p \in Placements |-> <<p.page, p.anchor, p.at>>]
           room == ((3..39) \X Anchors) \X (0..5)
           seat == [p \in Placements |-> <<<<p.page, p.anchor>>, p.at>>]
<1>1. \A p, q \in Placements : Place(p) = Place(q) => p = q
    BY AllApart DEF Apart
<1>2. IsFiniteSet(Placements)
    <2>1. IsFiniteSet(room)
        <3>1. IsFiniteSet(3..39) /\ IsFiniteSet(0..5)
            <4>1. \A a, b \in Int : IsFiniteSet(a..b)
                BY FS_Interval
            <4>2. 3 \in Int /\ 39 \in Int /\ 0 \in Int /\ 5 \in Int
                OBVIOUS
            <4> QED BY <4>1, <4>2, Zenon
        <3>2. IsFiniteSet((3..39) \X Anchors)
            BY <3>1, AnchorsFinite, FS_Product
        <3> QED BY <3>1, <3>2, FS_Product
    <2>2. seat \in [Placements -> room]
        BY AllApart DEF Fits
    <2>3. \A p, q \in Placements : seat[p] = seat[q] => p = q
        BY <1>1 DEF Place
    <2>4. seat \in Injection(Placements, room)
        BY <2>2, <2>3 DEF Injection, IsInjective
    <2> QED BY <2>1, <2>4, FS_Injection
<1>3. ExistsBijection(Placements, places)
    <2>1. placing \in [Placements -> places]
        OBVIOUS
    <2>2. \A p, q \in Placements : placing[p] = placing[q] => p = q
        BY <1>1 DEF Place
    <2>3. \A t \in places : \E p \in Placements : placing[p] = t
        OBVIOUS
    <2>4. placing \in Bijection(Placements, places)
        BY <2>1, <2>2, <2>3 DEF Bijection, Injection, Surjection, IsInjective
    <2> QED BY <2>4 DEF ExistsBijection
<1> HIDE DEF places
<1>4. Cardinality(places) = Cardinality(Placements)
    BY <1>2, <1>3, FS_Bijection
<1> QED BY <1>4 DEF PlacesDistinct, places

\* The values of the first four members are among those that are printed.
LEMMA EachMemberPrinted == PaperOK => MembersComplete
<1> SUFFICES ASSUME PaperOK, NEW i \in FirstOf(paper.members, 4)
             PROVE  \E page \in {3, 4}, at \in {0, 1} : \A field \in MemberFields :
                        Found(page, field, at) =>
                            Put(page, field, at, <<paper.members[i], field>>) \in Placements
    BY DEF MembersComplete
<1>1. i \in 1..4
    BY FirstRows
<1>2. MemberPage(i) \in {3, 4} /\ (i - 1) % 2 \in {0, 1}
    BY <1>1 DEF MemberPage
<1>3. ASSUME NEW field \in MemberFields, Found(MemberPage(i), field, (i - 1) % 2)
      PROVE  Put(MemberPage(i), field, (i - 1) % 2, <<paper.members[i], field>>) \in Placements
    <2> DEFINE p == Put(MemberPage(i), field, (i - 1) % 2, <<paper.members[i], field>>)
    <2>1. p.page = MemberPage(i) /\ p.anchor = field /\ p.at = (i - 1) % 2
        BY PutFields
    <2> QED BY <1>3, <2>1 DEF MemberPages, Placements, Drawn
<1> QED BY <1>2, <1>3

\* Whatever the lists grew to and whatever the template is, no value of the book
\* is drawn over another, and the fields of each of the first four members, where
\* the template has their anchors, are together on one of the members' pages.
THEOREM BookPagesAgree == PagesSpec => []PlacementsAgree
<1>1. PaperOK => PlacementsAgree
    BY EachInItsPlace, EachMemberPrinted DEF PlacementsAgree
<1> QED BY PaperOKInit, PaperOKStep, <1>1, PTL DEF PagesSpec
=============================================================================
