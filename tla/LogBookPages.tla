---------------------------- MODULE LogBookPages ----------------------------
(***************************************************************************)
(* be_logbook/logbook: which value the book prints where                   *)
(* (LogBookDataAssembler and TemplateMappingService), while the forms of   *)
(* the project change.  A place is a page with the anchor the value is     *)
(* drawn at and its occurrence or row; a value whose anchor the template   *)
(* does not have (Runs) is not drawn.  Every value is taken to be filled   *)
(* in (an empty one is skipped).  Fonts and coordinates are not modelled,  *)
(* nor the pages with one value per anchor that does not change.  The      *)
(* fields no assembly fills (college, ISSN, company, second topic...)      *)
(* print nothing.                                                          *)
(***************************************************************************)
EXTENDS Naturals, SequencesExt, FiniteSets

CONSTANTS
    People,      \* students, by name and profile
    Panel,       \* names of reviewers
    Entries,     \* competitions and publications
    Runs(_, _),  \* how many text runs of a page of the template contain an anchor
    MaxListed    \* bound on the rows of each list

VARIABLE paper  \* the project's members, reviewers, entries and topic

PagesInit ==
    paper = [members |-> << >>, panel |-> << >>, competitions |-> << >>,
             publications |-> << >>, topic |-> "none"]

\* A row is added at the end of its list (a member joins, a reviewer is
\* assigned, a form is posted) or deleted from it.
ListRow(list, of) ==
    /\ Len(paper[list]) < MaxListed
    /\ \E x \in of : /\ list = "members" => x \notin ToSet(paper[list])
                     /\ paper' = [paper EXCEPT ![list] = Append(@, x)]

DropRow(list) ==
    \E i \in DOMAIN paper[list] : paper' = [paper EXCEPT ![list] = RemoveAt(@, i)]

SetTopic ==
    \E t \in {"proposed", "approved"} : paper.topic # t /\ paper' = [paper EXCEPT !.topic = t]

PagesNext ==
    \/ ListRow("members", People) \/ DropRow("members")
    \/ ListRow("panel", Panel) \/ DropRow("panel")
    \/ ListRow("competitions", Entries) \/ DropRow("competitions")
    \/ ListRow("publications", Entries) \/ DropRow("publications")
    \/ SetTopic

PagesSpec == PagesInit /\ [][PagesNext]_paper

-----------------------------------------------------------------------------
(* build_placements *)

FirstOf(s, n) == {i \in DOMAIN s : i <= n}

Put(page, anchor, at, value) == [page |-> page, anchor |-> anchor, at |-> at, value |-> value]

\* find_anchor: the n-th run is there only if n others came before it.
Found(page, anchor, occurrence) == occurrence < Runs(page, anchor)

Drawn(placements) == {p \in placements : Found(p.page, p.anchor, p.at)}

MemberFields == {"Name:", "TE Result:", "Roll No:", "Mobile No:", "Exam Seat No:",
                 "Email ID:", "Contribution:", "photo"}

\* Mutant: three members on the first page.
ThreePerPage(i) == IF i <= 3 THEN 3 ELSE 4

\* Two members on page 3 and two on page 4.
MemberPage(i) == IF i <= 2 THEN 3 ELSE 4

MemberPages ==
    Drawn({Put(MemberPage(i), field, (i - 1) % 2, <<paper.members[i], field>>) :
               i \in FirstOf(paper.members, 4), field \in MemberFields})

Number == <<"1.", "2.", "3.", "4.", "5.">>

\* The i-th member is put after the i-th of the runs with the number i: in a
\* template that has each number once, only the first member is.
Undertaking ==
    Drawn({Put(5, Number[i], i - 1, <<paper.members[i], "Name:">>) :
               i \in FirstOf(paper.members, 5)})

\* values_list(...).distinct()[:2]: assigned_at, by which the rows are ordered,
\* is part of the distinct row, so that a name may come twice.
Evaluators == FirstOf(paper.panel, 2)

TopicPage ==
    Drawn({Put(7, "Approved (Yes / No)", 0, IF paper.topic = "approved" THEN "Yes" ELSE "No") :
               t \in {paper.topic} \ {"none"}}
          \cup {Put(7, "Proposed Project Topic 1:", 0, t) : t \in {paper.topic} \ {"none"}}
          \cup {Put(7, IF i = 1 THEN "Name and Signature of Reviewer 1:" ELSE "Reviewer 2:",
                    0, paper.panel[i]) : i \in Evaluators})

\* Pages 25 and 34.
CommitteePages ==
    Drawn({Put(page, "Prof.", i - 1, paper.panel[i]) : page \in {25, 34}, i \in Evaluators})

\* Four rows of each table on pages 28 and 39, under the headers that are found;
\* the first column has to be.
TableRows(first, columns, entries) ==
    {p \in {Put(page, column, i, <<entries[i], column>>) :
                page \in {28, 39}, column \in columns, i \in FirstOf(entries, 4)} :
        Found(p.page, first, 0) /\ Found(p.page, p.anchor, 0)}

\* The columns the assembler has data for.
CompetitionColumns == {"Name of Project", "Date", "Award/"}

PublicationColumns == {"Title of Paper", "Conference"}

TablePages ==
    TableRows("Name of Project", CompetitionColumns, paper.competitions)
    \cup TableRows("Title of Paper", PublicationColumns, paper.publications)

Placements == MemberPages \cup Undertaking \cup TopicPage \cup CommitteePages \cup TablePages

-----------------------------------------------------------------------------
(* Properties *)

\* However the lists grew and shrank, no two values are drawn over each other.
PlacesDistinct ==
    Cardinality({<<p.page, p.anchor, p.at>> : p \in Placements}) = Cardinality(Placements)

\* The fields of each of the first four members, where the template has them,
\* are together on one of the members' pages.
MembersComplete ==
    \A i \in FirstOf(paper.members, 4) :
        \E page \in {3, 4}, at \in {0, 1} : \A field \in MemberFields :
            Found(page, field, at) =>
                Put(page, field, at, <<paper.members[i], field>>) \in Placements

\* No value of the book is drawn over another, and the members' pages show each
\* member they have room for, as far as the template has the anchors.  Who is
\* named in the undertaking is not said.
PlacementsAgree == PlacesDistinct /\ MembersComplete
=============================================================================
