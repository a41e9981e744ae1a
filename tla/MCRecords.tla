----------------------------- MODULE MCRecords ------------------------------
(***************************************************************************)
(* Instances of the components that do not act on one another's tables, in *)
(* one run: in each behaviour the requests are those of one component.     *)
(***************************************************************************)
EXTENDS ReviewRequests, Attainment, Groups, Documents, AcademicYears,
        StageConfiguration, Seed, Accounts, LogBookPages

CONSTANTS w1, w2, r1, c1, c2, f1, h1, co1, g1, g2, s1, s2, t1, t2, st1, guide,
          d1, d2, k1, k2, y1, y2, y3, sa, sb, sc, e1, e2, id1,
          p1, p2, p3, p4, p5, n1, n2, entry

VARIABLE component  \* whose requests a behaviour has

others == <<groupVars, documentVars, years, configVars, seedVars, accounts, paper>>

mcVars == <<reviewRequestVars, others, component>>

MCInit ==
    /\ ReviewRequestsInit /\ GroupsInit /\ DocumentsInit /\ YearsInit
    /\ StagesInit /\ SeedInit /\ AccountsInit /\ PagesInit
    /\ component \in {"reviews", "members", "guides", "reviewers", "documents", "years",
                      "stages", "seed", "accounts", "members' pages", "tables' pages"}
    \* No request of these depends on the engine.
    /\ component \in {"stages", "seed", "members' pages", "tables' pages"} => engine = "sqlite"

MCNext ==
    /\ \/ component = "reviews" /\ ReviewRequestsNext /\ UNCHANGED others
       \/ /\ \/ component = "members" /\ MembersNext
             \/ component = "guides" /\ GuidesNext
             \/ component = "reviewers" /\ ReviewersNext
          /\ UNCHANGED <<reviewVars, documentVars, years, configVars, seedVars, accounts, paper>>
       \/ /\ component = "documents" /\ DocumentsNext
          /\ UNCHANGED <<reviewVars, groupVars, years, configVars, seedVars, accounts, paper>>
       \/ /\ component = "years" /\ YearsNext
          /\ UNCHANGED <<reviewVars, groupVars, documentVars, configVars, seedVars, accounts,
                         paper>>
       \/ /\ component = "stages" /\ StagesNext
          /\ UNCHANGED <<reviewVars, req, groupVars, documentVars, years, seedVars, accounts,
                         paper>>
       \/ /\ component = "seed" /\ SeedNext
          /\ UNCHANGED <<reviewVars, req, groupVars, documentVars, years, configVars, accounts,
                         paper>>
       \/ /\ component = "accounts" /\ AccountsNext
          /\ UNCHANGED <<reviewVars, groupVars, documentVars, years, configVars, seedVars, paper>>
       \/ /\ component \in {"members' pages", "tables' pages"} /\ PagesNext
          /\ component = "members' pages" =>
                UNCHANGED <<paper.panel, paper.competitions, paper.publications>>
          /\ component = "tables' pages" => UNCHANGED paper.members
          /\ UNCHANGED <<reviewVars, req, groupVars, documentVars, years, configVars, seedVars,
                         accounts>>
    /\ UNCHANGED <<engine, component>>

MCSpec == MCInit /\ [][MCNext]_mcVars

MCReviewOpsOf == [w \in Workers |-> IF w = w1 THEN MarkOps ELSE ReviewOps]
MCMaxMarks == [c \in Criteria |-> IF c = c1 THEN 1 ELSE 0]
MCWeight == [c \in Criteria |-> IF c = c1 THEN 1 ELSE 0]
MCOutcomeOf == [c \in Criteria |-> co1]
MCFold == [e \in Emails |-> e1]

\* The template "Project Log book.pdf": a run is what one text object shows.
\* The second e-mail of page 4 and two anchors of page 7 are split over runs.
MCRuns(page, anchor) ==
    IF page = 4 /\ anchor = "Email ID:" THEN 1
    ELSE IF page \in {3, 4, 25, 34} THEN 2
    ELSE IF anchor \in {"Proposed Project Topic 1:", "Reviewer 2:"} THEN 0
    ELSE 1
=============================================================================
