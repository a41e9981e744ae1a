------------------------------ MODULE Accounts ------------------------------
(***************************************************************************)
(* be_logbook/users: the accounts the HOD creates, under concurrent        *)
(* requests.  create_student and create_faculty look for the e-mail        *)
(* without regard to case, and for the roll number or employee id; the     *)
(* database keeps e-mails (as written) and ids unique.  The generic POST   *)
(* creates a user without a profile, and like PUT and PATCH looks for the  *)
(* e-mail as written.                                                      *)
(***************************************************************************)
EXTENDS FiniteSets, Transactions

CONSTANTS
    Emails,        \* e-mail addresses as written
    Fold,          \* the address without regard to case
    ProfileIds,    \* roll numbers and employee ids
    NoProfile      \* a user without a profile

ASSUME NoProfileAssumption == NoProfile \notin ProfileIds

VARIABLE accounts  \* users_user with its profile

accountRequestVars == <<accounts, engine, req>>

AccountRow == [email: Emails, role: {"STUDENT", "FACULTY"},
               profile: ProfileIds \cup {NoProfile}]

AccountsInit == accounts = {} /\ TransactionsInit

\* Mutant: the e-mail is compared as written.
EmailTakenAsWritten(row) == \E a \in accounts : a.email = row.email

\* email__iexact
EmailTaken(row) == \E a \in accounts : Fold[a.email] = Fold[row.email]

SameProfile(a, row) ==
    a.profile = row.profile /\ a.role = row.role /\ row.profile # NoProfile

\* create_student, create_faculty: both checks, before the first INSERT.
LoadAccount(w, row) ==
    /\ row.profile # NoProfile
    /\ ~EmailTaken(row)
    /\ ~\E a \in accounts : SameProfile(a, row)
    /\ Begin(w, [pc |-> "checked", row |-> row])
    /\ UNCHANGED accounts

\* The unique constraints on the e-mail, the roll number and the employee id.
Clash(row) == \E a \in accounts : a.email = row.email \/ SameProfile(a, row)

\* Both INSERTs, or neither.
CommitAccount(w) ==
    /\ req[w].pc = "checked"
    /\ MayCommit(w)
    /\ ~Clash(req[w].row)
    /\ accounts' = accounts \cup {req[w].row}
    /\ Finish(w)

\* POST /users/: the role is read-only and so the default.
CreateBareUser(row) ==
    /\ engine = "sqlite" => \A w \in Workers : ~Busy(w)
    /\ row.role = "STUDENT"
    /\ row.profile = NoProfile
    /\ ~Clash(row)
    /\ accounts' = accounts \cup {row}
    /\ UNCHANGED req

\* PUT and PATCH of the e-mail, compared as written.
ChangeEmail(user, email) ==
    /\ engine = "sqlite" => \A w \in Workers : ~Busy(w)
    /\ user \in accounts
    /\ \A a \in accounts \ {user} : a.email # email
    /\ accounts' = (accounts \ {user}) \cup {[user EXCEPT !.email = email]}
    /\ UNCHANGED req

\* DELETE, refused (PROTECT) for a user with a profile.
DestroyUser(user) ==
    /\ engine = "sqlite" => \A w \in Workers : ~Busy(w)
    /\ user \in accounts
    /\ user.profile = NoProfile
    /\ accounts' = accounts \ {user}
    /\ UNCHANGED req

AccountsNext ==
    \/ \E row \in AccountRow : CreateBareUser(row) \/ DestroyUser(row)
    \/ \E row \in AccountRow, email \in Emails : ChangeEmail(row, email)
    \/ \E w \in Workers :
          \/ \E row \in AccountRow : LoadAccount(w, row)
          \/ CommitAccount(w)
          \/ RollBack(w) /\ UNCHANGED accounts

AccountsSpec == AccountsInit /\ [][AccountsNext /\ UNCHANGED engine]_accountRequestVars

-----------------------------------------------------------------------------
(* Properties *)

\* Whatever requests race, on either database, an e-mail names one user, who
\* has one profile, and no id is given twice.
AccountsDistinct ==
    \A a, b \in accounts : a.email = b.email \/ SameProfile(a, b) => a = b

\* On SQLite the service gives no account to an e-mail that another user has in
\* other case: the look-up holds until the INSERT.  (A PATCH may bring two such
\* e-mails about.)
PeopleDistinct ==
    [][engine = "sqlite" /\ accounts \subseteq accounts' =>
          \A a \in accounts' \ accounts : a.profile # NoProfile =>
              \A b \in accounts : Fold[b.email] # Fold[a.email]]_accounts
=============================================================================
