----------------------------- MODULE Documents ------------------------------
(***************************************************************************)
(* be_logbook/documents: uploads over two stores.  The rows are written by *)
(* the request's transaction; the files go to the private media directory  *)
(* at once, under names that are never reused, and no code deletes one.    *)
(* The copy an upload keeps for its version is stored with the document's  *)
(* own and counts as one file with it.  Every document is ACTIVE: no code  *)
(* assigns the other statuses.                                             *)
(***************************************************************************)
EXTENDS Naturals, FiniteSetsExt, Transactions

CONSTANTS
    DocumentIds,  \* Document rows
    DocKeys,      \* (type, group, project, owner) of a document
    MaxFiles      \* bound on the uploads

VARIABLES
    documents,    \* documents_document
    docVersions,  \* documents_documentversion, per document
    files         \* the files in the media directory

documentVars == <<documents, docVersions, files>>

documentRequestVars == <<documentVars, engine, req>>

NoDocument == [version |-> 0]

Exists(d) == documents[d] # NoDocument

DocNumbers(d) == {v.number : v \in docVersions[d]}

\* The documents a request has in memory.
InMemory(w) ==
    {d \in DocumentIds :
        \/ req[w].pc \in {"replace", "patch"} /\ req[w].doc = d
        \/ req[w].pc = "stored" /\ req[w].upload.pc = "replace" /\ req[w].upload.doc = d}

DocumentsInit ==
    /\ documents = [d \in DocumentIds |-> NoDocument]
    /\ docVersions = [d \in DocumentIds |-> {}]
    /\ files = {}
    /\ TransactionsInit

\* The ACTIVE documents with the key of the upload.
ActiveOf(k) == {d \in DocumentIds : Exists(d) /\ documents[d].key = k}

\* validate_upload has passed; upload looks for the document to replace.  The
\* code takes the newest, here any.
LoadUpload(w, k) ==
    /\ Cardinality(files) < MaxFiles
    /\ \/ \E d \in ActiveOf(k) :
             Begin(w, [pc |-> "replace", doc |-> d, mem |-> documents[d]])
       \/ /\ ActiveOf(k) = {}
          /\ Begin(w, [pc |-> "create", key |-> k])
    /\ UNCHANGED documentVars

\* Mutant: the file is left to be written after the rows.
StoreLater(w) ==
    /\ req[w].pc \in {"replace", "create"}
    /\ Proceed(w, [pc |-> "stored", upload |-> req[w], file |-> Cardinality(files) + 1])
    /\ UNCHANGED documentVars

\* file.save: not undone by a roll-back.
StoreFile(w) ==
    LET name == Cardinality(files) + 1
    IN  /\ req[w].pc \in {"replace", "create"}
        /\ name <= MaxFiles
        /\ files' = files \cup {name}
        /\ Proceed(w, [pc |-> "stored", upload |-> req[w], file |-> name])
        /\ UNCHANGED <<documents, docVersions>>

\* The named columns of the row, from memory, and a version row, which the
\* unique constraint refuses when the number is taken.
CommitReplace(w) ==
    LET t == req[w]
        d == t.upload.doc
        n == t.upload.mem.version + 1
    IN  /\ t.pc = "stored" /\ t.upload.pc = "replace"
        /\ MayCommit(w)
        /\ Exists(d)
        /\ n \notin DocNumbers(d)
        /\ documents' = [documents EXCEPT ![d].version = n, ![d].file = t.file]
        /\ docVersions' = [docVersions EXCEPT ![d] = @ \cup {[number |-> n, file |-> t.file]}]
        /\ Finish(w)
        /\ UNCHANGED files

\* No constraint asks for one document per key.  A new row is one no request
\* has in memory.
CommitCreate(w) ==
    LET t == req[w]
    IN  /\ t.pc = "stored" /\ t.upload.pc = "create"
        /\ MayCommit(w)
        /\ \E d \in DocumentIds :
              /\ ~Exists(d)
              /\ \A v \in Workers : d \notin InMemory(v)
              /\ documents' = [documents EXCEPT ![d] =
                     [key |-> t.upload.key, version |-> 1, file |-> t.file]]
              /\ docVersions' = [docVersions EXCEPT ![d] = {[number |-> 1, file |-> t.file]}]
        /\ Finish(w)
        /\ UNCHANGED files

\* PUT and PATCH of type, group, project or owner, which are writable.
LoadPatch(w, d, k) ==
    /\ Exists(d)
    /\ Begin(w, [pc |-> "patch", doc |-> d, mem |-> documents[d], key |-> k])
    /\ UNCHANGED documentVars

\* The serializer's save writes every column from memory; a row deleted
\* meanwhile it inserts again.
CommitPatch(w) ==
    LET t == req[w]
    IN  /\ t.pc = "patch"
        /\ MayCommit(w)
        /\ documents' = [documents EXCEPT ![t.doc] = [t.mem EXCEPT !.key = t.key]]
        /\ Finish(w)
        /\ UNCHANGED <<docVersions, files>>

\* DELETE takes the version rows along and leaves the files.
DestroyDocument(d) ==
    /\ engine = "sqlite" => \A w \in Workers : ~Busy(w)
    /\ Exists(d)
    /\ documents' = [documents EXCEPT ![d] = NoDocument]
    /\ docVersions' = [docVersions EXCEPT ![d] = {}]
    /\ UNCHANGED <<files, req>>

DocumentsNext ==
    \/ \E d \in DocumentIds : DestroyDocument(d)
    \/ \E w \in Workers :
          \/ \E k \in DocKeys : LoadUpload(w, k)
          \/ \E d \in DocumentIds, k \in DocKeys : LoadPatch(w, d, k)
          \/ StoreFile(w)
          \/ CommitReplace(w)
          \/ CommitCreate(w)
          \/ CommitPatch(w)
          \/ RollBack(w) /\ UNCHANGED documentVars

DocumentsSpec == DocumentsInit /\ [][DocumentsNext /\ UNCHANGED engine]_documentRequestVars

-----------------------------------------------------------------------------
(* Properties *)

\* Rows of their types.
DocumentsTypeOK ==
    /\ documents \in [DocumentIds ->
           {NoDocument} \cup [key: DocKeys, version: Nat \ {0}, file: Nat]]
    /\ docVersions \in [DocumentIds -> SUBSET [number: Nat \ {0}, file: Nat]]

\* On SQLite a document shows its newest version, and its versions are numbered
\* from 1 without a gap, so that the next upload finds its number free.
DocumentIsNewestVersion ==
    engine = "sqlite" =>
        \A d \in DocumentIds :
            /\ DocNumbers(d) = 1..documents[d].version
            /\ Exists(d) => [number |-> documents[d].version, file |-> documents[d].file]
                               \in docVersions[d]

\* On either database no two versions of a document share a number.
DocVersionsDistinct ==
    \A d \in DocumentIds : \A v, x \in docVersions[d] : v.number = x.number => v = x

\* Whatever step a request or its worker stops at, a row that is kept has its
\* file: a download does not find it missing.
RowsHaveFiles ==
    \A d \in DocumentIds :
        /\ Exists(d) => documents[d].file \in files
        /\ \A v \in docVersions[d] : v.file \in files

\* "Keep a single ACTIVE logical document": on SQLite an upload that adds a
\* document adds the only one of its key.  (A PATCH may still retype another.)
UploadsReplace ==
    [][engine = "sqlite" =>
          \A d \in DocumentIds : ~Exists(d) /\ Exists(d)' =>
              \A c \in DocumentIds \ {d} :
                  Exists(c)' => documents'[c].key # documents'[d].key]_documentVars
=============================================================================
