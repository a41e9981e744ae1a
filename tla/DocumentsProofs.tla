--------------------------- MODULE DocumentsProofs --------------------------
(***************************************************************************)
(* Proofs about Documents, on either database and for any number of        *)
(* requests at once: what a request keeps in memory names files that are   *)
(* there, so that the row it writes does too.                              *)
(***************************************************************************)
EXTENDS Documents, FiniteSetTheorems, TLAPS

DocRow == [key: DocKeys, version: Nat \ {0}, file: Nat]

\* A row with its file.
Filed(r) == r \in DocRow /\ r.file \in files

\* An upload that has found its document, or none.
UploadMemory(m) ==
    \/ m.pc = "replace" /\ m.doc \in DocumentIds /\ Filed(m.mem)
    \/ m.pc = "create" /\ m.key \in DocKeys

DocMemory(m) ==
    \/ m.pc = "idle"
    \/ UploadMemory(m)
    \/ m.pc = "stored" /\ UploadMemory(m.upload) /\ m.file \in files
    \/ m.pc = "patch" /\ m.doc \in DocumentIds /\ m.key \in DocKeys /\ Filed(m.mem)

FilesOK == IsFiniteSet(files) /\ files \subseteq Nat

DocRowsOK ==
    /\ documents \in [DocumentIds -> {NoDocument} \cup DocRow]
    /\ \A d \in DocumentIds : documents[d] = NoDocument \/ Filed(documents[d])

DocVersionsOK ==
    /\ docVersions \in [DocumentIds -> SUBSET [number: Nat \ {0}, file: Nat]]
    /\ \A d \in DocumentIds : \A v \in docVersions[d] : v.file \in files

DocMemoriesOK == DOMAIN req = Workers /\ \A w \in Workers : DocMemory(req[w])

DocInv == FilesOK /\ DocRowsOK /\ DocVersionsOK /\ DocMemoriesOK /\ DocVersionsDistinct

LEMMA DocInvInit == DocumentsInit => DocInv
BY FS_EmptySet DEF DocumentsInit, TransactionsInit, Idle, DocInv, FilesOK, DocRowsOK,
   DocVersionsOK, DocMemoriesOK, DocMemory, DocVersionsDistinct

\* Files are only added: what was filed stays filed.
LEMMA FilesGrow ==
    ASSUME files \subseteq files'
    PROVE  /\ \A r : Filed(r) => Filed(r)'
           /\ \A m : UploadMemory(m) => UploadMemory(m)'
           /\ \A m : DocMemory(m) => DocMemory(m)'
<1>1. \A r : Filed(r) => Filed(r)'
    BY DEF Filed
<1>2. \A m : UploadMemory(m) => UploadMemory(m)'
    BY <1>1 DEF UploadMemory
<1> QED BY <1>1, <1>2 DEF DocMemory

\* A request that takes something into memory that is in order.
LEMMA MemoriesKept ==
    ASSUME DocMemoriesOK, NEW w \in Workers, NEW m,
           req' = [req EXCEPT ![w] = m], files \subseteq files', DocMemory(m)'
    PROVE  DocMemoriesOK'
<1>1. \A x : DocMemory(x) => DocMemory(x)'
    BY FilesGrow
<1> QED BY <1>1 DEF DocMemoriesOK

LEMMA IdleIsMemory == DocMemory(Idle) /\ DocMemory(Idle)'
BY DEF DocMemory, Idle

LEMMA ExistingFiled ==
    ASSUME DocRowsOK, NEW d \in DocumentIds, Exists(d)
    PROVE  Filed(documents[d])
BY DEF DocRowsOK, Exists

LEMMA DocStoreFile ==
    ASSUME DocInv, NEW w \in Workers, StoreFile(w)
    PROVE  DocInv'
<1> DEFINE name == Cardinality(files) + 1
<1>1. files' = files \cup {name} /\ name \in Nat
    BY FS_CardinalityType DEF StoreFile, DocInv, FilesOK
<1>2. FilesOK'
    BY <1>1, FS_AddElement DEF DocInv, FilesOK
<1>3. DocRowsOK' /\ DocVersionsOK'
    BY <1>1, FilesGrow DEF DocInv, DocRowsOK, DocVersionsOK, StoreFile
<1>4. DocMemoriesOK'
    <2>1. PICK u : u = req[w]
        OBVIOUS
    <2>2. UploadMemory(u)
        BY <2>1 DEF StoreFile, DocInv, DocMemoriesOK, DocMemory
    <2>3. UploadMemory(u)'
        BY <2>2, <1>1, FilesGrow
    <2>4. PICK m : m = [pc |-> "stored", upload |-> u, file |-> name]
        OBVIOUS
    <2>5. DocMemory(m)'
        BY <2>3, <2>4, <1>1 DEF DocMemory
    <2>6. req' = [req EXCEPT ![w] = m]
        BY <2>1, <2>4 DEF StoreFile, Proceed
    <2> QED BY <2>5, <2>6, <1>1, MemoriesKept DEF DocInv
<1> QED BY <1>2, <1>3, <1>4 DEF DocInv, DocVersionsDistinct, StoreFile

LEMMA DocLoadUpload ==
    ASSUME DocInv, NEW w \in Workers, NEW k \in DocKeys, LoadUpload(w, k)
    PROVE  DocInv'
<1>1. PICK m : DocMemory(m) /\ req' = [req EXCEPT ![w] = m]
    BY ExistingFiled DEF LoadUpload, Begin, ActiveOf, DocMemory, UploadMemory, DocInv
<1>2. UNCHANGED documentVars
    BY DEF LoadUpload
<1>3. DocMemory(m)'
    BY <1>1, <1>2, FilesGrow DEF documentVars
<1>4. DocMemoriesOK'
    BY <1>1, <1>2, <1>3, MemoriesKept DEF DocInv, documentVars
<1> QED BY <1>2, <1>4, FilesGrow DEF DocInv, documentVars, FilesOK, DocRowsOK, DocVersionsOK,
           DocVersionsDistinct

LEMMA DocLoadPatch ==
    ASSUME DocInv, NEW w \in Workers, NEW d \in DocumentIds, NEW k \in DocKeys,
           LoadPatch(w, d, k)
    PROVE  DocInv'
<1>1. PICK m : DocMemory(m) /\ req' = [req EXCEPT ![w] = m]
    BY ExistingFiled DEF LoadPatch, Begin, DocMemory, DocInv
<1>2. UNCHANGED documentVars
    BY DEF LoadPatch
<1>3. DocMemory(m)'
    BY <1>1, <1>2, FilesGrow DEF documentVars
<1>4. DocMemoriesOK'
    BY <1>1, <1>2, <1>3, MemoriesKept DEF DocInv, documentVars
<1> QED BY <1>2, <1>4, FilesGrow DEF DocInv, documentVars, FilesOK, DocRowsOK, DocVersionsOK,
           DocVersionsDistinct

\* A request that ends leaves the others as they were.
LEMMA DocFinish ==
    ASSUME DocInv, NEW w \in Workers, Finish(w), UNCHANGED files
    PROVE  FilesOK' /\ DocMemoriesOK'
<1>1. DocMemoriesOK'
    BY IdleIsMemory, MemoriesKept DEF DocInv, Finish
<1> QED BY <1>1 DEF DocInv, FilesOK

LEMMA DocCommitReplace ==
    ASSUME DocInv, NEW w \in Workers, CommitReplace(w)
    PROVE  DocInv'
<1> DEFINE t == req[w]
           d == t.upload.doc
           n == t.upload.mem.version + 1
           v == [number |-> n, file |-> t.file]
<1>1. d \in DocumentIds /\ Filed(t.upload.mem) /\ t.file \in files
    BY DEF CommitReplace, DocInv, DocMemoriesOK, DocMemory, UploadMemory
<1>2. n \in Nat \ {0} /\ t.file \in Nat
    <2>1. t.upload.mem.version \in Nat
        BY <1>1 DEF Filed, DocRow
    <2>2. n \in Nat \ {0}
        BY <2>1
    <2>3. t.file \in Nat
        BY <1>1 DEF DocInv, FilesOK
    <2> QED BY <2>2, <2>3
<1>3. Filed(documents[d])
    BY <1>1, ExistingFiled DEF CommitReplace, DocInv
<1>4. /\ documents' = [documents EXCEPT ![d].version = n, ![d].file = t.file]
      /\ docVersions' = [docVersions EXCEPT ![d] = @ \cup {v}]
      /\ n \notin DocNumbers(d)
      /\ files' = files
      /\ Finish(w)
    BY DEF CommitReplace
<1>5. DocRowsOK'
    BY <1>1, <1>2, <1>3, <1>4 DEF DocInv, DocRowsOK, Filed, DocRow
<1> HIDE DEF n, d
<1>6. /\ v \in [number : Nat \ {0}, file : Nat] /\ v.number = n /\ v.file \in files
      /\ docVersions'[d] = docVersions[d] \cup {v}
      /\ \A c \in DocumentIds \ {d} : docVersions'[c] = docVersions[c]
    BY <1>1, <1>2, <1>4 DEF DocInv, DocVersionsOK
<1>7. DocVersionsOK'
    BY <1>1, <1>4, <1>6 DEF DocInv, DocVersionsOK
<1> HIDE DEF v
<1>8. DocVersionsDistinct'
    <2>1. \A x \in docVersions[d] : x.number # v.number
        BY <1>4, <1>6 DEF DocNumbers
    <2> QED BY <1>6, <2>1 DEF DocInv, DocVersionsDistinct
<1> QED BY <1>4, <1>5, <1>7, <1>8, DocFinish DEF DocInv

LEMMA DocCommitCreate ==
    ASSUME DocInv, NEW w \in Workers, CommitCreate(w)
    PROVE  DocInv'
<1> DEFINE t == req[w]
<1>1. t.upload.key \in DocKeys /\ t.file \in files /\ t.file \in Nat
    BY DEF CommitCreate, DocInv, DocMemoriesOK, DocMemory, UploadMemory, FilesOK
<1>2. PICK d \in DocumentIds :
        /\ documents' = [documents EXCEPT ![d] =
               [key |-> t.upload.key, version |-> 1, file |-> t.file]]
        /\ docVersions' = [docVersions EXCEPT ![d] = {[number |-> 1, file |-> t.file]}]
    BY DEF CommitCreate
<1>3. files' = files /\ Finish(w)
    BY DEF CommitCreate
<1>4. DocRowsOK'
    BY <1>1, <1>2, <1>3 DEF DocInv, DocRowsOK, Filed, DocRow
<1>5. DocVersionsOK' /\ DocVersionsDistinct'
    BY <1>1, <1>2, <1>3 DEF DocInv, DocVersionsOK, DocVersionsDistinct
<1> QED BY <1>3, <1>4, <1>5, DocFinish DEF DocInv

LEMMA DocCommitPatch ==
    ASSUME DocInv, NEW w \in Workers, CommitPatch(w)
    PROVE  DocInv'
<1> DEFINE t == req[w]
<1>1. t.doc \in DocumentIds /\ t.key \in DocKeys /\ Filed(t.mem)
    BY DEF CommitPatch, DocInv, DocMemoriesOK, DocMemory, UploadMemory
<1>2. /\ documents' = [documents EXCEPT ![t.doc] = [t.mem EXCEPT !.key = t.key]]
      /\ docVersions' = docVersions /\ files' = files /\ Finish(w)
    BY DEF CommitPatch
<1>3. DocRowsOK'
    BY <1>1, <1>2 DEF DocInv, DocRowsOK, Filed, DocRow
<1> QED BY <1>2, <1>3, DocFinish DEF DocInv, DocVersionsOK, DocVersionsDistinct

LEMMA DocDestroy ==
    ASSUME DocInv, NEW d \in DocumentIds, DestroyDocument(d)
    PROVE  DocInv'
<1>1. FilesOK' /\ DocMemoriesOK'
    BY FilesGrow DEF DestroyDocument, DocInv, FilesOK, DocMemoriesOK
<1>2. DocRowsOK' /\ DocVersionsOK' /\ DocVersionsDistinct'
    BY DEF DestroyDocument, DocInv, DocRowsOK, DocVersionsOK, DocVersionsDistinct, Filed
<1> QED BY <1>1, <1>2 DEF DocInv

LEMMA DocInvStep == DocInv /\ [DocumentsNext /\ UNCHANGED engine]_documentRequestVars => DocInv'
<1> SUFFICES ASSUME DocInv, [DocumentsNext /\ UNCHANGED engine]_documentRequestVars
             PROVE  DocInv'
    OBVIOUS
<1>1. ASSUME NEW w \in Workers, RollBack(w), UNCHANGED documentVars PROVE DocInv'
    BY <1>1, DocFinish, FilesGrow DEF RollBack, documentVars, DocInv, DocRowsOK, DocVersionsOK,
       DocVersionsDistinct
<1>2. CASE UNCHANGED documentRequestVars
    BY <1>2, FilesGrow DEF documentRequestVars, documentVars, DocInv, FilesOK, DocRowsOK,
       DocVersionsOK, DocMemoriesOK, DocVersionsDistinct
<1> QED BY <1>1, <1>2, DocDestroy, DocLoadUpload, DocLoadPatch, DocStoreFile, DocCommitReplace,
           DocCommitCreate, DocCommitPatch DEF DocumentsNext

LEMMA DocInvImplies == DocInv => DocumentsTypeOK /\ DocVersionsDistinct /\ RowsHaveFiles
<1> SUFFICES ASSUME DocInv PROVE DocumentsTypeOK /\ DocVersionsDistinct /\ RowsHaveFiles
    OBVIOUS
<1>1. DocumentsTypeOK
    BY DEF DocInv, DocRowsOK, DocVersionsOK, DocRow, DocumentsTypeOK
<1>2. RowsHaveFiles
    BY DEF DocInv, DocRowsOK, DocVersionsOK, Filed, RowsHaveFiles, Exists
<1> QED BY <1>1, <1>2 DEF DocInv

\* The rows and the versions have their types.
THEOREM DocumentsTyped == DocumentsSpec => []DocumentsTypeOK
BY DocInvInit, DocInvStep, DocInvImplies, PTL DEF DocumentsSpec

\* No two versions of a document share a number, whatever uploads race: the
\* unique constraint refuses the second.
THEOREM DistinctVersions == DocumentsSpec => []DocVersionsDistinct
BY DocInvInit, DocInvStep, DocInvImplies, PTL DEF DocumentsSpec

\* The file of a row is stored before the row can be committed, and nothing
\* takes it away: neither a roll-back nor a crash leaves a row without its file.
THEOREM FilesOfRows == DocumentsSpec => []RowsHaveFiles
BY DocInvInit, DocInvStep, DocInvImplies, PTL DEF DocumentsSpec

-----------------------------------------------------------------------------
(* On SQLite nothing commits between a request's reads and its own commit. *)

FreshUpload(m) ==
    /\ m.pc = "replace" => documents[m.doc] = m.mem
    /\ m.pc = "create" => ActiveOf(m.key) = {}

FreshMemories ==
    \A w \in Workers :
        /\ FreshUpload(req[w])
        /\ req[w].pc = "stored" => FreshUpload(req[w].upload)
        /\ req[w].pc = "patch" => documents[req[w].doc] = req[w].mem

Newest ==
    \A d \in DocumentIds :
        /\ DocNumbers(d) = 1..documents[d].version
        /\ Exists(d) => [number |-> documents[d].version, file |-> documents[d].file]
                           \in docVersions[d]

\* Workers that are all idle but one, which becomes so.
LEMMA IdleIsFresh ==
    ASSUME DocInv, NEW w \in Workers, engine = "sqlite", MayCommit(w), Finish(w)
    PROVE  FreshMemories'
BY DEF DocInv, DocMemoriesOK, MayCommit, Finish, Idle, Busy, FreshMemories, FreshUpload

\* A row of a document is not the record that stands for none.
LEMMA RowsExist == \A r \in DocRow : r # NoDocument /\ r.version # 0
BY DEF DocRow, NoDocument

LEMMA FreshInit == DocumentsInit => FreshMemories /\ Newest
BY DEF DocumentsInit, TransactionsInit, Idle, FreshMemories, FreshUpload, Newest, DocNumbers,
       NoDocument, Exists

LEMMA FreshLoads ==
    ASSUME DocInv, FreshMemories, Newest, NEW w \in Workers, UNCHANGED engine,
           \/ \E k \in DocKeys : LoadUpload(w, k)
           \/ \E d \in DocumentIds, k \in DocKeys : LoadPatch(w, d, k)
    PROVE  FreshMemories' /\ Newest'
<1>1. UNCHANGED documentVars
    BY DEF LoadUpload, LoadPatch
<1>2. Newest'
    BY <1>1 DEF documentVars, Newest, DocNumbers, Exists
<1>3. FreshMemories'
    BY <1>1 DEF DocInv, DocMemoriesOK, LoadUpload, LoadPatch, Begin, documentVars, FreshMemories,
                FreshUpload, ActiveOf, Exists
<1> QED BY <1>2, <1>3

LEMMA FreshStore ==
    ASSUME DocInv, FreshMemories, Newest, NEW w \in Workers, StoreFile(w)
    PROVE  FreshMemories' /\ Newest'
BY DEF DocInv, DocMemoriesOK, StoreFile, Proceed, FreshMemories, FreshUpload, ActiveOf, Exists,
       Newest, DocNumbers

LEMMA NewestReplace ==
    ASSUME DocInv, FreshMemories, Newest, NEW w \in Workers, CommitReplace(w)
    PROVE  Newest'
<1>0. PICK f : f = req[w].file
    OBVIOUS
<1>1. PICK d \in DocumentIds, m \in DocRow :
        /\ d = req[w].upload.doc /\ m = req[w].upload.mem /\ f = req[w].file
    BY <1>0 DEF CommitReplace, DocInv, DocMemoriesOK, DocMemory, UploadMemory, Filed
<1>2. documents[d] = m
    BY <1>1 DEF CommitReplace, FreshMemories, FreshUpload
<1> DEFINE n == m.version + 1
           v == [number |-> n, file |-> f]
<1>3. m.version \in Nat
    BY <1>1 DEF DocRow
<1>4. /\ documents' = [documents EXCEPT ![d].version = n, ![d].file = f]
      /\ docVersions' = [docVersions EXCEPT ![d] = @ \cup {v}]
    BY <1>1 DEF CommitReplace
<1>5. documents'[d].version = n /\ documents'[d].file = f
    BY <1>1, <1>2, <1>4 DEF DocInv, DocRowsOK, DocRow
<1>6. DocNumbers(d)' = DocNumbers(d) \cup {n}
    <2>1. docVersions'[d] = docVersions[d] \cup {v}
        BY <1>1, <1>4 DEF DocInv, DocVersionsOK
    <2>2. v.number = n
        OBVIOUS
    <2> HIDE DEF v
    <2> QED BY <2>1, <2>2 DEF DocNumbers
<1>7. DocNumbers(d)' = 1..n
    <2>1. DocNumbers(d) = 1..(n - 1)
        <3>1. DocNumbers(d) = 1..m.version
            BY <1>2 DEF Newest
        <3> QED BY <3>1, <1>3
    <2>2. 1..n = (1..(n - 1)) \cup {n}
        BY <1>3
    <2> QED BY <1>6, <2>1, <2>2
<1>8. v \in docVersions'[d]
    BY <1>1, <1>4 DEF DocInv, DocVersionsOK
<1>9. \A c \in DocumentIds \ {d} : documents'[c] = documents[c] /\ docVersions'[c] = docVersions[c]
    BY <1>4 DEF DocInv, DocRowsOK, DocVersionsOK
<1> QED BY <1>5, <1>7, <1>8, <1>9 DEF Newest, DocNumbers, Exists

LEMMA NewestCommits ==
    ASSUME DocInv, FreshMemories, Newest, NEW w \in Workers, CommitCreate(w) \/ CommitPatch(w)
    PROVE  Newest'
<1> DEFINE t == req[w]
<1>1. ASSUME CommitCreate(w) PROVE Newest'
    <2>1. PICK d \in DocumentIds :
            /\ documents' = [documents EXCEPT ![d] =
                   [key |-> t.upload.key, version |-> 1, file |-> t.file]]
            /\ docVersions' = [docVersions EXCEPT ![d] = {[number |-> 1, file |-> t.file]}]
        BY <1>1 DEF CommitCreate
    <2>2. documents'[d].version = 1 /\ documents'[d].file = t.file
          /\ docVersions'[d] = {[number |-> 1, file |-> t.file]}
        BY <2>1 DEF DocInv, DocRowsOK, DocVersionsOK
    <2>3. DocNumbers(d)' = {1} /\ 1..1 = {1}
        BY <2>2 DEF DocNumbers
    <2>4. \A c \in DocumentIds \ {d} :
              documents'[c] = documents[c] /\ docVersions'[c] = docVersions[c]
        BY <2>1 DEF DocInv, DocRowsOK, DocVersionsOK
    <2> QED BY <2>2, <2>3, <2>4 DEF Newest, DocNumbers, Exists
<1>2. ASSUME CommitPatch(w) PROVE Newest'
    <2>1. t.doc \in DocumentIds /\ Filed(t.mem) /\ documents[t.doc] = t.mem
        BY <1>2 DEF CommitPatch, DocInv, DocMemoriesOK, DocMemory, UploadMemory, FreshMemories
    <2>2. documents' = [documents EXCEPT ![t.doc] = [t.mem EXCEPT !.key = t.key]]
          /\ docVersions' = docVersions
        BY <1>2 DEF CommitPatch
    <2>3. /\ documents'[t.doc].version = t.mem.version
          /\ documents'[t.doc].file = t.mem.file
        BY <2>1, <2>2 DEF DocInv, DocRowsOK, Filed, DocRow
    <2>4. [number |-> t.mem.version, file |-> t.mem.file] \in docVersions[t.doc]
        BY <2>1, RowsExist DEF Newest, Exists, Filed
    <2>5. \A c \in DocumentIds \ {t.doc} : documents'[c] = documents[c]
        BY <2>2 DEF DocInv, DocRowsOK
    <2> QED BY <2>1, <2>2, <2>3, <2>4, <2>5 DEF Newest, DocNumbers, Exists
<1> QED BY <1>1, <1>2

DocSqliteInv == DocInv /\ (engine = "sqlite" => FreshMemories /\ Newest)

LEMMA DocSqliteStep ==
    DocSqliteInv /\ [DocumentsNext /\ UNCHANGED engine]_documentRequestVars => DocSqliteInv'
<1> SUFFICES ASSUME DocSqliteInv, [DocumentsNext /\ UNCHANGED engine]_documentRequestVars
             PROVE  DocSqliteInv'
    OBVIOUS
<1>1. DocInv /\ DocInv'
    BY DocInvStep DEF DocSqliteInv
<1>2. engine' = engine
    BY DEF documentRequestVars
<1> SUFFICES ASSUME engine = "sqlite" PROVE FreshMemories' /\ Newest'
    BY <1>1, <1>2 DEF DocSqliteInv
<1>3. FreshMemories /\ Newest
    BY DEF DocSqliteInv
<1>4. CASE UNCHANGED documentRequestVars
    BY <1>3, <1>4 DEF documentRequestVars, documentVars, FreshMemories, FreshUpload, ActiveOf,
                      Exists, Newest, DocNumbers
<1>5. ASSUME NEW d \in DocumentIds, DestroyDocument(d) PROVE FreshMemories' /\ Newest'
    <2>1. FreshMemories'
        BY <1>5 DEF DestroyDocument, Busy, FreshMemories, FreshUpload
    <2>2. Newest'
        BY <1>1, <1>3, <1>5 DEF DestroyDocument, Newest, DocNumbers, NoDocument, Exists, DocInv,
                                DocRowsOK, DocVersionsOK
    <2> QED BY <2>1, <2>2
<1>6. ASSUME NEW w \in Workers, CommitReplace(w) \/ CommitCreate(w) \/ CommitPatch(w)
      PROVE  FreshMemories' /\ Newest'
    <2>1. Newest'
        BY <1>1, <1>3, <1>6, NewestReplace, NewestCommits
    <2>2. MayCommit(w) /\ Finish(w)
        BY <1>6 DEF CommitReplace, CommitCreate, CommitPatch
    <2> QED BY <1>1, <2>1, <2>2, IdleIsFresh
<1>7. ASSUME NEW w \in Workers, RollBack(w), UNCHANGED documentVars
      PROVE  FreshMemories' /\ Newest'
    BY <1>1, <1>3, <1>7 DEF RollBack, Finish, Idle, documentVars, DocInv, DocMemoriesOK,
       FreshMemories, FreshUpload, ActiveOf, Exists, Newest, DocNumbers
<1> QED BY <1>1, <1>2, <1>3, <1>4, <1>5, <1>6, <1>7, FreshLoads, FreshStore DEF DocumentsNext

\* On SQLite a document shows its newest version, numbered without a gap, for
\* any number of uploads, edits and deletions at once.
THEOREM NewestVersionShown == DocumentsSpec => []DocumentIsNewestVersion
<1>1. DocumentsInit => DocSqliteInv
    BY DocInvInit, FreshInit DEF DocSqliteInv
<1>2. DocSqliteInv => DocumentIsNewestVersion
    BY DEF DocSqliteInv, Newest, DocumentIsNewestVersion
<1> QED BY <1>1, <1>2, DocSqliteStep, PTL DEF DocumentsSpec
-----------------------------------------------------------------------------
(* A document that is added *)

LEMMA AddedAlone ==
    ASSUME DocInv, DocInv', FreshMemories,
           [DocumentsNext /\ UNCHANGED engine]_documentRequestVars,
           NEW d \in DocumentIds, ~Exists(d), Exists(d)', NEW c \in DocumentIds \ {d}, Exists(c)'
    PROVE  documents'[c].key # documents'[d].key
<1>1. documents'[d] # documents[d]
    BY DEF Exists
<1>2. \A b, r : b # d /\ documents' = [documents EXCEPT ![b] = r] => documents'[d] = documents[d]
    OBVIOUS
<1>3. \A b \in DocumentIds : ~DestroyDocument(b)
    BY DEF DestroyDocument, Exists, DocInv, DocRowsOK
<1>4. PICK w \in Workers : CommitReplace(w) \/ CommitCreate(w) \/ CommitPatch(w)
    BY <1>1, <1>3 DEF DocumentsNext, LoadUpload, LoadPatch, StoreFile, documentVars,
                      documentRequestVars
<1>5. ~CommitReplace(w)
    <2> SUFFICES ASSUME CommitReplace(w) PROVE FALSE
        OBVIOUS
    <2>1. PICK b \in DocumentIds : b = req[w].upload.doc
        BY DEF CommitReplace, DocInv, DocMemoriesOK, DocMemory, UploadMemory
    <2>2. PICK n, f : documents' = [documents EXCEPT ![b].version = n, ![b].file = f]
        BY <2>1 DEF CommitReplace
    <2>3. Exists(b)
        BY <2>1 DEF CommitReplace
    <2> QED BY <1>1, <2>2, <2>3 DEF DocInv, DocRowsOK
<1>6. ~CommitPatch(w)
    <2> SUFFICES ASSUME CommitPatch(w) PROVE FALSE
        OBVIOUS
    <2>1. PICK b \in DocumentIds, m \in DocRow :
              b = req[w].doc /\ m = req[w].mem /\ documents[b] = m
        BY DEF CommitPatch, DocInv, DocMemoriesOK, DocMemory, UploadMemory, FreshMemories, Filed
    <2>2. Exists(b)
        BY <2>1, RowsExist DEF Exists
    <2>3. \E r : documents' = [documents EXCEPT ![b] = r]
        BY <2>1 DEF CommitPatch
    <2> QED BY <1>1, <2>2, <2>3 DEF DocInv, DocRowsOK
<1>7. CommitCreate(w)
    BY <1>4, <1>5, <1>6
<1>8. PICK k, f : k = req[w].upload.key /\ f = req[w].file
    OBVIOUS
<1>9. ActiveOf(k) = {}
    BY <1>7, <1>8 DEF CommitCreate, FreshMemories, FreshUpload
<1>10. PICK b \in DocumentIds :
          documents' = [documents EXCEPT ![b] = [key |-> k, version |-> 1, file |-> f]]
    BY <1>7, <1>8 DEF CommitCreate
<1>11. b = d /\ documents'[d].key = k /\ documents'[c] = documents[c]
    BY <1>1, <1>10 DEF DocInv, DocRowsOK
<1>12. documents[c].key # k
    BY <1>9, <1>11 DEF ActiveOf, Exists
<1> QED BY <1>11, <1>12

\* On SQLite an upload never adds a second document beside one of its key,
\* however many uploads come at once: what it looked for is still not there.
THEOREM UploadsAlone == DocumentsSpec => UploadsReplace
<1>1. DocumentsInit => DocSqliteInv
    BY DocInvInit, FreshInit DEF DocSqliteInv
<1>2. DocSqliteInv /\ DocSqliteInv' /\ [DocumentsNext /\ UNCHANGED engine]_documentRequestVars
        => [engine = "sqlite" =>
              \A d \in DocumentIds : ~Exists(d) /\ Exists(d)' =>
                  \A c \in DocumentIds \ {d} :
                      Exists(c)' => documents'[c].key # documents'[d].key]_documentVars
    BY AddedAlone DEF DocSqliteInv
<1> QED BY <1>1, <1>2, DocSqliteStep, PTL DEF DocumentsSpec, UploadsReplace
=============================================================================
