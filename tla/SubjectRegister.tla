-------------------------- MODULE SubjectRegister --------------------------
(***************************************************************************)
(* What the imports of the archive and the calls of its operators do to    *)
(* the register of subjects, with nothing said of jobs, threads, sessions, *)
(* flushes, row locks, savepoints or crashes: each is one transaction that *)
(* reads and writes at one instant, as if it were alone.                   *)
(*                                                                         *)
(* That is so until a transaction commits over a row that another changed  *)
(* after it was read.  From then on only what the database keeps by itself *)
(* is promised.                                                            *)
(***************************************************************************)
CONSTANTS
  Folders, Files, FolderOf, Keys, SubjectIds, Copies, None,
  TypeOf, PersonOf, CompanyOf,  \* per folder: what its name says of the subject
  ClassOf,                      \* per file: what its name says of the document
  ChosenTypes                   \* document types the operators pick

VARIABLES
  subject,    \* per subject: type ("absent" without a row), status and path
  person,     \* per subject: the fiscal code of its details, or None
  company,    \* per subject: the VAT number of its details, or None
  documents,  \* per document: owner (None without a row), type, source, used
  stale       \* has a transaction committed over a changed row?

tables == <<subject, person, company, documents>>
vars == <<tables, stale>>

DocIds == Files \X Copies

Exists(s) == subject[s].type # "absent"
At(f) == {s \in SubjectIds : Exists(s) /\ subject[s].path = f}
DocsOf(x) == {d \in DocIds : d[1] = x /\ documents[d].owner # None}

PathIsFree(s, path) == path = None \/ At(path) \subseteq {s}

KeysAreFree(s, fiscalCode, vat) ==
  \A o \in SubjectIds \ {s} : /\ fiscalCode # None => person[o] # fiscalCode
                              /\ vat # None => company[o] # vat

Put(s, row, fiscalCode, vat) ==
  /\ subject' = [subject EXCEPT ![s] = row]
  /\ person' = [person EXCEPT ![s] = fiscalCode]
  /\ company' = [company EXCEPT ![s] = vat]

-----------------------------------------------------------------------------
(* A folder is imported with the files found in it: into the subject that  *)
(* is at the folder, or a new one; each file into the document there is of *)
(* it, or a new one.                                                       *)
Import(s, f, place) ==
  LET files == DOMAIN place
  IN /\ IF At(f) = {} THEN ~Exists(s) ELSE s \in At(f)
     /\ \A x \in files :
          /\ FolderOf[x] = f
          /\ IF DocsOf(x) = {} THEN ~documents[<<x, place[x]>>].used
                               ELSE <<x, place[x]>> \in DocsOf(x)
     /\ Put(s, [type |-> TypeOf[f], status |-> "active", path |-> f],
            PersonOf[f], CompanyOf[f])
     /\ documents' = [d \in DocIds |->
          IF d[1] \in files /\ d[2] = place[d[1]]
          THEN [owner |-> s, type |-> ClassOf[d[1]], source |-> "auto", used |-> TRUE]
          ELSE documents[d]]

Create(s, type, path, key) ==
  LET fiscalCode == IF type = "person" THEN key ELSE None
      vat == IF type = "company" THEN key ELSE None
  IN /\ ~Exists(s)
     /\ UNCHANGED documents
     /\ PathIsFree(s, path) /\ KeysAreFree(s, fiscalCode, vat)
     /\ Put(s, [type |-> type, status |-> "active", path |-> path], fiscalCode, vat)

(* The details are replaced by those of a key, or left as they are.        *)
Update(s, status, path, key) ==
  LET fiscalCode == IF key = None THEN person[s]
                    ELSE IF subject[s].type = "person" THEN key ELSE None
      vat == IF key = None THEN company[s]
             ELSE IF subject[s].type = "company" THEN key ELSE None
  IN /\ Exists(s)
     /\ UNCHANGED documents
     /\ path # subject[s].path => PathIsFree(s, path)
     /\ fiscalCode # person[s] => KeysAreFree(s, fiscalCode, None)
     /\ vat # company[s] => KeysAreFree(s, None, vat)
     /\ Put(s, [type |-> subject[s].type, status |-> status, path |-> path],
            fiscalCode, vat)

Patch(d, type) ==
  /\ documents[d].owner # None
  /\ documents' = [documents EXCEPT ![d] = [@ EXCEPT !.type = type, !.source = "manual"]]
  /\ UNCHANGED <<subject, person, company>>

Delete(d) ==
  /\ documents[d].owner # None
  /\ documents' = [documents EXCEPT ![d] = [owner |-> None, type |-> "altro",
                                            source |-> "auto", used |-> TRUE]]
  /\ UNCHANGED <<subject, person, company>>

Transaction ==
  \/ \E s \in SubjectIds :
       \/ \E f \in Folders, files \in SUBSET Files :
            \E place \in [files -> Copies] : Import(s, f, place)
       \/ \E type \in {"person", "company", "unknown"}, path \in Folders \cup {None},
             key \in Keys \cup {None} : Create(s, type, path, key)
       \/ \E status \in {"active", "inactive", "duplicate"},
             path \in Folders \cup {None}, key \in Keys \cup {None} :
            Update(s, status, path, key)
  \/ \E d \in DocIds : Delete(d) \/ \E type \in ChosenTypes : Patch(d, type)

(* A commit over a changed row: no subject disappears or joins another at  *)
(* its folder, and no document that was deleted comes back.                *)
CommitOver ==
  /\ stale' = TRUE
  /\ \A s \in SubjectIds : Exists(s) => Exists(s)'
  /\ \A s, o \in SubjectIds :
       Exists(s)' /\ Exists(o)' /\ subject'[s].path # None
         /\ subject'[s].path = subject'[o].path => s = o
  /\ \A d \in DocIds : documents[d].used =>
       /\ documents'[d].used
       /\ documents[d].owner = None => documents'[d].owner = None

-----------------------------------------------------------------------------
(* One subject per folder and one document per file, as earlier imports    *)
(* have left them.                                                         *)
Init ==
  /\ ~stale
  /\ \A s, o \in SubjectIds : Exists(s) /\ Exists(o) /\ subject[s].path # None
                                /\ subject[s].path = subject[o].path => s = o
  /\ \A x \in Files : \A d, e \in DocsOf(x) : d = e

(* A transaction that leaves every row as it was is no step.               *)
Next == CommitOver \/ (tables' # tables /\ UNCHANGED stale /\ Transaction)

Spec == Init /\ [][Next]_vars
=============================================================================
