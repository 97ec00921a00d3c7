-------------------------- MODULE AnagraficaRegister --------------------------
(***************************************************************************)
(* The register of subjects (persons, companies, folders not understood)   *)
(* and of their documents, as the operators edit it through                *)
(* modules/anagrafica/router.py.                                           *)
(*                                                                         *)
(* A handler reads its row, decides, and commits later in the same         *)
(* READ COMMITTED transaction, with no row lock taken by the read: every   *)
(* call on an existing row is two steps, three when it reads the details of*)
(* a subject too.  Imports write the same tables; what an import           *)
(* transaction has written and not yet committed is open[t], and whoever   *)
(* needs the same row or the same unique value waits for it.  Subject and  *)
(* details are different rows.                                             *)
(*                                                                         *)
(* Abstracted away: names, addresses, notes, the review flag, the letter,  *)
(* timestamps and the audit rows, which are inserted in the transaction of *)
(* the change they record and read by nothing but the detail page.         *)
(***************************************************************************)
EXTENDS Naturals, FiniteSets

CONSTANTS
  Folders,      \* subject folders of the NAS archive (nas_folder_path)
  NameOf,       \* Folders -> FolderName, what the parser sees of a name
  Files,        \* files of the archive (nas_path)
  FolderOf,     \* Files -> Folders
  MatchesOf,    \* Files -> SUBSET DocTypes, the patterns its name matches
  Keys,         \* fiscal codes and VAT numbers
  SubjectIds,   \* ana_subjects rows that may come to exist
  Copies,       \* ana_documents rows that may come to exist for one nas_path
  Importers,    \* threads that can be running an import
  Handlers,     \* threads that can be serving an operator's call
  None,
  ChosenTypes,  \* document types the operators pick
  MaxCalls      \* bound: operators' calls in one behaviour

VARIABLES
  subject,      \* the ana_subjects table
  person,       \* codice_fiscale of the ana_persons row of a subject, or None
  company,      \* partita_iva of the ana_companies row of a subject, or None
  documents,    \* the ana_documents table
  open,         \* per import thread: its uncommitted write of a subject
  call,         \* per handler: the call it is serving and the row it read
  calls,        \* operators' calls begun so far
  stale         \* has a commit gone over a row changed since it was read?

register == <<subject, person, company, documents>>

SubjectTypes == {"person", "company", "unknown"}
SubjectStatus == {"active", "inactive", "duplicate"}
Patterns == <<"ingiunzione", "notifica", "estratto_debito", "pratica_interna",
              "visura", "corrispondenza", "contratto">>
DocTypes == {Patterns[i] : i \in DOMAIN Patterns} \cup {"altro"}

(* A folder name is the number of its tokens before the last one, and what *)
(* the last one looks like.                                                *)
FolderName == [words : Nat,
               last : {"none", "cf", "piva", "piva_short", "other"},
               key : Keys \cup {None}]

ASSUME RegisterAssumption ==
  /\ NameOf \in [Folders -> FolderName]
  /\ \A f \in Folders : NameOf[f].last \in {"cf", "piva", "piva_short"}
                          => NameOf[f].key \in Keys
  /\ FolderOf \in [Files -> Folders]
  /\ MatchesOf \in [Files -> SUBSET DocTypes]
  /\ Copies \subseteq Nat
  /\ None \notin Folders \cup Files \cup Keys \cup SubjectIds \cup Importers
  /\ ChosenTypes \subseteq DocTypes
  /\ MaxCalls \in Nat

(* parse_folder_name: a fiscal code needs a surname and a name before it,  *)
(* a VAT number (10 digits are taken for a mistyped one) a company name.   *)
ParsedType(name) ==
  CASE name.last = "cf" /\ name.words >= 2 -> "person"
    [] name.last \in {"piva", "piva_short"} /\ name.words >= 1 -> "company"
    [] OTHER -> "unknown"

(* classify_filename: the first type, in the order of PATTERNS, one of     *)
(* whose patterns the name matches.                                        *)
Classified(file) ==
  IF \E i \in DOMAIN Patterns : Patterns[i] \in MatchesOf[file]
  THEN Patterns[CHOOSE i \in DOMAIN Patterns :
                  /\ Patterns[i] \in MatchesOf[file]
                  /\ \A j \in 1 .. (i - 1) : Patterns[j] \notin MatchesOf[file]]
  ELSE "altro"

SubjectRow == [type : SubjectTypes \cup {"absent"},
               status : SubjectStatus,
               path : Folders \cup {None}]
AbsentSubject == [type |-> "absent", status |-> "active", path |-> None]

DocIds == Files \X Copies
DocRow == [owner : SubjectIds \cup {None},      \* None: no such row
           type : DocTypes,
           source : {"auto", "manual"},
           used : BOOLEAN]                      \* ids are never given twice
AbsentDoc == [owner |-> None, type |-> "altro", source |-> "auto",
              used |-> FALSE]
DeletedDoc == [AbsentDoc EXCEPT !.used = TRUE]

Exists(s) == subject[s].type # "absent"
DocsOf(file, docs) == {d \in DocIds : d[1] = file /\ docs[d].owner # None}

(* The details of a subject: per table the key of its row, None without.   *)
Details == {"person", "company"}
DetailsRows == [Details -> Keys \cup {None}]
NoDetails == [k \in Details |-> None]
DetailsOf(s) == [k \in Details |-> IF k = "person" THEN person[s] ELSE company[s]]

(* Those a type of subject has: at most one of the two rows.               *)
PersonKey(type, key) == IF type = "person" THEN key ELSE None
CompanyKey(type, key) == IF type = "company" THEN key ELSE None
DetailsFor(type, key) ==
  [k \in Details |-> IF k = "person" THEN PersonKey(type, key) ELSE CompanyKey(type, key)]

(* An UPDATE names only the columns whose new value differs from the one   *)
(* the session read.                                                       *)
Column(current, seen, new) == IF new = seen THEN current ELSE new

FlushSubject(current, seen, new) ==
  [type   |-> Column(current.type, seen.type, new.type),
   status |-> Column(current.status, seen.status, new.status),
   path   |-> Column(current.path, seen.path, new.path)]

FlushDoc(current, seen, new) ==
  [owner  |-> Column(current.owner, seen.owner, new.owner),
   type   |-> Column(current.type, seen.type, new.type),
   source |-> Column(current.source, seen.source, new.source),
   used   |-> TRUE]

-----------------------------------------------------------------------------
(* Unique values and open transactions.                                    *)

OpenWrite == [sid : SubjectIds \cup {None},   \* None: nothing written
              fresh : BOOLEAN,                \* an INSERT of the subject
              path : Folders \cup {None},
              type : SubjectTypes,
              key : Keys \cup {None},
              holds : SUBSET Details]         \* details rows written
NoWrite == [sid |-> None, fresh |-> FALSE, path |-> None, type |-> "unknown",
            key |-> None, holds |-> {}]

Writing(s) == \E t \in Importers : open[t].sid = s

(* Uniqueness of ana_subjects.nas_folder_path, for a row s.                *)
PathTaken(s, path) ==
  path # None /\ \E o \in SubjectIds \ {s} : Exists(o) /\ subject[o].path = path
PathContended(s, path) ==
  \E t \in Importers : /\ open[t].sid \notin {None, s}
                       /\ open[t].fresh /\ path # None /\ open[t].path = path

(* The details whose key a flush writes; other columns of theirs are       *)
(* written as well, or alone, which changes nothing modelled here.         *)
Sent(seen, new) == {k \in Details : seen[k] # new[k]}

(* A row an import has written is waited for, and so is a key that it has  *)
(* given another subject, or taken from one.                               *)
DetailsWait(s, seen, new) ==
  \E t \in Importers :
    \E k \in Sent(seen, new) \cap open[t].holds :
      \/ open[t].sid = s
      \/ new[k] # None /\ new[k] \in {DetailsOf(open[t].sid)[k],
                                     DetailsFor(open[t].type, open[t].key)[k]}

(* Uniqueness of ana_persons.codice_fiscale and ana_companies.partita_iva; *)
(* an INSERT of a row that is there by now, an UPDATE of one that is not.  *)
(* A DELETE of a row that is gone is let pass.                             *)
DetailsRefused(s, seen, new) ==
  \E k \in Sent(seen, new) :
    /\ new[k] # None
    /\ \/ \E o \in SubjectIds \ {s} : DetailsOf(o)[k] = new[k]
       \/ (seen[k] = None) <=> (DetailsOf(s)[k] # None)

-----------------------------------------------------------------------------
(* Operators' calls.                                                       *)

CallRecord == [op : {"none", "update", "details", "deactivate", "patch", "delete"},
               sid : SubjectIds \cup {None},
               doc : DocIds \cup {None},
               row : SubjectRow,
               details : DetailsRows,
               docRow : DocRow]
NoCall == [op |-> "none", sid |-> None, doc |-> None, row |-> AbsentSubject,
           details |-> NoDetails, docRow |-> AbsentDoc]

Receive(h, c) ==
  /\ call[h].op = "none"
  /\ calls < MaxCalls
  /\ calls' = calls + 1
  /\ call' = [call EXCEPT ![h] = c]
  /\ UNCHANGED <<register, open, stale>>

Reply(h, changed) ==
  /\ call' = [call EXCEPT ![h] = NoCall]
  /\ stale' = (stale \/ changed)
  /\ UNCHANGED <<calls, open>>

ReadSubject(h, op, s) ==
  /\ Exists(s)
  /\ Receive(h, [NoCall EXCEPT !.op = op, !.sid = s, !.row = subject[s]])

ReadDocument(h, op, d) ==
  /\ documents[d].owner # None
  /\ Receive(h, [NoCall EXCEPT !.op = op, !.doc = d, !.docRow = documents[d]])

(* POST /anagrafica/subjects: one INSERT nobody else can see before the    *)
(* commit; a taken path or key is an error that leaves nothing.            *)
CreateSubject(s, type, path, key) ==
  /\ calls < MaxCalls
  /\ ~Exists(s) /\ ~Writing(s)
  /\ ~PathTaken(s, path) /\ ~PathContended(s, path)
  /\ ~DetailsWait(s, NoDetails, DetailsFor(type, key))
  /\ ~DetailsRefused(s, NoDetails, DetailsFor(type, key))
  /\ calls' = calls + 1
  /\ subject' = [subject EXCEPT ![s] =
                   [type |-> type, status |-> "active", path |-> path]]
  /\ person' = [person EXCEPT ![s] = PersonKey(type, key)]
  /\ company' = [company EXCEPT ![s] = CompanyKey(type, key)]
  /\ UNCHANGED <<documents, open, call, stale>>

(* PUT with details in its payload: they are read after the subject.       *)
ReadDetails(h) ==
  /\ call[h].op = "update"
  /\ call' = [call EXCEPT ![h].op = "details", ![h].details = DetailsOf(call[h].sid)]
  /\ UNCHANGED <<register, open, calls, stale>>

(* PUT: `new' is the row with the fields of the payload set; `key' is the  *)
(* key of the details payload, None when there is none.  The details follow*)
(* the type that was read; the subject is written only if it changes.      *)
CommitUpdate(h, new, key) ==
  LET c == call[h]
      s == c.sid
      details == IF key = None THEN c.details ELSE DetailsFor(c.row.type, key)
  IN /\ c.op = IF key = None THEN "update" ELSE "details"
     /\ new.type = c.row.type
     /\ new # c.row => ~Writing(s)
     /\ new.path # c.row.path => /\ ~PathTaken(s, new.path)
                                 /\ ~PathContended(s, new.path)
     /\ ~DetailsWait(s, c.details, details) /\ ~DetailsRefused(s, c.details, details)
     /\ subject' = [subject EXCEPT ![s] = FlushSubject(@, c.row, new)]
     /\ person' = [person EXCEPT ![s] = Column(@, c.details["person"], details["person"])]
     /\ company' = [company EXCEPT ![s] = Column(@, c.details["company"], details["company"])]
     /\ Reply(h, c.row # subject[s] \/ (key # None /\ c.details # DetailsOf(s)))
     /\ UNCHANGED documents

(* DELETE of a subject is logical.                                         *)
CommitDeactivate(h) ==
  LET c == call[h]
      new == [c.row EXCEPT !.status = "inactive"]
  IN /\ c.op = "deactivate"
     /\ new # c.row => ~Writing(c.sid)
     /\ subject' = [subject EXCEPT ![c.sid] = FlushSubject(@, c.row, new)]
     /\ Reply(h, c.row # subject[c.sid])
     /\ UNCHANGED <<person, company, documents>>

PatchedDoc_KeepsSource(row, type) == [row EXCEPT !.type = type]

PatchedDoc(row, type) == [row EXCEPT !.type = type, !.source = "manual"]

CommitPatch(h, type) ==
  LET c == call[h]
  IN /\ c.op = "patch"
     /\ documents[c.doc].owner # None
     /\ documents' = [documents EXCEPT ![c.doc] =
                        FlushDoc(@, c.docRow, PatchedDoc(c.docRow, type))]
     /\ Reply(h, c.docRow # documents[c.doc])
     /\ UNCHANGED <<subject, person, company>>

CommitDelete(h) ==
  LET c == call[h]
  IN /\ c.op = "delete"
     /\ documents' = [documents EXCEPT ![c.doc] = DeletedDoc]
     /\ Reply(h, c.docRow # documents[c.doc])
     /\ UNCHANGED <<subject, person, company>>

(* A validation error, a taken unique value or a row deleted meanwhile:    *)
(* the transaction is rolled back.                                         *)
CallFails(h) ==
  /\ call[h].op # "none"
  /\ Reply(h, FALSE)
  /\ UNCHANGED register

UpdatedRows(row) ==
  {new \in SubjectRow : new.type = row.type /\ new.path \in {row.path} \cup Folders}

OperatorStep ==
  \/ \E s \in SubjectIds, type \in SubjectTypes, path \in Folders \cup {None} :
       \E key \in IF type = "unknown" THEN {None} ELSE Keys :
         CreateSubject(s, type, path, key)
  \/ \E h \in Handlers :
       \/ \E s \in SubjectIds, op \in {"update", "deactivate"} : ReadSubject(h, op, s)
       \/ \E d \in DocIds, op \in {"patch", "delete"} : ReadDocument(h, op, d)
       \/ ReadDetails(h)
       \/ \E new \in UpdatedRows(call[h].row), key \in Keys \cup {None} :
            CommitUpdate(h, new, key)
       \/ CommitDeactivate(h)
       \/ \E type \in ChosenTypes : CommitPatch(h, type)
       \/ CommitDelete(h)
       \/ CallFails(h)

NobodyAtWork ==
  /\ open = [t \in Importers |-> NoWrite]
  /\ call = [h \in Handlers |-> NoCall]
  /\ calls = 0
  /\ stale = FALSE

RegisterTypeOK ==
  /\ subject \in [SubjectIds -> SubjectRow]
  /\ person \in [SubjectIds -> Keys \cup {None}]
  /\ company \in [SubjectIds -> Keys \cup {None}]
  /\ documents \in [DocIds -> DocRow]
  /\ open \in [Importers -> OpenWrite]
  /\ call \in [Handlers -> CallRecord]
  /\ calls \in Nat
  /\ stale \in BOOLEAN
=============================================================================
