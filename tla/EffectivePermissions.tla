------------------------ MODULE EffectivePermissions ------------------------
(***************************************************************************)
(* From the ACL texts of a sync payload to the effective permissions of a  *)
(* user on a share: the lines become permission entries                    *)
(* (_build_permission_entries_by_share in backend/app/services/sync.py),   *)
(* and calculate_effective_permissions (services/permissions.py) answers   *)
(* every user and share in two passes over them, denials first.            *)
(*                                                                         *)
(* A line is what parse_acl_output makes of it: its subject, already known *)
(* to be a user or a group, and the level its letters mean.  Left out: the *)
(* source_summary texts, and the order in which pairs are answered.        *)
(***************************************************************************)
EXTENDS Naturals, Sequences

CONSTANTS
  Users,       \* the users of the passwd listing
  Groups,
  ShareNames,
  Payloads     \* the payloads to calculate, a subset of Payload

Subjects == Users \cup Groups

Line == [subject : Subjects, level : {"read", "write", "none"}, deny : BOOLEAN]

(* acls[i] belongs to shares[i]; a group may have several lines.           *)
Payload == [shares : Seq(ShareNames),
            acls : Seq(Seq(Line)),
            groups : SUBSET [name : Groups, members : SUBSET Users]]

ASSUME PermissionAssumption ==
  /\ Users \cap Groups = {}
  /\ Payloads \subseteq Payload

VARIABLES
  payload,
  pc,          \* "collect", "choose", "apply" or "done"
  share, line, \* the next ACL line to turn into an entry
  entries,
  todo,        \* the pairs of a user and a share still to answer
  pair, pass, next,  \* the pair at hand, the pass over its entries, the entry
  acc,         \* what the entries so far give it
  results

vars == <<payload, pc, share, line, entries, todo, pair, pass, next, acc, results>>

collecting == <<share, line, entries>>
answering == <<todo, pair, pass, next, acc, results>>

Entry == [share : ShareNames, subject : Subjects, level : {"read", "write"},
          deny : BOOLEAN]

Grant == [read : BOOLEAN, write : BOOLEAN, denied : BOOLEAN]
NoGrant == [read |-> FALSE, write |-> FALSE, denied |-> FALSE]

Result == [user : Users, share : ShareNames, grant : Grant]

-----------------------------------------------------------------------------
(* The entries.                                                            *)

(* Shares beyond the last ACL text, and texts beyond the last share, are   *)
(* not used.                                                               *)
Used(p) == IF Len(p.shares) <= Len(p.acls) THEN Len(p.shares) ELSE Len(p.acls)

(* A line with neither read nor write among its permissions is dropped.    *)
Usable(l) == l.level # "none"

EntryOf(s, l) == [share |-> s, subject |-> l.subject, level |-> l.level,
                  deny |-> l.deny]

ReadLine ==
  /\ pc = "collect"
  /\ share <= Used(payload)
  /\ line <= Len(payload.acls[share])
  /\ LET l == payload.acls[share][line]
     IN entries' = IF Usable(l)
                   THEN Append(entries, EntryOf(payload.shares[share], l))
                   ELSE entries
  /\ line' = line + 1
  /\ UNCHANGED <<payload, pc, share, answering>>

NextShare ==
  /\ pc = "collect"
  /\ share <= Used(payload)
  /\ line > Len(payload.acls[share])
  /\ share' = share + 1
  /\ line' = 1
  /\ UNCHANGED <<payload, pc, entries, answering>>

-----------------------------------------------------------------------------
(* The answers.                                                            *)

EntrySet == {entries[n] : n \in 1..Len(entries)}

GroupsOf(p, u) == {g.name : g \in {h \in p.groups : u \in h.members}}

Applies(p, subject, u) == subject = u \/ subject \in GroupsOf(p, u)

Pairs_OnlyMatching ==
  {q \in Users \X {e.share : e \in EntrySet} :
     \E e \in EntrySet : e.share = q[2] /\ Applies(payload, e.subject, q[1])}

(* Every user is answered for every share with an entry, matched or not.   *)
Pairs == Users \X {e.share : e \in EntrySet}

Collected ==
  /\ pc = "collect"
  /\ share > Used(payload)
  /\ pc' = "choose"
  /\ todo' = Pairs
  /\ UNCHANGED <<payload, collecting, pair, pass, next, acc, results>>

BeginPair(q) ==
  /\ pc = "choose"
  /\ q \in todo
  /\ pc' = "apply"
  /\ pair' = q
  /\ pass' = "deny"
  /\ next' = 1
  /\ acc' = NoGrant
  /\ UNCHANGED <<payload, collecting, todo, results>>

Matches(e) == e.share = pair[2] /\ Applies(payload, e.subject, pair[1])

Applied_GrantsAgain(a, e) ==
  IF e.deny THEN [read |-> FALSE, write |-> FALSE, denied |-> TRUE]
  ELSE [a EXCEPT !.read = TRUE, !.write = @ \/ e.level = "write"]

Applied(a, e) ==
  IF e.deny THEN [read |-> FALSE, write |-> FALSE, denied |-> TRUE]
  ELSE IF a.denied THEN a
  ELSE [a EXCEPT !.read = TRUE, !.write = @ \/ e.level = "write"]

ConsiderEntry ==
  /\ pc = "apply"
  /\ next <= Len(entries)
  /\ LET e == entries[next]
     IN acc' = IF Matches(e) /\ (e.deny <=> pass = "deny")
               THEN Applied(acc, e) ELSE acc
  /\ next' = next + 1
  /\ UNCHANGED <<payload, pc, collecting, todo, pair, pass, results>>

TurnToAllows ==
  /\ pc = "apply"
  /\ next > Len(entries)
  /\ pass = "deny"
  /\ pass' = "allow"
  /\ next' = 1
  /\ UNCHANGED <<payload, pc, collecting, todo, pair, acc, results>>

Answer ==
  /\ pc = "apply"
  /\ next > Len(entries)
  /\ pass = "allow"
  /\ results' = results \cup {[user |-> pair[1], share |-> pair[2], grant |-> acc]}
  /\ todo' = todo \ {pair}
  /\ pc' = "choose"
  /\ UNCHANGED <<payload, collecting, pair, pass, next, acc>>

Finish ==
  /\ pc = "choose"
  /\ todo = {}
  /\ pc' = "done"
  /\ UNCHANGED <<payload, collecting, answering>>

Init ==
  /\ payload \in Payloads
  /\ pc = "collect"
  /\ share = 1 /\ line = 1
  /\ entries = <<>>
  /\ todo = {}
  /\ pair = <<>>
  /\ pass = "deny"
  /\ next = 1
  /\ acc = NoGrant
  /\ results = {}

Next ==
  \/ ReadLine \/ NextShare \/ Collected
  \/ \E q \in todo : BeginPair(q)
  \/ ConsiderEntry \/ TurnToAllows \/ Answer \/ Finish

Spec == Init /\ [][Next]_vars

-----------------------------------------------------------------------------
(* Payload, entries, pairs and results are of the types the code gives them. *)
TypeOK ==
  /\ payload \in Payload
  /\ pc \in {"collect", "choose", "apply", "done"}
  /\ share \in Nat \ {0} /\ line \in Nat \ {0} /\ next \in Nat \ {0}
  /\ entries \in Seq(Entry)
  /\ todo \subseteq Users \X ShareNames
  /\ pc = "apply" => pair \in todo
  /\ pass \in {"deny", "allow"}
  /\ acc \in Grant
  /\ results \subseteq Result

(* The rules of the documents, on the payload itself: what user u may do   *)
(* on share s.                                                             *)
LinesOf(p, s) ==
  {l \in Line : \E i \in 1..Used(p) : p.shares[i] = s
                  /\ \E k \in 1..Len(p.acls[i]) : p.acls[i][k] = l}

RulesFor(p, u, s) ==
  {l \in LinesOf(p, s) :
     /\ l.level # "none"
     /\ l.subject = u \/ \E g \in p.groups : g.name = l.subject /\ u \in g.members}

Rightful(p, u, s) ==
  LET rules == RulesFor(p, u, s)
      denied == \E l \in rules : l.deny
  IN [read |-> ~denied /\ rules # {},
      write |-> ~denied /\ \E l \in rules : l.level = "write",
      denied |-> denied]

(* A denial of a line that applies, to the user or to a group, beats every *)
(* permission wherever it stands in the ACLs; else writing needs a line    *)
(* with write, and writing implies reading.                                *)
ResultsAreRightful ==
  \A r \in results : r.grant = Rightful(payload, r.user, r.share)

(* The calculation leaves no user of the payload without an answer on a    *)
(* share that has a usable line, and gives no second one.                  *)
EveryPairAnswered ==
  /\ pc = "done" =>
       \A u \in Users, s \in ShareNames :
         (\E r \in results : r.user = u /\ r.share = s) <=>
           \E l \in LinesOf(payload, s) : l.level # "none"
  /\ \A r, q \in results : r.user = q.user /\ r.share = q.share => r = q

-----------------------------------------------------------------------------
(* The inductive invariant behind them.                                    *)

(* The line at <<i, k>> has been read.                                     *)
HasRead(i, k) == pc = "collect" => i < share \/ (i = share /\ k < line)

PositionIsInPayload ==
  pc = "collect" =>
    /\ share <= Used(payload) + 1
    /\ share <= Used(payload) => line <= Len(payload.acls[share]) + 1
    /\ todo = {} /\ results = {}

(* The entries are those of the lines read so far.                         *)
EntriesAreLines ==
  \A e \in Entry :
    e \in EntrySet <=>
      \E i \in 1..Used(payload) : \E k \in 1..Len(payload.acls[i]) :
        /\ HasRead(i, k)
        /\ Usable(payload.acls[i][k])
        /\ e = EntryOf(payload.shares[i], payload.acls[i][k])

(* The accumulator sums up the entries considered so far.                  *)
Considered(n) ==
  Matches(entries[n])
    /\ IF pass = "deny" THEN entries[n].deny /\ n < next
       ELSE entries[n].deny \/ n < next

AccumulatorIsPartial ==
  pc = "apply" =>
    LET seen == {n \in 1..Len(entries) : Considered(n)}
    IN /\ acc.denied <=> \E n \in seen : entries[n].deny
       /\ acc.read <=> ~acc.denied /\ seen # {}
       /\ acc.write <=> ~acc.denied /\ \E n \in seen : entries[n].level = "write"

(* Each pair is either answered or still to answer.                        *)
PairsAreSplit ==
  /\ pc # "collect" =>
       \A u \in Users, s \in ShareNames :
         <<u, s>> \in Pairs <=>
           <<u, s>> \in todo \/ \E r \in results : r.user = u /\ r.share = s
  /\ \A r \in results : <<r.user, r.share>> \notin todo
  /\ \A r, q \in results : r.user = q.user /\ r.share = q.share => r = q
  /\ pc = "done" => todo = {}

(* What every step of the two passes keeps.                                *)
IInv ==
  /\ TypeOK
  /\ PositionIsInPayload
  /\ EntriesAreLines
  /\ AccumulatorIsPartial
  /\ PairsAreSplit
  /\ ResultsAreRightful
=============================================================================
