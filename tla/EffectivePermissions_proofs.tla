--------------------- MODULE EffectivePermissions_proofs ---------------------
(* Proofs that the two passes compute the rules of the documents, for every*)
(* set of payloads: any number of users, groups, shares, lines and texts.  *)
EXTENDS EffectivePermissions, TLAPS

USE PermissionAssumption

(* A payload's sequences, and how many of its texts are used.              *)
LEMMA PayloadFacts ==
  ASSUME NEW p \in Payload
  PROVE  /\ Used(p) \in Nat
         /\ \A i \in 1..Used(p) :
              /\ p.shares[i] \in ShareNames
              /\ p.acls[i] \in Seq(Line) /\ Len(p.acls[i]) \in Nat
              /\ \A k \in 1..Len(p.acls[i]) : p.acls[i][k] \in Line
  <1>1. p.shares \in Seq(ShareNames) /\ p.acls \in Seq(Seq(Line))
    BY DEF Payload
  <1>2. /\ Used(p) \in Nat /\ Used(p) <= Len(p.shares) /\ Used(p) <= Len(p.acls)
    BY <1>1 DEF Used
  <1>3. ASSUME NEW i \in 1..Used(p)
        PROVE  p.shares[i] \in ShareNames /\ p.acls[i] \in Seq(Line)
    BY <1>1, <1>2, <1>3
  <1>4. ASSUME NEW i \in 1..Used(p)
        PROVE  /\ Len(p.acls[i]) \in Nat
               /\ \A k \in 1..Len(p.acls[i]) : p.acls[i][k] \in Line
    BY <1>3
  <1> QED
    BY <1>2, <1>3, <1>4

(* A usable line gives an entry, and the entry tells the line.             *)
LEMMA EntryFacts ==
  ASSUME NEW s \in ShareNames, NEW l \in Line
  PROVE  /\ EntryOf(s, l).share = s /\ EntryOf(s, l).subject = l.subject
         /\ EntryOf(s, l).level = l.level /\ EntryOf(s, l).deny = l.deny
         /\ Usable(l) => EntryOf(s, l) \in Entry
  BY DEF EntryOf, Usable, Line, Entry

(* The entries of an extended sequence.                                    *)
LEMMA AppendedSet ==
  ASSUME TypeOK, NEW e, entries' = Append(entries, e)
  PROVE  EntrySet' = EntrySet \cup {e}
  <1>1. entries \in Seq(Entry) /\ Len(entries) \in Nat
    BY DEF TypeOK
  <1>2. /\ Len(entries') = Len(entries) + 1
        /\ \A n \in 1..Len(entries) : entries'[n] = entries[n]
        /\ entries'[Len(entries) + 1] = e
    BY <1>1
  <1>3. 1..Len(entries') = 1..Len(entries) \cup {Len(entries) + 1}
    BY <1>1, <1>2
  <1> QED
    BY <1>2, <1>3 DEF EntrySet

LEMMA EntrySetType == TypeOK => EntrySet \subseteq Entry
  BY DEF TypeOK, EntrySet

LEMMA PairsType == TypeOK => Pairs \subseteq Users \X ShareNames
  <1> SUFFICES ASSUME TypeOK PROVE Pairs \subseteq Users \X ShareNames
    OBVIOUS
  <1>1. \A e \in EntrySet : e.share \in ShareNames
    BY EntrySetType DEF Entry
  <1> QED
    BY <1>1 DEF Pairs

LEMMA InitInv == Init => IInv
  <1> SUFFICES ASSUME Init PROVE IInv
    OBVIOUS
  <1> USE DEF Init
  <1>1. payload \in Payload
    OBVIOUS
  <1>2. entries \in Seq(Entry) /\ Len(entries) = 0 /\ EntrySet = {}
    BY DEF EntrySet
  <1>3. NoGrant \in Grant
    BY DEF NoGrant, Grant
  <1>4. TypeOK
    BY <1>1, <1>2, <1>3 DEF TypeOK
  <1>5. PositionIsInPayload
    <2>1. Used(payload) \in Nat
      BY <1>1, PayloadFacts
    <2>2. 1 <= Used(payload) => Len(payload.acls[1]) \in Nat
      BY <1>1, <2>1, PayloadFacts
    <2> QED
      BY <2>1, <2>2 DEF PositionIsInPayload
  <1>6. EntriesAreLines
    <2>1. \A i \in 1..Used(payload) : \A k \in 1..Len(payload.acls[i]) : ~HasRead(i, k)
      BY <1>1, PayloadFacts DEF HasRead
    <2> QED
      BY <1>2, <2>1 DEF EntriesAreLines
  <1>7. AccumulatorIsPartial /\ PairsAreSplit /\ ResultsAreRightful
    BY DEF AccumulatorIsPartial, PairsAreSplit, ResultsAreRightful
  <1> QED
    BY <1>4, <1>5, <1>6, <1>7 DEF IInv

-----------------------------------------------------------------------------
(* Collecting the entries.                                                 *)

LEMMA ReadLineInv ==
  ASSUME IInv, ReadLine
  PROVE  IInv'
  <1> USE DEF IInv
  <1> DEFINE l == payload.acls[share][line]
             s == payload.shares[share]
             e0 == EntryOf(s, l)
  <1>1. /\ pc = "collect" /\ pc' = pc /\ payload' = payload /\ share' = share
        /\ line' = line + 1 /\ UNCHANGED answering
        /\ share \in Nat \ {0} /\ line \in Nat \ {0} /\ payload \in Payload
        /\ share <= Used(payload) /\ line <= Len(payload.acls[share])
        /\ todo = {} /\ results = {}
    BY DEF ReadLine, TypeOK, PositionIsInPayload
  <1>2. Used(payload) \in Nat /\ share \in 1..Used(payload)
    BY <1>1, PayloadFacts
  <1>3. /\ Len(payload.acls[share]) \in Nat /\ line \in 1..Len(payload.acls[share])
        /\ s \in ShareNames /\ l \in Line
    <2>1. /\ s \in ShareNames /\ Len(payload.acls[share]) \in Nat
          /\ \A k \in 1..Len(payload.acls[share]) : payload.acls[share][k] \in Line
      BY <1>1, <1>2, PayloadFacts
    <2>2. line \in 1..Len(payload.acls[share])
      BY <1>1, <2>1
    <2> QED
      BY <2>1, <2>2
  <1>4. entries' = IF Usable(l) THEN Append(entries, e0) ELSE entries
    BY DEF ReadLine
  <1>5. Usable(l) => e0 \in Entry
    BY <1>3, EntryFacts
  <1> HIDE DEF l, s, e0
  <1>6. EntrySet' = IF Usable(l) THEN EntrySet \cup {e0} ELSE EntrySet
    <2>1. CASE Usable(l)
      BY <1>4, <2>1, AppendedSet
    <2>2. CASE ~Usable(l)
      BY <1>4, <2>2 DEF EntrySet
    <2> QED
      BY <2>1, <2>2
  <1>7. TypeOK'
    <2>1. entries' \in Seq(Entry)
      BY <1>4, <1>5 DEF TypeOK
    <2> QED
      BY <1>1, <2>1 DEF TypeOK, answering
  <1>8. PositionIsInPayload'
    BY <1>1, <1>2, <1>3 DEF PositionIsInPayload, answering
  <1>9. EntriesAreLines'
    <2>1. \A i \in 1..Used(payload) : \A k \in 1..Len(payload.acls[i]) :
            HasRead(i, k)' <=> HasRead(i, k) \/ (i = share /\ k = line)
      <3>1. \A i \in 1..Used(payload) : Len(payload.acls[i]) \in Nat
        BY <1>1, PayloadFacts
      <3> QED
        BY <1>1, <1>2, <3>1 DEF HasRead
    <2>2. ~HasRead(share, line)
      BY <1>1 DEF HasRead
    <2> SUFFICES ASSUME NEW e \in Entry
                 PROVE  e \in EntrySet' <=>
                          \E i \in 1..Used(payload) : \E k \in 1..Len(payload.acls[i]) :
                            /\ HasRead(i, k)'
                            /\ Usable(payload.acls[i][k])
                            /\ e = EntryOf(payload.shares[i], payload.acls[i][k])
      BY <1>1 DEF EntriesAreLines, Usable, EntryOf
    <2>3. e \in EntrySet <=>
            \E i \in 1..Used(payload) : \E k \in 1..Len(payload.acls[i]) :
              /\ HasRead(i, k)
              /\ Usable(payload.acls[i][k])
              /\ e = EntryOf(payload.shares[i], payload.acls[i][k])
      BY DEF EntriesAreLines
    <2>4. e \in EntrySet' <=> e \in EntrySet \/ (Usable(l) /\ e = e0)
      BY <1>6
    <2>5. l = payload.acls[share][line] /\ e0 = EntryOf(payload.shares[share], l)
      BY DEF l, e0, s
    <2> QED
      BY <1>2, <1>3, <2>1, <2>3, <2>4, <2>5
  <1>10. AccumulatorIsPartial'
    BY <1>1 DEF AccumulatorIsPartial
  <1>11. PairsAreSplit' /\ ResultsAreRightful'
    BY <1>1 DEF PairsAreSplit, ResultsAreRightful, answering
  <1> QED
    BY <1>7, <1>8, <1>9, <1>10, <1>11

LEMMA NextShareInv ==
  ASSUME IInv, NextShare
  PROVE  IInv'
  <1> USE DEF IInv
  <1>1. /\ pc = "collect" /\ pc' = pc /\ payload' = payload /\ share' = share + 1
        /\ line' = 1 /\ entries' = entries /\ UNCHANGED answering
        /\ share \in Nat \ {0} /\ line \in Nat \ {0} /\ payload \in Payload
        /\ share <= Used(payload) /\ line > Len(payload.acls[share])
        /\ todo = {} /\ results = {}
    BY DEF NextShare, TypeOK, PositionIsInPayload
  <1>2. Used(payload) \in Nat
    BY <1>1, PayloadFacts
  <1>3. \A i \in 1..Used(payload) : Len(payload.acls[i]) \in Nat
    BY <1>1, PayloadFacts
  <1>4. TypeOK'
    BY <1>1 DEF TypeOK, answering
  <1>5. PositionIsInPayload'
    <2>1. share + 1 <= Used(payload) => 1 <= Len(payload.acls[share + 1]) + 1
      BY <1>1, <1>2, <1>3
    <2> QED
      BY <1>1, <1>2, <2>1 DEF PositionIsInPayload, answering
  <1>6. EntriesAreLines'
    <2>1. \A i \in 1..Used(payload) : \A k \in 1..Len(payload.acls[i]) :
            HasRead(i, k)' <=> HasRead(i, k)
      BY <1>1, <1>2, <1>3 DEF HasRead
    <2> QED
      BY <1>1, <2>1 DEF EntriesAreLines, EntrySet
  <1>7. AccumulatorIsPartial' /\ PairsAreSplit' /\ ResultsAreRightful'
    BY <1>1 DEF AccumulatorIsPartial, PairsAreSplit, ResultsAreRightful, answering
  <1> QED
    BY <1>4, <1>5, <1>6, <1>7

LEMMA CollectedInv ==
  ASSUME IInv, Collected
  PROVE  IInv'
  <1> USE DEF IInv
  <1>1. /\ pc = "collect" /\ pc' = "choose" /\ payload' = payload
        /\ share' = share /\ line' = line /\ entries' = entries
        /\ todo' = Pairs /\ UNCHANGED <<pair, pass, next, acc, results>>
        /\ share \in Nat \ {0} /\ payload \in Payload /\ share > Used(payload)
        /\ results = {}
    BY DEF Collected, TypeOK, PositionIsInPayload, collecting
  <1>2. TypeOK'
    BY <1>1, PairsType DEF TypeOK
  <1>3. Used(payload) \in Nat
    BY <1>1, PayloadFacts
  <1>4. PositionIsInPayload' /\ AccumulatorIsPartial'
    BY <1>1 DEF PositionIsInPayload, AccumulatorIsPartial
  <1>5. EntriesAreLines'
    <2>1. \A i \in 1..Used(payload) : \A k : HasRead(i, k)' /\ HasRead(i, k)
      BY <1>1, <1>3 DEF HasRead
    <2> QED
      BY <1>1, <2>1 DEF EntriesAreLines, EntrySet
  <1>6. PairsAreSplit' /\ ResultsAreRightful'
    BY <1>1 DEF PairsAreSplit, ResultsAreRightful, Pairs, EntrySet
  <1> QED
    BY <1>2, <1>4, <1>5, <1>6

-----------------------------------------------------------------------------
(* Answering the pairs, which leaves the payload and the entries alone.    *)

LEMMA EntriesStay ==
  ASSUME IInv, UNCHANGED <<payload, share, line, entries>>,
         pc # "collect", pc' # "collect"
  PROVE  /\ PositionIsInPayload' /\ EntriesAreLines'
         /\ EntrySet' = EntrySet /\ Pairs' = Pairs
  <1>1. EntrySet' = EntrySet
    BY DEF EntrySet
  <1>2. EntriesAreLines'
    BY <1>1 DEF IInv, EntriesAreLines, HasRead
  <1> QED
    BY <1>1, <1>2 DEF PositionIsInPayload, Pairs

LEMMA BeginPairInv ==
  ASSUME IInv, NEW q \in todo, BeginPair(q)
  PROVE  IInv'
  <1> USE DEF IInv
  <1>1. /\ pc = "choose" /\ pc' = "apply" /\ pair' = q /\ pass' = "deny"
        /\ next' = 1 /\ acc' = NoGrant
        /\ UNCHANGED <<payload, share, line, entries, todo, results>>
    BY DEF BeginPair, collecting
  <1>2. PositionIsInPayload' /\ EntriesAreLines' /\ EntrySet' = EntrySet /\ Pairs' = Pairs
    BY <1>1, EntriesStay
  <1>3. NoGrant \in Grant /\ ~NoGrant.denied /\ ~NoGrant.read /\ ~NoGrant.write
    BY DEF NoGrant, Grant
  <1>4. TypeOK'
    BY <1>1, <1>3 DEF TypeOK
  <1>5. AccumulatorIsPartial'
    <2>1. \A n \in 1..Len(entries') : ~Considered(n)'
      BY <1>1 DEF Considered
    <2> QED
      BY <1>1, <1>3, <2>1 DEF AccumulatorIsPartial
  <1>6. PairsAreSplit' /\ ResultsAreRightful'
    BY <1>1, <1>2 DEF PairsAreSplit, ResultsAreRightful
  <1> QED
    BY <1>2, <1>4, <1>5, <1>6

LEMMA ConsiderEntryInv ==
  ASSUME IInv, ConsiderEntry
  PROVE  IInv'
  <1> USE DEF IInv
  <1> DEFINE e == entries[next]
             mine == Matches(e) /\ (e.deny <=> pass = "deny")
             seen == {n \in 1..Len(entries) : Considered(n)}
             seenNow == {n \in 1..Len(entries) : Considered(n)'}
  <1>1. /\ pc = "apply" /\ pc' = pc /\ next' = next + 1 /\ next <= Len(entries)
        /\ acc' = IF mine THEN Applied(acc, e) ELSE acc
        /\ payload' = payload /\ share' = share /\ line' = line
        /\ entries' = entries /\ todo' = todo /\ pair' = pair
        /\ pass' = pass /\ results' = results
    BY DEF ConsiderEntry, collecting
  <1>2. PositionIsInPayload' /\ EntriesAreLines' /\ EntrySet' = EntrySet /\ Pairs' = Pairs
    BY <1>1, EntriesStay
  <1>3. /\ entries \in Seq(Entry) /\ Len(entries) \in Nat
        /\ next \in 1..Len(entries)
        /\ \A n \in 1..Len(entries) : entries[n] \in Entry
    BY <1>1 DEF TypeOK
  <1>4. acc \in Grant /\ pass \in {"deny", "allow"}
    BY DEF TypeOK
  <1>5. /\ acc.denied <=> \E n \in seen : entries[n].deny
        /\ acc.read <=> ~acc.denied /\ seen # {}
        /\ acc.write <=> ~acc.denied /\ \E n \in seen : entries[n].level = "write"
    BY <1>1 DEF AccumulatorIsPartial
  <1>6. \A n \in 1..Len(entries) : Matches(entries[n])' <=> Matches(entries[n])
    BY <1>1 DEF Matches
  <1>7. seenNow = IF mine THEN seen \cup {next} ELSE seen
    <2>1. \A n \in 1..Len(entries) : Considered(n)' <=> Considered(n) \/ (n = next /\ mine)
      <3> SUFFICES ASSUME NEW n \in 1..Len(entries)
                   PROVE  Considered(n)' <=> Considered(n) \/ (n = next /\ mine)
        OBVIOUS
      <3>1. entries[n].deny \in BOOLEAN
        <4>1. entries[n] \in Entry
          BY <1>3
        <4> QED
          BY <4>1 DEF Entry
      <3> QED
        BY <1>1, <1>3, <1>4, <1>6, <3>1 DEF Considered
    <2> QED
      BY <1>3, <2>1
  <1>8. acc' \in Grant /\ (mine => acc' = Applied(acc, e))
    <2>1. e \in Entry
      BY <1>3
    <2>2. Applied(acc, e) \in Grant
      BY <1>4, <2>1 DEF Applied, Grant, Entry
    <2> QED
      BY <1>1, <1>4, <2>2
  <1>10. /\ acc'.denied <=> \E n \in seenNow : entries[n].deny
         /\ acc'.read <=> ~acc'.denied /\ seenNow # {}
         /\ acc'.write <=> ~acc'.denied /\ \E n \in seenNow : entries[n].level = "write"
    <2>1. CASE ~mine
      BY <1>1, <1>5, <1>7, <2>1
    <2>2. CASE mine /\ e.deny
      <3>1. acc' = [read |-> FALSE, write |-> FALSE, denied |-> TRUE]
        BY <1>8, <2>2 DEF Applied
      <3> QED
        BY <1>7, <2>2, <3>1
    <2>3. CASE mine /\ ~e.deny /\ acc.denied
      <3>1. acc' = acc
        BY <1>8, <2>3 DEF Applied
      <3> QED
        BY <1>5, <1>7, <2>3, <3>1
    <2>4. CASE mine /\ ~e.deny /\ ~acc.denied
      <3>1. acc' = [acc EXCEPT !.read = TRUE, !.write = @ \/ e.level = "write"]
        BY <1>8, <2>4 DEF Applied
      <3>2. /\ acc'.read = TRUE /\ acc'.denied = acc.denied
            /\ acc'.write = (acc.write \/ e.level = "write")
        BY <1>4, <3>1 DEF Grant
      <3> QED
        BY <1>5, <1>7, <2>4, <3>2
    <2> QED
      BY <2>1, <2>2, <2>3, <2>4
  <1>11. AccumulatorIsPartial'
    BY <1>1, <1>10 DEF AccumulatorIsPartial
  <1>12. TypeOK'
    BY <1>1, <1>3, <1>8 DEF TypeOK
  <1>13. PairsAreSplit' /\ ResultsAreRightful'
    BY <1>1, <1>2 DEF PairsAreSplit, ResultsAreRightful
  <1> QED
    BY <1>2, <1>11, <1>12, <1>13

LEMMA TurnToAllowsInv ==
  ASSUME IInv, TurnToAllows
  PROVE  IInv'
  <1> USE DEF IInv
  <1>1. /\ pc = "apply" /\ pc' = pc /\ next' = 1 /\ next > Len(entries)
        /\ pass = "deny" /\ pass' = "allow"
        /\ payload' = payload /\ share' = share /\ line' = line
        /\ entries' = entries /\ todo' = todo /\ pair' = pair
        /\ acc' = acc /\ results' = results
    BY DEF TurnToAllows, collecting
  <1>2. PositionIsInPayload' /\ EntriesAreLines' /\ EntrySet' = EntrySet /\ Pairs' = Pairs
    BY <1>1, EntriesStay
  <1>3. TypeOK'
    BY <1>1 DEF TypeOK
  <1>4. AccumulatorIsPartial'
    <2>1. next \in Nat /\ Len(entries) \in Nat
      BY DEF TypeOK
    <2>2. \A n \in 1..Len(entries) : Considered(n)' <=> Considered(n)
      <3>1. \A n \in 1..Len(entries) : Matches(entries[n])' <=> Matches(entries[n])
        BY <1>1 DEF Matches
      <3> QED
        BY <1>1, <2>1, <3>1 DEF Considered
    <2> QED
      BY <1>1, <2>2 DEF AccumulatorIsPartial
  <1>5. PairsAreSplit' /\ ResultsAreRightful'
    BY <1>1, <1>2 DEF PairsAreSplit, ResultsAreRightful
  <1> QED
    BY <1>2, <1>3, <1>4, <1>5

(* When all entries are considered, the accumulator holds the rules.       *)
LEMMA AccumulatorIsRightful ==
  ASSUME IInv, pc = "apply", next > Len(entries), pass = "allow"
  PROVE  acc = Rightful(payload, pair[1], pair[2])
  <1> USE DEF IInv
  <1> DEFINE u == pair[1]
             s == pair[2]
             R == RulesFor(payload, u, s)
             seen == {n \in 1..Len(entries) : Considered(n)}
  <1>1. /\ payload \in Payload /\ acc \in Grant /\ pair \in Users \X ShareNames
        /\ entries \in Seq(Entry) /\ next \in Nat /\ Len(entries) \in Nat
    BY DEF TypeOK
  <1>2. u \in Users /\ s \in ShareNames
    BY <1>1
  <1>3. seen = {n \in 1..Len(entries) : Matches(entries[n])}
    BY <1>1 DEF Considered
  <1>4. /\ acc.denied <=> \E n \in seen : entries[n].deny
        /\ acc.read <=> ~acc.denied /\ seen # {}
        /\ acc.write <=> ~acc.denied /\ \E n \in seen : entries[n].level = "write"
    BY DEF AccumulatorIsPartial
  <1>5. \A x : Applies(payload, x, u) <=>
                 x = u \/ \E g \in payload.groups : g.name = x /\ u \in g.members
    BY DEF Applies, GroupsOf
  <1>6. ASSUME NEW n \in seen
        PROVE  \E l \in R : l.deny = entries[n].deny /\ l.level = entries[n].level
    <2>1. entries[n] \in EntrySet /\ entries[n] \in Entry
      BY <1>1 DEF EntrySet
    <2>2. PICK i \in 1..Used(payload) : \E k \in 1..Len(payload.acls[i]) :
            /\ Usable(payload.acls[i][k])
            /\ entries[n] = EntryOf(payload.shares[i], payload.acls[i][k])
      BY <2>1 DEF EntriesAreLines
    <2>3. PICK k \in 1..Len(payload.acls[i]) :
            /\ Usable(payload.acls[i][k])
            /\ entries[n] = EntryOf(payload.shares[i], payload.acls[i][k])
      BY <2>2
    <2> DEFINE l == payload.acls[i][k]
    <2>4. l \in Line /\ payload.shares[i] \in ShareNames
      BY <1>1, PayloadFacts
    <2>5. /\ entries[n].share = payload.shares[i] /\ entries[n].subject = l.subject
          /\ entries[n].level = l.level /\ entries[n].deny = l.deny
      BY <2>3, <2>4, EntryFacts
    <2>6. payload.shares[i] = s /\ Applies(payload, l.subject, u)
      BY <1>3, <2>5 DEF Matches
    <2>7. l \in LinesOf(payload, s)
      BY <2>4, <2>6 DEF LinesOf
    <2>8. l \in R
      BY <1>5, <2>3, <2>6, <2>7 DEF RulesFor, Usable
    <2> QED
      BY <2>5, <2>8
  <1>7. ASSUME NEW l \in R
        PROVE  \E n \in seen : l.deny = entries[n].deny /\ l.level = entries[n].level
    <2>1. /\ l \in LinesOf(payload, s) /\ Usable(l) /\ Applies(payload, l.subject, u)
      BY <1>5 DEF RulesFor, Usable
    <2>2. PICK i \in 1..Used(payload) : payload.shares[i] = s
                    /\ \E k \in 1..Len(payload.acls[i]) : payload.acls[i][k] = l
      BY <2>1 DEF LinesOf
    <2>3. l \in Line
      BY <2>1 DEF LinesOf
    <2>4. /\ EntryOf(s, l) \in Entry /\ EntryOf(s, l).share = s
          /\ EntryOf(s, l).subject = l.subject
          /\ EntryOf(s, l).level = l.level /\ EntryOf(s, l).deny = l.deny
      BY <1>2, <2>1, <2>3, EntryFacts
    <2>5. EntryOf(s, l) \in EntrySet
      BY <2>1, <2>2, <2>4 DEF EntriesAreLines, HasRead
    <2>6. PICK n \in 1..Len(entries) : entries[n] = EntryOf(s, l)
      BY <2>5 DEF EntrySet
    <2>7. n \in seen
      BY <1>3, <2>1, <2>4, <2>6 DEF Matches
    <2> QED
      BY <2>4, <2>6, <2>7
  <1> HIDE DEF R, seen
  <1>8. /\ acc.denied <=> \E l \in R : l.deny
        /\ seen # {} <=> R # {}
        /\ (\E n \in seen : entries[n].level = "write") <=> \E l \in R : l.level = "write"
    BY <1>4, <1>6, <1>7
  <1> DEFINE denied == \E l \in R : l.deny
             rightful == [read |-> ~denied /\ R # {},
                          write |-> ~denied /\ \E l \in R : l.level = "write",
                          denied |-> denied]
  <1>9. Rightful(payload, u, s) = rightful
    BY DEF Rightful, R
  <1>10. rightful \in Grant
    BY DEF Grant
  <1>11. /\ acc.read = rightful.read /\ acc.write = rightful.write
         /\ acc.denied = rightful.denied
    <2>1. acc.read \in BOOLEAN /\ acc.write \in BOOLEAN /\ acc.denied \in BOOLEAN
      BY <1>1 DEF Grant
    <2>2. /\ rightful.read = (~denied /\ R # {}) /\ rightful.denied = denied
          /\ rightful.write = (~denied /\ \E l \in R : l.level = "write")
      OBVIOUS
    <2> QED
      BY <1>4, <1>8, <2>1, <2>2
  <1> HIDE DEF rightful
  <1>12. acc = rightful
    BY <1>1, <1>10, <1>11 DEF Grant
  <1> QED
    BY <1>9, <1>12

LEMMA AnswerInv ==
  ASSUME IInv, Answer
  PROVE  IInv'
  <1> USE DEF IInv
  <1> DEFINE r0 == [user |-> pair[1], share |-> pair[2], grant |-> acc]
  <1>1. /\ pc = "apply" /\ pc' = "choose" /\ next > Len(entries) /\ pass = "allow"
        /\ results' = results \cup {r0} /\ todo' = todo \ {pair}
        /\ UNCHANGED <<payload, share, line, entries, pair, pass, next, acc>>
    BY DEF Answer, collecting
  <1>2. PositionIsInPayload' /\ EntriesAreLines' /\ EntrySet' = EntrySet /\ Pairs' = Pairs
    BY <1>1, EntriesStay
  <1>3. /\ pair \in todo /\ pair \in Users \X ShareNames /\ acc \in Grant
        /\ pair = <<pair[1], pair[2]>>
    BY <1>1 DEF TypeOK
  <1>4. /\ r0 \in Result /\ r0.user = pair[1] /\ r0.share = pair[2] /\ r0.grant = acc
    BY <1>3 DEF Result
  <1> HIDE DEF r0
  <1>5. TypeOK'
    BY <1>1, <1>4 DEF TypeOK
  <1>6. AccumulatorIsPartial'
    BY <1>1 DEF AccumulatorIsPartial
  <1>7. \A r \in results : ~(r.user = pair[1] /\ r.share = pair[2])
    BY <1>3 DEF PairsAreSplit
  <1>8. PairsAreSplit'
    <2>1. \A u \in Users, t \in ShareNames :
            <<u, t>> \in Pairs <=>
              <<u, t>> \in todo' \/ \E r \in results' : r.user = u /\ r.share = t
      <3> SUFFICES ASSUME NEW u \in Users, NEW t \in ShareNames
                   PROVE  <<u, t>> \in Pairs <=>
                            <<u, t>> \in todo' \/ \E r \in results' : r.user = u /\ r.share = t
        OBVIOUS
      <3>1. <<u, t>> \in Pairs <=>
              <<u, t>> \in todo \/ \E r \in results : r.user = u /\ r.share = t
        BY <1>1 DEF PairsAreSplit
      <3>2. <<u, t>> = pair <=> u = pair[1] /\ t = pair[2]
        BY <1>3
      <3> QED
        BY <1>1, <1>3, <1>4, <3>1, <3>2
    <2>2. \A r \in results' : <<r.user, r.share>> \notin todo'
      BY <1>1, <1>3, <1>4 DEF PairsAreSplit
    <2>3. \A r, q \in results' : r.user = q.user /\ r.share = q.share => r = q
      BY <1>1, <1>4, <1>7 DEF PairsAreSplit
    <2> QED
      BY <1>1, <1>2, <2>1, <2>2, <2>3 DEF PairsAreSplit
  <1>9. ResultsAreRightful'
    BY <1>1, <1>4, AccumulatorIsRightful DEF ResultsAreRightful
  <1> QED
    BY <1>2, <1>5, <1>6, <1>8, <1>9

LEMMA FinishInv ==
  ASSUME IInv, Finish \/ UNCHANGED vars
  PROVE  IInv'
  <1> USE DEF IInv
  <1>1. /\ UNCHANGED <<payload, share, line, entries, todo, pair, pass, next, acc, results>>
        /\ pc' = pc \/ (pc = "choose" /\ pc' = "done" /\ todo = {})
    BY DEF Finish, vars, collecting, answering
  <1>2. TypeOK' /\ PositionIsInPayload' /\ ResultsAreRightful'
    BY <1>1 DEF TypeOK, PositionIsInPayload, ResultsAreRightful
  <1>3. EntriesAreLines' /\ AccumulatorIsPartial'
    BY <1>1 DEF EntriesAreLines, EntrySet, HasRead, AccumulatorIsPartial, Considered,
                Matches
  <1>4. PairsAreSplit'
    BY <1>1 DEF PairsAreSplit, Pairs, EntrySet
  <1> QED
    BY <1>2, <1>3, <1>4

LEMMA NextInv == IInv /\ [Next]_vars => IInv'
  BY ReadLineInv, NextShareInv, CollectedInv, BeginPairInv, ConsiderEntryInv,
     TurnToAllowsInv, AnswerInv, FinishInv DEF Next

(* The inductive invariant of the calculation holds for every payload.     *)
THEOREM CalculationInvariant == Spec => []IInv
  <1> QED
    BY InitInv, NextInv, PTL DEF Spec

(* Entries, pairs and results keep their types; no entry lacks a level.    *)
THEOREM CalculationTypes == Spec => []TypeOK
  <1>1. IInv => TypeOK
    BY DEF IInv
  <1> QED
    BY <1>1, CalculationInvariant, PTL

(* Every permission calculate_effective_permissions returns is the one the *)
(* documents' rules give for the ACL lines of the payload: denials first,  *)
(* of the user or of its groups, and writing implies reading.              *)
THEOREM Rightfulness == Spec => []ResultsAreRightful
  <1>1. IInv => ResultsAreRightful
    BY DEF IInv
  <1> QED
    BY <1>1, CalculationInvariant, PTL

(* At the end each user has one answer on each share with a usable line.   *)
THEOREM Completeness == Spec => []EveryPairAnswered
  <1>1. ASSUME IInv PROVE EveryPairAnswered
    <2> USE <1>1 DEF IInv
    <2> SUFFICES ASSUME pc = "done", NEW u \in Users, NEW s \in ShareNames
                 PROVE  (\E r \in results : r.user = u /\ r.share = s) <=>
                          \E l \in LinesOf(payload, s) : l.level # "none"
      BY DEF EveryPairAnswered, PairsAreSplit
    <2>1. payload \in Payload
      BY DEF TypeOK
    <2>2. (\E r \in results : r.user = u /\ r.share = s) <=> <<u, s>> \in Pairs
      BY DEF PairsAreSplit
    <2>3. <<u, s>> \in Pairs <=> \E e \in EntrySet : e.share = s
      BY DEF Pairs
    <2>4. ASSUME NEW e \in EntrySet, e.share = s
          PROVE  \E l \in LinesOf(payload, s) : l.level # "none"
      <3>1. PICK i \in 1..Used(payload) : \E k \in 1..Len(payload.acls[i]) :
              /\ Usable(payload.acls[i][k])
              /\ e = EntryOf(payload.shares[i], payload.acls[i][k])
        BY <2>4, EntrySetType DEF EntriesAreLines
      <3>2. PICK k \in 1..Len(payload.acls[i]) :
              /\ Usable(payload.acls[i][k])
              /\ e = EntryOf(payload.shares[i], payload.acls[i][k])
        BY <3>1
      <3>3. payload.acls[i][k] \in Line /\ payload.shares[i] \in ShareNames
        BY <2>1, PayloadFacts
      <3>4. payload.shares[i] = s
        BY <2>4, <3>2, <3>3, EntryFacts
      <3> QED
        BY <3>2, <3>3, <3>4 DEF LinesOf, Usable
    <2>5. ASSUME NEW l \in LinesOf(payload, s), l.level # "none"
          PROVE  \E e \in EntrySet : e.share = s
      <3>1. l \in Line
        BY DEF LinesOf
      <3>2. EntryOf(s, l) \in Entry /\ EntryOf(s, l).share = s
        BY <2>5, <3>1, EntryFacts DEF Usable
      <3>3. EntryOf(s, l) \in EntrySet
        BY <2>5, <3>2 DEF EntriesAreLines, LinesOf, HasRead, Usable
      <3> QED
        BY <3>2, <3>3
    <2> QED
      BY <2>2, <2>3, <2>4, <2>5
  <1> QED
    BY <1>1, CalculationInvariant, PTL
=============================================================================
