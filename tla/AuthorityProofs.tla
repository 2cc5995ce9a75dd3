---------------------------- MODULE AuthorityProofs ----------------------------
(***************************************************************************)
(* What a paper session may run on: documents and money.                   *)
(*                                                                         *)
(* HistoryIsSound, ApprovalIsOwn and ProfilesRestOnMandates are invariants *)
(* of OperationalDocuments for any mandates, profiles, administrators and  *)
(* revisions, and what was approved is never rewritten. A call either      *)
(* changes one document the way Follows describes or none. What an         *)
(* administrator has on the screen was once true, and documents only grow: *)
(* that is all a later call of the administrator relies on.                *)
(*                                                                         *)
(* CapitalIsCovered, SettledIsFinal and ClosedEraIsSettled are invariants  *)
(* of CapitalAuthority for any number of profiles, simulations, calls      *)
(* under way, and any amounts of money. The balance and the reservations   *)
(* are sums over finite sets. The library defines such a sum by recursion  *)
(* on the set, taking elements in an unknown order; that the order does    *)
(* not matter is proved first, by looking at a smallest set for which it   *)
(* would.                                                                  *)
(***************************************************************************)
EXTENDS OperationalDocuments, CapitalAuthority, FiniteSetTheorems, WellFoundedInduction, TLAPS

-----------------------------------------------------------------------------
(* The inductive invariant *)

SpecsOf(d) == IF d \in Mandates THEN MandateSpecs ELSE ProfileSpecs
RevisionsOf(d) == [spec : SpecsOf(d), after : SpecsOf(d) \cup {Unread}]
Aggregates(d) == [state : States \cup {"ABSENT"}, revs : Seq(RevisionsOf(d)), version : Nat,
                  approved : Nat, approvedBy : Actors \cup {Nobody},
                  archivedBy : Actors \cup {Nobody}, key : {<<>>} \cup (Actors \X Keys)]
Screens == [doc : Documents \cup {Nobody}, rev : Nat, version : Nat, spec : Specs,
            did : {"LIST", "READ", "APPROVED"}]
Strategies == [revision : 1..MaxRevisions, archived : BOOLEAN]

Shape == /\ doc = [d \in Documents |-> doc[d]]
         /\ strategy \in Strategies
         /\ seen \in [Actors -> Screens]

BuildsOn(r) == \A i \in 2..Len(r.revs) : r.revs[i].after = r.revs[i - 1].spec
Sound(d, r) == r \in Aggregates(d) /\ WellFormed(r, RevisionsOf(d)) /\ BuildsOn(r)

\* The screen s of administrator a shows the document r as it is or was.
Shows(a, s, r) == /\ r.state # "ABSENT"
                  /\ s.rev \in 1..Len(r.revs)
                  /\ s.version <= r.version
                  /\ s.did # "LIST" => s.spec = r.revs[s.rev].spec
                  /\ s.did = "APPROVED" => r.approvedBy = a /\ r.approved = s.rev
HoldsIn(a, s, f) == \/ s = Blank
                    \/ s.doc \in Documents /\ Shows(a, s, f[s.doc])
ScreenHolds(a) == HoldsIn(a, seen[a], doc)

DocumentsInv == /\ Shape
                /\ \A d \in Documents : Sound(d, doc[d])
                /\ \A a \in Actors : ScreenHolds(a)
                /\ ProfilesRestOnMandates

\* n may take the place of o: it is longer, and an approval stands.
Follows(d, o, n) ==
    /\ Sound(d, n)
    /\ n.state # "ABSENT"
    /\ Len(o.revs) <= Len(n.revs) /\ o.version <= n.version
    /\ \A i \in 1..Len(o.revs) : n.revs[i] = o.revs[i]
    /\ o.approved # 0 => n.approved = o.approved /\ n.approvedBy = o.approvedBy /\ n.revs = o.revs

\* The one document a call has changed, and what it has become.
Changed(d, n) == /\ doc' = [doc EXCEPT ![d] = n]
                 /\ Follows(d, doc[d], n)
                 /\ UNCHANGED strategy
\* An approval that this step made rests on what it must rest on.
RestsWell(d, n) == d \in Profiles /\ n.approved # 0 /\ doc[d].approved = 0
                     => n.revs = doc[d].revs /\ MayBecomeApproved(CurrentSpec(d))
\* A call of administrator a that concerns document d, a replay included.
Call(a, d) ==
    \E n \in Aggregates(d), did \in {"READ", "APPROVED"} :
        /\ Changed(d, n) /\ RestsWell(d, n)
        /\ Reply(a, d, did)
        /\ did = "APPROVED" => n.approvedBy = a /\ n.approved = Len(n.revs)

-----------------------------------------------------------------------------
(* What a change of one document is *)

\* The first draft of a document that had no row.
LEMMA DraftFollows ==
    ASSUME NEW d \in Documents, NEW a \in Actors, NEW k \in Keys, NEW s \in SpecsOf(d)
    PROVE  Follows(d, Absent, Drafted(a, k, s)) /\ Drafted(a, k, s).approved = 0
<1> DEFINE n == Drafted(a, k, s)
           v == [spec |-> s, after |-> Unread]
<1>1. v \in RevisionsOf(d)
  BY DEF RevisionsOf
<1>2. /\ n = [state |-> "DRAFT", revs |-> <<v>>, version |-> 1, approved |-> 0,
              approvedBy |-> Nobody, archivedBy |-> Nobody, key |-> <<a, k>>]
  <2>1. n = [Absent EXCEPT !.state = "DRAFT", !.version = 1, !.key = <<a, k>>, !.revs = <<v>>]
    BY DEF Drafted
  <2> HIDE DEF n, v
  <2> QED
    BY <2>1 DEF Absent
<1>3. <<v>> \in Seq(RevisionsOf(d)) /\ Len(<<v>>) = 1
  BY <1>1
<1> HIDE DEF n, v
<1>4. n \in Aggregates(d)
  BY <1>2, <1>3 DEF Aggregates, States
<1>5. WellFormed(n, RevisionsOf(d))
  BY <1>2, <1>3, RevisionsAssumption DEF WellFormed, States
<1>6. BuildsOn(n)
  BY <1>2, <1>3 DEF BuildsOn
<1>7. n.approved = 0 /\ n.state # "ABSENT" /\ n.version = 1
  BY <1>2
<1>8. Absent.revs = <<>> /\ Absent.version = 0 /\ Absent.approved = 0
  BY DEF Absent
<1> QED
  BY <1>4, <1>5, <1>6, <1>7, <1>8, <1>2, <1>3 DEF Follows, Sound, n

\* A document in draft has at least a revision and no approval.
LEMMA Present ==
    ASSUME NEW d \in Documents, NEW r, Sound(d, r), r.state # "ABSENT"
    PROVE  /\ r.revs \in Seq(RevisionsOf(d)) /\ Len(r.revs) \in 1..MaxRevisions
           /\ r.state \in States /\ r.version \in Nat /\ r.approved \in Nat
           /\ r.state = "DRAFT" => r.approved = 0 /\ r.archivedBy = Nobody
           /\ r.revs[Len(r.revs)].spec \in SpecsOf(d)
           /\ \A i \in 1..Len(r.revs) : r.revs[i] \in RevisionsOf(d) /\ r.revs[i].spec \in SpecsOf(d)
<1>1. r # Absent
  BY DEF Absent
<1>2. /\ r.revs \in Seq(RevisionsOf(d)) /\ Len(r.revs) \in 1..MaxRevisions
      /\ r.state \in States /\ r.version \in Nat /\ r.approved \in Nat
      /\ r.state = "DRAFT" => r.approved = 0 /\ r.archivedBy = Nobody
  BY <1>1 DEF Sound, WellFormed, Aggregates
<1>3. \A i \in 1..Len(r.revs) : r.revs[i] \in RevisionsOf(d)
  BY <1>2
<1>4. \A i \in 1..Len(r.revs) : r.revs[i].spec \in SpecsOf(d)
  BY <1>3 DEF RevisionsOf
<1>5. Len(r.revs) \in 1..Len(r.revs)
  BY <1>2
<1> QED
  BY <1>2, <1>3, <1>4, <1>5

\* The administrator whose expectation holds has the current revision on the
\* screen.
LEMMA ExpectedIsCurrent ==
    ASSUME DocumentsInv, NEW a \in Actors, NEW d \in Documents, Expected(a, d)
    PROVE  doc[d].state # "ABSENT" /\ seen[a].spec = CurrentSpec(d)
<1>1. seen[a] # Blank
  <2>1. Blank.doc = Nobody /\ seen[a].doc = d
    BY DEF Blank, Expected, Reads
  <2> QED
    BY <2>1, DocumentsAssumption DEF Documents
<1>2. Shows(a, seen[a], doc[d])
  BY <1>1 DEF DocumentsInv, ScreenHolds, HoldsIn, Expected, Reads
<1> QED
  BY <1>2 DEF Shows, Expected, Reads, CurrentSpec

\* One more revision of a draft, written over the one its author had read.
LEMMA EditFollows ==
    ASSUME DocumentsInv, NEW d \in Documents, NEW a \in Actors, NEW s \in SpecsOf(d),
           Expected(a, d), Editable(d), Len(doc[d].revs) < MaxRevisions,
           NEW n, n = [doc[d] EXCEPT !.revs = Append(@, [spec |-> s, after |-> seen[a].spec]),
                                     !.version = @ + 1]
    PROVE  Follows(d, doc[d], n) /\ n.approved = 0
<1> DEFINE r == doc[d]
           v == [spec |-> s, after |-> seen[a].spec]
<1>1. Sound(d, r) /\ r.state = "DRAFT" /\ r.state # "ABSENT"
  BY DEF DocumentsInv, Editable
<1>2. seen[a].spec = r.revs[Len(r.revs)].spec
  BY ExpectedIsCurrent DEF CurrentSpec
<1>3. r \in Aggregates(d)
  BY <1>1 DEF Sound
<1>4. /\ r.revs \in Seq(RevisionsOf(d)) /\ Len(r.revs) \in 1..MaxRevisions
      /\ r.version \in Nat /\ r.approved = 0 /\ r.archivedBy = Nobody
      /\ r.revs[Len(r.revs)].spec \in SpecsOf(d)
  BY <1>1, Present
<1>5. v \in RevisionsOf(d) /\ v.after = r.revs[Len(r.revs)].spec
  BY <1>2, <1>4 DEF RevisionsOf
<1>6. /\ n.revs = Append(r.revs, v) /\ n.version = r.version + 1 /\ n.state = "DRAFT"
      /\ n.approved = 0 /\ n.approvedBy = r.approvedBy /\ n.archivedBy = Nobody /\ n.key = r.key
      /\ n = [state |-> n.state, revs |-> n.revs, version |-> n.version, approved |-> n.approved,
              approvedBy |-> n.approvedBy, archivedBy |-> n.archivedBy, key |-> n.key]
  BY <1>1, <1>3, <1>4 DEF Aggregates
<1> HIDE DEF r, v
<1>7. /\ Append(r.revs, v) \in Seq(RevisionsOf(d))
      /\ Len(Append(r.revs, v)) = Len(r.revs) + 1
      /\ \A i \in 1..Len(r.revs) : Append(r.revs, v)[i] = r.revs[i]
      /\ Append(r.revs, v)[Len(r.revs) + 1] = v
  BY <1>4, <1>5
<1>8. n \in Aggregates(d)
  <2>1. /\ r.approvedBy \in Actors \cup {Nobody} /\ r.key \in {<<>>} \cup (Actors \X Keys)
    BY <1>3 DEF Aggregates
  <2>2. n.state \in States \cup {"ABSENT"} /\ n.archivedBy \in Actors \cup {Nobody}
    BY <1>6 DEF States
  <2>3. n.version \in Nat /\ n.approved \in Nat
    BY <1>4, <1>6
  <2>4. n.revs \in Seq(RevisionsOf(d))
    BY <1>6, <1>7
  <2> QED
    BY <2>1, <2>2, <2>3, <2>4, <1>6 DEF Aggregates
<1>9. r.approvedBy = Nobody /\ r.version >= Len(r.revs)
  <2>1. r # Absent
    BY <1>1 DEF Absent
  <2> QED
    BY <2>1, <1>1, <1>4 DEF Sound, WellFormed
<1>10. WellFormed(n, RevisionsOf(d))
  <2>1. Len(n.revs) \in 1..MaxRevisions /\ n.version >= Len(n.revs)
    BY <1>4, <1>6, <1>7, <1>9, RevisionsAssumption DEF r
  <2> QED
    BY <2>1, <1>6, <1>7, <1>9 DEF WellFormed, States
<1>11. BuildsOn(n)
  <2> SUFFICES ASSUME NEW i \in 2..Len(n.revs)
               PROVE  n.revs[i].after = n.revs[i - 1].spec
    BY DEF BuildsOn
  <2>1. CASE i <= Len(r.revs)
    <3>1. i \in 2..Len(r.revs) /\ i \in 1..Len(r.revs) /\ i - 1 \in 1..Len(r.revs)
      BY <2>1, <1>4
    <3>2. r.revs[i].after = r.revs[i - 1].spec
      BY <3>1, <1>1 DEF Sound, BuildsOn
    <3>3. n.revs[i] = r.revs[i] /\ n.revs[i - 1] = r.revs[i - 1]
      BY <3>1, <1>6, <1>7
    <3> QED
      BY <3>2, <3>3
  <2>2. CASE i > Len(r.revs)
    <3>1. i = Len(r.revs) + 1 /\ i - 1 = Len(r.revs) /\ Len(r.revs) \in 1..Len(r.revs)
      BY <2>2, <1>4, <1>6, <1>7
    <3>2. n.revs[i] = v /\ n.revs[i - 1] = r.revs[Len(r.revs)]
      BY <3>1, <1>6, <1>7
    <3> QED
      BY <3>2, <1>5
  <2> QED
    BY <2>1, <2>2, <1>4
<1>12. Len(r.revs) <= Len(n.revs) /\ r.version <= n.version
  BY <1>4, <1>6, <1>7
<1> QED
  BY <1>4, <1>6, <1>7, <1>8, <1>10, <1>11, <1>12 DEF Follows, Sound, r

\* What the approval makes of a draft.
Approved(r, a) == [r EXCEPT !.state = "APPROVED", !.version = @ + 1,
                            !.approved = Len(r.revs), !.approvedBy = a]
\* The approval of a draft, for its current revision.
LEMMA ApproveFollows ==
    ASSUME DocumentsInv, NEW d \in Documents, NEW a \in Actors, doc[d].state = "DRAFT",
           NEW n, n = Approved(doc[d], a)
    PROVE  /\ Follows(d, doc[d], n)
           /\ n.revs = doc[d].revs /\ n.approvedBy = a /\ n.approved = Len(n.revs)
<1> DEFINE r == doc[d]
<1>1. Sound(d, r) /\ r.state = "DRAFT" /\ r # Absent
  BY DEF DocumentsInv, Absent
<1>2. r \in Aggregates(d)
  BY <1>1 DEF Sound
<1>3. /\ r.revs \in Seq(RevisionsOf(d)) /\ Len(r.revs) \in 1..MaxRevisions
      /\ r.version \in Nat /\ r.approved = 0 /\ r.archivedBy = Nobody
  BY <1>1, Present
<1>4. /\ n.revs = r.revs /\ n.version = r.version + 1 /\ n.state = "APPROVED"
      /\ n.approved = Len(r.revs) /\ n.approvedBy = a /\ n.archivedBy = Nobody /\ n.key = r.key
      /\ n = [state |-> n.state, revs |-> n.revs, version |-> n.version, approved |-> n.approved,
              approvedBy |-> n.approvedBy, archivedBy |-> n.archivedBy, key |-> n.key]
  BY <1>2, <1>3 DEF Aggregates, Approved
<1> HIDE DEF r
<1>5. n \in Aggregates(d)
  <2>1. r.key \in {<<>>} \cup (Actors \X Keys)
    BY <1>2 DEF Aggregates
  <2>2. n.state \in States \cup {"ABSENT"} /\ n.archivedBy \in Actors \cup {Nobody}
    BY <1>4 DEF States
  <2>3. n.version \in Nat /\ n.approved \in Nat
    BY <1>3, <1>4
  <2> QED
    BY <2>1, <2>2, <2>3, <1>3, <1>4 DEF Aggregates
<1>6. WellFormed(n, RevisionsOf(d))
  <2>1. r.version >= Len(r.revs)
    BY <1>1 DEF Sound, WellFormed
  <2>2. n.approved # 0 /\ n.approvedBy # Nobody
    BY <1>3, <1>4, DocumentsAssumption
  <2>3. n.version >= Len(n.revs)
    BY <2>1, <1>3, <1>4
  <2> QED
    BY <2>2, <2>3, <1>3, <1>4 DEF WellFormed, States
<1>7. BuildsOn(n)
  BY <1>1, <1>4 DEF Sound, BuildsOn
<1> QED
  BY <1>3, <1>4, <1>5, <1>6, <1>7 DEF Follows, Sound, r

\* A document in draft or approved goes to the archive.
LEMMA ArchiveFollows ==
    ASSUME DocumentsInv, NEW d \in Documents, NEW a \in Actors, doc[d].state \in {"DRAFT", "APPROVED"},
           NEW n, n = [doc[d] EXCEPT !.state = "ARCHIVED", !.version = @ + 1, !.archivedBy = a]
    PROVE  Follows(d, doc[d], n) /\ n.approved = doc[d].approved
<1> DEFINE r == doc[d]
<1>1. Sound(d, r) /\ r.state \in {"DRAFT", "APPROVED"} /\ r # Absent
  BY DEF DocumentsInv, Absent
<1>2. r \in Aggregates(d)
  BY <1>1 DEF Sound
<1>3. /\ r.revs \in Seq(RevisionsOf(d)) /\ Len(r.revs) \in 1..MaxRevisions
      /\ r.version \in Nat
  BY <1>1, Present
<1>4. /\ n.revs = r.revs /\ n.version = r.version + 1 /\ n.state = "ARCHIVED" /\ n.archivedBy = a
      /\ n.approved = r.approved /\ n.approvedBy = r.approvedBy /\ n.key = r.key
      /\ n = [state |-> n.state, revs |-> n.revs, version |-> n.version, approved |-> n.approved,
              approvedBy |-> n.approvedBy, archivedBy |-> n.archivedBy, key |-> n.key]
  BY <1>2 DEF Aggregates
<1> HIDE DEF r
<1>5. n \in Aggregates(d)
  <2>1. /\ r.key \in {<<>>} \cup (Actors \X Keys)
        /\ r.approved \in Nat /\ r.approvedBy \in Actors \cup {Nobody}
    BY <1>2 DEF Aggregates
  <2>2. n.state \in States \cup {"ABSENT"} /\ n.archivedBy \in Actors \cup {Nobody}
    BY <1>4 DEF States
  <2>3. n.version \in Nat
    BY <1>3, <1>4
  <2> QED
    BY <2>1, <2>2, <2>3, <1>3, <1>4 DEF Aggregates
<1>6. WellFormed(n, RevisionsOf(d))
  <2>1. /\ r.version >= Len(r.revs) /\ r.approved \in {0, Len(r.revs)}
        /\ r.approved = 0 <=> r.approvedBy = Nobody
    BY <1>1 DEF Sound, WellFormed
  <2>2. n.archivedBy # Nobody
    BY <1>4, DocumentsAssumption
  <2>3. n.version >= Len(n.revs)
    BY <2>1, <1>3, <1>4
  <2> QED
    BY <2>1, <2>2, <2>3, <1>3, <1>4 DEF WellFormed, States
<1>7. BuildsOn(n)
  BY <1>1, <1>4 DEF Sound, BuildsOn
<1> QED
  BY <1>3, <1>4, <1>5, <1>6, <1>7 DEF Follows, Sound, r

\* A call that finds its work done leaves the document as it is.
LEMMA NothingChanges ==
    ASSUME DocumentsInv, NEW d \in Documents, doc[d].state # "ABSENT", UNCHANGED <<doc, strategy>>
    PROVE  Changed(d, doc[d]) /\ RestsWell(d, doc[d])
<1>1. Sound(d, doc[d])
  BY DEF DocumentsInv
<1>2. doc[d].revs \in Seq(RevisionsOf(d)) /\ doc[d].version \in Nat
  BY <1>1 DEF Sound, Aggregates
<1>3. Follows(d, doc[d], doc[d])
  BY <1>1, <1>2 DEF Follows
<1>4. doc' = [doc EXCEPT ![d] = doc[d]]
  BY DEF DocumentsInv, Shape
<1> QED
  BY <1>3, <1>4 DEF Changed, RestsWell

-----------------------------------------------------------------------------
(* A change of one document keeps the invariant *)

\* The document has become n, the others are as they were.
LEMMA Become ==
    ASSUME DocumentsInv, NEW d \in Documents, NEW n, Changed(d, n)
    PROVE  /\ doc' = [e \in Documents |-> doc'[e]]
           /\ doc'[d] = n /\ \A e \in Documents \ {d} : doc'[e] = doc[e]
           /\ \A e \in Documents : Sound(e, doc'[e])
           /\ \A e \in Documents : doc'[e] = doc[e] \/ Follows(e, doc[e], doc'[e])
<1>1. doc = [e \in Documents |-> doc[e]]
  BY DEF DocumentsInv, Shape
<1>2. doc' = [doc EXCEPT ![d] = n]
  BY DEF Changed
<1>3. /\ doc' = [e \in Documents |-> IF e = d THEN n ELSE doc[e]]
  BY <1>1, <1>2
<1>4. Sound(d, n) /\ \A e \in Documents : Sound(e, doc[e])
  BY DEF Changed, Follows, DocumentsInv
<1>5. doc'[d] = n /\ \A e \in Documents \ {d} : doc'[e] = doc[e]
  BY <1>3
<1> QED
  BY <1>3, <1>4, <1>5 DEF Changed

\* What a screen shows of a document is true of all that may follow it.
LEMMA StillShows ==
    ASSUME NEW d \in Documents, NEW o, NEW n, Sound(d, o), Follows(d, o, n),
           NEW a, NEW s \in Screens, Shows(a, s, o)
    PROVE  Shows(a, s, n)
<1>1. /\ Len(o.revs) \in Nat /\ Len(n.revs) \in Nat /\ o.version \in Nat /\ n.version \in Nat
      /\ s.rev \in Nat /\ s.version \in Nat
  BY DEF Sound, Follows, Aggregates, Screens
<1>2. n.state # "ABSENT" /\ s.rev \in 1..Len(n.revs) /\ s.version <= n.version
  BY <1>1 DEF Follows, Shows
<1>3. ASSUME s.did # "LIST"
      PROVE  s.spec = n.revs[s.rev].spec
  BY <1>3 DEF Follows, Shows
<1>4. ASSUME s.did = "APPROVED"
      PROVE  n.approvedBy = a /\ n.approved = s.rev
  <2>1. o.approvedBy = a /\ o.approved = s.rev /\ s.rev # 0
    BY <1>4, <1>1 DEF Shows
  <2> QED
    BY <2>1 DEF Follows
<1> QED
  BY <1>2, <1>3, <1>4 DEF Shows

\* Whoever gets the reply has the document as it became on the screen; all
\* others keep what they had.
LEMMA ScreensHold ==
    ASSUME DocumentsInv, NEW d \in Documents, NEW n, Changed(d, n), NEW a \in Actors,
           NEW did \in {"READ", "APPROVED"}, Reply(a, d, did),
           did = "APPROVED" => n.approvedBy = a /\ n.approved = Len(n.revs)
    PROVE  /\ seen' \in [Actors -> Screens]
           /\ \A b \in Actors : HoldsIn(b, seen'[b], doc')
<1> DEFINE s == [doc |-> d, rev |-> Len(n.revs), did |-> did, version |-> n.version,
                 spec |-> n.revs[Len(n.revs)].spec]
<1>1. seen \in [Actors -> Screens]
  BY DEF DocumentsInv, Shape
<1>2. doc'[d] = n /\ Sound(d, n) /\ n.state # "ABSENT"
  BY Become DEF Changed, Follows
<1>3. /\ Len(n.revs) \in 1..MaxRevisions /\ n.version \in Nat
      /\ n.revs[Len(n.revs)].spec \in SpecsOf(d)
  BY <1>2, Present
<1>4. MaxRevisions \in Nat /\ Len(n.revs) \in Nat /\ Len(n.revs) \in 1..Len(n.revs)
  BY <1>3, RevisionsAssumption
<1>5. s \in Screens
  BY <1>3, <1>4 DEF Screens, Specs, SpecsOf
<1>6. Shows(a, s, n)
  BY <1>2, <1>3, <1>4 DEF Shows
<1>7. seen' = seen \/ seen' = [seen EXCEPT ![a] = s]
  BY <1>2 DEF Reply, CurrentSpec
<1>8. ASSUME NEW b \in Actors, seen'[b] = seen[b]
      PROVE  HoldsIn(b, seen'[b], doc')
  <2>1. CASE seen[b] = Blank
    BY <2>1, <1>8 DEF HoldsIn
  <2>2. CASE seen[b].doc \in Documents /\ Shows(b, seen[b], doc[seen[b].doc])
    <3> DEFINE e == seen[b].doc
    <3>1. seen[b] \in Screens /\ Sound(e, doc[e])
      BY <1>1, <2>2 DEF DocumentsInv
    <3>2. doc'[e] = doc[e] \/ Follows(e, doc[e], doc'[e])
      BY <2>2, Become
    <3>3. Shows(b, seen[b], doc'[e])
      BY <3>1, <3>2, <2>2, StillShows
    <3> QED
      BY <3>3, <2>2, <1>8 DEF HoldsIn
  <2> QED
    BY <2>1, <2>2 DEF DocumentsInv, ScreenHolds, HoldsIn
<1>9. s.doc = d
  OBVIOUS
<1> HIDE DEF s
<1>10. CASE seen' = seen
  BY <1>10, <1>1, <1>8
<1>11. CASE seen' = [seen EXCEPT ![a] = s]
  <2>1. seen'[a] = s /\ \A b \in Actors \ {a} : seen'[b] = seen[b]
    BY <1>11, <1>1
  <2>2. seen' \in [Actors -> Screens]
    BY <1>11, <1>1, <1>5
  <2>3. ASSUME NEW b \in Actors
        PROVE  HoldsIn(b, seen'[b], doc')
    <3>1. CASE b = a
      BY <3>1, <2>1, <1>2, <1>6, <1>9 DEF HoldsIn
    <3>2. CASE b # a
      BY <3>2, <2>1, <1>8
    <3> QED
      BY <3>1, <3>2
  <2> QED
    BY <2>2, <2>3
<1> QED
  BY <1>7, <1>10, <1>11

\* The current specification of a document in the table f.
SpecIn(f, d) == f[d].revs[Len(f[d].revs)].spec

\* Approved mandates and profiles stand, so an approved profile rests on what
\* it rested on when it was approved.
LEMMA ProfilesStillRest ==
    ASSUME DocumentsInv, NEW d \in Documents, NEW n, Changed(d, n), RestsWell(d, n)
    PROVE  ProfilesRestOnMandates'
<1> SUFFICES ASSUME NEW p \in Profiles, doc'[p].approved # 0
             PROVE  LET s == SpecIn(doc', p)
                    IN /\ doc'[s.mandate].approved = s.revision
                       /\ s.instrument \in SpecIn(doc', s.mandate).instruments
  BY DEF ProfilesRestOnMandates, CurrentSpec, SpecIn
<1> DEFINE s == SpecIn(doc, p)
           m == s.mandate
<1>1. p \in Documents /\ p \notin Mandates
  BY DocumentsAssumption DEF Documents
<1>2. Sound(p, doc[p]) /\ Sound(p, doc'[p])
  BY <1>1, Become DEF DocumentsInv
\* What the profile rests on before the step, and that it is the same after.
<1>3. /\ doc[p].state # "ABSENT" /\ SpecIn(doc', p) = s
      /\ doc[m].approved = s.revision /\ s.instrument \in SpecIn(doc, m).instruments
  <2>1. CASE doc[p].approved # 0
    <3>1. doc[p].state # "ABSENT"
      <4>1. doc[p] # Absent
        BY <2>1 DEF Absent
      <4> QED
        BY <4>1, <1>2 DEF Sound, WellFormed, States
    <3>2. doc'[p].revs = doc[p].revs
      BY <2>1, <1>1, Become DEF Follows
    <3> QED
      BY <3>1, <3>2, <2>1 DEF DocumentsInv, ProfilesRestOnMandates, CurrentSpec, SpecIn
  <2>2. CASE doc[p].approved = 0
    <3>1. p = d /\ doc'[p] = n
      BY <2>2, <1>1, Become
    <3>2. n.revs = doc[p].revs /\ MayBecomeApproved(s)
      BY <3>1, <2>2 DEF RestsWell, CurrentSpec, SpecIn
    <3>3. doc[p].state # "ABSENT"
      <4>1. CASE doc[p] = Absent
        <5>1. n.state # "ABSENT" /\ Len(n.revs) = 0
          BY <4>1, <3>1, <3>2 DEF Changed, Follows, Absent
        <5>2. Len(n.revs) \in 1..MaxRevisions
          BY <5>1, <3>1, <1>2, <1>1, Present
        <5> QED
          BY <5>1, <5>2, RevisionsAssumption
      <4>2. CASE doc[p] # Absent
        BY <4>2, <1>2 DEF Sound, WellFormed, States
      <4> QED
        BY <4>1, <4>2
    <3> QED
      BY <3>1, <3>2, <3>3 DEF MayBecomeApproved, ValidMandate, CurrentSpec, SpecIn
  <2> QED
    BY <2>1, <2>2
<1>4. s \in ProfileSpecs
  BY <1>1, <1>2, <1>3, Present DEF SpecIn, SpecsOf
<1>5. m \in Mandates /\ m \in Documents /\ s.revision # 0
  BY <1>4, RevisionsAssumption DEF ProfileSpecs, Documents
<1>6. doc'[m].approved = doc[m].approved /\ doc'[m].revs = doc[m].revs
  BY <1>3, <1>5, Become DEF Follows
<1>7. SpecIn(doc', m) = SpecIn(doc, m)
  BY <1>6 DEF SpecIn
<1> HIDE DEF s
<1> QED
  BY <1>3, <1>5, <1>6, <1>7

\* Every call keeps the invariant.
LEMMA DocumentCallKeeps ==
    ASSUME DocumentsInv, NEW a \in Actors, NEW d \in Documents, Call(a, d)
    PROVE  DocumentsInv'
<1>1. PICK n \in Aggregates(d), did \in {"READ", "APPROVED"} :
         /\ Changed(d, n) /\ RestsWell(d, n) /\ Reply(a, d, did)
         /\ did = "APPROVED" => n.approvedBy = a /\ n.approved = Len(n.revs)
  BY DEF Call
<1>2. doc' = [e \in Documents |-> doc'[e]] /\ \A e \in Documents : Sound(e, doc'[e])
  BY <1>1, Become
<1>3. /\ seen' \in [Actors -> Screens]
      /\ \A b \in Actors : HoldsIn(b, seen'[b], doc')
  BY <1>1, ScreensHold
<1>4. strategy' \in Strategies
  BY <1>1 DEF Changed, DocumentsInv, Shape
<1>5. ProfilesRestOnMandates'
  BY <1>1, ProfilesStillRest
<1> QED
  BY <1>2, <1>3, <1>4, <1>5 DEF DocumentsInv, Shape, ScreenHolds

-----------------------------------------------------------------------------
(* Each operation is a call *)

LEMMA CreateIsCall ==
    ASSUME DocumentsInv, NEW Kind, Kind \in {Mandates, Profiles}, NEW a \in Actors, NEW k \in Keys,
           NEW s \in IF Kind = Mandates THEN MandateSpecs ELSE ProfileSpecs, Create(a, k, s, Kind)
    PROVE  \E d \in Documents : Call(a, d)
<1>1. UNCHANGED strategy
  BY DEF Create
<1>2. ASSUME NEW d \in Kind, doc[d] = Absent, doc' = [doc EXCEPT ![d] = Drafted(a, k, s)],
             Reply(a, d, "READ")
      PROVE  d \in Documents /\ Call(a, d)
  <2>1. d \in Documents /\ s \in SpecsOf(d)
    BY <1>2, DocumentsAssumption DEF Documents, SpecsOf
  <2> DEFINE n == Drafted(a, k, s)
  <2>2. Follows(d, doc[d], n) /\ n.approved = 0
    BY <1>2, <2>1, DraftFollows
  <2>3. Changed(d, n) /\ RestsWell(d, n) /\ n \in Aggregates(d)
    BY <1>1, <1>2, <2>2 DEF Changed, RestsWell, Follows, Sound
  <2> QED
    BY <1>2, <2>1, <2>3 DEF Call
<1>3. ASSUME NEW d \in SameKey(a, k, Kind), UNCHANGED doc, Reply(a, d, "READ")
      PROVE  d \in Documents /\ Call(a, d)
  <2>1. d \in Documents /\ doc[d].key = <<a, k>>
    BY <1>3 DEF SameKey, Documents
  <2>2. doc[d].state # "ABSENT"
    <3>1. doc[d] # Absent
      <4>1. Absent.key = <<>> /\ <<a, k>> # <<>>
        BY DEF Absent
      <4> QED
        BY <2>1, <4>1
    <3> QED
      BY <2>1, <3>1 DEF DocumentsInv, Sound, WellFormed, States
  <2>3. Changed(d, doc[d]) /\ RestsWell(d, doc[d]) /\ doc[d] \in Aggregates(d)
    BY <1>1, <1>3, <2>1, <2>2, NothingChanges DEF DocumentsInv, Sound
  <2> QED
    BY <1>3, <2>1, <2>3 DEF Call
<1> QED
  BY <1>2, <1>3 DEF Create

LEMMA ReplaceIsCall ==
    ASSUME DocumentsInv, NEW d \in Documents, NEW a \in Actors, NEW s \in SpecsOf(d), Replace(a, d, s)
    PROVE  Call(a, d)
<1>1. /\ Expected(a, d) /\ Editable(d) /\ UNCHANGED strategy /\ Reply(a, d, "READ")
  BY DEF Replace
<1>2. CASE UNCHANGED doc
  <2>1. Changed(d, doc[d]) /\ RestsWell(d, doc[d]) /\ doc[d] \in Aggregates(d)
    BY <1>1, <1>2, NothingChanges DEF DocumentsInv, Sound, Editable
  <2> QED
    BY <1>1, <2>1 DEF Call
<1>3. CASE /\ Len(doc[d].revs) < MaxRevisions
           /\ doc' = [doc EXCEPT ![d].revs = Append(@, [spec |-> s, after |-> seen[a].spec]),
                                 ![d].version = @ + 1]
  <2> DEFINE n == [doc[d] EXCEPT !.revs = Append(@, [spec |-> s, after |-> seen[a].spec]),
                                 !.version = @ + 1]
  <2>1. Follows(d, doc[d], n) /\ n.approved = 0
    BY <1>1, <1>3, EditFollows
  <2>2. doc' = [doc EXCEPT ![d] = n]
    BY <1>3 DEF DocumentsInv, Shape
  <2> HIDE DEF n
  <2>3. Changed(d, n) /\ RestsWell(d, n) /\ n \in Aggregates(d)
    BY <1>1, <2>1, <2>2 DEF Changed, RestsWell, Follows, Sound
  <2> QED
    BY <1>1, <2>3 DEF Call
<1> QED
  BY <1>2, <1>3 DEF Replace

LEMMA ApproveIsCall ==
    ASSUME DocumentsInv, NEW d \in Documents, NEW a \in Actors, Approve(a, d),
           d \in Profiles => MayBecomeApproved(CurrentSpec(d))
    PROVE  Call(a, d)
<1>1. /\ Expected(a, d) /\ UNCHANGED strategy /\ Reply(a, d, "APPROVED")
      /\ TransitionAllowed(doc[d].state, "APPROVED")
  BY DEF Approve
<1>2. doc[d].state = "DRAFT"
  <2>1. doc[d].state # "ABSENT" /\ Sound(d, doc[d])
    BY <1>1, ExpectedIsCurrent DEF DocumentsInv
  <2>2. doc[d].state \in States
    BY <2>1, Present
  <2> QED
    BY <2>2, <1>1 DEF TransitionAllowed, States
<1> DEFINE n == Approved(doc[d], a)
<1>3. /\ Follows(d, doc[d], n)
      /\ n.revs = doc[d].revs /\ n.approvedBy = a /\ n.approved = Len(n.revs)
  BY <1>2, ApproveFollows
<1>4. doc' = [doc EXCEPT ![d] = n]
  BY DEF Approve, DocumentsInv, Shape, Approved
<1> HIDE DEF n
<1>5. Changed(d, n) /\ RestsWell(d, n) /\ n \in Aggregates(d)
  BY <1>1, <1>3, <1>4 DEF Changed, RestsWell, Follows, Sound
<1> QED
  BY <1>1, <1>3, <1>5 DEF Call

LEMMA ApproveReplayIsCall ==
    ASSUME DocumentsInv, NEW d \in Documents, NEW a \in Actors, ApproveReplay(a, d)
    PROVE  Call(a, d)
<1>1. /\ doc[d].state = "APPROVED" /\ doc[d].approvedBy = a
      /\ UNCHANGED <<doc, strategy>> /\ Reply(a, d, "APPROVED")
  BY DEF ApproveReplay
<1>2. Changed(d, doc[d]) /\ RestsWell(d, doc[d])
  BY <1>1, NothingChanges
<1>3. doc[d] \in Aggregates(d) /\ doc[d].approved = Len(doc[d].revs)
  BY <1>1 DEF DocumentsInv, Sound, WellFormed, Absent
<1> QED
  BY <1>1, <1>2, <1>3 DEF Call

LEMMA ArchiveIsCall ==
    ASSUME DocumentsInv, NEW d \in Documents, NEW a \in Actors, Archive(a, d) \/ ArchiveReplay(a, d)
    PROVE  Call(a, d)
<1>1. CASE ArchiveReplay(a, d)
  <2>1. /\ doc[d].state = "ARCHIVED" /\ UNCHANGED <<doc, strategy>> /\ Reply(a, d, "READ")
    BY <1>1 DEF ArchiveReplay
  <2>2. Changed(d, doc[d]) /\ RestsWell(d, doc[d]) /\ doc[d] \in Aggregates(d)
    BY <2>1, NothingChanges DEF DocumentsInv, Sound
  <2> QED
    BY <2>1, <2>2 DEF Call
<1>2. CASE Archive(a, d)
  <2>1. /\ Reads(a, d) /\ UNCHANGED strategy /\ Reply(a, d, "READ")
        /\ TransitionAllowed(doc[d].state, "ARCHIVED")
    BY <1>2 DEF Archive
  <2>2. doc[d].state # "ABSENT"
    <3>1. seen[a] # Blank
      <4>1. Blank.doc = Nobody /\ seen[a].doc = d
        BY <2>1 DEF Blank, Reads
      <4> QED
        BY <4>1, DocumentsAssumption DEF Documents
    <3> QED
      BY <3>1, <2>1 DEF DocumentsInv, ScreenHolds, HoldsIn, Shows, Reads
  <2>3. doc[d].state \in {"DRAFT", "APPROVED"}
    <3>1. doc[d].state \in States
      BY <2>2, Present DEF DocumentsInv
    <3> QED
      BY <3>1, <2>1 DEF TransitionAllowed, States
  <2> DEFINE n == [doc[d] EXCEPT !.state = "ARCHIVED", !.version = @ + 1, !.archivedBy = a]
  <2>4. Follows(d, doc[d], n) /\ n.approved = doc[d].approved
    BY <2>3, ArchiveFollows
  <2>5. doc' = [doc EXCEPT ![d] = n]
    BY <1>2 DEF Archive, DocumentsInv, Shape
  <2> HIDE DEF n
  <2>6. Changed(d, n) /\ RestsWell(d, n) /\ n \in Aggregates(d)
    BY <2>1, <2>4, <2>5 DEF Changed, RestsWell, Follows, Sound
  <2> QED
    BY <2>1, <2>6 DEF Call
<1> QED
  BY <1>1, <1>2

\* A list page has the heads of the documents, and their revisions later.
LEMMA ListKeeps ==
    ASSUME DocumentsInv, NEW a \in Actors, NEW d \in Documents, ListHeads(a, d)
    PROVE  DocumentsInv'
<1> DEFINE s == [doc |-> d, rev |-> Len(doc[d].revs), version |-> doc[d].version,
                 spec |-> Unread, did |-> "LIST"]
<1>1. /\ doc[d].state # "ABSENT" /\ Sound(d, doc[d]) /\ UNCHANGED <<doc, strategy>>
      /\ seen' = [seen EXCEPT ![a] = s]
  <2>1. seen' = [seen EXCEPT ![a] = [CurrentPair(d, "LIST") EXCEPT !.spec = Unread]]
    BY DEF ListHeads
  <2>2. [CurrentPair(d, "LIST") EXCEPT !.spec = Unread] = s
    BY DEF CurrentPair
  <2> HIDE DEF s
  <2> QED
    BY <2>1, <2>2 DEF ListHeads, DocumentsInv
<1>2. Len(doc[d].revs) \in 1..MaxRevisions /\ doc[d].version \in Nat /\ MaxRevisions \in Nat
  BY <1>1, Present, RevisionsAssumption
<1>3. s \in Screens /\ s.doc = d
  BY <1>2 DEF Screens, Specs
<1>4. Shows(a, s, doc[d])
  BY <1>1, <1>2 DEF Shows
<1> HIDE DEF s
<1>5. seen' \in [Actors -> Screens] /\ seen'[a] = s /\ \A b \in Actors \ {a} : seen'[b] = seen[b]
  BY <1>1, <1>3 DEF DocumentsInv, Shape
<1>6. \A b \in Actors : ScreenHolds(b)'
  <2> SUFFICES ASSUME NEW b \in Actors
               PROVE  HoldsIn(b, seen'[b], doc)
    BY <1>1 DEF ScreenHolds
  <2>1. CASE b = a
    BY <2>1, <1>3, <1>4, <1>5 DEF HoldsIn
  <2>2. CASE b # a
    BY <2>2, <1>5 DEF DocumentsInv, ScreenHolds
  <2> QED
    BY <2>1, <2>2
<1> QED
  BY <1>1, <1>5, <1>6 DEF DocumentsInv, Shape, ProfilesRestOnMandates, CurrentSpec, MayBecomeApproved

\* The revisions of a list page are those of its heads: revisions are only added.
LEMMA LoadKeeps ==
    ASSUME DocumentsInv, NEW a \in Actors, LoadRevisions(a)
    PROVE  DocumentsInv'
<1> DEFINE d == seen[a].doc
           s == [seen[a] EXCEPT !.spec = doc[d].revs[seen[a].rev].spec, !.did = "READ"]
<1>1. seen[a].did = "LIST" /\ UNCHANGED <<doc, strategy>>
  BY DEF LoadRevisions
<1>2. seen[a] \in Screens
  BY DEF DocumentsInv, Shape
<1>3. d \in Documents /\ Shows(a, seen[a], doc[d])
  BY <1>1 DEF DocumentsInv, ScreenHolds, HoldsIn, Blank
<1>4. doc[d].revs[seen[a].rev].spec \in Specs
  <2>1. Sound(d, doc[d]) /\ doc[d].state # "ABSENT" /\ seen[a].rev \in 1..Len(doc[d].revs)
    BY <1>3 DEF DocumentsInv, Shows
  <2>2. doc[d].revs[seen[a].rev].spec \in SpecsOf(d)
    BY <2>1, <1>3, Present
  <2> QED
    BY <2>2 DEF SpecsOf, Specs
<1>5. /\ s \in Screens /\ s.doc = d /\ s.rev = seen[a].rev /\ s.version = seen[a].version
      /\ s.did = "READ" /\ s.spec = doc[d].revs[seen[a].rev].spec
  BY <1>2, <1>4 DEF Screens
<1>6. Shows(a, s, doc[d])
  BY <1>3, <1>5 DEF Shows
<1>7. seen' = [seen EXCEPT ![a] = s]
  BY DEF LoadRevisions, DocumentsInv, Shape
<1> HIDE DEF s
<1>8. seen' \in [Actors -> Screens] /\ seen'[a] = s /\ \A b \in Actors \ {a} : seen'[b] = seen[b]
  BY <1>5, <1>7 DEF DocumentsInv, Shape
<1>9. \A b \in Actors : ScreenHolds(b)'
  <2> SUFFICES ASSUME NEW b \in Actors
               PROVE  HoldsIn(b, seen'[b], doc)
    BY <1>1 DEF ScreenHolds
  <2>1. CASE b = a
    BY <2>1, <1>3, <1>5, <1>6, <1>8 DEF HoldsIn
  <2>2. CASE b # a
    BY <2>2, <1>8 DEF DocumentsInv, ScreenHolds
  <2> QED
    BY <2>1, <2>2
<1> QED
  BY <1>1, <1>8, <1>9 DEF DocumentsInv, Shape, ProfilesRestOnMandates, CurrentSpec

\* Every step of DocumentsNext is a call, or leaves the documents alone.
LEMMA StepIs ==
    ASSUME DocumentsInv, [DocumentsNext]_documentVars
    PROVE  \/ \E a \in Actors, d \in Documents : Call(a, d)
           \/ \E a \in Actors, d \in Documents : ListHeads(a, d)
           \/ \E a \in Actors : LoadRevisions(a)
           \/ strategy' \in Strategies /\ UNCHANGED <<doc, seen>>
<1>1. ASSUME NEW a \in Actors, MandateCall(a)
      PROVE  \E d \in Documents : Call(a, d) \/ ListHeads(a, d)
  <2>1. ASSUME NEW k \in Keys, NEW s \in MandateSpecs, CreateMandate(a, k, s)
        PROVE  \E d \in Documents : Call(a, d)
    BY <2>1, CreateIsCall DEF CreateMandate
  <2>2. ASSUME NEW m \in Mandates, NEW s \in MandateSpecs, ReplaceMandate(a, m, s)
        PROVE  m \in Documents /\ Call(a, m)
    BY <2>2, ReplaceIsCall DEF ReplaceMandate, Documents, SpecsOf
  <2>3. ASSUME NEW m \in Mandates, ApproveMandate(a, m)
        PROVE  m \in Documents /\ Call(a, m)
    BY <2>3, ApproveIsCall, DocumentsAssumption DEF ApproveMandate, Documents
  <2>4. ASSUME NEW m \in Mandates, ApproveReplay(a, m)
        PROVE  m \in Documents /\ Call(a, m)
    BY <2>4, ApproveReplayIsCall DEF Documents
  <2>5. ASSUME NEW m \in Mandates, ArchiveMandate(a, m)
        PROVE  m \in Documents /\ Call(a, m)
    BY <2>5, ArchiveIsCall DEF ArchiveMandate, Documents
  <2> QED
    BY <1>1, <2>1, <2>2, <2>3, <2>4, <2>5 DEF MandateCall, Documents
<1>2. ASSUME NEW a \in Actors, ProfileCall(a)
      PROVE  \E d \in Documents : Call(a, d) \/ ListHeads(a, d)
  <2>1. ASSUME NEW k \in Keys, NEW s \in ProfileSpecs, CreateProfile(a, k, s)
        PROVE  \E d \in Documents : Call(a, d)
    <3>1. CASE Profiles = Mandates
      <4>1. Profiles = {}
        BY <3>1, DocumentsAssumption
      <4> QED
        BY <4>1, <2>1 DEF CreateProfile, Create, SameKey
    <3>2. CASE Profiles # Mandates
      BY <2>1, <3>2, CreateIsCall DEF CreateProfile
    <3> QED
      BY <3>1, <3>2
  <2>2. ASSUME NEW p \in Profiles, NEW s \in ProfileSpecs, ReplaceProfile(a, p, s)
        PROVE  p \in Documents /\ Call(a, p)
    BY <2>2, ReplaceIsCall, DocumentsAssumption DEF ReplaceProfile, Documents, SpecsOf
  <2>3. ASSUME NEW p \in Profiles, ApproveProfile(a, p)
        PROVE  p \in Documents /\ Call(a, p)
    BY <2>3, ApproveIsCall DEF ApproveProfile, Documents
  <2>4. ASSUME NEW p \in Profiles, ApproveReplay(a, p)
        PROVE  p \in Documents /\ Call(a, p)
    BY <2>4, ApproveReplayIsCall DEF Documents
  <2>5. ASSUME NEW p \in Profiles, ArchiveProfile(a, p)
        PROVE  p \in Documents /\ Call(a, p)
    BY <2>5, ArchiveIsCall DEF ArchiveProfile, Documents
  <2> QED
    BY <1>2, <2>1, <2>2, <2>3, <2>4, <2>5 DEF ProfileCall, Documents
<1>3. strategy \in Strategies
  BY DEF DocumentsInv, Shape
<1>4. CASE ReplaceStrategy
  BY <1>3, <1>4, RevisionsAssumption DEF ReplaceStrategy, Strategies
<1>5. CASE ArchiveStrategy
  BY <1>3, <1>5 DEF ArchiveStrategy, Strategies
<1>6. CASE UNCHANGED documentVars
  BY <1>3, <1>6 DEF documentVars
<1> QED
  BY <1>1, <1>2, <1>4, <1>5, <1>6 DEF DocumentsNext

LEMMA InitIInv == DocumentsInit => DocumentsInv
<1> SUFFICES ASSUME DocumentsInit PROVE DocumentsInv
  OBVIOUS
<1>1. doc = [d \in Documents |-> Absent] /\ \A a \in Actors : seen[a] = Blank
  BY DEF DocumentsInit
<1>2. Blank \in Screens
  BY DEF Blank, Screens, Specs
<1>3. Shape
  BY <1>1, <1>2, RevisionsAssumption DEF DocumentsInit, Shape, Strategies
<1>4. ASSUME NEW d \in Documents
      PROVE  Sound(d, doc[d])
  <2>1. Absent \in Aggregates(d)
    BY DEF Absent, Aggregates
  <2>2. BuildsOn(Absent)
    BY DEF Absent, BuildsOn
  <2> QED
    BY <1>1, <2>1, <2>2 DEF Sound, WellFormed
<1>5. ProfilesRestOnMandates
  BY <1>1 DEF ProfilesRestOnMandates, Absent, Documents
<1> QED
  BY <1>1, <1>3, <1>4, <1>5 DEF DocumentsInv, ScreenHolds, HoldsIn

LEMMA NextIInv == DocumentsInv /\ [DocumentsNext]_documentVars => DocumentsInv'
<1> SUFFICES ASSUME DocumentsInv, [DocumentsNext]_documentVars PROVE DocumentsInv'
  OBVIOUS
<1>1. ASSUME strategy' \in Strategies /\ UNCHANGED <<doc, seen>>
      PROVE  DocumentsInv'
  <2>1. Shape'
    BY <1>1 DEF DocumentsInv, Shape
  <2>2. \A a \in Actors : ScreenHolds(a)'
    BY <1>1 DEF DocumentsInv, ScreenHolds
  <2> QED
    BY <1>1, <2>1, <2>2 DEF DocumentsInv, ProfilesRestOnMandates, CurrentSpec
<1> QED
  BY <1>1, StepIs, DocumentCallKeeps, ListKeeps, LoadKeeps

LEMMA DocumentsInvariance == DocumentsSpec => []DocumentsInv
  BY InitIInv, NextIInv, PTL DEF DocumentsSpec

-----------------------------------------------------------------------------
(* The theorems *)

\* Revisions, states and approvals of mandates and profiles fit the tables'
\* constraints, and every revision rests on the one its author had read.
THEOREM HistoryAlwaysSound == DocumentsSpec => []HistoryIsSound
<1>1. ASSUME DocumentsInv PROVE HistoryIsSound
  <2>1. \A d \in Documents : WellFormed(doc[d], RevisionsOf(d)) /\ BuildsOn(doc[d])
    BY <1>1 DEF DocumentsInv, Sound
  <2>2. \A m \in Mandates : m \in Documents /\ RevisionsOf(m) = MandateRevision
    BY DEF Documents, RevisionsOf, SpecsOf, MandateRevision
  <2>3. \A p \in Profiles : p \in Documents /\ RevisionsOf(p) = ProfileRevision
    BY DocumentsAssumption DEF Documents, RevisionsOf, SpecsOf, ProfileRevision
  <2>4. DocumentsTyped
    BY <1>1, <2>1, <2>2, <2>3 DEF DocumentsInv, Shape, Strategies, Screens, DocumentsTyped, MandateOK, ProfileOK
  <2>5. EditsBuildOnReads
    BY <2>1 DEF BuildsOn, EditsBuildOnReads
  <2> QED
    BY <2>4, <2>5 DEF HistoryIsSound
<1> QED
  BY <1>1, DocumentsInvariance, PTL

\* An administrator who was told that its approval succeeded did approve the
\* document, and the specification it had read.
THEOREM ApprovalAlwaysOwn == DocumentsSpec => []ApprovalIsOwn
<1>1. ASSUME DocumentsInv PROVE ApprovalIsOwn
  <2> SUFFICES ASSUME NEW a \in Actors, seen[a].did = "APPROVED"
               PROVE  LET d == doc[seen[a].doc]
                      IN d.approvedBy = a /\ d.revs[d.approved].spec = seen[a].spec
    BY DEF ApprovalIsOwn
  <2>1. Shows(a, seen[a], doc[seen[a].doc])
    BY <1>1 DEF DocumentsInv, ScreenHolds, HoldsIn, Blank
  <2> QED
    BY <2>1 DEF Shows
<1> QED
  BY <1>1, DocumentsInvariance, PTL

\* An approved profile rests on an approved mandate revision that allows its
\* instrument, whatever was archived or edited since.
THEOREM ProfilesAlwaysRest == DocumentsSpec => []ProfilesRestOnMandates
<1>1. DocumentsInv => ProfilesRestOnMandates
  BY DEF DocumentsInv
<1> QED
  BY <1>1, DocumentsInvariance, PTL

\* What the tables' triggers and the domain promise of a document over time: no
\* call removes or rewrites a revision, and an approval is never withdrawn,
\* moved to another revision or to another administrator.
DocumentsStand ==
    \A d \in Documents :
        LET o == doc[d]
            n == doc'[d]
        IN /\ Len(o.revs) <= Len(n.revs) /\ o.version <= n.version
           /\ \A i \in 1..Len(o.revs) : n.revs[i] = o.revs[i]
           /\ o.approved # 0 => /\ n.approved = o.approved /\ n.approvedBy = o.approvedBy
                                /\ n.revs = o.revs
THEOREM DocumentsAlwaysStand == DocumentsSpec => [][DocumentsStand]_documentVars
<1>1. ASSUME DocumentsInv, [DocumentsNext]_documentVars
      PROVE  DocumentsStand
  <2>1. \A d \in Documents : doc'[d] = doc[d] \/ Follows(d, doc[d], doc'[d])
    <3>1. ASSUME NEW a \in Actors, NEW d \in Documents, Call(a, d)
          PROVE  \A e \in Documents : doc'[e] = doc[e] \/ Follows(e, doc[e], doc'[e])
      BY <1>1, <3>1, Become DEF Call
    <3> QED
      BY <1>1, <3>1, StepIs DEF ListHeads, LoadRevisions
  <2>2. \A d \in Documents : Len(doc[d].revs) \in Nat /\ doc[d].version \in Nat
    BY <1>1 DEF DocumentsInv, Sound, Aggregates
  <2> QED
    BY <2>1, <2>2 DEF Follows, DocumentsStand
<1>2. [DocumentsNext]_documentVars /\ DocumentsInv => [DocumentsStand]_documentVars
  BY <1>1
<1> QED
  BY <1>2, DocumentsInvariance, PTL DEF DocumentsSpec

-----------------------------------------------------------------------------
(* Sums *)

Pick(T) == CHOOSE x \in T : TRUE
\* t[T] is the sum of f over T, for every part T of S.
Adds(f, S, t) == t = [T \in SUBSET S |-> IF T = {} THEN 0 ELSE f[Pick(T)] + t[T \ {Pick(T)}]]
Table(f, S) == CHOOSE t : Adds(f, S, t)
Sum(f, S) == SumFunctionOnSet(f, S)

LEMMA SumIs ==
    ASSUME NEW f, NEW S
    PROVE  Sum(f, S) = Table(f, S)[S]
  BY DEF Sum, SumFunctionOnSet, FoldFunctionOnSet, MapThenFoldSet, Table, Adds, Pick

LEMMA Minimal ==
    ASSUME NEW S, IsFiniteSet(S), NEW B \in SUBSET (SUBSET S), B # {}
    PROVE  \E T \in B : \A U \in SUBSET T : U # T => U \notin B
<1> DEFINE R == StrictSubsetOrdering(S)
<1>1. IsWellFoundedOn(R, SUBSET S)
  BY FS_StrictSubsetOrderingWellFounded, FS_FiniteSubsetsOfFinite
<1>2. PICK T \in B : \A U \in B : ~(<<U, T>> \in R)
  BY <1>1, WFMin, Zenon
<1>3. ASSUME NEW U \in SUBSET T, U # T, U \in B
      PROVE  FALSE
  <2>1. <<U, T>> \in R
    BY <1>3 DEF StrictSubsetOrdering
  <2> QED
    BY <2>1, <1>2, <1>3
<1> QED
  BY <1>3

LEMMA PickIn ==
    ASSUME NEW T, T # {}
    PROVE  Pick(T) \in T
  BY DEF Pick

LEMMA Entry ==
    ASSUME NEW f, NEW S, NEW t, Adds(f, S, t), NEW T \in SUBSET S
    PROVE  t[T] = IF T = {} THEN 0 ELSE f[Pick(T)] + t[T \ {Pick(T)}]
<1> DEFINE Def(r, U) == IF U = {} THEN 0 ELSE f[Pick(U)] + r[U \ {Pick(U)}]
<1>1. t = [U \in SUBSET S |-> Def(t, U)]
  BY Zenon DEF Adds
<1> HIDE DEF Def
<1>2. t[T] = Def(t, T)
  BY <1>1
<1> QED
  BY <1>2 DEF Def

\* Two tables say the same of the sets they both list.
LEMMA TablesAgree ==
    ASSUME NEW f, NEW A, NEW B, NEW a, NEW b, Adds(f, A, a), Adds(f, B, b),
           NEW S, IsFiniteSet(S), S \subseteq A, S \subseteq B
    PROVE  a[S] = b[S]
<1> DEFINE Bad == {T \in SUBSET S : a[T] # b[T]}
<1>1. SUFFICES ASSUME Bad # {}
               PROVE  FALSE
  OBVIOUS
<1>2. PICK T \in Bad : \A U \in SUBSET T : U # T => U \notin Bad
  <2>1. Bad \in SUBSET (SUBSET S)
    OBVIOUS
  <2> HIDE DEF Bad
  <2> QED
    BY <1>1, <2>1, Minimal
<1>3. /\ a[T] = IF T = {} THEN 0 ELSE f[Pick(T)] + a[T \ {Pick(T)}]
      /\ b[T] = IF T = {} THEN 0 ELSE f[Pick(T)] + b[T \ {Pick(T)}]
  <2>1. T \in SUBSET A /\ T \in SUBSET B
    OBVIOUS
  <2> QED
    BY <2>1, Entry
<1>4. T # {}
  BY <1>3
<1>5. a[T \ {Pick(T)}] = b[T \ {Pick(T)}]
  BY <1>2, <1>4, PickIn
<1> QED
  BY <1>3, <1>5

LEMMA TableExists ==
    ASSUME NEW f, NEW S, IsFiniteSet(S)
    PROVE  Adds(f, S, Table(f, S))
<1> DEFINE Bad == {T \in SUBSET S : ~Adds(f, T, Table(f, T))}
<1>1. SUFFICES ASSUME Bad # {}
               PROVE  FALSE
  OBVIOUS
<1>2. PICK T \in Bad : \A U \in SUBSET T : U # T => U \notin Bad
  <2>1. Bad \in SUBSET (SUBSET S)
    OBVIOUS
  <2> HIDE DEF Bad
  <2> QED
    BY <1>1, <2>1, Minimal
<1>3. T \in SUBSET S /\ ~Adds(f, T, Table(f, T))
  OBVIOUS
<1>4. \A U \in SUBSET T : U # T => Adds(f, U, Table(f, U)) /\ IsFiniteSet(U)
  BY <1>2, FS_Subset
<1> HIDE DEF Bad
<1> DEFINE Part(U) == Table(f, U)[U]
           Value(U) == IF U = {} THEN 0 ELSE f[Pick(U)] + Part(U \ {Pick(U)})
           t == [U \in SUBSET T |-> Value(U)]
<1>5. ASSUME NEW U \in SUBSET T, U # T
      PROVE  Value(U) = Part(U)
  <2>1. Part(U) = IF U = {} THEN 0 ELSE f[Pick(U)] + Table(f, U)[U \ {Pick(U)}]
    BY <1>4, <1>5, Entry
  <2>2. CASE U # {}
    <3> DEFINE W == U \ {Pick(U)}
    <3>1. /\ W \in SUBSET T /\ W # T /\ W \subseteq U
          /\ Adds(f, W, Table(f, W)) /\ Adds(f, U, Table(f, U)) /\ IsFiniteSet(W)
      BY <1>4, <1>5, <2>2, PickIn
    <3> HIDE DEF W
    <3>2. Table(f, U)[W] = Table(f, W)[W]
      BY <3>1, TablesAgree
    <3> QED
      BY <2>1, <2>2, <3>2 DEF W
  <2> QED
    BY <2>1, <2>2
<1>6. ASSUME NEW U \in SUBSET T
      PROVE  Value(U) = IF U = {} THEN 0 ELSE f[Pick(U)] + t[U \ {Pick(U)}]
  <2>1. CASE U # {}
    <3>1. U \ {Pick(U)} \in SUBSET T /\ U \ {Pick(U)} # T
      BY <2>1, PickIn
    <3>2. t[U \ {Pick(U)}] = Part(U \ {Pick(U)})
      BY <3>1, <1>5
    <3> QED
      BY <3>2
  <2> QED
    BY <2>1
<1>7. t = [U \in SUBSET T |-> IF U = {} THEN 0 ELSE f[Pick(U)] + t[U \ {Pick(U)}]]
  BY <1>6
<1>8. \E r : Adds(f, T, r)
  <2> HIDE DEF t
  <2> QED
    BY <1>7, Zenon DEF Adds
<1> QED
  BY <1>3, <1>8, Zenon DEF Table

LEMMA SumEmpty ==
    ASSUME NEW f
    PROVE  Sum(f, {}) = 0
  BY SumIs, TableExists, Entry, FS_EmptySet

LEMMA SumPick ==
    ASSUME NEW f, NEW S, IsFiniteSet(S), S # {}
    PROVE  Sum(f, S) = f[Pick(S)] + Sum(f, S \ {Pick(S)})
<1> DEFINE T == S \ {Pick(S)}
<1>1. IsFiniteSet(T) /\ T \subseteq S /\ T \subseteq T
  BY FS_Subset
<1>2. Adds(f, S, Table(f, S)) /\ Adds(f, T, Table(f, T))
  BY <1>1, TableExists
<1>3. Table(f, S)[S] = f[Pick(S)] + Table(f, S)[T]
  BY <1>2, Entry
<1> HIDE DEF T
<1>4. Table(f, S)[T] = Table(f, T)[T]
  BY <1>1, <1>2, TablesAgree
<1> QED
  BY <1>3, <1>4, SumIs DEF T

\* A property of every part of S holds, if it holds for {} and with an element more.
LEMMA SumTyped ==
    ASSUME NEW f, NEW S, IsFiniteSet(S), \A x \in S : f[x] \in Int
    PROVE  Sum(f, S) \in Int
<1> DEFINE Bad == {T \in SUBSET S : Sum(f, T) \notin Int}
<1>1. SUFFICES ASSUME Bad # {}
               PROVE  FALSE
  OBVIOUS
<1>2. PICK T \in Bad : \A U \in SUBSET T : U # T => U \notin Bad
  <2>1. Bad \in SUBSET (SUBSET S)
    OBVIOUS
  <2> HIDE DEF Bad
  <2> QED
    BY <1>1, <2>1, Minimal
<1>3. T # {}
  BY SumEmpty
<1>4. Pick(T) \in T /\ IsFiniteSet(T)
  BY <1>3, PickIn, FS_Subset
<1>5. Sum(f, T \ {Pick(T)}) \in Int
  BY <1>2, <1>4
<1>6. Sum(f, T) = f[Pick(T)] + Sum(f, T \ {Pick(T)})
  BY <1>3, <1>4, SumPick
<1> QED
  BY <1>4, <1>5, <1>6

\* Any element can be taken out.
LEMMA SumSplits ==
    ASSUME NEW f, NEW S, IsFiniteSet(S), \A x \in S : f[x] \in Int, NEW e \in S
    PROVE  Sum(f, S) = f[e] + Sum(f, S \ {e})
<1> DEFINE Splits(T) == \A x \in T : Sum(f, T) = f[x] + Sum(f, T \ {x})
           Bad == {T \in SUBSET S : ~Splits(T)}
<1>1. SUFFICES ASSUME Bad # {}
               PROVE  FALSE
  OBVIOUS
<1>2. PICK T \in Bad : \A U \in SUBSET T : U # T => U \notin Bad
  <2>1. Bad \in SUBSET (SUBSET S)
    OBVIOUS
  <2> HIDE DEF Bad
  <2> QED
    BY <1>1, <2>1, Minimal
<1>3. \A U \in SUBSET T : U # T => Splits(U)
  BY <1>2
<1>4. PICK x \in T : Sum(f, T) # f[x] + Sum(f, T \ {x})
  OBVIOUS
<1>5. T \in SUBSET S
  OBVIOUS
<1> HIDE DEF Bad
<1> DEFINE p == Pick(T)
<1>6. p \in T /\ Sum(f, T) = f[p] + Sum(f, T \ {p})
  BY <1>4, <1>5, PickIn, SumPick, FS_Subset
<1>7. p # x
  BY <1>4, <1>6
<1> HIDE DEF p
<1>8. Sum(f, T \ {p}) = f[x] + Sum(f, (T \ {p}) \ {x})
  BY <1>3, <1>6, <1>7
<1>9. Sum(f, T \ {x}) = f[p] + Sum(f, (T \ {x}) \ {p})
  BY <1>3, <1>6, <1>7
<1>10. (T \ {p}) \ {x} = (T \ {x}) \ {p}
  OBVIOUS
<1>11. f[p] \in Int /\ f[x] \in Int /\ Sum(f, (T \ {p}) \ {x}) \in Int
  <2>1. IsFiniteSet((T \ {p}) \ {x}) /\ \A y \in (T \ {p}) \ {x} : f[y] \in Int
    BY <1>5, FS_Subset
  <2> QED
    BY <1>5, <1>6, <2>1, SumTyped
<1> DEFINE n == Sum(f, (T \ {p}) \ {x})
<1>12. /\ Sum(f, T) = f[p] + (f[x] + n) /\ f[x] + Sum(f, T \ {x}) = f[x] + (f[p] + n)
       /\ n \in Int
  BY <1>6, <1>8, <1>9, <1>10, <1>11, Zenon
<1> HIDE DEF n
<1>13. f[p] + (f[x] + n) = f[x] + (f[p] + n)
  BY <1>11, <1>12
<1> QED
  BY <1>4, <1>12, <1>13

\* The sum looks at f on S only.
LEMMA SumAgrees ==
    ASSUME NEW f, NEW g, NEW S, IsFiniteSet(S), \A x \in S : f[x] = g[x]
    PROVE  Sum(f, S) = Sum(g, S)
<1> DEFINE Bad == {T \in SUBSET S : Sum(f, T) # Sum(g, T)}
<1>1. SUFFICES ASSUME Bad # {}
               PROVE  FALSE
  OBVIOUS
<1>2. PICK T \in Bad : \A U \in SUBSET T : U # T => U \notin Bad
  <2>1. Bad \in SUBSET (SUBSET S)
    OBVIOUS
  <2> HIDE DEF Bad
  <2> QED
    BY <1>1, <2>1, Minimal
<1>3. T # {}
  BY SumEmpty
<1>4. Pick(T) \in T /\ IsFiniteSet(T)
  BY <1>3, PickIn, FS_Subset
<1>5. Sum(f, T \ {Pick(T)}) = Sum(g, T \ {Pick(T)})
  BY <1>2, <1>4
<1> QED
  BY <1>3, <1>4, <1>5, SumPick

\* No part of a sum of natural numbers exceeds it.
LEMMA SumNat ==
    ASSUME NEW f, NEW S, IsFiniteSet(S), \A x \in S : f[x] \in Nat
    PROVE  Sum(f, S) \in Nat /\ \A x \in S : f[x] <= Sum(f, S)
<1>1. ASSUME NEW V \in SUBSET S
      PROVE  Sum(f, V) \in Nat
  <2> DEFINE Bad == {T \in SUBSET V : Sum(f, T) \notin Nat}
  <2>1. SUFFICES ASSUME Bad # {}
                 PROVE  FALSE
    OBVIOUS
  <2>2. PICK T \in Bad : \A U \in SUBSET T : U # T => U \notin Bad
    <3>1. Bad \in SUBSET (SUBSET V) /\ IsFiniteSet(V)
      BY FS_Subset
    <3> HIDE DEF Bad
    <3> QED
      BY <2>1, <3>1, Minimal
  <2>3. T # {}
    BY SumEmpty
  <2>4. Pick(T) \in T /\ IsFiniteSet(T) /\ Pick(T) \in S
    BY <2>3, PickIn, FS_Subset
  <2>5. Sum(f, T \ {Pick(T)}) \in Nat
    BY <2>2, <2>4
  <2>6. Sum(f, T) = f[Pick(T)] + Sum(f, T \ {Pick(T)})
    BY <2>3, <2>4, SumPick
  <2> QED
    BY <2>4, <2>5, <2>6
<1>2. ASSUME NEW x \in S
      PROVE  f[x] <= Sum(f, S)
  <2>1. Sum(f, S) = f[x] + Sum(f, S \ {x})
    BY SumSplits
  <2>2. Sum(f, S \ {x}) \in Nat /\ f[x] \in Nat
    BY <1>1
  <2> QED
    BY <2>1, <2>2
<1> QED
  BY <1>1, <1>2

-----------------------------------------------------------------------------
(* Sequences *)

LEMMA Indices ==
    ASSUME NEW A, NEW s \in Seq(A)
    PROVE  /\ DOMAIN s = 1..Len(s) /\ Len(s) \in Nat /\ IsFiniteSet(DOMAIN s)
           /\ \A i \in DOMAIN s : s[i] \in A
<1>1. DOMAIN s = 1..Len(s) /\ Len(s) \in Nat /\ \A i \in DOMAIN s : s[i] \in A
  OBVIOUS
<1> QED
  BY <1>1, FS_Interval

LEMMA SeqOf ==
    ASSUME NEW A, NEW B, NEW s \in Seq(A), A \subseteq B
    PROVE  s \in Seq(B)
  OBVIOUS

LEMMA AppendIs ==
    ASSUME NEW A, NEW s \in Seq(A), NEW x \in A
    PROVE  /\ Append(s, x) \in Seq(A) /\ DOMAIN Append(s, x) = DOMAIN s \cup {Len(s) + 1}
           /\ Len(s) + 1 \notin DOMAIN s /\ Append(s, x)[Len(s) + 1] = x
           /\ \A i \in DOMAIN s : Append(s, x)[i] = s[i]
           /\ \A i \in DOMAIN s : i <= Len(s) + 1
  OBVIOUS

LEMMA ExceptIs ==
    ASSUME NEW A, NEW s \in Seq(A), NEW i \in DOMAIN s, NEW x \in A
    PROVE  /\ [s EXCEPT ![i] = x] \in Seq(A) /\ DOMAIN [s EXCEPT ![i] = x] = DOMAIN s
           /\ \A j \in DOMAIN s : [s EXCEPT ![i] = x][j] = IF j = i THEN x ELSE s[j]
<1> DEFINE t == [s EXCEPT ![i] = x]
<1>1. DOMAIN t = DOMAIN s /\ \A j \in DOMAIN s : t[j] = IF j = i THEN x ELSE s[j]
  OBVIOUS
<1>2. t \in [1..Len(s) -> A] /\ Len(s) \in Nat
  OBVIOUS
<1> HIDE DEF t
<1>3. t \in Seq(A)
  BY <1>2
<1> QED
  BY <1>1, <1>3 DEF t

-----------------------------------------------------------------------------
(* The inductive invariant *)

\* Movements are of simulations that began; those of a session are its settlement.
LedgerOK == \A i \in DOMAIN ledger :
    /\ sim[ledger[i].sim] # "ABSENT"
    /\ ledger[i].session # None => settled[ledger[i].session] # None
\* No reservation outlives its simulation.
GrantsOK == \A a \in DOMAIN auth :
    /\ sim[auth[a].sim] # "ABSENT"
    /\ auth[a].state = "AUTHORIZED" => sim[auth[a].sim] = "ACTIVE"
\* Only the last epoch of a session may run.
LastLive == \A e, f \in DOMAIN epoch :
    SessionOfEpoch(e) = SessionOfEpoch(f) /\ Live(f) => e <= f

\* What a call read before, and may rely on.
Preparing(r) == r \in [at : {"PREPARED"}, auth : DOMAIN auth]
Creating(r) == r \in [at : {"CREATED"}, auth : DOMAIN auth] /\ SessionOf(r.auth) \in config
Settling(r) ==
    /\ r \in [at : {"SETTLING"}, epoch : DOMAIN epoch, read : Evidences,
              epochs : SUBSET DOMAIN epoch]
    /\ epoch[r.epoch].state = "STOPPED"
    /\ r.epochs \subseteq EpochsOf(SessionOfEpoch(r.epoch))
    /\ \A f \in EpochsOf(SessionOfEpoch(r.epoch)) : f <= r.epoch => f \in r.epochs
CallOK(r) == r = Idle \/ Preparing(r) \/ Creating(r) \/ Settling(r)
CallsOK == \A c \in Clients : \A r \in {call[c]} : CallOK(r)

Typed == /\ TypeOK /\ evidence \in [Sessions -> Evidences \cup {None}]
         /\ DOMAIN call = Clients

IInv == /\ Typed /\ LedgerOK /\ GrantsOK /\ LastLive /\ CallsOK
        /\ ReservationsAreCovered /\ SettledIsFinal /\ ClosedEraIsSettled
        /\ MaterializedHasConfig

LEMMA TypeFacts ==
    ASSUME TypeOK
    PROVE  /\ ledger \in Seq(Movements) /\ DOMAIN ledger = 1..Len(ledger) /\ Len(ledger) \in Nat
           /\ auth \in Seq(Authorizations) /\ DOMAIN auth = 1..Len(auth) /\ Len(auth) \in Nat
           /\ act \in Seq(Activations) /\ starts \in Seq(DOMAIN act) /\ epoch \in Seq(Epochs)
           /\ IsFiniteSet(DOMAIN ledger) /\ IsFiniteSet(DOMAIN auth)
           /\ \A i \in DOMAIN ledger : ledger[i] \in Movements
           /\ \A a \in DOMAIN auth : auth[a] \in Authorizations
           /\ \A i \in DOMAIN act : act[i] \in Activations
           /\ \A k \in DOMAIN starts : starts[k] \in DOMAIN act
           /\ \A e \in DOMAIN epoch : epoch[e] \in Epochs
  BY Indices DEF TypeOK

LEMMA Named ==
    ASSUME TypeOK
    PROVE  /\ \A a \in DOMAIN auth : /\ SessionOf(a) \in Sessions /\ auth[a].sim \in Simulations
                                     /\ auth[a].capital \in Nat /\ auth[a].capital > 0
           /\ \A e \in DOMAIN epoch : /\ epoch[e].act \in DOMAIN act
                                      /\ act[epoch[e].act].auth \in DOMAIN auth
                                      /\ SessionOfEpoch(e) \in Sessions
                                      /\ SimOfEpoch(e) \in Simulations
<1>1. ASSUME NEW a \in DOMAIN auth
      PROVE  /\ SessionOf(a) \in Sessions /\ auth[a].sim \in Simulations
             /\ auth[a].capital \in Nat /\ auth[a].capital > 0
  <2>1. auth[a] \in Authorizations
    BY TypeFacts
  <2>2. auth[a].capital \in Capitals /\ auth[a].profile \in SessionProfiles /\ auth[a].sim \in Simulations
    BY <2>1 DEF Authorizations
  <2>3. auth[a].capital \in Nat /\ auth[a].capital > 0
    <3>1. auth[a].capital \in 1..InitialCapital /\ InitialCapital \in Nat
      BY <2>2, AmountsAssumption
    <3> QED
      BY <3>1
  <2>4. SessionOf(a) \in Sessions
    BY <2>2 DEF SessionOf, Sessions
  <2> QED
    BY <2>2, <2>3, <2>4
<1>2. ASSUME NEW e \in DOMAIN epoch
      PROVE  epoch[e].act \in DOMAIN act /\ act[epoch[e].act].auth \in DOMAIN auth
  <2>1. epoch[e] \in Epochs
    BY TypeFacts
  <2>2. epoch[e].act \in DOMAIN act
    BY <2>1 DEF Epochs
  <2>3. act[epoch[e].act] \in Activations
    BY <2>2, TypeFacts
  <2> QED
    BY <2>2, <2>3 DEF Activations
<1> QED
  BY <1>1, <1>2 DEF SessionOfEpoch, SimOfEpoch

-----------------------------------------------------------------------------
(* Balances and reservations *)

Posts == [i \in DOMAIN ledger |-> ledger[i].amount]
Parts == [a \in DOMAIN auth |-> auth[a].capital]

LEMMA SumsAre ==
    ASSUME NEW s
    PROVE  /\ Balance(s) = Sum(Posts, MovementsOf(s)) /\ Reserved(s) = Sum(Parts, Reservations(s))
           /\ Balance(s)' = Sum(Posts', MovementsOf(s)') /\ Reserved(s)' = Sum(Parts', Reservations(s)')
  BY DEF Balance, Reserved, Sum, Posts, Parts

LEMMA BalanceTyped ==
    ASSUME TypeOK, NEW s
    PROVE  Balance(s) \in Int
<1>1. IsFiniteSet(MovementsOf(s)) /\ MovementsOf(s) \subseteq DOMAIN ledger
  BY TypeFacts, FS_Subset DEF MovementsOf
<1>2. \A i \in MovementsOf(s) : Posts[i] \in Int
  BY <1>1, TypeFacts DEF Posts, Movements
<1> QED
  BY <1>1, <1>2, SumTyped, SumsAre

LEMMA ReservedTyped ==
    ASSUME TypeOK, NEW s
    PROVE  /\ Reserved(s) \in Nat /\ IsFiniteSet(Reservations(s))
           /\ \A a \in Reservations(s) : auth[a].capital <= Reserved(s)
<1>1. IsFiniteSet(Reservations(s)) /\ Reservations(s) \subseteq DOMAIN auth
  BY TypeFacts, FS_Subset DEF Reservations
<1>2. \A a \in Reservations(s) : Parts[a] = auth[a].capital /\ Parts[a] \in Nat
  BY <1>1, Named DEF Parts
<1>3. Sum(Parts, Reservations(s)) \in Nat /\ \A a \in Reservations(s) : Parts[a] <= Sum(Parts, Reservations(s))
  BY <1>1, <1>2, SumNat
<1> QED
  BY <1>1, <1>2, <1>3, SumsAre

\* A movement changes the balance of its simulation by its amount.
LEMMA BalancePosted ==
    ASSUME TypeOK, NEW s \in Simulations, NEW m \in Int, NEW x \in Sessions \cup {None},
           ledger' = Posted(s, m, x), NEW t
    PROVE  Balance(t)' = IF t = s THEN Balance(t) + m ELSE Balance(t)
<1> DEFINE n == Len(ledger) + 1
           r == [sim |-> s, amount |-> m, session |-> x]
<1>1. r \in Movements /\ r.sim = s /\ r.amount = m
  BY DEF Movements
<1> HIDE DEF r
<1>2. /\ DOMAIN ledger' = DOMAIN ledger \cup {n} /\ n \notin DOMAIN ledger /\ ledger'[n] = r
      /\ \A i \in DOMAIN ledger : ledger'[i] = ledger[i]
  BY <1>1, AppendIs, TypeFacts DEF Posted, r
<1> HIDE DEF n
<1>3. /\ MovementsOf(t)' = IF t = s THEN MovementsOf(t) \cup {n} ELSE MovementsOf(t)
      /\ n \notin MovementsOf(t) /\ MovementsOf(t) \subseteq DOMAIN ledger
  BY <1>1, <1>2 DEF MovementsOf
<1>4. /\ \A i \in DOMAIN ledger : Posts'[i] = Posts[i] /\ Posts[i] \in Int
      /\ Posts'[n] = m
  BY <1>1, <1>2, TypeFacts DEF Posts, Movements
<1>5. IsFiniteSet(MovementsOf(t))
  BY TypeFacts, FS_Subset DEF MovementsOf
<1>6. Sum(Posts', MovementsOf(t)) = Sum(Posts, MovementsOf(t))
  BY <1>3, <1>4, <1>5, SumAgrees
<1>7. CASE t = s
  <2> DEFINE S == MovementsOf(t) \cup {n}
  <2>1. IsFiniteSet(S) /\ n \in S /\ S \ {n} = MovementsOf(t) /\ \A i \in S : Posts'[i] \in Int
    BY <1>3, <1>4, <1>5, FS_AddElement
  <2>2. Sum(Posts', S) = m + Sum(Posts', MovementsOf(t))
    BY <1>4, <2>1, SumSplits
  <2>3. Balance(t)' = m + Balance(t)
    BY <1>3, <1>6, <1>7, <2>2, SumsAre
  <2> QED
    BY <1>7, <2>3, BalanceTyped
<1>8. CASE t # s
  BY <1>3, <1>6, <1>8, SumsAre
<1> QED
  BY <1>7, <1>8

\* An authorization reserves its capital.
LEMMA ReservedAdded ==
    ASSUME TypeOK, NEW p \in SessionProfiles, NEW s \in Simulations, NEW c \in Capitals, NEW t,
           auth' = Append(auth, [state |-> "AUTHORIZED", profile |-> p, sim |-> s, capital |-> c])
    PROVE  Reserved(t)' = IF t = s THEN Reserved(t) + c ELSE Reserved(t)
<1> DEFINE n == Len(auth) + 1
           r == [state |-> "AUTHORIZED", profile |-> p, sim |-> s, capital |-> c]
<1>1. r \in Authorizations /\ r.sim = s /\ r.capital = c /\ r.state = "AUTHORIZED" /\ c \in Nat
  BY AmountsAssumption DEF Authorizations
<1> HIDE DEF r
<1>2. /\ DOMAIN auth' = DOMAIN auth \cup {n} /\ n \notin DOMAIN auth /\ auth'[n] = r
      /\ \A a \in DOMAIN auth : auth'[a] = auth[a]
  BY <1>1, AppendIs, TypeFacts DEF r
<1> HIDE DEF n
<1>3. /\ Reservations(t)' = IF t = s THEN Reservations(t) \cup {n} ELSE Reservations(t)
      /\ n \notin Reservations(t) /\ Reservations(t) \subseteq DOMAIN auth
  BY <1>1, <1>2 DEF Reservations
<1>4. /\ \A a \in DOMAIN auth : Parts'[a] = Parts[a] /\ Parts[a] \in Int
      /\ Parts'[n] = c
  BY <1>1, <1>2, Named DEF Parts
<1>5. IsFiniteSet(Reservations(t))
  BY ReservedTyped
<1>6. Sum(Parts', Reservations(t)) = Sum(Parts, Reservations(t))
  BY <1>3, <1>4, <1>5, SumAgrees
<1>7. CASE t = s
  <2> DEFINE S == Reservations(t) \cup {n}
  <2>1. IsFiniteSet(S) /\ n \in S /\ S \ {n} = Reservations(t) /\ \A a \in S : Parts'[a] \in Int
    BY <1>1, <1>3, <1>4, <1>5, FS_AddElement
  <2>2. Sum(Parts', S) = c + Sum(Parts', Reservations(t))
    BY <1>4, <2>1, SumSplits
  <2>3. Reserved(t)' = c + Reserved(t)
    BY <1>3, <1>6, <1>7, <2>2, SumsAre
  <2> QED
    BY <1>1, <1>7, <2>3, ReservedTyped
<1>8. CASE t # s
  BY <1>3, <1>6, <1>8, SumsAre
<1> QED
  BY <1>7, <1>8

\* The end of an authorization: its state changes and nothing else of it.
Ended(a) == auth' = [auth EXCEPT ![a].state = "REVOKED"]

LEMMA EndedIs ==
    ASSUME TypeOK, NEW a \in DOMAIN auth, Ended(a)
    PROVE  /\ auth' \in Seq(Authorizations) /\ DOMAIN auth' = DOMAIN auth
           /\ auth'[a].state = "REVOKED"
           /\ \A b \in DOMAIN auth : /\ b # a => auth'[b] = auth[b]
                                     /\ auth'[b].profile = auth[b].profile
                                     /\ auth'[b].sim = auth[b].sim
                                     /\ auth'[b].capital = auth[b].capital
<1> DEFINE r == [auth[a] EXCEPT !.state = "REVOKED"]
<1>1. auth[a] \in Authorizations
  BY TypeFacts
<1>2. /\ r \in Authorizations /\ r.state = "REVOKED" /\ r.profile = auth[a].profile
      /\ r.sim = auth[a].sim /\ r.capital = auth[a].capital
  BY <1>1 DEF Authorizations
<1>3. auth' = [auth EXCEPT ![a] = r]
  BY DEF Ended
<1> HIDE DEF r
<1> QED
  BY <1>2, <1>3, ExceptIs, TypeFacts

\* ... gives its capital back.
LEMMA ReservedFreed ==
    ASSUME TypeOK, NEW a \in DOMAIN auth, auth[a].state = "AUTHORIZED", Ended(a), NEW t
    PROVE  Reserved(t)' = IF t = auth[a].sim THEN Reserved(t) - auth[a].capital ELSE Reserved(t)
<1>1. /\ DOMAIN auth' = DOMAIN auth /\ auth'[a].state = "REVOKED"
      /\ \A b \in DOMAIN auth : /\ b # a => auth'[b] = auth[b]
                                /\ auth'[b].sim = auth[b].sim
                                /\ auth'[b].capital = auth[b].capital
  BY EndedIs
<1>2. /\ Reservations(t)' = Reservations(t) \ {a} /\ Reservations(t) \subseteq DOMAIN auth
      /\ a \in Reservations(t) <=> t = auth[a].sim
  BY <1>1 DEF Reservations
<1>3. \A b \in DOMAIN auth : Parts'[b] = Parts[b] /\ Parts[b] = auth[b].capital /\ Parts[b] \in Int
  BY <1>1, Named DEF Parts
<1>4. IsFiniteSet(Reservations(t))
  BY ReservedTyped
<1>5. IsFiniteSet(Reservations(t) \ {a}) /\ \A b \in Reservations(t) \ {a} : b \in DOMAIN auth
  BY <1>2, <1>4, FS_Subset
<1>6. Sum(Parts', Reservations(t) \ {a}) = Sum(Parts, Reservations(t) \ {a})
  BY <1>3, <1>5, SumAgrees
<1>7. CASE t = auth[a].sim
  <2>1. Sum(Parts, Reservations(t)) = auth[a].capital + Sum(Parts, Reservations(t) \ {a})
    BY <1>2, <1>3, <1>4, <1>7, SumSplits
  <2>2. Reserved(t) = auth[a].capital + Reserved(t)'
    BY <1>2, <1>6, <2>1, SumsAre
  <2>3. Sum(Parts, Reservations(t) \ {a}) \in Int
    BY <1>3, <1>5, SumTyped
  <2>4. Reserved(t)' \in Int /\ auth[a].capital \in Nat
    BY <1>2, <1>6, <2>3, SumsAre, Named
  <2> QED
    BY <1>7, <2>2, <2>4, ReservedTyped
<1>8. CASE t # auth[a].sim
  <2>1. Reservations(t) \ {a} = Reservations(t)
    BY <1>2, <1>8
  <2> QED
    BY <1>2, <1>6, <1>8, <2>1, SumsAre
<1> QED
  BY <1>7, <1>8

-----------------------------------------------------------------------------
(* What no step takes back *)

\* Records are only added, and who and what they name stays.
Grows ==
    /\ DOMAIN auth \subseteq DOMAIN auth' /\ DOMAIN act \subseteq DOMAIN act'
    /\ DOMAIN starts \subseteq DOMAIN starts' /\ DOMAIN epoch \subseteq DOMAIN epoch'
    /\ era \subseteq era'
    /\ \A a \in DOMAIN auth : /\ auth'[a].profile = auth[a].profile
                              /\ auth'[a].sim = auth[a].sim
                              /\ auth'[a].capital = auth[a].capital
    /\ \A i \in DOMAIN act : act'[i].auth = act[i].auth
    /\ \A e \in DOMAIN epoch : epoch'[e].act = epoch[e].act /\ epoch'[e].asked = epoch[e].asked
\* No epoch begins, and what ended stays as it ended.
NoneBegins ==
    /\ DOMAIN epoch' = DOMAIN epoch
    /\ \A e \in DOMAIN epoch : /\ epoch'[e].state = "LIVE" => epoch[e].state = "LIVE"
                               /\ epoch[e].state = "STOPPED" => epoch'[e].state = "STOPPED"
\* No authorization begins, or begins again.
NoneGranted ==
    /\ DOMAIN auth' = DOMAIN auth
    /\ \A a \in DOMAIN auth : /\ auth'[a].state = "AUTHORIZED" => auth[a].state = "AUTHORIZED"
                              /\ auth[a].state = "REVOKED" => auth'[a].state = "REVOKED"

LEMMA NothingNew ==
    ASSUME UNCHANGED <<auth, act, starts, epoch, era>>
    PROVE  Grows /\ NoneBegins /\ NoneGranted
  BY DEF Grows, NoneBegins, NoneGranted

LEMMA NamesStay ==
    ASSUME TypeOK, Grows
    PROVE  /\ \A a \in DOMAIN auth : SessionOf(a)' = SessionOf(a)
           /\ \A e \in DOMAIN epoch : /\ SessionOfEpoch(e)' = SessionOfEpoch(e)
                                      /\ SimOfEpoch(e)' = SimOfEpoch(e)
<1>1. \A a \in DOMAIN auth : SessionOf(a)' = SessionOf(a)
  BY DEF Grows, SessionOf
<1>2. ASSUME NEW e \in DOMAIN epoch
      PROVE  /\ epoch'[e].act = epoch[e].act /\ act'[epoch[e].act].auth = act[epoch[e].act].auth
             /\ act[epoch[e].act].auth \in DOMAIN auth
  BY Named DEF Grows
<1>3. ASSUME NEW e \in DOMAIN epoch
      PROVE  SimOfEpoch(e)' = SimOfEpoch(e)
  BY <1>2 DEF SimOfEpoch, Grows
<1>4. ASSUME NEW e \in DOMAIN epoch
      PROVE  SessionOfEpoch(e)' = SessionOfEpoch(e)
  BY <1>2 DEF SessionOfEpoch, SessionOf, Grows
<1> QED
  BY <1>1, <1>3, <1>4

LEMMA RecordsGrow ==
    ASSUME TypeOK, Grows
    PROVE  /\ act \in Seq(Activations') /\ starts \in Seq(DOMAIN act') /\ epoch \in Seq(Epochs')
           /\ settled \in [Sessions -> Settlements' \cup {None}]
<1>1. /\ Activations \subseteq Activations' /\ Epochs \subseteq Epochs'
      /\ DOMAIN act \subseteq DOMAIN act'
  BY DEF Grows, Activations, Epochs
<1>2. Settlements \subseteq Settlements'
  BY DEF Grows, Settlements
<1> QED
  BY <1>1, <1>2, SeqOf DEF TypeOK

LEMMA EpochsStay ==
    ASSUME TypeOK, Grows, DOMAIN epoch' = DOMAIN epoch, NEW x
    PROVE  EpochsOf(x)' = EpochsOf(x)
  BY NamesStay DEF EpochsOf

LEMMA LastLiveKept ==
    ASSUME TypeOK, LastLive, Grows, NoneBegins
    PROVE  LastLive'
<1> SUFFICES ASSUME NEW e \in DOMAIN epoch', NEW f \in DOMAIN epoch',
                    SessionOfEpoch(e)' = SessionOfEpoch(f)', Live(f)'
             PROVE  e <= f
  BY DEF LastLive
<1>1. e \in DOMAIN epoch /\ f \in DOMAIN epoch /\ Live(f)
  BY DEF NoneBegins, Live
<1> QED
  BY <1>1, NamesStay DEF LastLive

LEMMA CallStays ==
    ASSUME TypeOK, Grows, config \subseteq config', NEW r, CallOK(r),
           \A e \in DOMAIN epoch : epoch[e].state = "STOPPED" => epoch'[e].state = "STOPPED",
           \A f \in DOMAIN epoch' \ DOMAIN epoch : \A e \in DOMAIN epoch : ~(f <= e)
    PROVE  CallOK(r)'
<1>1. CASE Preparing(r)
  BY <1>1 DEF CallOK, Preparing, Grows
<1>2. CASE Creating(r)
  <2>1. r \in [at : {"CREATED"}, auth : DOMAIN auth] /\ SessionOf(r.auth) \in config
    BY <1>2 DEF Creating
  <2>2. r.auth \in DOMAIN auth /\ r \in [at : {"CREATED"}, auth : DOMAIN auth']
    BY <2>1 DEF Grows
  <2>3. SessionOf(r.auth)' \in config'
    BY <2>1, <2>2, NamesStay
  <2> QED
    BY <2>2, <2>3 DEF CallOK, Creating
<1>3. CASE Settling(r)
  <2>0. PICK x, e : x = SessionOfEpoch(r.epoch) /\ e = r.epoch
    OBVIOUS
  <2>1. /\ r \in [at : {"SETTLING"}, epoch : DOMAIN epoch, read : Evidences,
                  epochs : SUBSET DOMAIN epoch]
        /\ epoch[e].state = "STOPPED" /\ r.epochs \subseteq EpochsOf(x)
        /\ \A f \in EpochsOf(x) : f <= e => f \in r.epochs
    BY <1>3, <2>0 DEF Settling
  <2>2. e \in DOMAIN epoch /\ r.epochs \subseteq DOMAIN epoch
    BY <2>0, <2>1
  <2>3. r \in [at : {"SETTLING"}, epoch : DOMAIN epoch', read : Evidences,
               epochs : SUBSET DOMAIN epoch']
    BY <2>1 DEF Grows
  <2>4. epoch'[e].state = "STOPPED" /\ SessionOfEpoch(e)' = x
    BY <2>0, <2>1, <2>2, NamesStay
  <2>5. \A f \in DOMAIN epoch : f \in EpochsOf(x)' <=> f \in EpochsOf(x)
    BY NamesStay DEF EpochsOf, Grows
  <2>6. EpochsOf(x)' \subseteq DOMAIN epoch' /\ EpochsOf(x) \subseteq DOMAIN epoch
    BY DEF EpochsOf
  <2>7. \A f \in EpochsOf(x)' : f <= e => f \in r.epochs
    BY <2>1, <2>2, <2>5, <2>6
  <2>8. r.epochs \subseteq EpochsOf(x)'
    BY <2>1, <2>2, <2>5
  <2>9. EpochsOf(SessionOfEpoch(r.epoch))' = EpochsOf(x)'
    BY <2>0, <2>4 DEF EpochsOf
  <2> QED
    BY <2>0, <2>3, <2>4, <2>7, <2>8, <2>9 DEF CallOK, Settling
<1> QED
  BY <1>1, <1>2, <1>3 DEF CallOK

LEMMA CallsStay ==
    ASSUME TypeOK, Grows, NoneBegins, config \subseteq config', CallsOK, UNCHANGED call
    PROVE  CallsOK'
<1> SUFFICES ASSUME NEW c \in Clients, NEW r \in {call'[c]}
             PROVE  CallOK(r)'
  BY DEF CallsOK
<1>1. CallOK(r)
  BY DEF CallsOK
<1> QED
  BY <1>1, CallStays DEF NoneBegins

\* One call goes on.
LEMMA CallsStep ==
    ASSUME TypeOK, Grows, NoneBegins, config \subseteq config', CallsOK, DOMAIN call = Clients,
           NEW c \in Clients, NEW q, SetCall(c, q), CallOK(q)'
    PROVE  CallsOK' /\ DOMAIN call' = Clients
<1>1. DOMAIN call' = Clients /\ \A d \in Clients : call'[d] = IF d = c THEN q ELSE call[d]
  BY DEF SetCall
<1> SUFFICES ASSUME NEW d \in Clients, NEW r \in {call'[d]}
             PROVE  CallOK(r)'
  BY <1>1 DEF CallsOK
<1>2. CASE d = c
  BY <1>1, <1>2
<1>3. CASE d # c
  <2>1. CallOK(r)
    BY <1>1, <1>3 DEF CallsOK
  <2> QED
    BY <2>1, CallStays DEF NoneBegins
<1> QED
  BY <1>2, <1>3

LEMMA IdleCall == CallOK(Idle)'
  BY DEF CallOK

LEMMA CallsTyped ==
    ASSUME CallsOK'
    PROVE  \A c \in Clients : call'[c].at \in {"IDLE", "PREPARED", "CREATED", "SETTLING"}
<1> SUFFICES ASSUME NEW c \in Clients
             PROVE  call'[c].at \in {"IDLE", "PREPARED", "CREATED", "SETTLING"}
  OBVIOUS
<1>1. PICK r : r = call'[c]
  OBVIOUS
<1>2. CallOK(r)'
  BY <1>1 DEF CallsOK
<1> QED
  BY <1>1, <1>2 DEF CallOK, Idle, Preparing, Creating, Settling

\* What a settlement speaks for stays over, unless an epoch begins.
LEMMA OverKept ==
    ASSUME TypeOK, Grows, NEW x \in Sessions, settled[x] # None, settled'[x] = settled[x],
           EpochsOf(x)' = EpochsOf(x), \A f \in EpochsOf(x) : Live(f)' => Live(f), AreOver(x)
    PROVE  AreOver(x)'
<1>1. PICK e, C : e = settled[x].epoch /\ C = settled[x].epochs
  OBVIOUS
<1>2. e \in DOMAIN epoch
  BY <1>1 DEF TypeOK, Settlements
<1>3. EpochsOf(x) \subseteq DOMAIN epoch
  BY DEF EpochsOf
<1>4. \A f \in EpochsOf(x) : Overtaken(f, e) \/ (~Live(f) /\ f \in C)
  BY <1>1 DEF AreOver
<1>5. \A f \in EpochsOf(x) : Overtaken(f, e) => Overtaken(f, e)'
  BY <1>2, <1>3 DEF Grows, Overtaken
<1>6. \A f \in EpochsOf(x)' : Overtaken(f, e)' \/ (~Live(f)' /\ f \in C)
  BY <1>4, <1>5
<1>7. settled'[x].epoch = e /\ settled'[x].epochs = C
  BY <1>1
<1> QED
  BY <1>6, <1>7 DEF AreOver, Overtaken

LEMMA FinalKept ==
    ASSUME TypeOK, SettledIsFinal, Grows, NoneBegins, NoneGranted, UNCHANGED <<settled, ledger>>
    PROVE  SettledIsFinal'
<1> SUFFICES ASSUME NEW x \in Sessions, settled[x] # None
             PROVE  AreOver(x)' /\ auth'[settled[x].auth].state = "REVOKED"
  BY DEF SettledIsFinal
<1>1. EpochsOf(x)' = EpochsOf(x) /\ EpochsOf(x) \subseteq DOMAIN epoch
  BY EpochsStay DEF NoneBegins, EpochsOf
<1>2. AreOver(x) /\ auth[settled[x].auth].state = "REVOKED"
  BY DEF SettledIsFinal
<1>3. settled[x].auth \in DOMAIN auth
  BY DEF TypeOK, Settlements
<1>4. \A f \in EpochsOf(x) : Live(f)' => Live(f)
  BY <1>1 DEF NoneBegins, Live
<1>5. AreOver(x)'
  BY <1>1, <1>2, <1>4, OverKept
<1> QED
  BY <1>2, <1>3, <1>5 DEF NoneGranted

LEMMA ClosedKept ==
    ASSUME TypeOK, ClosedEraIsSettled, Grows, NoneBegins, NoneGranted,
           \A x \in Sessions : settled[x] # None => settled'[x] # None,
           UNCHANGED <<sim, era>>
    PROVE  ClosedEraIsSettled'
<1> SUFFICES ASSUME NEW s \in era, sim[s] = "TERMINAL"
             PROVE  /\ Reservations(s)' = {}
                    /\ \A e \in DOMAIN epoch' : SimOfEpoch(e)' = s =>
                         ~Live(e)' /\ settled'[SessionOfEpoch(e)'] # None
  BY DEF ClosedEraIsSettled
<1>1. /\ Reservations(s) = {}
      /\ \A e \in DOMAIN epoch : SimOfEpoch(e) = s => ~Live(e) /\ settled[SessionOfEpoch(e)] # None
  BY DEF ClosedEraIsSettled
<1>2. Reservations(s)' = {}
  BY <1>1 DEF Reservations, NoneGranted, Grows
<1>3. ASSUME NEW e \in DOMAIN epoch', SimOfEpoch(e)' = s
      PROVE  ~Live(e)' /\ settled'[SessionOfEpoch(e)'] # None
  <2>1. e \in DOMAIN epoch /\ SimOfEpoch(e) = s /\ SessionOfEpoch(e)' = SessionOfEpoch(e)
    BY <1>3, NamesStay DEF NoneBegins
  <2> QED
    BY <1>1, <2>1, Named DEF NoneBegins, Live
<1> QED
  BY <1>2, <1>3

LEMMA GrantsKept ==
    ASSUME TypeOK, GrantsOK, Grows, NoneGranted, UNCHANGED sim
    PROVE  GrantsOK'
  BY DEF GrantsOK, NoneGranted, Grows

LEMMA ConfigKept ==
    ASSUME TypeOK, MaterializedHasConfig, Grows, config \subseteq config', UNCHANGED mat
    PROVE  MaterializedHasConfig'
<1> SUFFICES ASSUME NEW a \in DOMAIN mat, mat[a] = "MATERIALIZED"
             PROVE  SessionOf(a)' \in config'
  BY DEF MaterializedHasConfig
<1>1. a \in DOMAIN auth /\ SessionOf(a) \in config
  BY DEF TypeOK, MaterializedHasConfig
<1> QED
  BY <1>1, NamesStay

LEMMA LedgerKept ==
    ASSUME TypeOK, LedgerOK, UNCHANGED ledger,
           \A s \in Simulations : sim[s] # "ABSENT" => sim'[s] # "ABSENT",
           \A x \in Sessions : settled[x] # None => settled'[x] # None
    PROVE  LedgerOK'
<1>1. \A i \in DOMAIN ledger : /\ ledger[i].sim \in Simulations
                               /\ ledger[i].session # None => ledger[i].session \in Sessions
  BY TypeFacts DEF Movements
<1> QED
  BY <1>1 DEF LedgerOK

LEMMA TypedStep ==
    ASSUME Typed, Grows, CallsOK', DOMAIN call' = Clients,
           approved' \subseteq SessionProfiles, era' \subseteq Simulations, config' \subseteq Sessions,
           sim' \in [Simulations -> {"ABSENT", "ACTIVE", "TERMINAL"}],
           UNCHANGED ledger \/ ledger' \in Seq(Movements),
           auth' \in Seq(Authorizations),
           mat' \in Seq(Materializations), DOMAIN mat' = DOMAIN auth',
           UNCHANGED act \/ act' \in Seq(Activations'),
           UNCHANGED starts \/ starts' \in Seq(DOMAIN act'),
           UNCHANGED epoch \/ epoch' \in Seq(Epochs'),
           UNCHANGED settled \/ settled' \in [Sessions -> Settlements' \cup {None}],
           evidence' \in [Sessions -> Evidences \cup {None}]
    PROVE  Typed'
<1>1. /\ ledger' \in Seq(Movements) /\ act' \in Seq(Activations')
      /\ starts' \in Seq(DOMAIN act') /\ epoch' \in Seq(Epochs')
      /\ settled' \in [Sessions -> Settlements' \cup {None}]
  BY RecordsGrow DEF Typed, TypeOK
<1>2. \A c \in Clients : call'[c].at \in {"IDLE", "PREPARED", "CREATED", "SETTLING"}
  BY CallsTyped
<1> QED
  BY <1>1, <1>2 DEF Typed, TypeOK

\* The parts of Typed, for a step that leaves the variable alone.
LEMMA WasTyped ==
    ASSUME Typed
    PROVE  /\ TypeOK /\ DOMAIN call = Clients
           /\ approved \subseteq SessionProfiles /\ era \subseteq Simulations /\ config \subseteq Sessions
           /\ sim \in [Simulations -> {"ABSENT", "ACTIVE", "TERMINAL"}]
           /\ ledger \in Seq(Movements) /\ auth \in Seq(Authorizations)
           /\ mat \in Seq(Materializations) /\ DOMAIN mat = DOMAIN auth
           /\ settled \in [Sessions -> Settlements \cup {None}]
           /\ evidence \in [Sessions -> Evidences \cup {None}]
  BY DEF Typed, TypeOK

LEMMA SumsStay ==
    ASSUME NEW s
    PROVE  /\ UNCHANGED ledger => Balance(s)' = Balance(s)
           /\ UNCHANGED auth => Reserved(s)' = Reserved(s)
  BY DEF Balance, MovementsOf, Reserved, Reservations

LEMMA CoveredKept ==
    ASSUME ReservationsAreCovered, UNCHANGED <<ledger, auth>>
    PROVE  ReservationsAreCovered'
  BY SumsStay DEF ReservationsAreCovered

-----------------------------------------------------------------------------
(* Simulations and movements *)

\* A movement of no session leaves the settlements as they are.
LEMMA FinalPosted ==
    ASSUME TypeOK, SettledIsFinal, UNCHANGED <<auth, act, starts, epoch, settled>>,
           NEW s \in Simulations, NEW m \in Int, ledger' = Posted(s, m, None)
    PROVE  SettledIsFinal'
<1>1. [sim |-> s, amount |-> m, session |-> None] \in Movements
  BY DEF Movements
<1>2. /\ DOMAIN ledger' = DOMAIN ledger \cup {Len(ledger) + 1}
      /\ ledger'[Len(ledger) + 1].session = None
      /\ \A i \in DOMAIN ledger : ledger'[i] = ledger[i]
  BY <1>1, AppendIs, TypeFacts DEF Posted
<1>3. \A x \in Sessions : {i \in DOMAIN ledger' : ledger'[i].session = x}
                            = {i \in DOMAIN ledger : ledger[i].session = x}
  BY <1>2, NoneAssumption
<1>4. \A x : AreOver(x)' <=> AreOver(x)
  BY DEF AreOver, Overtaken, EpochsOf, SessionOfEpoch, SessionOf, Live
<1> SUFFICES ASSUME NEW x \in Sessions, settled[x] # None
             PROVE  /\ AreOver(x)' /\ auth[settled[x].auth].state = "REVOKED"
                    /\ LET own == {i \in DOMAIN ledger' : ledger'[i].session = x}
                       IN IF settled[x].delta = 0 THEN own = {}
                          ELSE \E i \in own : own = {i} /\ ledger'[i].amount = settled[x].delta
                                                       /\ ledger'[i].sim = settled[x].sim
  BY DEF SettledIsFinal
<1> DEFINE own == {i \in DOMAIN ledger : ledger[i].session = x}
<1>6. /\ AreOver(x) /\ auth[settled[x].auth].state = "REVOKED"
      /\ IF settled[x].delta = 0 THEN own = {}
         ELSE \E i \in own : own = {i} /\ ledger[i].amount = settled[x].delta
                                      /\ ledger[i].sim = settled[x].sim
  BY DEF SettledIsFinal
<1>7. own \subseteq DOMAIN ledger
  OBVIOUS
<1>8. own = {i \in DOMAIN ledger' : ledger'[i].session = x}
  BY <1>3
<1> HIDE DEF own
<1>9. IF settled[x].delta = 0 THEN own = {}
      ELSE \E i \in own : own = {i} /\ ledger'[i].amount = settled[x].delta
                                   /\ ledger'[i].sim = settled[x].sim
  BY <1>2, <1>6, <1>7
<1> QED
  BY <1>4, <1>6, <1>8, <1>9

\* A movement that the trigger admits, or the first of a simulation.
LEMMA MovementKeeps ==
    ASSUME IInv, NEW s \in Simulations, NEW m \in Int, ledger' = Posted(s, m, None),
           sim' = [sim EXCEPT ![s] = "ACTIVE"], sim[s] # "TERMINAL",
           Balance(s) + m >= Reserved(s),
           UNCHANGED <<approved, era, chain, running, settled, call>>
    PROVE  IInv'
<1>1. /\ UNCHANGED <<approved, era, auth, mat, config, act, starts, epoch, evidence, settled, call>>
      /\ Typed /\ LedgerOK /\ GrantsOK /\ LastLive /\ CallsOK /\ ReservationsAreCovered
      /\ SettledIsFinal /\ ClosedEraIsSettled /\ MaterializedHasConfig
  BY DEF IInv, chain, running
<1>2. Grows /\ NoneBegins /\ NoneGranted
  BY <1>1, NothingNew
<1>3. /\ sim' \in [Simulations -> {"ABSENT", "ACTIVE", "TERMINAL"}]
      /\ \A t \in Simulations : sim'[t] = IF t = s THEN "ACTIVE" ELSE sim[t]
  BY <1>1, WasTyped
<1>4. [sim |-> s, amount |-> m, session |-> None] \in Movements
  BY DEF Movements
<1>5. /\ ledger' \in Seq(Movements) /\ DOMAIN ledger' = DOMAIN ledger \cup {Len(ledger) + 1}
      /\ ledger'[Len(ledger) + 1] = [sim |-> s, amount |-> m, session |-> None]
      /\ \A i \in DOMAIN ledger : ledger'[i] = ledger[i]
  BY <1>1, <1>4, WasTyped, AppendIs DEF Posted
<1>6. CallsOK'
  BY <1>1, <1>2, WasTyped, CallsStay
<1>7. Typed'
  BY <1>1, <1>2, <1>3, <1>5, <1>6, WasTyped, TypedStep
<1>8. LedgerOK'
  <2>1. \A i \in DOMAIN ledger : ledger[i].sim \in Simulations
    BY <1>1, WasTyped, TypeFacts DEF Movements
  <2> QED
    BY <1>1, <1>3, <1>5, <2>1 DEF LedgerOK
<1>9. GrantsOK'
  <2>1. \A a \in DOMAIN auth : auth[a].sim \in Simulations
    BY <1>1, WasTyped, Named
  <2> QED
    BY <1>1, <1>3, <2>1 DEF GrantsOK
<1>10. LastLive' /\ MaterializedHasConfig'
  BY <1>1, <1>2, WasTyped, LastLiveKept, ConfigKept
<1>11. ReservationsAreCovered'
  <2> SUFFICES ASSUME NEW t \in Simulations
               PROVE  Reserved(t)' <= Balance(t)'
    BY DEF ReservationsAreCovered
  <2>1. Reserved(t)' = Reserved(t) /\ Reserved(t) <= Balance(t)
    BY <1>1, SumsStay DEF ReservationsAreCovered
  <2>2. Balance(t)' = IF t = s THEN Balance(t) + m ELSE Balance(t)
    BY <1>1, WasTyped, BalancePosted
  <2>3. Balance(t) \in Int /\ Reserved(t) \in Nat
    BY <1>1, WasTyped, BalanceTyped, ReservedTyped
  <2> QED
    BY <2>1, <2>2, <2>3
<1>12. SettledIsFinal'
  BY <1>1, WasTyped, FinalPosted
<1>13. ClosedEraIsSettled'
  <2>1. \A x : SimOfEpoch(x)' = SimOfEpoch(x) /\ SessionOfEpoch(x)' = SessionOfEpoch(x)
    BY <1>1 DEF SimOfEpoch, SessionOfEpoch, SessionOf
  <2>2. \A t : Reservations(t)' = Reservations(t)
    BY <1>1 DEF Reservations
  <2>3. \A t \in era : t \in Simulations
    BY <1>1, WasTyped
  <2> QED
    BY <1>1, <1>3, <2>1, <2>2, <2>3 DEF ClosedEraIsSettled, Live
<1> QED
  BY <1>7, <1>8, <1>9, <1>6, <1>10, <1>11, <1>12, <1>13 DEF IInv

LEMMA CreateSimulationKeeps ==
    ASSUME IInv, NEW s \in Simulations, CreateSimulation(s)
    PROVE  IInv'
<1>1. /\ sim[s] = "ABSENT" /\ sim' = [sim EXCEPT ![s] = "ACTIVE"]
      /\ ledger' = Posted(s, InitialCapital, None)
      /\ UNCHANGED <<approved, era, chain, running, settled, call>>
  BY DEF CreateSimulation
<1>2. InitialCapital \in Int /\ Balance(s) + InitialCapital >= Reserved(s)
  <2>1. Balance(s) \in Int /\ Reserved(s) \in Nat /\ Reserved(s) <= Balance(s)
    BY BalanceTyped, ReservedTyped DEF IInv, Typed, ReservationsAreCovered
  <2> QED
    BY <2>1, AmountsAssumption
<1> QED
  BY <1>1, <1>2, MovementKeeps

LEMMA CreateMovementKeeps ==
    ASSUME IInv, NEW s \in Simulations, NEW m \in Int, CreateMovement(s, m)
    PROVE  IInv'
<1>1. /\ sim[s] = "ACTIVE" /\ ledger' = Posted(s, m, None)
      /\ UNCHANGED <<approved, sim, era, chain, running, settled, call>>
      /\ Balance(s) + m >= Reserved(s)
  BY DEF CreateMovement, MovementAdmitted
<1>2. sim' = [sim EXCEPT ![s] = "ACTIVE"]
  BY <1>1 DEF IInv, Typed, TypeOK
<1> QED
  BY <1>1, <1>2, MovementKeeps

LEMMA TransitionKeeps ==
    ASSUME IInv, NEW s \in Simulations, Transition(s)
    PROVE  IInv'
<1>1. /\ sim[s] = "ACTIVE" /\ Reservations(s) = {} /\ FinalityAllows(s)
      /\ sim' = [sim EXCEPT ![s] = "TERMINAL"]
      /\ UNCHANGED <<approved, era, ledger, auth, mat, config, act, starts, epoch, evidence, settled, call>>
  BY DEF Transition, chain, running
<1>2. /\ Typed /\ LedgerOK /\ GrantsOK /\ LastLive /\ CallsOK /\ ReservationsAreCovered
      /\ SettledIsFinal /\ ClosedEraIsSettled /\ MaterializedHasConfig
  BY DEF IInv
<1>3. Grows /\ NoneBegins /\ NoneGranted
  BY <1>1, NothingNew
<1>4. /\ sim' \in [Simulations -> {"ABSENT", "ACTIVE", "TERMINAL"}]
      /\ \A t \in Simulations : sim'[t] = IF t = s THEN "TERMINAL" ELSE sim[t]
  BY <1>1, <1>2, WasTyped
<1>5. CallsOK' /\ LastLive' /\ MaterializedHasConfig' /\ SettledIsFinal' /\ ReservationsAreCovered'
  BY <1>1, <1>2, <1>3, WasTyped, CallsStay, LastLiveKept, ConfigKept, FinalKept, CoveredKept
<1>6. Typed'
  BY <1>1, <1>2, <1>3, <1>4, <1>5, WasTyped, TypedStep
<1>7. LedgerOK'
  BY <1>1, <1>2, <1>4, WasTyped, LedgerKept
<1>8. GrantsOK'
  <2>1. \A a \in DOMAIN auth : /\ auth[a].sim \in Simulations
                               /\ auth[a].state = "AUTHORIZED" => auth[a].sim # s
    BY <1>1, <1>2, WasTyped, Named DEF Reservations
  <2> QED
    BY <1>1, <1>2, <1>4, <2>1 DEF GrantsOK
<1>9. ClosedEraIsSettled'
  <2>1. \A x : SimOfEpoch(x)' = SimOfEpoch(x) /\ SessionOfEpoch(x)' = SessionOfEpoch(x)
    BY <1>1 DEF SimOfEpoch, SessionOfEpoch, SessionOf
  <2>2. \A t : Reservations(t)' = Reservations(t)
    BY <1>1 DEF Reservations
  <2>3. s \in era => \A e \in DOMAIN epoch : SimOfEpoch(e) = s =>
                       ~Live(e) /\ settled[SessionOfEpoch(e)] # None
    BY <1>1 DEF FinalityAllows
  <2>4. \A t \in era : t \in Simulations
    BY <1>2, WasTyped
  <2> QED
    BY <1>1, <1>2, <1>4, <2>1, <2>2, <2>3, <2>4 DEF ClosedEraIsSettled, Live
<1> QED
  BY <1>5, <1>6, <1>7, <1>8, <1>9 DEF IInv

LEMMA DesignateKeeps ==
    ASSUME IInv, NEW s \in Simulations, Designate(s)
    PROVE  IInv'
<1>1. /\ sim[s] = "ACTIVE" /\ era' = era \cup {s}
      /\ UNCHANGED <<approved, sim, ledger, auth, mat, config, act, starts, epoch, evidence, settled, call>>
  BY DEF Designate, chain, running
<1>2. /\ Typed /\ LedgerOK /\ GrantsOK /\ LastLive /\ CallsOK /\ ReservationsAreCovered
      /\ SettledIsFinal /\ ClosedEraIsSettled /\ MaterializedHasConfig
  BY DEF IInv
<1>3. Grows /\ NoneBegins /\ NoneGranted
  BY <1>1 DEF Grows, NoneBegins, NoneGranted
<1>4. CallsOK' /\ LastLive' /\ MaterializedHasConfig' /\ SettledIsFinal' /\ ReservationsAreCovered'
  BY <1>1, <1>2, <1>3, WasTyped, CallsStay, LastLiveKept, ConfigKept, FinalKept, CoveredKept
<1>5. Typed'
  BY <1>1, <1>2, <1>3, <1>4, WasTyped, TypedStep
<1>6. LedgerOK' /\ GrantsOK'
  BY <1>1, <1>2, <1>3, WasTyped, LedgerKept, GrantsKept
<1>7. ClosedEraIsSettled'
  <2>1. \A x : SimOfEpoch(x)' = SimOfEpoch(x) /\ SessionOfEpoch(x)' = SessionOfEpoch(x)
    BY <1>1 DEF SimOfEpoch, SessionOfEpoch, SessionOf
  <2>2. \A t : Reservations(t)' = Reservations(t)
    BY <1>1 DEF Reservations
  <2> QED
    BY <1>1, <1>2, <2>1, <2>2 DEF ClosedEraIsSettled, Live
<1> QED
  BY <1>4, <1>5, <1>6, <1>7 DEF IInv

-----------------------------------------------------------------------------
(* Documents, materializations and calls *)

\* No money moves, no authorization and no epoch begins or ends otherwise.
LEMMA QuietMoney ==
    ASSUME IInv, UNCHANGED <<sim, era, ledger, settled, auth>>, Grows, NoneBegins
    PROVE  /\ Typed /\ TypeOK /\ CallsOK /\ MaterializedHasConfig
           /\ LedgerOK' /\ GrantsOK' /\ LastLive' /\ ReservationsAreCovered'
           /\ SettledIsFinal' /\ ClosedEraIsSettled'
<1>1. /\ Typed /\ LedgerOK /\ GrantsOK /\ LastLive /\ CallsOK /\ ReservationsAreCovered
      /\ SettledIsFinal /\ ClosedEraIsSettled /\ MaterializedHasConfig
  BY DEF IInv
<1>2. TypeOK /\ NoneGranted
  BY <1>1, WasTyped DEF NoneGranted
<1>3. LedgerOK' /\ GrantsOK' /\ LastLive' /\ ReservationsAreCovered'
  BY <1>1, <1>2, LedgerKept, GrantsKept, LastLiveKept, CoveredKept
<1>4. SettledIsFinal' /\ ClosedEraIsSettled'
  BY <1>1, <1>2, FinalKept, ClosedKept
<1> QED
  BY <1>1, <1>2, <1>3, <1>4

LEMMA ArchiveDocumentsKeeps ==
    ASSUME IInv, NEW p \in SessionProfiles, ArchiveDocuments(p)
    PROVE  IInv'
<1>1. /\ approved' = approved \ {p}
      /\ UNCHANGED <<sim, era, ledger, settled, auth, mat, config, act, starts, epoch, evidence, call>>
  BY DEF ArchiveDocuments, financial, chain, running
<1>2. Grows /\ NoneBegins
  BY <1>1, NothingNew
<1>3. /\ Typed /\ TypeOK /\ CallsOK /\ MaterializedHasConfig
      /\ LedgerOK' /\ GrantsOK' /\ LastLive' /\ ReservationsAreCovered'
      /\ SettledIsFinal' /\ ClosedEraIsSettled'
  BY <1>1, <1>2, QuietMoney
<1>4. CallsOK' /\ MaterializedHasConfig'
  BY <1>1, <1>2, <1>3, CallsStay, ConfigKept
<1>5. Typed'
  BY <1>1, <1>2, <1>3, <1>4, WasTyped, TypedStep
<1> QED
  BY <1>3, <1>4, <1>5 DEF IInv

\* A call goes on; at most a materialization or a configuration comes of it.
LEMMA CallKeeps ==
    ASSUME IInv, NEW c \in Clients, NEW q, SetCall(c, q), CallOK(q)',
           UNCHANGED <<approved, sim, era, ledger, settled, auth, act, starts, epoch, evidence>>,
           config \subseteq config', config' \subseteq Sessions,
           mat' \in Seq(Materializations), DOMAIN mat' = DOMAIN mat,
           \A a \in DOMAIN mat : mat'[a] = "MATERIALIZED" /\ mat[a] # "MATERIALIZED" =>
             SessionOf(a) \in config
    PROVE  IInv'
<1>1. Grows /\ NoneBegins
  BY NothingNew
<1>2. /\ Typed /\ TypeOK /\ CallsOK /\ MaterializedHasConfig
      /\ LedgerOK' /\ GrantsOK' /\ LastLive' /\ ReservationsAreCovered'
      /\ SettledIsFinal' /\ ClosedEraIsSettled'
  BY <1>1, QuietMoney
<1>3. CallsOK' /\ DOMAIN call' = Clients
  BY <1>1, <1>2, WasTyped, CallsStep
<1>4. Typed'
  BY <1>1, <1>2, <1>3, WasTyped, TypedStep
<1>5. MaterializedHasConfig'
  <2>1. \A a : SessionOf(a)' = SessionOf(a)
    BY DEF SessionOf
  <2> QED
    BY <1>2, <2>1 DEF MaterializedHasConfig
<1> QED
  BY <1>2, <1>3, <1>4, <1>5 DEF IInv

LEMMA PrepareKeeps ==
    ASSUME IInv, NEW c \in Clients, NEW a \in DOMAIN auth, Prepare(c, a)
    PROVE  IInv'
<1> DEFINE q == [at |-> "PREPARED", auth |-> a]
<1>1. /\ \/ mat' = [mat EXCEPT ![a] = "PREPARED"]
         \/ UNCHANGED mat
      /\ SetCall(c, q)
      /\ UNCHANGED <<approved, sim, era, ledger, settled, auth, config, act, starts, epoch, evidence>>
  BY DEF Prepare, financial, running
<1>2. CallOK(q)'
  BY <1>1 DEF CallOK, Preparing
<1>3. mat \in Seq(Materializations) /\ a \in DOMAIN mat /\ config \subseteq Sessions
  BY WasTyped DEF IInv
<1>4. /\ mat' \in Seq(Materializations) /\ DOMAIN mat' = DOMAIN mat
      /\ \A b \in DOMAIN mat : mat'[b] \in {mat[b], "PREPARED"}
  <2>1. "PREPARED" \in Materializations
    BY DEF Materializations
  <2> QED
    BY <1>1, <1>3, <2>1, ExceptIs
<1> HIDE DEF q
<1> QED
  BY <1>1, <1>2, <1>3, <1>4, CallKeeps

LEMMA CreateConfigKeeps ==
    ASSUME IInv, NEW c \in Clients, CreateConfig(c)
    PROVE  IInv'
<1> DEFINE q == [call[c] EXCEPT !.at = "CREATED"]
           x == SessionOf(call[c].auth)
<1>1. /\ call[c].at = "PREPARED" /\ config' = config \cup {x} /\ SetCall(c, q)
      /\ UNCHANGED <<approved, sim, era, ledger, settled, auth, mat, act, starts, epoch, evidence>>
  BY DEF CreateConfig, financial, running
<1>2. PICK r : r = call[c] /\ CallOK(r)
  BY DEF IInv, CallsOK
<1>3. r \in [at : {"PREPARED"}, auth : DOMAIN auth]
  BY <1>1, <1>2 DEF CallOK, Preparing, Creating, Settling, Idle
<1>4. q \in [at : {"CREATED"}, auth : DOMAIN auth] /\ q.auth = call[c].auth
  BY <1>2, <1>3
<1>5. x \in Sessions /\ config \subseteq Sessions /\ mat \in Seq(Materializations)
  BY <1>2, <1>3, WasTyped, Named DEF IInv
<1>6. PICK p : p = q
  OBVIOUS
<1>7. CallOK(p)'
  <2>1. p \in [at : {"CREATED"}, auth : DOMAIN auth'] /\ p.auth = call[c].auth
    BY <1>1, <1>4, <1>6
  <2>2. SessionOf(p.auth)' = x
    BY <1>1, <2>1 DEF SessionOf
  <2> QED
    BY <1>1, <2>1, <2>2 DEF CallOK, Creating
<1> HIDE DEF x, q
<1> QED
  BY <1>1, <1>5, <1>6, <1>7, CallKeeps

LEMMA MarkMaterializedKeeps ==
    ASSUME IInv, NEW c \in Clients, MarkMaterialized(c)
    PROVE  IInv'
<1> DEFINE a == call[c].auth
<1>1. /\ call[c].at = "CREATED" /\ mat' = [mat EXCEPT ![a] = "MATERIALIZED"] /\ SetCall(c, Idle)
      /\ UNCHANGED <<approved, sim, era, ledger, settled, auth, config, act, starts, epoch, evidence>>
  BY DEF MarkMaterialized, ReadyToMark, financial, running
<1>2. PICK r : r = call[c] /\ CallOK(r)
  BY DEF IInv, CallsOK
<1>3. r \in [at : {"CREATED"}, auth : DOMAIN auth] /\ SessionOf(r.auth) \in config
  BY <1>1, <1>2 DEF CallOK, Preparing, Creating, Settling, Idle
<1>4. a \in DOMAIN auth /\ SessionOf(a) \in config
  BY <1>2, <1>3
<1>5. mat \in Seq(Materializations) /\ a \in DOMAIN mat /\ config \subseteq Sessions
  BY <1>4, WasTyped DEF IInv
<1> HIDE DEF a
<1>6. /\ mat' \in Seq(Materializations) /\ DOMAIN mat' = DOMAIN mat
      /\ \A b \in DOMAIN mat : b # a => mat'[b] = mat[b]
  <2>1. "MATERIALIZED" \in Materializations
    BY DEF Materializations
  <2> QED
    BY <1>1, <1>5, <2>1, ExceptIs
<1> QED
  BY <1>1, <1>4, <1>5, <1>6, IdleCall, CallKeeps

LEMMA AbandonKeeps ==
    ASSUME IInv, NEW c \in Clients, Abandon(c)
    PROVE  IInv'
<1>1. /\ SetCall(c, Idle)
      /\ UNCHANGED <<approved, sim, era, ledger, settled, auth, mat, config, act, starts, epoch, evidence>>
  BY DEF Abandon, financial, chain, running
<1>2. mat \in Seq(Materializations) /\ config \subseteq Sessions
  BY WasTyped DEF IInv
<1> QED
  BY <1>1, <1>2, IdleCall, CallKeeps

LEMMA ReadEvidenceKeeps ==
    ASSUME IInv, NEW c \in Clients, NEW e \in DOMAIN epoch, ReadEvidence(c, e)
    PROVE  IInv'
<1> DEFINE x == SessionOfEpoch(e)
           q == [at |-> "SETTLING", epoch |-> e, read |-> evidence[x], epochs |-> EpochsOf(x)]
<1>1. /\ epoch[e].state = "STOPPED" /\ evidence[x] # None /\ SetCall(c, q)
      /\ UNCHANGED <<approved, sim, era, ledger, settled, auth, mat, config, act, starts, epoch, evidence>>
  BY DEF ReadEvidence, financial, chain, running
<1>2. mat \in Seq(Materializations) /\ config \subseteq Sessions /\ TypeOK
  BY WasTyped DEF IInv
<1>3. evidence[x] \in Evidences /\ EpochsOf(x) \subseteq DOMAIN epoch
  BY <1>1, <1>2, WasTyped, Named DEF IInv, EpochsOf
<1>4. PICK p : p = q
  OBVIOUS
<1>5. /\ p \in [at : {"SETTLING"}, epoch : DOMAIN epoch, read : Evidences,
                epochs : SUBSET DOMAIN epoch]
      /\ p.epoch = e /\ p.epochs = EpochsOf(x)
  BY <1>3, <1>4
<1>6. EpochsOf(SessionOfEpoch(p.epoch))' = p.epochs
  BY <1>1, <1>5 DEF EpochsOf, SessionOfEpoch, SessionOf
<1>7. CallOK(p)'
  BY <1>1, <1>5, <1>6 DEF CallOK, Settling
<1> HIDE DEF q, x
<1> QED
  BY <1>1, <1>2, <1>4, <1>7, CallKeeps

-----------------------------------------------------------------------------
(* Activations and epochs *)

\* Activations and epochs move on; no epoch begins.
LEMMA ActKeeps ==
    ASSUME IInv, UNCHANGED <<approved, sim, era, ledger, settled, auth, mat, config, call>>,
           Grows, NoneBegins, UNCHANGED act \/ act' \in Seq(Activations'),
           UNCHANGED starts \/ starts' \in Seq(DOMAIN act'),
           UNCHANGED epoch \/ epoch' \in Seq(Epochs'),
           evidence' \in [Sessions -> Evidences \cup {None}]
    PROVE  IInv'
<1>1. /\ Typed /\ TypeOK /\ CallsOK /\ MaterializedHasConfig
      /\ LedgerOK' /\ GrantsOK' /\ LastLive' /\ ReservationsAreCovered'
      /\ SettledIsFinal' /\ ClosedEraIsSettled'
  BY QuietMoney
<1>2. CallsOK' /\ MaterializedHasConfig'
  BY <1>1, CallsStay, ConfigKept
<1>3. Typed'
  BY <1>1, <1>2, WasTyped, TypedStep
<1> QED
  BY <1>1, <1>2, <1>3 DEF IInv

LEMMA ActivateKeeps ==
    ASSUME IInv, NEW a \in DOMAIN auth, Activate(a)
    PROVE  IInv'
<1> DEFINE r == [state |-> "AUTHORIZED", auth |-> a]
<1>1. /\ act' = Append(act, r)
      /\ UNCHANGED <<approved, sim, era, ledger, settled, auth, mat, config, starts, epoch, evidence, call>>
  BY DEF Activate, financial, running
<1>2. r \in Activations
  BY DEF Activations
<1>3. TypeOK /\ act \in Seq(Activations) /\ evidence \in [Sessions -> Evidences \cup {None}]
  BY WasTyped, TypeFacts DEF IInv
<1> HIDE DEF r
<1>4. /\ act' \in Seq(Activations) /\ DOMAIN act \subseteq DOMAIN act'
      /\ \A i \in DOMAIN act : act'[i] = act[i]
  BY <1>1, <1>2, <1>3, AppendIs
<1>5. act' \in Seq(Activations')
  BY <1>1, <1>4 DEF Activations
<1>6. Grows /\ NoneBegins
  BY <1>1, <1>4 DEF Grows, NoneBegins
<1> QED
  BY <1>1, <1>3, <1>5, <1>6, ActKeeps

LEMMA RevokeActivationKeeps ==
    ASSUME IInv, NEW i \in DOMAIN act, RevokeActivation(i)
    PROVE  IInv'
<1> DEFINE r == [act[i] EXCEPT !.state = "REVOKED"]
<1>1. /\ act' = [act EXCEPT ![i] = r]
      /\ UNCHANGED <<approved, sim, era, ledger, settled, auth, mat, config, starts, epoch, evidence, call>>
  BY DEF RevokeActivation, financial, running
<1>2. /\ TypeOK /\ act \in Seq(Activations) /\ act[i] \in Activations
      /\ evidence \in [Sessions -> Evidences \cup {None}]
  BY WasTyped, TypeFacts DEF IInv
<1>3. r \in Activations /\ r.auth = act[i].auth
  BY <1>2 DEF Activations
<1> HIDE DEF r
<1>4. /\ act' \in Seq(Activations) /\ DOMAIN act' = DOMAIN act
      /\ \A j \in DOMAIN act : act'[j].auth = act[j].auth
  BY <1>1, <1>2, <1>3, ExceptIs
<1>5. act' \in Seq(Activations')
  BY <1>1, <1>4 DEF Activations
<1>6. Grows /\ NoneBegins
  BY <1>1, <1>4 DEF Grows, NoneBegins
<1> QED
  BY <1>1, <1>2, <1>5, <1>6, ActKeeps

LEMMA EndEpochKeeps ==
    ASSUME IInv, NEW e \in DOMAIN epoch, EndEpoch(e)
    PROVE  IInv'
<1>1. PICK s \in {"STOPPED", "FAILED"} : epoch' = [epoch EXCEPT ![e].state = s]
  BY DEF EndEpoch
<1> DEFINE r == [epoch[e] EXCEPT !.state = s]
<1>2. /\ epoch[e].state = "LIVE" /\ epoch' = [epoch EXCEPT ![e] = r]
      /\ UNCHANGED <<approved, sim, era, ledger, settled, auth, mat, config, act, starts, evidence, call>>
  BY <1>1 DEF EndEpoch, financial, chain, Live
<1>3. /\ TypeOK /\ epoch \in Seq(Epochs) /\ epoch[e] \in Epochs
      /\ evidence \in [Sessions -> Evidences \cup {None}]
  BY WasTyped, TypeFacts DEF IInv
<1>4. r \in Epochs /\ r.act = epoch[e].act /\ r.asked = epoch[e].asked /\ r.state # "LIVE"
  BY <1>3 DEF Epochs
<1> HIDE DEF r
<1>5. /\ epoch' \in Seq(Epochs) /\ DOMAIN epoch' = DOMAIN epoch
      /\ \A f \in DOMAIN epoch : epoch'[f] = IF f = e THEN r ELSE epoch[f]
  BY <1>2, <1>3, <1>4, ExceptIs
<1>6. epoch' \in Seq(Epochs')
  BY <1>2, <1>5 DEF Epochs
<1>7. Grows /\ NoneBegins
  BY <1>2, <1>4, <1>5 DEF Grows, NoneBegins
<1> QED
  BY <1>2, <1>3, <1>6, <1>7, ActKeeps

LEMMA RunCycleKeeps ==
    ASSUME IInv, NEW x \in Sessions, RunCycle(x)
    PROVE  IInv'
<1>1. PICK ev \in Outcomes(x[2]) : evidence' = [evidence EXCEPT ![x] = ev]
  BY DEF RunCycle
<1>2. UNCHANGED <<approved, sim, era, ledger, settled, auth, mat, config, act, starts, epoch, call>>
  BY DEF RunCycle, financial, chain
<1>3. ev \in Evidences
  <2>1. PICK n : n = x[2]
    OBVIOUS
  <2>2. n \in Capitals
    BY <2>1 DEF Sessions
  <2>3. n \in Nat
    BY <2>2, AmountsAssumption
  <2>4. ev \in Outcomes(n)
    BY <1>1, <2>1
  <2>5. CASE ev \in [cash : {0, n}, flat : {TRUE}]
    <3>1. PICK k \in {0, n}, b \in {TRUE} : ev = [cash |-> k, flat |-> b]
      BY <2>5
    <3>2. k \in Nat /\ b \in BOOLEAN
      BY <2>3
    <3> QED
      BY <3>1, <3>2 DEF Evidences
  <2>6. CASE ev = [cash |-> 0, flat |-> FALSE]
    BY <2>6 DEF Evidences
  <2> QED
    BY <2>4, <2>5, <2>6 DEF Outcomes
<1>4. evidence' \in [Sessions -> Evidences \cup {None}]
  BY <1>1, <1>3, WasTyped DEF IInv
<1>5. Grows /\ NoneBegins
  BY <1>2, NothingNew
<1> QED
  BY <1>2, <1>4, <1>5, ActKeeps

LEMMA RequestStartKeeps ==
    ASSUME IInv, NEW i \in DOMAIN act, RequestStart(i)
    PROVE  IInv'
<1>1. /\ starts' = Append(starts, i)
      /\ UNCHANGED <<approved, sim, era, ledger, settled, auth, mat, config, act, epoch, evidence, call>>
  BY DEF RequestStart, financial, chain
<1>2. starts \in Seq(DOMAIN act) /\ evidence \in [Sessions -> Evidences \cup {None}]
  BY WasTyped, TypeFacts DEF IInv
<1>3. starts' \in Seq(DOMAIN act) /\ DOMAIN starts \subseteq DOMAIN starts'
  BY <1>1, <1>2, AppendIs
<1>4. Grows /\ NoneBegins
  BY <1>1, <1>3 DEF Grows, NoneBegins
<1> QED
  BY <1>1, <1>2, <1>3, <1>4, ActKeeps

LEMMA StartKeeps ==
    ASSUME IInv, NEW k \in DOMAIN starts, Start(k)
    PROVE  IInv'
<1>0. PICK i \in DOMAIN act : i = starts[k]
  BY WasTyped, TypeFacts DEF IInv
<1> DEFINE r == [state |-> "LIVE", act |-> i, asked |-> k]
           x == SessionOf(act[i].auth)
<1>1. /\ epoch' = Append(epoch, r) /\ Authority(i) /\ MayStart(x)
      /\ UNCHANGED <<approved, sim, era, ledger, settled, auth, mat, config, act, starts, evidence, call>>
  BY <1>0 DEF Start, financial, chain
<1>2. /\ Typed /\ LedgerOK /\ GrantsOK /\ LastLive /\ CallsOK /\ ReservationsAreCovered
      /\ SettledIsFinal /\ ClosedEraIsSettled /\ MaterializedHasConfig
  BY DEF IInv
<1>3. TypeOK /\ epoch \in Seq(Epochs) /\ \A e \in DOMAIN epoch : epoch[e] \in Epochs
  BY <1>2, WasTyped, TypeFacts
<1>4. r \in Epochs /\ r.act = i /\ r.state = "LIVE"
  BY DEF Epochs
<1>5. PICK n : n = Len(epoch) + 1
  OBVIOUS
<1> HIDE DEF r
<1>6. /\ epoch' \in Seq(Epochs) /\ DOMAIN epoch' = DOMAIN epoch \cup {n} /\ n \notin DOMAIN epoch
      /\ epoch'[n] = r /\ \A e \in DOMAIN epoch : epoch'[e] = epoch[e]
  BY <1>1, <1>3, <1>4, <1>5, AppendIs
<1>7. \A e \in DOMAIN epoch : e \in Nat /\ e <= n /\ ~(n <= e)
  <2>1. DOMAIN epoch = 1..Len(epoch) /\ Len(epoch) \in Nat
    BY <1>3, Indices
  <2> QED
    BY <1>5, <2>1
<1>8. epoch' \in Seq(Epochs')
  BY <1>1, <1>6 DEF Epochs
<1>9. Grows
  BY <1>1, <1>6 DEF Grows
<1>10. \A e \in DOMAIN epoch : /\ SessionOfEpoch(e)' = SessionOfEpoch(e)
                               /\ SimOfEpoch(e)' = SimOfEpoch(e) /\ Live(e)' = Live(e)
  BY <1>3, <1>6, <1>9, NamesStay DEF Live
<1>11. SessionOfEpoch(n)' = x /\ SimOfEpoch(n)' = auth[act[i].auth].sim
  BY <1>1, <1>4, <1>6 DEF SessionOfEpoch, SimOfEpoch, SessionOf
<1>12. /\ sim[auth[act[i].auth].sim] = "ACTIVE" /\ settled[x] = None
       /\ \A e \in DOMAIN epoch : SessionOfEpoch(e) = x => ~Live(e)
  BY <1>1 DEF Authority, Backed, MayStart, EpochsOf
<1> HIDE DEF x
<1>13. CallsOK'
  <2> SUFFICES ASSUME NEW c \in Clients, NEW q \in {call'[c]}
               PROVE  CallOK(q)'
    BY DEF CallsOK
  <2>1. CallOK(q)
    BY <1>1, <1>2 DEF CallsOK
  <2> QED
    BY <1>1, <1>3, <1>6, <1>7, <1>9, <2>1, CallStays
<1>14. Typed'
  BY <1>1, <1>2, <1>8, <1>9, <1>13, WasTyped, TypedStep
<1>15. LedgerOK' /\ ReservationsAreCovered' /\ MaterializedHasConfig' /\ GrantsOK'
  BY <1>1, <1>2, <1>3, <1>9, LedgerKept, CoveredKept, ConfigKept, GrantsKept DEF NoneGranted
<1>16. LastLive'
  <2> SUFFICES ASSUME NEW e \in DOMAIN epoch', NEW f \in DOMAIN epoch',
                      SessionOfEpoch(e)' = SessionOfEpoch(f)', Live(f)'
               PROVE  e <= f
    BY DEF LastLive
  <2>1. CASE f = n
    BY <1>5, <1>6, <1>7, <2>1, <1>3
  <2>2. CASE f # n /\ e = n
    BY <1>6, <1>10, <1>11, <1>12, <2>2
  <2>3. CASE f # n /\ e # n
    BY <1>2, <1>6, <1>10, <2>3 DEF LastLive
  <2> QED
    BY <2>1, <2>2, <2>3
<1>17. SettledIsFinal'
  <2> SUFFICES ASSUME NEW y \in Sessions, settled[y] # None
               PROVE  AreOver(y)'
    BY <1>1, <1>2 DEF SettledIsFinal
  <2>1. y # x
    BY <1>12
  <2>2. EpochsOf(y)' = EpochsOf(y) /\ \A e \in EpochsOf(y) : Live(e)' = Live(e)
    BY <1>6, <1>10, <1>11, <2>1 DEF EpochsOf
  <2>3. AreOver(y) /\ settled'[y] = settled[y]
    BY <1>1, <1>2 DEF SettledIsFinal
  <2> QED
    BY <1>3, <1>9, <2>2, <2>3, OverKept
<1>18. ClosedEraIsSettled'
  <2> SUFFICES ASSUME NEW s \in era, sim[s] = "TERMINAL"
               PROVE  /\ Reservations(s)' = {}
                      /\ \A e \in DOMAIN epoch' : SimOfEpoch(e)' = s =>
                           ~Live(e)' /\ settled'[SessionOfEpoch(e)'] # None
    BY <1>1 DEF ClosedEraIsSettled
  <2>1. /\ Reservations(s) = {}
        /\ \A e \in DOMAIN epoch : SimOfEpoch(e) = s => ~Live(e) /\ settled[SessionOfEpoch(e)] # None
    BY <1>2 DEF ClosedEraIsSettled
  <2>2. Reservations(s)' = {}
    BY <1>1, <2>1 DEF Reservations
  <2> QED
    BY <1>1, <1>6, <1>10, <1>11, <1>12, <2>1, <2>2
<1> QED
  BY <1>2, <1>13, <1>14, <1>15, <1>16, <1>17, <1>18 DEF IInv

-----------------------------------------------------------------------------
(* Authorizations *)

LEMMA AuthorizeKeeps ==
    ASSUME IInv, NEW p \in SessionProfiles, NEW s \in Simulations, NEW c \in Capitals, Authorize(p, s, c)
    PROVE  IInv'
<1> DEFINE r == [state |-> "AUTHORIZED", profile |-> p, sim |-> s, capital |-> c]
<1>1. /\ sim[s] = "ACTIVE" /\ CapitalIsThere(s, c) /\ auth' = Append(auth, r)
      /\ mat' = Append(mat, "ABSENT")
      /\ UNCHANGED <<approved, sim, era, ledger, settled, config, act, starts, epoch, evidence, call>>
  BY DEF Authorize, financial, running
<1>2. /\ Typed /\ LedgerOK /\ GrantsOK /\ LastLive /\ CallsOK /\ ReservationsAreCovered
      /\ SettledIsFinal /\ ClosedEraIsSettled /\ MaterializedHasConfig
  BY DEF IInv
<1>3. /\ TypeOK /\ auth \in Seq(Authorizations) /\ mat \in Seq(Materializations)
      /\ DOMAIN mat = DOMAIN auth
  BY <1>2, WasTyped
<1>4. r \in Authorizations /\ r.sim = s /\ r.state = "AUTHORIZED" /\ "ABSENT" \in Materializations
  BY DEF Authorizations, Materializations
<1>5. PICK n : n = Len(auth) + 1 /\ n = Len(mat) + 1
  <2>1. DOMAIN auth = 1..Len(auth) /\ DOMAIN mat = 1..Len(mat) /\ Len(auth) \in Nat /\ Len(mat) \in Nat
    BY <1>3, Indices
  <2> QED
    BY <1>3, <2>1
<1>6. ReservationsAreCovered'
  <2> SUFFICES ASSUME NEW t \in Simulations
               PROVE  Reserved(t)' <= Balance(t)'
    BY DEF ReservationsAreCovered
  <2>1. Balance(t)' = Balance(t) /\ Reserved(t) <= Balance(t)
    BY <1>1, <1>2, SumsStay DEF ReservationsAreCovered
  <2>2. Reserved(t)' = IF t = s THEN Reserved(t) + c ELSE Reserved(t)
    BY <1>1, <1>3, ReservedAdded
  <2>3. Balance(t) \in Int /\ Reserved(t) \in Nat /\ c \in Int
    BY <1>3, BalanceTyped, ReservedTyped, AmountsAssumption
  <2>4. Balance(s) - Reserved(s) >= c
    BY <1>1 DEF CapitalIsThere, Available
  <2> QED
    BY <2>1, <2>2, <2>3, <2>4
<1> HIDE DEF r
<1>7. /\ auth' \in Seq(Authorizations) /\ DOMAIN auth' = DOMAIN auth \cup {n} /\ n \notin DOMAIN auth
      /\ auth'[n] = r /\ \A a \in DOMAIN auth : auth'[a] = auth[a]
  BY <1>1, <1>3, <1>4, <1>5, AppendIs
<1>8. /\ mat' \in Seq(Materializations) /\ DOMAIN mat' = DOMAIN mat \cup {n}
      /\ mat'[n] = "ABSENT" /\ \A a \in DOMAIN mat : mat'[a] = mat[a]
  BY <1>1, <1>3, <1>4, <1>5, AppendIs
<1>9. Grows /\ NoneBegins
  BY <1>1, <1>7 DEF Grows, NoneBegins
<1>10. CallsOK' /\ LastLive'
  BY <1>1, <1>2, <1>3, <1>9, CallsStay, LastLiveKept
<1>11. Typed'
  BY <1>1, <1>2, <1>3, <1>7, <1>8, <1>9, <1>10, WasTyped, TypedStep
<1>12. LedgerOK' /\ GrantsOK'
  <2>1. GrantsOK'
    BY <1>1, <1>2, <1>4, <1>7 DEF GrantsOK
  <2> QED
    BY <1>1, <1>2, <1>3, <2>1, LedgerKept
<1>13. MaterializedHasConfig'
  BY <1>1, <1>2, <1>3, <1>8, <1>9, NamesStay DEF MaterializedHasConfig
<1>14. SettledIsFinal'
  <2> SUFFICES ASSUME NEW x \in Sessions, settled[x] # None
               PROVE  AreOver(x)' /\ auth'[settled[x].auth].state = "REVOKED"
    <3>1. UNCHANGED <<settled, ledger>> /\ SettledIsFinal
      BY <1>1, <1>2
    <3> QED
      BY <3>1 DEF SettledIsFinal
  <2>1. settled[x].auth \in DOMAIN auth
    BY <1>3 DEF TypeOK, Settlements
  <2>2. EpochsOf(x)' = EpochsOf(x) /\ \A e : Live(e)' = Live(e)
    BY <1>1, <1>3, <1>9, EpochsStay DEF Live
  <2>3. AreOver(x) /\ auth[settled[x].auth].state = "REVOKED"
    BY <1>2 DEF SettledIsFinal
  <2>4. AreOver(x)'
    BY <1>1, <1>3, <1>9, <2>2, <2>3, OverKept
  <2> QED
    BY <1>7, <2>1, <2>3, <2>4
<1>15. ClosedEraIsSettled'
  <2> SUFFICES ASSUME NEW t \in era, sim[t] = "TERMINAL"
               PROVE  /\ Reservations(t)' = {}
                      /\ \A e \in DOMAIN epoch : SimOfEpoch(e)' = t =>
                           ~Live(e)' /\ settled[SessionOfEpoch(e)'] # None
    BY <1>1 DEF ClosedEraIsSettled
  <2>1. /\ Reservations(t) = {} /\ t # s
        /\ \A e \in DOMAIN epoch : SimOfEpoch(e) = t => ~Live(e) /\ settled[SessionOfEpoch(e)] # None
    BY <1>1, <1>2 DEF ClosedEraIsSettled
  <2>2. Reservations(t)' = {}
    BY <1>4, <1>7, <2>1 DEF Reservations
  <2> QED
    BY <1>1, <1>3, <1>9, <2>1, <2>2, NamesStay DEF Live
<1> QED
  BY <1>6, <1>10, <1>11, <1>12, <1>13, <1>14, <1>15 DEF IInv

LEMMA EndedFacts ==
    ASSUME TypeOK, NEW a \in DOMAIN auth, Ended(a), UNCHANGED <<act, starts, epoch, era>>
    PROVE  Grows /\ NoneBegins /\ NoneGranted
  BY EndedIs DEF Grows, NoneBegins, NoneGranted

LEMMA RevokeAuthorizationKeeps ==
    ASSUME IInv, NEW a \in DOMAIN auth, RevokeAuthorization(a)
    PROVE  IInv'
<1>1. /\ auth[a].state = "AUTHORIZED" /\ Ended(a)
      /\ UNCHANGED <<approved, sim, era, ledger, settled, mat, config, act, starts, epoch, evidence, call>>
  BY DEF RevokeAuthorization, Ended, financial, running
<1>2. /\ Typed /\ LedgerOK /\ GrantsOK /\ LastLive /\ CallsOK /\ ReservationsAreCovered
      /\ SettledIsFinal /\ ClosedEraIsSettled /\ MaterializedHasConfig
  BY DEF IInv
<1>3. TypeOK
  BY <1>2, WasTyped
<1>4. Grows /\ NoneBegins /\ NoneGranted
  BY <1>1, <1>3, EndedFacts
<1>5. /\ CallsOK' /\ LastLive' /\ MaterializedHasConfig' /\ SettledIsFinal'
      /\ ClosedEraIsSettled' /\ GrantsOK' /\ LedgerOK'
  BY <1>1, <1>2, <1>3, <1>4, CallsStay, LastLiveKept, ConfigKept, FinalKept, ClosedKept,
     GrantsKept, LedgerKept
<1>6. Typed'
  BY <1>1, <1>2, <1>3, <1>4, <1>5, EndedIs, WasTyped, TypedStep
<1>7. ReservationsAreCovered'
  <2> SUFFICES ASSUME NEW t \in Simulations
               PROVE  Reserved(t)' <= Balance(t)'
    BY DEF ReservationsAreCovered
  <2>1. Balance(t)' = Balance(t) /\ Reserved(t) <= Balance(t)
    BY <1>1, <1>2, SumsStay DEF ReservationsAreCovered
  <2>2. Reserved(t)' = IF t = auth[a].sim THEN Reserved(t) - auth[a].capital ELSE Reserved(t)
    BY <1>1, <1>3, ReservedFreed
  <2>3. Balance(t) \in Int /\ Reserved(t) \in Nat /\ auth[a].capital \in Nat
    BY <1>3, BalanceTyped, ReservedTyped, Named
  <2> QED
    BY <2>1, <2>2, <2>3
<1> QED
  BY <1>5, <1>6, <1>7 DEF IInv

-----------------------------------------------------------------------------
(* Settlements *)

\* A session cannot lose more than the capital it gives back.
LEMMA LossFits ==
    ASSUME TypeOK, ReservationsAreCovered, NEW e \in DOMAIN epoch, NEW ev \in Evidences,
           Eligible(e, ev)
    PROVE  LedgerAdmits(e, ev) /\ Delta(e, ev) \in Int
<1> DEFINE a == act[epoch[e].act].auth
           s == auth[a].sim
           k == auth[a].capital
<1>1. a \in DOMAIN auth /\ s \in Simulations /\ k \in Nat /\ ev.cash \in Nat
  BY Named DEF Evidences
<1>2. SimOfEpoch(e) = s /\ auth[a].state = "AUTHORIZED"
  BY DEF SimOfEpoch, Eligible
<1>3. a \in Reservations(s)
  BY <1>1, <1>2 DEF Reservations
<1>4. /\ Reserved(s) \in Nat /\ Balance(s) \in Int /\ Reserved(s) <= Balance(s) /\ k <= Reserved(s)
  BY <1>1, <1>3, ReservedTyped, BalanceTyped DEF ReservationsAreCovered
<1>5. Delta(e, ev) = ev.cash - k /\ ReservedBySettlement(e) = Reserved(s) - k
  BY <1>2 DEF Delta, ReservedBySettlement
<1> HIDE DEF a, s, k
<1>6. Balance(s) + (ev.cash - k) >= 0 /\ Balance(s) + (ev.cash - k) >= Reserved(s) - k
  BY <1>1, <1>4
<1> QED
  BY <1>1, <1>2, <1>5, <1>6 DEF LedgerAdmits, MovementAdmitted

\* What an eligible settlement finds of its session: an epoch that was asked
\* for before is overtaken, or it was there when the evidence was read, and
\* since the settled epoch came after it, it does not run.
LEMMA SettleFinds ==
    ASSUME IInv, NEW r, Settling(r), Eligible(r.epoch, r.read)
    PROVE  /\ r.epoch \in DOMAIN epoch /\ r.read \in Evidences
           /\ settled[SessionOfEpoch(r.epoch)] = None
           /\ \A f \in EpochsOf(SessionOfEpoch(r.epoch)) :
                Overtaken(f, r.epoch) \/ (~Live(f) /\ f \in r.epochs)
           /\ r.epochs \in SUBSET DOMAIN epoch
           /\ act[epoch[r.epoch].act].auth \in DOMAIN auth
           /\ auth[act[epoch[r.epoch].act].auth].state = "AUTHORIZED"
           /\ auth[act[epoch[r.epoch].act].auth].sim \in era
<1> DEFINE e == r.epoch
           x == SessionOfEpoch(e)
<1>1. /\ e \in DOMAIN epoch /\ r.read \in Evidences /\ epoch[e].state = "STOPPED"
      /\ r.epochs \in SUBSET DOMAIN epoch /\ \A f \in EpochsOf(x) : f <= e => f \in r.epochs
  BY DEF Settling
<1>2. /\ \A f \in EpochsOf(x) \ {e} : epoch[f].asked < epoch[e].asked
      /\ settled[x] = None /\ SimOfEpoch(e) \in era
      /\ auth[act[epoch[e].act].auth].state = "AUTHORIZED"
  BY DEF Eligible
<1>3. TypeOK /\ LastLive
  BY WasTyped DEF IInv
<1>4. ASSUME NEW f \in EpochsOf(x)
      PROVE  Overtaken(f, e) \/ (~Live(f) /\ f \in r.epochs)
  <2>1. f \in DOMAIN epoch /\ SessionOfEpoch(f) = x
    BY DEF EpochsOf
  <2>2. f \in Nat /\ e \in Nat
    BY <1>1, <1>3, <2>1, TypeFacts, Indices
  <2>3. ASSUME e < f PROVE Overtaken(f, e)
    BY <1>2, <2>2, <2>3 DEF Overtaken
  <2>4. ASSUME f <= e PROVE ~Live(f) /\ f \in r.epochs
    <3>1. f \in r.epochs
      BY <1>1, <2>4
    <3>2. ASSUME Live(f) PROVE FALSE
      <4>1. e <= f
        BY <1>1, <1>3, <2>1, <3>2 DEF LastLive
      <4>2. e = f
        BY <2>2, <2>4, <4>1
      <4> QED
        BY <1>1, <3>2, <4>2 DEF Live
    <3> QED
      BY <3>1, <3>2
  <2> QED
    BY <2>2, <2>3, <2>4
<1> QED
  BY <1>1, <1>2, <1>3, <1>4, Named DEF SimOfEpoch

LEMMA SettleKeeps ==
    ASSUME IInv, NEW c \in Clients, Settle(c)
    PROVE  IInv'
<1>1. PICK r : r = call[c] /\ CallOK(r)
  BY DEF IInv, CallsOK
<1>2. Settling(r)
  <2>1. r.at = "SETTLING"
    BY <1>1 DEF Settle
  <2> QED
    BY <1>1, <2>1 DEF CallOK, Preparing, Creating, Idle
<1>3. PICK e, ev, a, x, d, s : /\ e = r.epoch /\ ev = r.read /\ a = act[epoch[e].act].auth
                               /\ x = SessionOfEpoch(e) /\ d = Delta(e, ev) /\ s = auth[a].sim
  OBVIOUS
<1>4. /\ Eligible(e, ev) /\ LedgerAdmits(e, ev) /\ auth' = Consumed(a)
      /\ ledger' = IF d = 0 THEN ledger ELSE Posted(s, d, x)
      /\ settled' = [settled EXCEPT ![x] = [sim |-> s, auth |-> a, delta |-> d,
                                          epoch |-> e, epochs |-> r.epochs]]
      /\ SetCall(c, Idle)
      /\ UNCHANGED <<approved, sim, era, mat, config, act, starts, epoch, evidence>>
  BY <1>1, <1>3 DEF Settle, running
<1>5. /\ Typed /\ LedgerOK /\ GrantsOK /\ LastLive /\ CallsOK /\ ReservationsAreCovered
      /\ SettledIsFinal /\ ClosedEraIsSettled /\ MaterializedHasConfig /\ TypeOK
  BY WasTyped DEF IInv
<1>6. /\ e \in DOMAIN epoch /\ ev \in Evidences /\ settled[x] = None
      /\ \A f \in EpochsOf(x) : Overtaken(f, e) \/ (~Live(f) /\ f \in r.epochs)
      /\ r.epochs \in SUBSET DOMAIN epoch /\ a \in DOMAIN auth
      /\ auth[a].state = "AUTHORIZED" /\ s \in era
  BY <1>2, <1>3, <1>4, SettleFinds
<1>7. x \in Sessions /\ s \in Simulations /\ auth[a].capital \in Nat /\ x # None
  BY <1>3, <1>5, <1>6, Named, NoneAssumption
<1>8. d \in Int
  BY <1>3, <1>4, <1>5, <1>6, LossFits
<1>9. Ended(a)
  BY <1>4 DEF Consumed, Ended
<1>10. Grows /\ NoneBegins /\ NoneGranted
  BY <1>4, <1>5, <1>6, <1>9, EndedFacts
<1> DEFINE new == [sim |-> s, auth |-> a, delta |-> d, epoch |-> e, epochs |-> r.epochs]
<1>11. new \in Settlements /\ new # None
  <2>2. DOMAIN auth \subseteq Nat /\ DOMAIN epoch \subseteq Nat
    BY <1>5, TypeFacts, Indices
  <2>3. new \in Settlements
    BY <1>6, <1>8 DEF Settlements
  <2>4. new \in [sim : Simulations, auth : Nat, delta : Int, epoch : Nat, epochs : SUBSET Nat]
    BY <1>6, <1>7, <1>8, <2>2
  <2> QED
    BY <2>3, <2>4, NoneAssumption
<1>12. /\ new.auth = a /\ new.delta = d /\ new.sim = s
       /\ new.epoch = e /\ new.epochs = r.epochs
  OBVIOUS
<1>13. settled' = [settled EXCEPT ![x] = new]
  BY <1>4, <1>6
<1> HIDE DEF new
<1>14. /\ settled' \in [Sessions -> Settlements' \cup {None}]
       /\ \A y \in Sessions : settled'[y] = IF y = x THEN new ELSE settled[y]
  <2>1. settled' \in [Sessions -> Settlements \cup {None}]
    BY <1>5, <1>11, <1>13, WasTyped
  <2>2. Settlements \subseteq Settlements'
    BY <1>10 DEF Grows, Settlements
  <2>3. \A y \in Sessions : settled'[y] = IF y = x THEN new ELSE settled[y]
    BY <1>5, <1>13, WasTyped
  <2> QED
    BY <2>1, <2>2, <2>3
<1>15. d # 0 => [sim |-> s, amount |-> d, session |-> x] \in Movements
  BY <1>7, <1>8 DEF Movements
<1>16. PICK n : n = Len(ledger) + 1
  OBVIOUS
<1>17. d # 0 => /\ ledger' \in Seq(Movements) /\ DOMAIN ledger' = DOMAIN ledger \cup {n}
                /\ n \notin DOMAIN ledger
                /\ ledger'[n] = [sim |-> s, amount |-> d, session |-> x]
                /\ \A i \in DOMAIN ledger : ledger'[i] = ledger[i]
  BY <1>4, <1>5, <1>15, <1>16, WasTyped, AppendIs DEF Posted
<1>18. CallsOK' /\ DOMAIN call' = Clients /\ LastLive' /\ MaterializedHasConfig' /\ GrantsOK'
  BY <1>4, <1>5, <1>10, WasTyped, IdleCall, CallsStep, LastLiveKept, ConfigKept, GrantsKept
<1>19. ClosedEraIsSettled'
  <2>1. \A y \in Sessions : settled[y] # None => settled'[y] # None
    BY <1>11, <1>14
  <2> QED
    BY <1>4, <1>5, <1>10, <2>1, ClosedKept
<1>20. Typed'
  <2>1. auth' \in Seq(Authorizations) /\ DOMAIN auth' = DOMAIN auth
    BY <1>5, <1>6, <1>9, EndedIs
  <2>2. UNCHANGED ledger \/ ledger' \in Seq(Movements)
    BY <1>4, <1>17
  <2> QED
    BY <1>4, <1>5, <1>10, <1>14, <1>18, <2>1, <2>2, WasTyped, TypedStep
<1>21. LedgerOK'
  <2>1. \A i \in DOMAIN ledger : /\ sim[ledger[i].sim] # "ABSENT"
                                 /\ ledger[i].session # None => settled[ledger[i].session] # None
    BY <1>5 DEF LedgerOK
  <2>2. \A i \in DOMAIN ledger : ledger[i].session # None => ledger[i].session \in Sessions
    BY <1>5, TypeFacts DEF Movements
  <2>3. \A y \in Sessions : settled[y] # None => settled'[y] # None
    BY <1>11, <1>14
  <2>4. settled'[x] # None /\ sim[s] # "ABSENT"
    BY <1>3, <1>5, <1>6, <1>7, <1>11, <1>14 DEF GrantsOK
  <2>5. CASE d = 0
    BY <1>4, <2>1, <2>2, <2>3, <2>5 DEF LedgerOK
  <2>6. CASE d # 0
    BY <1>4, <1>17, <2>1, <2>2, <2>3, <2>4, <2>6 DEF LedgerOK
  <2> QED
    BY <2>5, <2>6
<1>22. ReservationsAreCovered'
  <2> SUFFICES ASSUME NEW t \in Simulations
               PROVE  Reserved(t)' <= Balance(t)'
    BY DEF ReservationsAreCovered
  <2>1. Reserved(t)' = IF t = s THEN Reserved(t) - auth[a].capital ELSE Reserved(t)
    BY <1>3, <1>5, <1>6, <1>9, ReservedFreed
  <2>2. /\ Balance(t) \in Int /\ Reserved(t) \in Nat /\ Reserved(t) <= Balance(t)
    BY <1>5, BalanceTyped, ReservedTyped DEF ReservationsAreCovered
  <2>3. CASE d = 0
    <3>1. Balance(t)' = Balance(t)
      BY <1>4, <2>3, SumsStay
    <3> QED
      BY <1>7, <2>1, <2>2, <3>1
  <2>4. CASE d # 0
    <3>1. Balance(t)' = IF t = s THEN Balance(t) + d ELSE Balance(t)
      BY <1>4, <1>5, <1>7, <1>8, <2>4, BalancePosted
    <3>2. SimOfEpoch(e) = s /\ ReservedBySettlement(e) = Reserved(s) - auth[a].capital
      BY <1>3 DEF SimOfEpoch, ReservedBySettlement
    <3>3. Balance(s) + d >= Reserved(s) - auth[a].capital
      BY <1>3, <1>4, <2>4, <3>2 DEF LedgerAdmits, MovementAdmitted
    <3> QED
      BY <1>7, <1>8, <2>1, <2>2, <3>1, <3>3
  <2> QED
    BY <2>3, <2>4
<1>23. SettledIsFinal'
  <2> DEFINE Own(y) == {i \in DOMAIN ledger : ledger[i].session = y}
             OwnNew(y) == {i \in DOMAIN ledger' : ledger'[i].session = y}
  <2> SUFFICES ASSUME NEW y \in Sessions, settled'[y] # None
               PROVE  /\ AreOver(y)' /\ auth'[settled'[y].auth].state = "REVOKED"
                      /\ IF settled'[y].delta = 0 THEN OwnNew(y) = {}
                         ELSE \E i \in OwnNew(y) :
                                OwnNew(y) = {i} /\ ledger'[i].amount = settled'[y].delta
                                                /\ ledger'[i].sim = settled'[y].sim
    BY DEF SettledIsFinal
  <2>1. EpochsOf(y)' = EpochsOf(y) /\ \A f : Live(f)' = Live(f)
    BY <1>4, <1>5, <1>10, EpochsStay DEF Live
  <2>2. CASE y = x
    <3>1. Own(x) = {}
      BY <1>5, <1>6, <1>7 DEF LedgerOK
    <3>2. auth'[a].state = "REVOKED"
      BY <1>5, <1>6, <1>9, EndedIs
    <3>3. d = 0 => OwnNew(x) = {}
      BY <1>4, <3>1
    <3>4. d # 0 => OwnNew(x) = {n} /\ ledger'[n].amount = d /\ ledger'[n].sim = s
      BY <1>17, <3>1
    <3>5. AreOver(x)'
      <4>1. settled'[x].epoch = e /\ settled'[x].epochs = r.epochs
        BY <1>7, <1>12, <1>14
      <4>2. \A f : Overtaken(f, e)' = Overtaken(f, e)
        BY <1>4 DEF Overtaken
      <4>3. \A f \in EpochsOf(x)' : Overtaken(f, e)' \/ (~Live(f)' /\ f \in r.epochs)
        BY <1>6, <2>1, <2>2, <4>2
      <4> QED
        BY <4>1, <4>3 DEF AreOver, Overtaken
    <3> HIDE DEF OwnNew
    <3> QED
      BY <1>12, <1>14, <2>2, <3>2, <3>3, <3>4, <3>5
  <2>3. CASE y # x
    <3>1. settled'[y] = settled[y] /\ settled[y] # None
      BY <1>14, <2>3
    <3>2. /\ AreOver(y) /\ auth[settled[y].auth].state = "REVOKED"
          /\ IF settled[y].delta = 0 THEN Own(y) = {}
             ELSE \E i \in Own(y) : Own(y) = {i} /\ ledger[i].amount = settled[y].delta
                                              /\ ledger[i].sim = settled[y].sim
      BY <1>5, <3>1 DEF SettledIsFinal
    <3>3. auth'[settled[y].auth].state = "REVOKED"
      <4>1. settled[y].auth \in DOMAIN auth
        BY <1>5, <3>1 DEF TypeOK, Settlements
      <4> QED
        BY <1>10, <3>2, <4>1 DEF NoneGranted
    <3>4. OwnNew(y) = Own(y) /\ \A i \in Own(y) : ledger'[i] = ledger[i]
      BY <1>4, <1>17, <2>3
    <3>6. AreOver(y)'
      BY <1>5, <1>10, <2>1, <3>1, <3>2, OverKept
    <3> HIDE DEF Own, OwnNew
    <3>5. IF settled[y].delta = 0 THEN OwnNew(y) = {}
          ELSE \E i \in OwnNew(y) : OwnNew(y) = {i} /\ ledger'[i].amount = settled[y].delta
                                                /\ ledger'[i].sim = settled[y].sim
      BY <3>2, <3>4
    <3> QED
      BY <3>1, <3>3, <3>5, <3>6
  <2> QED
    BY <2>2, <2>3
<1> QED
  BY <1>18, <1>19, <1>20, <1>21, <1>22, <1>23 DEF IInv

-----------------------------------------------------------------------------
(* The theorems *)

LEMMA InitOK ==
    ASSUME Init
    PROVE  IInv
<1>1. /\ approved = SessionProfiles /\ sim = [s \in Simulations |-> "ABSENT"]
      /\ era = {} /\ ledger = <<>> /\ auth = <<>> /\ mat = <<>> /\ config = {}
      /\ act = <<>> /\ starts = <<>> /\ epoch = <<>> /\ evidence = [x \in Sessions |-> None]
      /\ settled = [x \in Sessions |-> None] /\ call = [c \in Clients |-> Idle]
  BY DEF Init
<1>2. DOMAIN ledger = {} /\ DOMAIN auth = {} /\ DOMAIN mat = {} /\ DOMAIN act = {} /\ DOMAIN epoch = {}
  BY <1>1
<1>3. \A c \in Clients : call[c].at = "IDLE"
  BY <1>1 DEF Idle
<1>4. /\ ledger \in Seq(Movements) /\ auth \in Seq(Authorizations)
      /\ mat \in Seq(Materializations) /\ act \in Seq(Activations)
      /\ starts \in Seq(DOMAIN act) /\ epoch \in Seq(Epochs)
  BY <1>1
<1>5. Typed
  BY <1>1, <1>2, <1>3, <1>4 DEF Typed, TypeOK
<1>6. LedgerOK /\ GrantsOK /\ LastLive /\ MaterializedHasConfig
  BY <1>2 DEF LedgerOK, GrantsOK, LastLive, MaterializedHasConfig
<1>7. CallsOK
  BY <1>1 DEF CallsOK, CallOK
<1>8. ReservationsAreCovered
  <2>1. \A s : MovementsOf(s) = {} /\ Reservations(s) = {}
    BY <1>2 DEF MovementsOf, Reservations
  <2> QED
    BY <2>1, SumsAre, SumEmpty DEF ReservationsAreCovered
<1>9. SettledIsFinal /\ ClosedEraIsSettled
  BY <1>1 DEF SettledIsFinal, ClosedEraIsSettled
<1> QED
  BY <1>5, <1>6, <1>7, <1>8, <1>9 DEF IInv

LEMMA StutterOK ==
    ASSUME IInv, UNCHANGED vars
    PROVE  IInv'
<1>1. UNCHANGED <<approved, sim, era, ledger, auth, mat, config, act, starts, epoch, evidence, settled, call>>
  BY DEF vars
<1>2. Grows /\ NoneBegins
  BY <1>1, NothingNew
<1> QED
  BY <1>1, <1>2, WasTyped, ActKeeps DEF IInv

LEMMA NextOK ==
    ASSUME IInv, Next
    PROVE  IInv'
<1>1. CASE Money
  <2>1. \A m \in Amounts : m \in Int /\ -m \in Int
    BY AmountsAssumption
  <2> QED
    BY <1>1, <2>1, CreateSimulationKeeps, TransitionKeeps, DesignateKeeps, CreateMovementKeeps
       DEF Money
<1>2. CASE Grants
  BY <1>2, ArchiveDocumentsKeeps, AuthorizeKeeps, RevokeAuthorizationKeeps DEF Grants
<1>3. CASE Uses
  BY <1>3, ActivateKeeps, RevokeActivationKeeps, RequestStartKeeps, StartKeeps DEF Uses
<1>4. CASE Calls
  BY <1>4, PrepareKeeps, CreateConfigKeeps, MarkMaterializedKeeps, ReadEvidenceKeeps, SettleKeeps,
     AbandonKeeps DEF Calls
<1>5. CASE Runs
  BY <1>5, EndEpochKeeps, RunCycleKeeps DEF Runs
<1> QED
  BY <1>1, <1>2, <1>3, <1>4, <1>5 DEF Next

LEMMA Covered ==
    ASSUME IInv
    PROVE  CapitalIsCovered
<1>1. ASSUME NEW c \in Clients, call[c].at = "SETTLING", Eligible(call[c].epoch, call[c].read)
      PROVE  LedgerAdmits(call[c].epoch, call[c].read)
  <2>1. PICK r : r = call[c] /\ CallOK(r)
    BY DEF IInv, CallsOK
  <2>2. r.epoch \in DOMAIN epoch /\ r.read \in Evidences
    BY <1>1, <2>1 DEF CallOK, Preparing, Creating, Settling, Idle
  <2> QED
    BY <1>1, <2>1, <2>2, WasTyped, LossFits DEF IInv
<1> QED
  BY <1>1, WasTyped DEF CapitalIsCovered, SettlementsFit, IInv

LEMMA Invariance == Spec => []IInv
<1>1. IInv /\ [Next]_vars => IInv'
  BY NextOK, StutterOK
<1> QED
  BY <1>1, InitOK, PTL DEF Spec

\* The balance of a simulation covers what its authorizations reserve, so money
\* one session may spend is never promised to another or taken out; the trigger
\* of the ledger admits every settlement that is eligible; and a materialization
\* marked MATERIALIZED has its configuration on disk, whatever call was
\* interrupted between the row and the file.
THEOREM CapitalAlwaysCovered == Spec => []CapitalIsCovered
  BY Covered, Invariance, PTL

\* A settled session is over: the settled authorization is revoked, the ledger
\* has its result exactly once, and none of its epochs runs or is missing from
\* the evidence, though that was read in an earlier step; only a START that
\* waited while the settled epoch was asked for and inserted may still run.
THEOREM SettledAlwaysFinal == Spec => []SettledIsFinal
<1>1. IInv => SettledIsFinal
  BY DEF IInv
<1> QED
  BY <1>1, Invariance, PTL

\* An official era ends with nothing open: no reservation, no epoch that runs
\* and no session without its settlement, and nothing opens after it.
THEOREM ClosedEraAlwaysSettled == Spec => []ClosedEraIsSettled
<1>1. IInv => ClosedEraIsSettled
  BY DEF IInv
<1> QED
  BY <1>1, Invariance, PTL
=============================================================================
