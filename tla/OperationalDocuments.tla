------------------------- MODULE OperationalDocuments -------------------------
(***************************************************************************)
(* Operational mandates and paper-session profiles: documents that         *)
(* administrators draft, approve and archive over HTTP, each change under   *)
(* the revision, checksum and record version its author has read.          *)
(*                                                                         *)
(* Both kinds have one state machine (domain.py of each), and each call of *)
(* their repositories is one transaction that holds the document's row. A  *)
(* profile binds one approved mandate revision, one of its instruments and *)
(* one revision of a strategy definition; to create, to replace and to     *)
(* approve it the transaction also holds those rows (FOR SHARE).           *)
(*                                                                         *)
(* Replies get lost, and a client that saw none repeats its call.          *)
(***************************************************************************)
EXTENDS Naturals, Sequences

CONSTANTS
    Mandates, Profiles,     \* the ids uuid4 will draw
    Actors,                 \* administrators
    Keys,                   \* idempotency keys of create calls
    Instruments,            \* what a mandate may allow to trade
    Selections,             \* bound: the sets of instruments mandates are drafted with
    MaxRevisions,           \* bound: revisions of a document and of the strategy
    Nobody                  \* approved_by, archived_by are null

ASSUME DocumentsAssumption == Mandates \cap Profiles = {} /\ Nobody \notin Actors \cup Mandates \cup Profiles
                              /\ Selections \subseteq SUBSET Instruments \ {{}}
ASSUME RevisionsAssumption == MaxRevisions \in Nat \ {0}

VARIABLES
    doc,        \* doc[d]: the aggregate of document d and its revisions
    strategy,   \* the strategy definition profiles are made from
    seen        \* seen[a]: the document administrator a has on the screen

documentVars == <<doc, strategy, seen>>
Documents == Mandates \cup Profiles

-----------------------------------------------------------------------------
MandateSpecs == [instruments : Selections]
\* What a profile's specification says about the documents it rests on.
ProfileSpecs == [mandate    : Mandates,
                 revision   : 1..MaxRevisions,     \* mandate_binding
                 instrument : Instruments,         \* selected_instrument
                 strategy   : 1..MaxRevisions]     \* source_revision
Unread == [instruments |-> {}]
Specs == MandateSpecs \cup ProfileSpecs \cup {Unread}

States == {"DRAFT", "APPROVED", "ARCHIVED"}
TransitionAllowed(s, t) == t \in [DRAFT    |-> {"APPROVED", "ARCHIVED"},
                                  APPROVED |-> {"ARCHIVED"}, ARCHIVED |-> {}][s]

\* A revision, and what its author had read of the one before.
MandateRevision == [spec : MandateSpecs, after : MandateSpecs \cup {Unread}]
ProfileRevision == [spec : ProfileSpecs, after : ProfileSpecs \cup {Unread}]

Absent == [state |-> "ABSENT", revs |-> <<>>, version |-> 0, approved |-> 0,
           approvedBy |-> Nobody, archivedBy |-> Nobody, key |-> <<>>]
Drafted(a, k, s) == [Absent EXCEPT !.state = "DRAFT", !.version = 1, !.key = <<a, k>>,
                                   !.revs = <<[spec |-> s, after |-> Unread]>>]
CurrentSpec(d) == doc[d].revs[Len(doc[d].revs)].spec
Fingerprint(d) == doc[d].revs[1].spec      \* create_request_fingerprint

\* The dataclasses' own checks, the same for both kinds.
WellFormed(r, RevisionSet) ==
    \/ r = Absent
    \/ /\ r.state \in States
       /\ r.revs \in Seq(RevisionSet) /\ Len(r.revs) \in 1..MaxRevisions
       /\ r.version >= Len(r.revs)
       /\ r.approved \in {0, Len(r.revs)}
       /\ r.approved = 0 <=> r.approvedBy = Nobody
       /\ r.state = "DRAFT" => r.approved = 0 /\ r.archivedBy = Nobody
       /\ r.state = "APPROVED" => r.approved # 0 /\ r.archivedBy = Nobody
       /\ r.state = "ARCHIVED" => r.archivedBy # Nobody
MandateOK(m) == WellFormed(doc[m], MandateRevision)
ProfileOK(p) == WellFormed(doc[p], ProfileRevision)

-----------------------------------------------------------------------------
(* What an administrator has read *)

Blank == [doc |-> Nobody, rev |-> 0, version |-> 0, spec |-> Unread, did |-> "READ"]
\* The pair of aggregate and current revision every call returns.
CurrentPair(d, did) == [doc |-> d, rev |-> Len(doc[d].revs), version |-> doc[d].version,
                        spec |-> CurrentSpec(d), did |-> did]

\* A list page: the aggregates in one statement, their revisions in the next.
ListHeads(a, d) ==
    /\ doc[d].state # "ABSENT"
    /\ seen' = [seen EXCEPT ![a] = [CurrentPair(d, "LIST") EXCEPT !.spec = Unread]]
    /\ UNCHANGED <<doc, strategy>>
LoadRevisions(a) ==
    /\ seen[a].did = "LIST"
    /\ seen' = [seen EXCEPT ![a].spec = doc[seen[a].doc].revs[seen[a].rev].spec, ![a].did = "READ"]
    /\ UNCHANGED <<doc, strategy>>

Reads(a, d) == seen[a].doc = d /\ seen[a].did # "LIST"
\* The reply arrives, or gets lost and leaves the screen as it was.
Reply(a, d, did) ==
    \/ UNCHANGED seen
    \/ seen' = [seen EXCEPT ![a] = [doc |-> d, rev |-> Len(doc[d].revs)', did |-> did,
                        version |-> doc[d].version', spec |-> CurrentSpec(d)']]

-----------------------------------------------------------------------------
(* The rows a profile rests on *)

ValidMandate(s) == /\ doc[s.mandate].state = "APPROVED"
                   /\ doc[s.mandate].approved = s.revision
                   /\ s.instrument \in CurrentSpec(s.mandate).instruments
LockedStrategy(s) == ~strategy.archived /\ strategy.revision = s.strategy
\* (mutant) the mandate is looked at when a profile is drafted, not again.
MayBecomeApproved_StaleMandate(s) == LockedStrategy(s)
MayBecomeApproved(s) == ValidMandate(s) /\ LockedStrategy(s)

-----------------------------------------------------------------------------
(* Calls of either kind *)

SameKey(a, k, Kind) == {d \in Kind : doc[d].key = <<a, k>>}

\* Two calls with one key may both find no document: the unique constraint
\* refuses the second insert, which then replays like a later call.
Create(a, k, s, Kind) ==
    /\ \/ /\ SameKey(a, k, Kind) = {}
          /\ \E d \in Kind : /\ doc[d] = Absent
                             /\ doc' = [doc EXCEPT ![d] = Drafted(a, k, s)]
                             /\ Reply(a, d, "READ")
       \/ \E d \in SameKey(a, k, Kind) : /\ Fingerprint(d) = s
                                         /\ UNCHANGED doc
                                         /\ Reply(a, d, "READ")
    /\ UNCHANGED strategy

\* expected_revision and expected_record_version are those of the document.
\* (mutant) they are not compared.
Expected_Any(a, d) == Reads(a, d)
Expected(a, d) == /\ Reads(a, d)
                  /\ seen[a].rev = Len(doc[d].revs)
                  /\ seen[a].version = doc[d].version

Editable(d) == doc[d].state = "DRAFT"
\* An equal specification changes nothing.
Replace(a, d, s) ==
    /\ Expected(a, d) /\ Editable(d)
    /\ IF s = CurrentSpec(d)
       THEN UNCHANGED doc
       ELSE /\ Len(doc[d].revs) < MaxRevisions
            /\ doc' = [doc EXCEPT ![d].revs = Append(@, [spec |-> s, after |-> seen[a].spec]),
                                  ![d].version = @ + 1]
    /\ Reply(a, d, "READ")
    /\ UNCHANGED strategy

Approve(a, d) ==
    /\ Expected(a, d) /\ TransitionAllowed(doc[d].state, "APPROVED")
    /\ seen[a].spec = CurrentSpec(d)                      \* expected_checksum
    /\ doc' = [doc EXCEPT ![d].state = "APPROVED", ![d].version = @ + 1,
                          ![d].approved = Len(doc[d].revs), ![d].approvedBy = a]
    /\ Reply(a, d, "APPROVED")
    /\ UNCHANGED strategy

\* The same approval again, by the same administrator.
\* (mutant) by any administrator who read the same draft.
ApproveReplay_AnyActor(a, d) ==
    /\ Reads(a, d) /\ doc[d].state = "APPROVED"
    /\ doc[d].approved = seen[a].rev
    /\ seen[a].spec = CurrentSpec(d) /\ doc[d].version = seen[a].version + 1
    /\ UNCHANGED <<doc, strategy>> /\ Reply(a, d, "APPROVED")
ApproveReplay(a, d) ==
    /\ Reads(a, d) /\ doc[d].state = "APPROVED"
    /\ doc[d].approved = seen[a].rev /\ doc[d].approvedBy = a
    /\ seen[a].spec = CurrentSpec(d) /\ doc[d].version = seen[a].version + 1
    /\ UNCHANGED <<doc, strategy>> /\ Reply(a, d, "APPROVED")

\* Only the record version is expected of an archive call. Nothing looks at
\* the profiles that rest on a mandate, nor at the sessions of a profile.
Archive(a, d) ==
    /\ Reads(a, d) /\ seen[a].version = doc[d].version
    /\ TransitionAllowed(doc[d].state, "ARCHIVED")
    /\ doc' = [doc EXCEPT ![d].state = "ARCHIVED", ![d].version = @ + 1, ![d].archivedBy = a]
    /\ Reply(a, d, "READ")
    /\ UNCHANGED strategy
ArchiveReplay(a, d) ==
    /\ Reads(a, d) /\ doc[d].state = "ARCHIVED" /\ doc[d].archivedBy = a
    /\ doc[d].version = seen[a].version + 1
    /\ UNCHANGED <<doc, strategy>> /\ Reply(a, d, "READ")

-----------------------------------------------------------------------------
(* The two repositories *)

CreateMandate(a, k, s) == Create(a, k, s, Mandates)
ReplaceMandate(a, m, s) == Replace(a, m, s)
ApproveMandate(a, m) == Approve(a, m)
ArchiveMandate(a, m) == Archive(a, m) \/ ArchiveReplay(a, m)

\* A replay is answered before the mandate and the strategy are looked at.
CreateProfile(a, k, s) == /\ SameKey(a, k, Profiles) # {} \/ MayBecomeApproved(s)
                          /\ Create(a, k, s, Profiles)
ReplaceProfile(a, p, s) == /\ Expected(a, p)
                           /\ MayBecomeApproved(s) \/ s = CurrentSpec(p)
                           /\ Replace(a, p, s)
ApproveProfile(a, p) == /\ Expected(a, p)
                        /\ MayBecomeApproved(CurrentSpec(p))
                        /\ Approve(a, p)
ArchiveProfile(a, p) == Archive(a, p) \/ ArchiveReplay(a, p)

ReplaceStrategy == /\ ~strategy.archived /\ strategy.revision < MaxRevisions
                   /\ strategy' = [strategy EXCEPT !.revision = @ + 1]
                   /\ UNCHANGED <<doc, seen>>
\* The revision an archived definition takes with it is never read again.
ArchiveStrategy == /\ ~strategy.archived
                   /\ strategy' = [strategy EXCEPT !.archived = TRUE]
                   /\ UNCHANGED <<doc, seen>>

DocumentsInit == /\ doc = [d \in Documents |-> Absent]
                 /\ strategy = [revision |-> 1, archived |-> FALSE]
                 /\ seen = [a \in Actors |-> Blank]

MandateCall(a) ==
    \/ \E k \in Keys, s \in MandateSpecs : CreateMandate(a, k, s)
    \/ \E m \in Mandates : \/ ListHeads(a, m)
                           \/ \E s \in MandateSpecs : ReplaceMandate(a, m, s)
                           \/ ApproveMandate(a, m) \/ ApproveReplay(a, m)
                           \/ ArchiveMandate(a, m)
ProfileCall(a) ==
    \/ \E k \in Keys, s \in ProfileSpecs : CreateProfile(a, k, s)
    \/ \E p \in Profiles : \/ ListHeads(a, p)
                           \/ \E s \in ProfileSpecs : ReplaceProfile(a, p, s)
                           \/ ApproveProfile(a, p) \/ ApproveReplay(a, p)
                           \/ ArchiveProfile(a, p)

DocumentsNext == \/ \E a \in Actors : MandateCall(a) \/ ProfileCall(a) \/ LoadRevisions(a)
                 \/ ReplaceStrategy \/ ArchiveStrategy

DocumentsSpec == DocumentsInit /\ [][DocumentsNext]_documentVars

-----------------------------------------------------------------------------
(* Properties *)

DocumentsTyped == /\ \A m \in Mandates : MandateOK(m)
                  /\ \A p \in Profiles : ProfileOK(p)
                  /\ strategy \in [revision : 1..MaxRevisions, archived : BOOLEAN]
                  /\ seen \in [Actors -> [doc : Documents \cup {Nobody}, rev : Nat, version : Nat,
                        spec : Specs,
                        did : {"LIST", "READ", "APPROVED"}]]

\* No edit is lost: whoever wrote a revision had read the one it replaced.
EditsBuildOnReads ==
    \A d \in Documents : \A i \in 2..Len(doc[d].revs) :
        doc[d].revs[i].after = doc[d].revs[i - 1].spec

\* Revisions, states and approvals fit, as the constraints of the tables and the
\* domain's constructors want them, and each revision rests on the one before.
HistoryIsSound == DocumentsTyped /\ EditsBuildOnReads

\* An administrator who is told that its approval succeeded did approve the
\* document, and what it approved is what it had read.
ApprovalIsOwn ==
    \A a \in Actors : seen[a].did = "APPROVED" =>
        LET d == doc[seen[a].doc]
        IN d.approvedBy = a /\ d.revs[d.approved].spec = seen[a].spec

\* An approved profile rests on a mandate revision that was approved and
\* allows its instrument, whatever was archived or edited in between.
ProfilesRestOnMandates ==
    \A p \in Profiles : doc[p].approved # 0 =>
        LET s == CurrentSpec(p)
        IN /\ doc[s.mandate].approved = s.revision
           /\ s.instrument \in CurrentSpec(s.mandate).instruments

===============================================================================
