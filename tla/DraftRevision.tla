---------------------------- MODULE DraftRevision ----------------------------
(***************************************************************************)
(* One revision of a project (apiome-rest/src/app/database.py): its draft  *)
(* lock (draft_lock_routes.py, version_draft_lock), the canvas edits and   *)
(* reviewed source changes made to it while it is a draft                  *)
(* (classes_routes.py, source_review_routes.py), and its publication       *)
(* (versions_routes.py).                                                   *)
(*                                                                         *)
(* Each replica serves one request at a time over its own connection.  A   *)
(* request is split where its transaction is: reading the database clock   *)
(* goes through execute_query, which commits, so a lock call judges the    *)
(* lock row in one transaction and writes it in another; publishing reads  *)
(* the classes through execute_query too, so the version is published in   *)
(* one transaction and its schemas and inbox rows are written in another.  *)
(* Only a source apply holds the version row from its first read to its    *)
(* commit.  Of all row locks that one alone is modelled, so nothing is     *)
(* said of requests that wait for each other's rows.                       *)
(***************************************************************************)
EXTENDS Naturals, Sequences

CONSTANTS
    Replica,     \* processes of the service
    User,        \* editors of the revision
    NoUser,
    Content,     \* what a revision's document may say, up to its fingerprint
    NoContent,
    MaxEdits,    \* bound: canvas edits
    MaxApplies,  \* bound: source changes applied
    MaxFaults    \* bound: requests that die half way

ASSUME DraftAssumption ==
    /\ NoUser \notin User
    /\ NoContent \notin Content
    /\ MaxEdits \in Nat
    /\ MaxFaults \in Nat

VARIABLES
    version,     \* the revision: its row, its document, its captured schemas
    lock,        \* its row in version_draft_lock
    lease,       \* user -> has the lease last granted to this user time left
    call,        \* replica -> the request it is serving
    audit,       \* source_change_audit, with what each apply replaced
    overlapped,  \* history: a lock call wrote a row that had changed since it judged it
    bounds       \* what is spent of MaxEdits and MaxFaults

draftVars == <<version, lock, lease, call, audit, overlapped, bounds>>

\* schema: what the schemas captured for its present classes say (class_schema).
\* announced: this publication's inbox rows are written.  bypassed (history): since a
\* publication last began alone, a canvas edit came to the published revision or between the
\* halves of a publication, or a publication died there.
Version == [published : BOOLEAN, doc : Content, schema : Content \union {NoContent},
            announced : BOOLEAN, bypassed : BOOLEAN]

\* live: expires_at is in the future.  by: whose request set it.
LockRow == [owner : User \union {NoUser}, live : BOOLEAN, by : User \union {NoUser}]

Applied == [base : Content, result : Content, over : Content, edited : BOOLEAN]

\* A request in two transactions, between them.  seen: the lock row it judged; base, result:
\* the document it read and will write, or publish; applies: how often the classes it read had
\* been replaced; edited (history): a canvas edit came after the read; waiting (history): the
\* users of lock calls half way when it began.
Call == [pc : {"idle", "acquiring", "renewing", "applying", "publishing", "capturing"},
         user : User \union {NoUser},
         seen : LockRow,
         base : Content \union {NoContent},
         result : Content \union {NoContent},
         applies : Nat,
         edited : BOOLEAN,
         waiting : SUBSET User]

Unlocked     == [owner |-> NoUser, live |-> FALSE, by |-> NoUser]
LockedBy(u)  == [owner |-> u, live |-> TRUE, by |-> u]
Idle == [pc |-> "idle", user |-> NoUser, seen |-> Unlocked, base |-> NoContent,
         result |-> NoContent, applies |-> 0, edited |-> FALSE, waiting |-> {}]

DraftTypeOK ==
    /\ version \in Version
    /\ lock \in LockRow
    /\ lock.live => lock.owner # NoUser
    /\ lease \in [User -> BOOLEAN]
    /\ call \in [Replica -> Call]
    /\ audit \in Seq(Applied)
    /\ overlapped \in BOOLEAN
    /\ bounds \in [edits : 0..MaxEdits, faults : 0..MaxFaults]

DraftInit ==
    /\ \E c \in Content :
         version = [published |-> FALSE, doc |-> c, schema |-> NoContent,
                    announced |-> FALSE, bypassed |-> FALSE]
    /\ lock = Unlocked
    /\ lease = [u \in User |-> FALSE]
    /\ call = [p \in Replica |-> Idle]
    /\ audit = <<>>
    /\ overlapped = FALSE
    /\ bounds = [edits |-> 0, faults |-> 0]

\* Mutant of VersionRowFree: nobody locks the row.
NobodyLocks(p) == p \in Replica

\* No other transaction holds the version row FOR UPDATE when p needs it.
VersionRowFree(p) == \A q \in Replica \ {p} : call[q].pc # "applying"

Free(p) == call[p].pc = "idle"
Returns(p) == call' = [call EXCEPT ![p] = Idle]

\* A publication is half way.
Capturing == \E q \in Replica : call[q].pc = "capturing"

Spent(kind) == bounds' = [bounds EXCEPT ![kind] = @ + 1]

-----------------------------------------------------------------------------
(* The draft lock *)

\* Mutant of Verdict: whether the lock of another user has run out is not asked.
VerdictWithoutClock(u, row) == IF row.owner = u THEN "extend" ELSE "take over"

\* What acquiring makes of the row it judges.
Verdict(u, row) ==
    CASE ~ row.live -> "take over"
      [] row.live /\ row.owner = u -> "extend"
      [] row.live /\ row.owner # u -> "conflict"

Grant(u) == lock' = LockedBy(u) /\ lease' = [lease EXCEPT ![u] = TRUE]

\* acquire_version_draft_lock: without a row the lock is granted in one transaction;
\* otherwise the row is judged, and the transaction ends with the look at the clock.
\* A conflict writes nothing.
AcquireBegin(p, u) ==
    /\ Free(p)
    /\ VersionRowFree(p)
    /\ ~ version.published
    /\ IF lock.owner = NoUser
       THEN Grant(u) /\ UNCHANGED call
       ELSE /\ Verdict(u, lock) # "conflict"
            /\ call' = [call EXCEPT ![p] = [Idle EXCEPT !.pc = "acquiring", !.user = u,
                                                        !.seen = lock]]
            /\ UNCHANGED <<lock, lease>>
    /\ UNCHANGED <<version, audit, overlapped, bounds>>

\* ... and then written, whoever holds it by now: taken over if it had run out, and extended
\* if it was the caller's own.  A row that is gone makes the call fail.
AcquireEnd(p) ==
    LET me   == call[p]
        mine == Verdict(me.user, me.seen) = "take over" \/ lock.owner = me.user IN
    /\ me.pc = "acquiring"
    /\ \/ lock.owner = NoUser /\ UNCHANGED <<lock, lease>>
       \/ lock.owner # NoUser /\ mine /\ Grant(me.user)
       \/ /\ lock.owner # NoUser
          /\ ~ mine
          /\ lock' = [lock EXCEPT !.live = TRUE, !.by = me.user]
          /\ UNCHANGED lease
    /\ Returns(p)
    /\ overlapped' = (overlapped \/ lock # me.seen)
    /\ UNCHANGED <<version, audit, bounds>>

\* renew_version_draft_lock: judges the row in the same way ...
RenewBegin(p, u) ==
    /\ Free(p)
    /\ VersionRowFree(p)
    /\ ~ version.published
    /\ lock.live
    /\ lock.owner = u
    /\ call' = [call EXCEPT ![p] = [Idle EXCEPT !.pc = "renewing", !.user = u, !.seen = lock]]
    /\ UNCHANGED <<version, lock, lease, audit, overlapped, bounds>>

\* ... but writes it only if it is still the caller's, even if it has run out meanwhile.
RenewEnd(p) ==
    LET me == call[p] IN
    /\ me.pc = "renewing"
    /\ IF lock.owner = me.user THEN Grant(me.user) ELSE UNCHANGED <<lock, lease>>
    /\ Returns(p)
    /\ overlapped' = (overlapped \/ lock # me.seen)
    /\ UNCHANGED <<version, audit, bounds>>

Deleted == Unlocked

\* release_version_draft_lock, and the administrator's force_release_version_draft_lock,
\* which ends the lease of whoever holds it.
Release(p) ==
    /\ Free(p)
    /\ VersionRowFree(p)
    /\ lock.owner # NoUser
    /\ lock' = Deleted
    /\ lease' = [lease EXCEPT ![lock.owner] = FALSE]
    /\ UNCHANGED <<version, call, audit, overlapped, bounds>>

\* Time: the lease a user was told of runs out, and the row with it if it was that user's
\* request that set it.
RunsOut(u) ==
    /\ lease[u]
    /\ lease' = [lease EXCEPT ![u] = FALSE]
    /\ lock' = IF lock.owner = u /\ lock.by = u THEN [lock EXCEPT !.live = FALSE] ELSE lock
    /\ UNCHANGED <<version, call, audit, overlapped, bounds>>

\* A row that somebody else extended, or cut short, runs out on its own.
RowRunsOut ==
    /\ lock.live
    /\ lock.by # lock.owner
    /\ lock' = [lock EXCEPT !.live = FALSE]
    /\ UNCHANGED <<version, lease, call, audit, overlapped, bounds>>

-----------------------------------------------------------------------------
(* Changing the document *)

\* update_class: one statement, which asks neither for the lock, nor for what the editor saw,
\* nor whether the revision is a draft.
Edit(p, c) ==
    /\ Free(p)
    /\ bounds.edits < MaxEdits
    /\ c # version.doc
    /\ version' = [version EXCEPT !.doc = c, !.bypassed = @ \/ version.published \/ Capturing]
    /\ call' = [q \in Replica |-> [call[q] EXCEPT !.edited = @ \/ call[q].pc = "applying"]]
    /\ Spent("edits")
    /\ UNCHANGED <<lock, lease, audit, overlapped>>

\* Mutant of NotHeldAgainst: the lock is not looked at.
NeverHeldAgainst(u) == u \in User

\* Nobody else's lock is active (_cursor_draft_lock_owner).
NotHeldAgainst(u) == lock.live => lock.owner = u

\* apply_source_change_set: a candidate reviewed against the document as it is now, by the
\* holder of the lock or while nobody holds it.  A stale base, an empty change set and a
\* replay write nothing.
ApplyBegin(p, u, c) ==
    /\ Free(p)
    /\ VersionRowFree(p)
    /\ ~ version.published
    /\ NotHeldAgainst(u)
    /\ Len(audit) < MaxApplies
    /\ c # version.doc
    /\ call' = [call EXCEPT ![p] = [Idle EXCEPT
                  !.pc = "applying", !.user = u, !.base = version.doc, !.result = c,
                  !.waiting = {call[q].user : q \in
                                 {r \in Replica : call[r].pc \in {"acquiring", "renewing"}}}]]
    /\ UNCHANGED <<version, lock, lease, audit, overlapped, bounds>>

\* ... then rewrites the revision's rows, whatever they say by now, and records it.  Its classes
\* are new ones, for which no schemas are captured.
ApplyEnd(p) ==
    LET me == call[p] IN
    /\ me.pc = "applying"
    /\ version' = [version EXCEPT !.doc = me.result, !.schema = NoContent]
    /\ audit' = Append(audit, [base |-> me.base, result |-> me.result,
                               over |-> version.doc, edited |-> me.edited])
    /\ Returns(p)
    /\ UNCHANGED <<lock, lease, overlapped, bounds>>

-----------------------------------------------------------------------------
(* Publishing *)

\* The route finds the revision unpublished, and goes through its checks.
PublishAsk(p) ==
    /\ Free(p)
    /\ ~ version.published
    /\ call' = [call EXCEPT ![p] = [Idle EXCEPT !.pc = "publishing"]]
    /\ UNCHANGED <<version, lock, lease, audit, overlapped, bounds>>

\* publish_version: the UPDATE, whatever the revision is by now, and the classes as they
\* are; reading them commits.
PublishBegin(p) ==
    /\ call[p].pc = "publishing"
    /\ VersionRowFree(p)
    /\ version' = [version EXCEPT !.published = TRUE,
                                  !.announced = version.published /\ @,
                                  !.bypassed = @ /\ Capturing]
    /\ call' = [call EXCEPT ![p].pc = "capturing", ![p].base = version.doc,
                            ![p].applies = Len(audit)]
    /\ UNCHANGED <<lock, lease, audit, overlapped, bounds>>

\* Mutant of Announced: only a first publication writes inbox rows.
AnnouncedFirst == version.announced \/ version.schema = NoContent

\* What publish_version leaves of the inbox rows: its fan-out is not best effort.
Announced == TRUE

\* Mutant of Captured: schemas that are there already are left alone.
CapturedOnce(p) ==
    IF call[p].applies = Len(audit) /\ version.schema = NoContent THEN call[p].base
                                                                  ELSE version.schema

\* What it leaves of the schemas: those of an earlier publication are overwritten; but if the
\* classes it read have been replaced, it writes schemas of classes that are gone.
Captured(p) == IF call[p].applies = Len(audit) THEN call[p].base ELSE version.schema

\* ... then the schemas and the inbox rows, published or not by now.  They refer to the
\* version, whose row must be free for that.
PublishEnd(p) ==
    /\ call[p].pc = "capturing"
    /\ VersionRowFree(p)
    /\ version' = [version EXCEPT !.schema = Captured(p), !.announced = Announced]
    /\ Returns(p)
    /\ UNCHANGED <<lock, lease, audit, overlapped, bounds>>

\* unpublish_version: back to draft, in one transaction.
Unpublish(p) ==
    /\ Free(p)
    /\ VersionRowFree(p)
    /\ version.published
    /\ version' = [version EXCEPT !.published = FALSE]
    /\ UNCHANGED <<lock, lease, call, audit, overlapped, bounds>>

-----------------------------------------------------------------------------

\* The request raises or its process dies: what it has not committed is rolled back.
Fail(p) ==
    /\ ~ Free(p)
    /\ bounds.faults < MaxFaults
    /\ Spent("faults")
    /\ Returns(p)
    /\ version' = [version EXCEPT !.bypassed = @ \/ call[p].pc = "capturing"]
    /\ UNCHANGED <<lock, lease, audit, overlapped>>

\* A request that is half way goes on.
Continue(p) ==
    \/ AcquireEnd(p)
    \/ RenewEnd(p)
    \/ ApplyEnd(p)
    \/ PublishBegin(p)
    \/ PublishEnd(p)

DraftNext ==
    \/ \E p \in Replica, u \in User :
         \/ AcquireBegin(p, u)
         \/ RenewBegin(p, u)
         \/ \E c \in Content : ApplyBegin(p, u, c)
    \/ \E p \in Replica :
         \/ Release(p)
         \/ PublishAsk(p)
         \/ Unpublish(p)
         \/ Continue(p)
         \/ Fail(p)
         \/ \E c \in Content : Edit(p, c)
    \/ \E u \in User : RunsOut(u)
    \/ RowRunsOut

DraftSpec == DraftInit /\ [][DraftNext]_draftVars

-----------------------------------------------------------------------------
(* Properties *)

\* The lock is judged in one transaction and written in another (execute_query commits), so
\* two users can hold it at once; but only when a lock row changed between the two.
LeaseIsExclusive ==
    ~ overlapped => \A u, v \in User : lease[u] /\ lease[v] => u = v

\* A source change replaces exactly the document it was reviewed against, though the check
\* and the rewrite are far apart: two applies never overwrite each other, nor does one a
\* publication; only a canvas edit, which takes no lock, can be overwritten unseen.
AppliedToItsBase ==
    \A i \in DOMAIN audit : audit[i].over # audit[i].base => audit[i].edited

\* A source change is committed against the active lock of another user only if the lock
\* call that set it was half way when the apply began: otherwise the apply's own look at
\* the lock holds until its commit, because acquiring needs the version row first.
ApplyHonoursTheLock ==
    [][\A p \in Replica :
          /\ audit' # audit
          /\ call[p].pc = "applying"
          /\ lock.live
          => lock.owner = call[p].user \/ lock.by \in call[p].waiting]_draftVars

\* No source change reaches a published revision, whenever its apply began.
PublishedIsNotRewritten == [][version.published => audit' = audit]_draftVars

\* A published revision has its inbox rows, or is about to have them, through returns to
\* draft and publications that race each other: all it takes is that no request dies.
AnnouncedUnlessFault ==
    version.published /\ ~ version.announced
        => bounds.faults > 0 \/ Capturing

\* A published revision has the schemas of its document, however its publications, returns to
\* draft, edits and source changes come between each other's transactions: unless it was
\* edited since it was published, or was edited or abandoned between the two transactions of
\* a publication.  A publication that begins after all that puts it right.
SchemasAreOfTheDocument ==
    version.published /\ ~ Capturing
        => version.schema = version.doc \/ version.bypassed

\* versions_routes.py:2183-2185: the publish tells the version's collaborators "in the
\* publish's own transaction, so a published version always has its inbox rows".
PublishedIsAnnounced ==
    version.published /\ ~ version.announced
        => Capturing

-----------------------------------------------------------------------------
(* The inductive invariant of the safety properties *)

InLockCall(p) == call[p].pc \in {"acquiring", "renewing"}

\* A lock call that is half way judged a lock its user could take.
LockCallSound(p) ==
    InLockCall(p) =>
        /\ call[p].user \in User
        /\ call[p].seen.owner # NoUser
        /\ call[p].seen.live => call[p].seen.owner = call[p].user

\* An apply that is under way keeps the revision a draft and its document as it read it,
\* canvas edits aside, and the lock from everybody whose call was not half way already.
ApplySound(p) ==
    call[p].pc = "applying" =>
        /\ call[p].base \in Content /\ call[p].result \in Content
        /\ ~ version.published
        /\ version.doc = call[p].base \/ call[p].edited
        /\ lock.live => lock.owner = call[p].user \/ lock.by \in call[p].waiting
        /\ \A q \in Replica : InLockCall(q) => call[q].user \in call[p].waiting

\* A publication that is half way captures the document as it is, or classes that are gone.
CaptureSound(p) ==
    call[p].pc = "capturing" =>
        /\ call[p].base \in Content
        /\ call[p].applies <= Len(audit)
        /\ call[p].applies = Len(audit) => call[p].base = version.doc \/ version.bypassed

OneApply ==
    \A p, q \in Replica : call[p].pc = "applying" /\ call[q].pc = "applying" => p = q

\* While no lock call wrote over a change it had not seen, the leases are those of the row.
LeasesSound ==
    ~ overlapped =>
        /\ lock.owner # NoUser => lock.by = lock.owner
        /\ \A u \in User : lease[u] => lock.owner = u /\ lock.live

\* What is published has its schemas, or is about to have them.
SchemasSound ==
    version.published =>
        \/ version.schema = version.doc
        \/ version.bypassed
        \/ \E p \in Replica : call[p].pc = "capturing" /\ call[p].applies = Len(audit)

\* The lock, the requests that are half way, and the document, in every reachable state: what
\* the properties above follow from.
DraftInvariant ==
    /\ DraftTypeOK
    /\ \A p \in Replica : LockCallSound(p) /\ ApplySound(p) /\ CaptureSound(p)
    /\ OneApply
    /\ LeasesSound
    /\ AppliedToItsBase
    /\ AnnouncedUnlessFault
    /\ SchemasSound
=============================================================================
