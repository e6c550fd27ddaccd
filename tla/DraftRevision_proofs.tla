------------------------- MODULE DraftRevision_proofs -------------------------
(***************************************************************************)
(* Proofs about DraftRevision, for any replicas, editors, contents and     *)
(* bounds: DraftInvariant is inductive, and the safety properties of the   *)
(* lock, of source applies and of publication follow from it.              *)
(***************************************************************************)
EXTENDS DraftRevision, SequenceTheorems, TLAPS

-----------------------------------------------------------------------------
(* Types *)

\* The fields of a request.
LEMMA CallFields ==
  ASSUME DraftTypeOK, NEW p \in Replica
  PROVE  /\ call[p] \in Call
         /\ call[p].pc \in {"idle", "acquiring", "renewing", "applying", "publishing", "capturing"}
         /\ call[p].user \in User \union {NoUser}
         /\ call[p].seen \in LockRow
         /\ call[p].base \in Content \union {NoContent}
         /\ call[p].result \in Content \union {NoContent}
         /\ call[p].applies \in Nat
         /\ call[p].edited \in BOOLEAN
         /\ call[p].waiting \in SUBSET User
BY DEF DraftTypeOK, Call

\* The fields of the revision and of its lock.
LEMMA VersionFields ==
  ASSUME DraftTypeOK
  PROVE  /\ version \in Version /\ lock \in LockRow
         /\ version.published \in BOOLEAN /\ version.announced \in BOOLEAN
         /\ version.doc \in Content /\ version.schema \in Content \union {NoContent}
         /\ version.bypassed \in BOOLEAN
         /\ lock.owner \in User \union {NoUser} /\ lock.live \in BOOLEAN
         /\ lock.by \in User \union {NoUser}
BY DEF DraftTypeOK, Version, LockRow

\* No lock, and a user's lock.
LEMMA LockTypes ==
  /\ Unlocked \in LockRow /\ Unlocked.owner = NoUser /\ ~ Unlocked.live
  /\ \A u \in User : /\ LockedBy(u) \in LockRow /\ LockedBy(u).owner = u /\ LockedBy(u).live
                     /\ LockedBy(u).by = u /\ u # NoUser
BY DraftAssumption DEF Unlocked, LockedBy, LockRow, DraftAssumption

\* A replica that serves nothing.
LEMMA IdleType == Idle \in Call /\ Idle.pc = "idle"
<1>1. Unlocked \in LockRow
  BY LockTypes
<1> HIDE DEF Unlocked
<1> QED
  BY <1>1 DEF Idle, Call

\* A step of one request: the others stay where they are.
Serves(p) ==
    /\ call' \in [Replica -> Call]
    /\ \A q \in Replica \ {p} : call'[q] = call[q]

\* A request that returns leaves its replica idle.
LEMMA ReturnsEffect ==
  ASSUME DraftTypeOK, NEW p \in Replica, Returns(p)
  PROVE  Serves(p) /\ call'[p] = Idle /\ call'[p].pc = "idle"
BY IdleType DEF Returns, Serves, DraftTypeOK

-----------------------------------------------------------------------------
(* The parts of the invariant that a step leaves alone *)

\* Requests whose lock call, apply or capture was sound and that stay as they are, while no
\* apply is under way elsewhere and lock calls do not begin, stay sound.
LEMMA AppliesStay ==
  ASSUME DraftInvariant, NEW p \in Replica, Serves(p), call'[p].pc # "applying",
         \/ ~ InLockCall(p)'
         \/ InLockCall(p) /\ call'[p].user = call[p].user
         \/ \A q \in Replica \ {p} : call[q].pc # "applying",
         \A q \in Replica \ {p} : call[q].pc = "applying" =>
             /\ ~ version'.published
             /\ version'.doc = version.doc
             /\ lock'.live => \/ lock' = lock
                              \/ lock'.by = lock.by /\ lock'.owner = lock.owner /\ lock.live
                              \/ InLockCall(p) /\ lock'.by = call[p].user
  PROVE  /\ \A q \in Replica : ApplySound(q)'
         /\ OneApply'
<1>1. ASSUME NEW q \in Replica, call'[q].pc = "applying"
      PROVE  q # p /\ call'[q] = call[q] /\ ApplySound(q) /\ call[q].pc = "applying"
  BY <1>1 DEF Serves, DraftInvariant
<1>2. ASSUME NEW q \in Replica, call'[q].pc = "applying"
      PROVE  ApplySound(q)'
  <2>1. /\ call[q].base \in Content /\ call[q].result \in Content
        /\ version.doc = call[q].base \/ call[q].edited
        /\ lock.live => lock.owner = call[q].user \/ lock.by \in call[q].waiting
        /\ \A r \in Replica : InLockCall(r) => call[r].user \in call[q].waiting
    BY <1>1, <1>2 DEF ApplySound
  <2>2. \A r \in Replica : InLockCall(r)' => call'[r].user \in call[q].waiting
    BY <1>1, <1>2, <2>1 DEF Serves, InLockCall
  <2>3. lock'.live => lock'.owner = call[q].user \/ lock'.by \in call[q].waiting
    BY <1>1, <1>2, <2>1
  <2> QED
    BY <1>1, <1>2, <2>1, <2>2, <2>3 DEF ApplySound
<1>3. OneApply'
  BY <1>1 DEF OneApply, DraftInvariant
<1> QED
  BY <1>2, <1>3 DEF ApplySound

\* The other requests keep what they judged and captured.
LEMMA OthersStay ==
  ASSUME DraftInvariant, NEW p \in Replica, Serves(p), LockCallSound(p)', CaptureSound(p)',
         audit' = audit, version'.doc = version.doc,
         Capturing /\ version.bypassed => version'.bypassed
  PROVE  \A q \in Replica : LockCallSound(q)' /\ CaptureSound(q)'
<1>1. ASSUME NEW q \in Replica \ {p}
      PROVE  LockCallSound(q)' /\ CaptureSound(q)'
  <2>1. call'[q] = call[q] /\ LockCallSound(q) /\ CaptureSound(q)
    BY <1>1 DEF DraftInvariant, Serves
  <2>2. LockCallSound(q)'
    BY <2>1 DEF LockCallSound, InLockCall
  <2>3. CaptureSound(q)'
    BY <1>1, <2>1 DEF CaptureSound, Capturing
  <2> QED
    BY <2>2, <2>3
<1> QED
  BY <1>1

\* A publication in its second half goes on to announce the revision and to write its schemas.
LEMMA PublicationStays ==
  ASSUME DraftInvariant, NEW p \in Replica, Serves(p), call[p].pc # "capturing",
         UNCHANGED <<version, audit>>, bounds'.faults = bounds.faults
  PROVE  AnnouncedUnlessFault' /\ SchemasSound'
<1>1. \A q \in Replica : call[q].pc = "capturing" => call'[q] = call[q]
  BY DEF Serves
<1>2. AnnouncedUnlessFault'
  BY <1>1 DEF DraftInvariant, AnnouncedUnlessFault, Capturing
<1>3. SchemasSound'
  BY <1>1 DEF DraftInvariant, SchemasSound
<1> QED
  BY <1>2, <1>3

-----------------------------------------------------------------------------
(* The lock *)

\* A grant.
LEMMA GrantEffect ==
  ASSUME DraftTypeOK, NEW u \in User, Grant(u)
  PROVE  /\ lock' \in LockRow /\ lock'.owner = u /\ lock'.by = u /\ lock'.live
         /\ lease' \in [User -> BOOLEAN] /\ u # NoUser
         /\ lease'[u] /\ \A v \in User \ {u} : lease'[v] = lease[v]
BY LockTypes DEF Grant, DraftTypeOK

\* A lock call begins only while no apply is under way elsewhere.
LEMMA AcquireBeginKeeps ==
  ASSUME DraftInvariant, NEW p \in Replica, NEW u \in User, AcquireBegin(p, u)
  PROVE  DraftInvariant'
<1>0. /\ DraftTypeOK /\ call[p].pc = "idle" /\ UNCHANGED <<version, audit, overlapped, bounds>>
      /\ \A q \in Replica \ {p} : call[q].pc # "applying"
      /\ lock \in LockRow /\ (lock.live => lock.owner # NoUser)
  BY DEF DraftInvariant, DraftTypeOK, AcquireBegin, Free, VersionRowFree
<1> DEFINE x == [Idle EXCEPT !.pc = "acquiring", !.user = u, !.seen = lock]
<1>1. /\ x \in Call /\ x.pc = "acquiring" /\ x.user = u /\ x.seen = lock
  BY <1>0, IdleType DEF Call
<1>2. CASE lock.owner = NoUser /\ Grant(u) /\ UNCHANGED call
  <2>1. Serves(p) /\ call'[p].pc = "idle"
    BY <1>0, <1>2 DEF Serves, DraftTypeOK
  <2>2. DraftTypeOK'
    BY <1>0, <1>2, GrantEffect DEF DraftTypeOK
  <2>3. \A q \in Replica : LockCallSound(q)' /\ CaptureSound(q)'
    BY <1>0, <2>1, OthersStay DEF LockCallSound, CaptureSound, InLockCall
  <2>4. (\A q \in Replica : ApplySound(q)') /\ OneApply'
    BY <1>0, <2>1, AppliesStay DEF InLockCall
  <2>5. LeasesSound'
    <3>1. SUFFICES ASSUME ~ overlapped
                   PROVE  /\ lock'.owner # NoUser => lock'.by = lock'.owner
                          /\ \A v \in User : lease'[v] => lock'.owner = v /\ lock'.live
      BY <1>0 DEF LeasesSound
    <3>2. \A v \in User : ~ lease[v]
      BY <1>2, <3>1, DraftAssumption DEF DraftInvariant, LeasesSound, DraftAssumption
    <3> QED
      BY <1>0, <1>2, <3>2, GrantEffect, LockTypes
  <2>6. AppliedToItsBase' /\ AnnouncedUnlessFault' /\ SchemasSound'
    BY <1>0, <2>1, PublicationStays DEF DraftInvariant, AppliedToItsBase
  <2> QED
    BY <2>2, <2>3, <2>4, <2>5, <2>6 DEF DraftInvariant
<1>3. CASE /\ lock.owner # NoUser /\ Verdict(u, lock) # "conflict"
           /\ call' = [call EXCEPT ![p] = x] /\ UNCHANGED <<lock, lease>>
  <2> HIDE DEF x
  <2>1. Serves(p) /\ call'[p] = x
    BY <1>0, <1>1, <1>3 DEF Serves, DraftTypeOK
  <2>2. DraftTypeOK'
    BY <1>0, <1>3, <2>1 DEF DraftTypeOK, Serves
  <2>3. LockCallSound(p)'
    <3>1. lock.live => lock.owner = u
      BY <1>0, <1>3, VersionFields DEF Verdict
    <3> QED
      BY <1>1, <1>3, <2>1, <3>1 DEF LockCallSound
  <2>4. \A q \in Replica : LockCallSound(q)' /\ CaptureSound(q)'
    BY <1>0, <1>1, <2>1, <2>3, OthersStay DEF CaptureSound
  <2>5. (\A q \in Replica : ApplySound(q)') /\ OneApply'
    BY <1>0, <1>1, <2>1, AppliesStay
  <2>6. LeasesSound'
    BY <1>0, <1>3 DEF DraftInvariant, LeasesSound
  <2>7. AppliedToItsBase' /\ AnnouncedUnlessFault' /\ SchemasSound'
    BY <1>0, <2>1, PublicationStays DEF DraftInvariant, AppliedToItsBase
  <2> QED
    BY <2>2, <2>4, <2>5, <2>6, <2>7 DEF DraftInvariant
<1> QED
  BY <1>2, <1>3 DEF AcquireBegin

\* Renewing begins in the same way.
LEMMA RenewBeginKeeps ==
  ASSUME DraftInvariant, NEW p \in Replica, NEW u \in User, RenewBegin(p, u)
  PROVE  DraftInvariant'
<1>0. /\ DraftTypeOK /\ call[p].pc = "idle" /\ UNCHANGED <<version, lock, lease, audit, overlapped, bounds>>
      /\ \A q \in Replica \ {p} : call[q].pc # "applying"
      /\ lock \in LockRow /\ lock.live /\ lock.owner = u
  BY DEF DraftInvariant, DraftTypeOK, RenewBegin, Free, VersionRowFree
<1> DEFINE x == [Idle EXCEPT !.pc = "renewing", !.user = u, !.seen = lock]
<1>1. /\ x \in Call /\ x.pc = "renewing" /\ x.user = u /\ x.seen = lock
  BY <1>0, IdleType DEF Call
<1>2. call' = [call EXCEPT ![p] = x]
  BY DEF RenewBegin
<1> HIDE DEF x
<1>3. Serves(p) /\ call'[p] = x
  BY <1>0, <1>1, <1>2 DEF Serves, DraftTypeOK
<1>4. DraftTypeOK'
  BY <1>0, <1>3 DEF DraftTypeOK, Serves
<1>5. LockCallSound(p)' /\ CaptureSound(p)'
  BY <1>0, <1>1, <1>3, LockTypes DEF LockCallSound, CaptureSound
<1>6. \A q \in Replica : LockCallSound(q)' /\ CaptureSound(q)'
  BY <1>0, <1>3, <1>5, OthersStay
<1>7. (\A q \in Replica : ApplySound(q)') /\ OneApply'
  BY <1>0, <1>1, <1>3, AppliesStay
<1>8. LeasesSound' /\ AppliedToItsBase'
  BY <1>0 DEF DraftInvariant, LeasesSound, AppliedToItsBase
<1>9. AnnouncedUnlessFault' /\ SchemasSound'
  BY <1>0, <1>3, PublicationStays
<1> QED
  BY <1>4, <1>6, <1>7, <1>8, <1>9 DEF DraftInvariant

\* Acquiring ends: the row is written as it was judged, whoever holds it by now.
LEMMA AcquireEndKeeps ==
  ASSUME DraftInvariant, NEW p \in Replica, AcquireEnd(p)
  PROVE  DraftInvariant'
<1> DEFINE u    == call[p].user
           seen == call[p].seen
           mine == Verdict(u, seen) = "take over" \/ lock.owner = u
<1>0. /\ DraftTypeOK /\ call[p].pc = "acquiring" /\ InLockCall(p)
      /\ UNCHANGED <<version, audit, bounds>>
      /\ lock \in LockRow /\ (lock.live => lock.owner # NoUser)
      /\ overlapped' = (overlapped \/ lock # seen) /\ Returns(p)
  BY DEF DraftInvariant, DraftTypeOK, AcquireEnd, InLockCall
<1>1. /\ u \in User /\ u # NoUser /\ seen.owner # NoUser /\ (seen.live => seen.owner = u)
  BY <1>0, LockTypes DEF DraftInvariant, LockCallSound
<1>2. Serves(p) /\ call'[p].pc = "idle"
  BY <1>0, ReturnsEffect
<1>3. \/ lock.owner = NoUser /\ UNCHANGED <<lock, lease>>
      \/ lock.owner # NoUser /\ mine /\ Grant(u)
      \/ /\ lock.owner # NoUser /\ ~ mine
         /\ lock' = [lock EXCEPT !.live = TRUE, !.by = u] /\ UNCHANGED lease
  BY DEF AcquireEnd
<1>4. /\ lock' \in LockRow /\ lease' \in [User -> BOOLEAN]
      /\ lock'.live => lock'.owner # NoUser
      /\ lock' = lock \/ lock'.by = u
  <2>1. CASE lock.owner = NoUser /\ UNCHANGED <<lock, lease>>
    BY <1>0, <2>1 DEF DraftTypeOK
  <2>2. CASE Grant(u)
    BY <1>0, <1>1, <2>2, GrantEffect
  <2>3. CASE lock.owner # NoUser /\ lock' = [lock EXCEPT !.live = TRUE, !.by = u] /\ UNCHANGED lease
    BY <1>0, <1>1, <2>3 DEF DraftTypeOK, LockRow
  <2> QED
    BY <1>3, <2>1, <2>2, <2>3
<1>5. DraftTypeOK'
  BY <1>0, <1>2, <1>4 DEF DraftTypeOK, Serves
<1>6. \A q \in Replica : LockCallSound(q)' /\ CaptureSound(q)'
  BY <1>0, <1>2, OthersStay DEF LockCallSound, CaptureSound, InLockCall
<1>7. (\A q \in Replica : ApplySound(q)') /\ OneApply'
  <2>1. ASSUME NEW q \in Replica, call[q].pc = "applying"
        PROVE  ~ version'.published /\ version'.doc = version.doc
    BY <1>0, <2>1 DEF DraftInvariant, ApplySound
  <2> QED
    BY <1>0, <1>2, <1>4, <2>1, AppliesStay DEF InLockCall
<1>8. LeasesSound'
  <2>1. SUFFICES ASSUME ~ overlapped, lock = seen
                 PROVE  /\ lock'.owner # NoUser => lock'.by = lock'.owner
                        /\ \A v \in User : lease'[v] => lock'.owner = v /\ lock'.live
    BY <1>0 DEF LeasesSound
  <2>2. \A v \in User : lease[v] => lock.owner = v /\ lock.live
    BY <2>1 DEF DraftInvariant, LeasesSound
  <2>3. mine /\ lock.owner # NoUser
    BY <1>0, <1>1, <2>1, VersionFields DEF Verdict
  <2>4. Grant(u)
    BY <1>3, <2>3
  <2>5. \A v \in User \ {u} : ~ lease[v]
    BY <1>1, <2>1, <2>2
  <2> QED
    BY <1>0, <1>1, <2>4, <2>5, GrantEffect
<1>9. AppliedToItsBase' /\ AnnouncedUnlessFault' /\ SchemasSound'
  BY <1>0, <1>2, PublicationStays DEF DraftInvariant, AppliedToItsBase
<1> QED
  BY <1>5, <1>6, <1>7, <1>8, <1>9 DEF DraftInvariant

\* Renewing ends: the row is written if it is the caller's still.
LEMMA RenewEndKeeps ==
  ASSUME DraftInvariant, NEW p \in Replica, RenewEnd(p)
  PROVE  DraftInvariant'
<1> DEFINE u == call[p].user
<1>0. /\ DraftTypeOK /\ call[p].pc = "renewing" /\ InLockCall(p)
      /\ UNCHANGED <<version, audit, bounds>>
      /\ lock \in LockRow /\ (lock.live => lock.owner # NoUser)
      /\ (overlapped => overlapped') /\ Returns(p) /\ overlapped' \in BOOLEAN
  BY DEF DraftInvariant, DraftTypeOK, RenewEnd, InLockCall
<1>1. u \in User /\ u # NoUser
  BY <1>0, LockTypes DEF DraftInvariant, LockCallSound
<1>2. Serves(p) /\ call'[p].pc = "idle"
  BY <1>0, ReturnsEffect
<1>3. \/ UNCHANGED <<lock, lease>>
      \/ lock.owner = u /\ Grant(u)
  BY DEF RenewEnd
<1>4. /\ lock' \in LockRow /\ lease' \in [User -> BOOLEAN]
      /\ lock'.live => lock'.owner # NoUser
      /\ lock' = lock \/ lock'.by = u
  BY <1>0, <1>1, <1>3, GrantEffect DEF DraftTypeOK
<1>5. DraftTypeOK'
  BY <1>0, <1>2, <1>4 DEF DraftTypeOK, Serves
<1>6. \A q \in Replica : LockCallSound(q)' /\ CaptureSound(q)'
  BY <1>0, <1>2, OthersStay DEF LockCallSound, CaptureSound, InLockCall
<1>7. (\A q \in Replica : ApplySound(q)') /\ OneApply'
  <2>1. ASSUME NEW q \in Replica, call[q].pc = "applying"
        PROVE  ~ version'.published /\ version'.doc = version.doc
    BY <1>0, <2>1 DEF DraftInvariant, ApplySound
  <2> QED
    BY <1>0, <1>2, <1>4, <2>1, AppliesStay DEF InLockCall
<1>8. LeasesSound'
  <2>1. CASE UNCHANGED <<lock, lease>>
    BY <1>0, <2>1 DEF DraftInvariant, LeasesSound
  <2>2. CASE lock.owner = u /\ Grant(u)
    <3>1. SUFFICES ASSUME ~ overlapped
                   PROVE  /\ lock'.owner # NoUser => lock'.by = lock'.owner
                          /\ \A v \in User : lease'[v] => lock'.owner = v /\ lock'.live
      BY <1>0 DEF LeasesSound
    <3>2. \A v \in User : lease[v] => lock.owner = v
      BY <3>1 DEF DraftInvariant, LeasesSound
    <3> QED
      BY <1>0, <1>1, <2>2, <3>2, GrantEffect
  <2> QED
    BY <1>3, <2>1, <2>2
<1>9. AppliedToItsBase' /\ AnnouncedUnlessFault' /\ SchemasSound'
  BY <1>0, <1>2, PublicationStays DEF DraftInvariant, AppliedToItsBase
<1> QED
  BY <1>5, <1>6, <1>7, <1>8, <1>9 DEF DraftInvariant

\* A lock that is let go, or runs out, disturbs no request.
LEMMA LockLetGo ==
  ASSUME DraftInvariant, UNCHANGED <<version, call, audit, overlapped, bounds>>,
         lock' \in LockRow, lease' \in [User -> BOOLEAN], lock'.live => lock'.owner # NoUser,
         lock'.live => lock'.by = lock.by /\ lock'.owner = lock.owner /\ lock.live,
         LeasesSound'
  PROVE  DraftInvariant'
<1>1. DraftTypeOK'
  BY DEF DraftInvariant, DraftTypeOK
<1>2. ASSUME NEW p \in Replica
      PROVE  LockCallSound(p)' /\ ApplySound(p)' /\ CaptureSound(p)'
  <2>1. LockCallSound(p)' /\ CaptureSound(p)'
    BY DEF DraftInvariant, LockCallSound, CaptureSound, InLockCall
  <2>2. ApplySound(p)'
    BY DEF DraftInvariant, ApplySound, InLockCall
  <2> QED
    BY <2>1, <2>2
<1>3. OneApply' /\ AppliedToItsBase' /\ AnnouncedUnlessFault' /\ SchemasSound'
  BY DEF DraftInvariant, OneApply, AppliedToItsBase, AnnouncedUnlessFault, SchemasSound,
         Capturing
<1> QED
  BY <1>1, <1>2, <1>3 DEF DraftInvariant

\* Release.
LEMMA ReleaseKeeps ==
  ASSUME DraftInvariant, NEW p \in Replica, Release(p)
  PROVE  DraftInvariant'
<1>0. /\ DraftTypeOK /\ UNCHANGED <<version, call, audit, overlapped, bounds>>
      /\ lock' = Unlocked /\ lock.owner \in User /\ lease \in [User -> BOOLEAN]
      /\ lease' = [lease EXCEPT ![lock.owner] = FALSE]
  BY VersionFields DEF DraftInvariant, DraftTypeOK, Release, Deleted
<1>1. lock' \in LockRow /\ ~ lock'.live /\ lock'.owner = NoUser
  BY <1>0, LockTypes
<1>2. LeasesSound'
  <2>1. SUFFICES ASSUME ~ overlapped PROVE \A v \in User : ~ lease'[v]
    BY <1>0, <1>1 DEF LeasesSound
  <2>2. \A v \in User : lease[v] => lock.owner = v
    BY <2>1 DEF DraftInvariant, LeasesSound
  <2> QED
    BY <1>0, <2>2
<1>3. lease' \in [User -> BOOLEAN]
  BY <1>0
<1> QED
  BY <1>0, <1>1, <1>2, <1>3, LockLetGo

\* A lease runs out.
LEMMA RunsOutKeeps ==
  ASSUME DraftInvariant, NEW u \in User, RunsOut(u)
  PROVE  DraftInvariant'
<1>0. /\ DraftTypeOK /\ UNCHANGED <<version, call, audit, overlapped, bounds>>
      /\ lock \in LockRow /\ lease \in [User -> BOOLEAN] /\ (lock.live => lock.owner # NoUser)
      /\ lease[u] /\ lease' = [lease EXCEPT ![u] = FALSE]
      /\ lock' = IF lock.owner = u /\ lock.by = u THEN [lock EXCEPT !.live = FALSE] ELSE lock
  BY DEF DraftInvariant, DraftTypeOK, RunsOut
<1>1. /\ lock' \in LockRow /\ lock'.by = lock.by /\ lock'.owner = lock.owner
      /\ lock'.live => lock.live
  BY <1>0 DEF LockRow
<1>2. LeasesSound'
  <2>1. SUFFICES ASSUME ~ overlapped
                 PROVE  /\ lock.owner # NoUser => lock.by = lock.owner
                        /\ \A v \in User : ~ lease'[v]
    BY <1>0, <1>1 DEF LeasesSound
  <2>2. /\ lock.owner # NoUser => lock.by = lock.owner
        /\ \A v \in User : lease[v] => lock.owner = v
    BY <2>1 DEF DraftInvariant, LeasesSound
  <2> QED
    BY <1>0, <2>2
<1>3. lease' \in [User -> BOOLEAN]
  BY <1>0
<1> QED
  BY <1>0, <1>1, <1>2, <1>3, LockLetGo

\* A row runs out on its own.
LEMMA RowRunsOutKeeps ==
  ASSUME DraftInvariant, RowRunsOut
  PROVE  DraftInvariant'
<1>0. /\ DraftTypeOK /\ UNCHANGED <<version, lease, call, audit, overlapped, bounds>>
      /\ lock \in LockRow /\ lease \in [User -> BOOLEAN] /\ (lock.live => lock.owner # NoUser)
      /\ lock.live /\ lock.by # lock.owner /\ lock' = [lock EXCEPT !.live = FALSE]
  BY DEF DraftInvariant, DraftTypeOK, RowRunsOut
<1>1. /\ lock' \in LockRow /\ ~ lock'.live
  BY <1>0 DEF LockRow
<1>2. LeasesSound'
  BY <1>0 DEF DraftInvariant, LeasesSound
<1> QED
  BY <1>0, <1>1, <1>2, LockLetGo

-----------------------------------------------------------------------------
(* Changing the document *)

\* A canvas edit: whoever is applying knows of it.
LEMMA EditKeeps ==
  ASSUME DraftInvariant, NEW p \in Replica, NEW c \in Content, Edit(p, c)
  PROVE  DraftInvariant'
<1>0. /\ DraftTypeOK /\ UNCHANGED <<lock, lease, audit, overlapped>>
      /\ version \in Version
      /\ version' = [version EXCEPT !.doc = c, !.bypassed = @ \/ version.published \/ Capturing]
      /\ call \in [Replica -> Call]
      /\ call' = [q \in Replica |-> [call[q] EXCEPT !.edited = @ \/ call[q].pc = "applying"]]
      /\ bounds \in [edits : 0..MaxEdits, faults : 0..MaxFaults]
      /\ bounds.edits < MaxEdits /\ bounds' = [bounds EXCEPT !.edits = @ + 1]
  BY DEF DraftInvariant, DraftTypeOK, Edit, Spent
<1>1. /\ version' \in Version /\ version'.published = version.published
      /\ version'.announced = version.announced
      /\ version.published \/ Capturing => version'.bypassed
  BY <1>0 DEF Version, Capturing
<1>2. ASSUME NEW q \in Replica
      PROVE  /\ call'[q] \in Call
             /\ call'[q].pc = call[q].pc /\ call'[q].user = call[q].user
             /\ call'[q].seen = call[q].seen /\ call'[q].base = call[q].base
             /\ call'[q].result = call[q].result /\ call'[q].applies = call[q].applies
             /\ call'[q].waiting = call[q].waiting
             /\ call[q].pc = "applying" => call'[q].edited
  BY <1>0 DEF Call
<1>3. DraftTypeOK'
  <2>1. call' \in [Replica -> Call]
    BY <1>0, <1>2
  <2>2. bounds' \in [edits : 0..MaxEdits, faults : 0..MaxFaults]
    BY <1>0, DraftAssumption DEF DraftAssumption
  <2> QED
    BY <1>0, <1>1, <2>1, <2>2 DEF DraftTypeOK
<1>4. ASSUME NEW q \in Replica
      PROVE  LockCallSound(q)' /\ ApplySound(q)' /\ CaptureSound(q)'
  <2>1. LockCallSound(q)' /\ CaptureSound(q)'
    <3>1. LockCallSound(q)'
      BY <1>2 DEF DraftInvariant, LockCallSound, InLockCall
    <3>2. CaptureSound(q)'
      <4>1. SUFFICES ASSUME call[q].pc = "capturing"
                     PROVE  CaptureSound(q)'
        BY <1>2 DEF CaptureSound
      <4>2. version'.bypassed
        BY <1>1, <4>1 DEF Capturing
      <4>3. call[q].base \in Content /\ call[q].applies <= Len(audit)
        BY <4>1 DEF DraftInvariant, CaptureSound
      <4> QED
        BY <1>0, <1>2, <4>2, <4>3 DEF CaptureSound
    <3> QED
      BY <3>1, <3>2
  <2>2. ASSUME call'[q].pc = "applying"
        PROVE  ApplySound(q)'
    <3>1. ApplySound(q) /\ call[q].pc = "applying" /\ call'[q].edited
      BY <1>2, <2>2 DEF DraftInvariant
    <3>2. \A r \in Replica : InLockCall(r)' => InLockCall(r) /\ call'[r].user = call[r].user
      BY <1>2 DEF InLockCall
    <3>3. /\ call'[q].base = call[q].base /\ call'[q].result = call[q].result
          /\ call'[q].user = call[q].user /\ call'[q].waiting = call[q].waiting
          /\ lock' = lock
      BY <1>0, <1>2
    <3> QED
      BY <1>1, <3>1, <3>2, <3>3 DEF ApplySound
  <2> QED
    BY <2>1, <2>2 DEF ApplySound
<1>5. OneApply' /\ LeasesSound' /\ AppliedToItsBase'
  <2>1. OneApply'
    BY <1>2 DEF DraftInvariant, OneApply
  <2>2. LeasesSound' /\ AppliedToItsBase'
    BY <1>0 DEF DraftInvariant, LeasesSound, AppliedToItsBase
  <2> QED
    BY <2>1, <2>2
<1>6. AnnouncedUnlessFault'
  <2>1. bounds'.faults = bounds.faults
    BY <1>0
  <2> QED
    BY <1>1, <1>2, <2>1 DEF DraftInvariant, AnnouncedUnlessFault, Capturing
<1>7. SchemasSound'
  BY <1>1 DEF SchemasSound
<1> QED
  BY <1>3, <1>4, <1>5, <1>6, <1>7 DEF DraftInvariant

\* An apply begins only when no other is under way, and knows the lock calls that are.
LEMMA ApplyBeginKeeps ==
  ASSUME DraftInvariant, NEW p \in Replica, NEW u \in User, NEW c \in Content,
         ApplyBegin(p, u, c)
  PROVE  DraftInvariant'
<1> DEFINE calls == {r \in Replica : call[r].pc \in {"acquiring", "renewing"}}
           W     == {call[q].user : q \in calls}
           x     == [Idle EXCEPT !.pc = "applying", !.user = u, !.base = version.doc,
                                 !.result = c, !.waiting = W]
<1>0. /\ DraftTypeOK /\ UNCHANGED <<version, lock, lease, audit, overlapped, bounds>>
      /\ call[p].pc = "idle" /\ ~ version.published /\ version.doc \in Content
      /\ \A q \in Replica \ {p} : call[q].pc # "applying"
      /\ lock.live => lock.owner = u
  BY VersionFields DEF DraftInvariant, ApplyBegin, Free, VersionRowFree, NotHeldAgainst
<1>1. call' = [call EXCEPT ![p] = x]
  BY DEF ApplyBegin
<1>2. W \in SUBSET User
  BY DEF DraftInvariant, LockCallSound, InLockCall
<1>3. \A q \in Replica : InLockCall(q) => call[q].user \in W
  BY DEF InLockCall
<1> HIDE DEF W
<1>4. /\ x \in Call /\ x.pc = "applying" /\ x.user = u /\ x.base = version.doc /\ x.result = c
      /\ x.waiting = W
  BY <1>0, <1>2, IdleType DEF Call
<1> HIDE DEF x
<1>5. Serves(p) /\ call'[p] = x
  BY <1>0, <1>1, <1>4 DEF Serves, DraftTypeOK
<1>6. DraftTypeOK'
  BY <1>0, <1>5 DEF DraftTypeOK, Serves
<1>7. \A q \in Replica : LockCallSound(q)' /\ CaptureSound(q)'
  BY <1>0, <1>4, <1>5, OthersStay DEF LockCallSound, CaptureSound, InLockCall
<1>8. \A q \in Replica : InLockCall(q)' => call'[q].user \in W
  BY <1>3, <1>4, <1>5 DEF Serves, InLockCall
<1>9. ApplySound(p)'
  BY <1>0, <1>4, <1>5, <1>8 DEF ApplySound
<1>10. (\A q \in Replica : ApplySound(q)') /\ OneApply'
  BY <1>0, <1>5, <1>9 DEF Serves, ApplySound, OneApply
<1>11. LeasesSound' /\ AppliedToItsBase'
  BY <1>0 DEF DraftInvariant, LeasesSound, AppliedToItsBase
<1>12. AnnouncedUnlessFault' /\ SchemasSound'
  BY <1>0, <1>4, <1>5, PublicationStays
<1> QED
  BY <1>6, <1>7, <1>10, <1>11, <1>12 DEF DraftInvariant

\* An apply ends: the document it replaces is the one it read, canvas edits aside.
LEMMA ApplyEndKeeps ==
  ASSUME DraftInvariant, NEW p \in Replica, ApplyEnd(p)
  PROVE  DraftInvariant'
<1> DEFINE me  == call[p]
           row == [base |-> me.base, result |-> me.result, over |-> version.doc,
                   edited |-> me.edited]
<1>0. /\ DraftTypeOK /\ UNCHANGED <<lock, lease, overlapped, bounds>>
      /\ call[p].pc = "applying" /\ Returns(p) /\ version \in Version
      /\ version' = [version EXCEPT !.doc = me.result, !.schema = NoContent]
      /\ audit \in Seq(Applied) /\ audit' = Append(audit, row)
  BY DEF DraftInvariant, DraftTypeOK, ApplyEnd
<1>1. /\ me.base \in Content /\ me.result \in Content /\ me.edited \in BOOLEAN
      /\ version.doc \in Content /\ (version.doc = me.base \/ me.edited)
  BY <1>0, VersionFields, CallFields DEF DraftInvariant, ApplySound
<1>2. /\ version' \in Version /\ version'.published = version.published
      /\ version'.announced = version.announced /\ ~ version.published
  BY <1>0, <1>1 DEF Version, DraftInvariant, ApplySound
<1>3. row \in Applied /\ (row.over # row.base => row.edited)
  BY <1>1 DEF Applied
<1> HIDE DEF row
<1>4. audit' \in Seq(Applied) /\ AppliedToItsBase' /\ Len(audit) \in Nat /\ Len(audit') = Len(audit) + 1
  <2>1. /\ audit' \in Seq(Applied) /\ Len(audit') = Len(audit) + 1
        /\ \A i \in 1..Len(audit) : audit'[i] = audit[i]
        /\ audit'[Len(audit) + 1] = row
    BY <1>0, <1>3, AppendProperties
  <2>2. Len(audit) \in Nat /\ DOMAIN audit = 1..Len(audit) /\ DOMAIN audit' = 1..Len(audit')
    BY <1>0, <2>1, LenProperties
  <2>3. \A i \in 1..Len(audit) : audit[i].over # audit[i].base => audit[i].edited
    BY <2>2 DEF DraftInvariant, AppliedToItsBase
  <2>4. ASSUME NEW i \in 1..Len(audit')
        PROVE  i \in 1..Len(audit) \/ i = Len(audit) + 1
    BY <2>1, <2>2
  <2> QED
    BY <1>3, <2>1, <2>2, <2>3, <2>4 DEF AppliedToItsBase
<1>5. Serves(p) /\ call'[p].pc = "idle"
  BY <1>0, ReturnsEffect
<1>6. DraftTypeOK'
  BY <1>0, <1>2, <1>4, <1>5 DEF DraftTypeOK, Serves
<1>7. ASSUME NEW q \in Replica
      PROVE  LockCallSound(q)' /\ CaptureSound(q)'
  <2>1. LockCallSound(q)'
    BY <1>5 DEF DraftInvariant, Serves, LockCallSound, InLockCall
  <2>2. ASSUME call'[q].pc = "capturing"
        PROVE  CaptureSound(q)'
    <3>1. call'[q] = call[q] /\ call[q].pc = "capturing" /\ CaptureSound(q)
      BY <1>5, <2>2 DEF DraftInvariant, Serves
    <3>2. call[q].base \in Content /\ call[q].applies <= Len(audit) /\ call[q].applies \in Nat
      BY <1>0, <3>1, CallFields DEF CaptureSound
    <3>3. call[q].applies <= Len(audit') /\ call[q].applies # Len(audit')
      BY <1>4, <3>2
    <3> QED
      BY <3>1, <3>2, <3>3 DEF CaptureSound
  <2> QED
    BY <2>1, <2>2 DEF CaptureSound
<1>8. \A q \in Replica \ {p} : call[q].pc # "applying"
  BY <1>0 DEF DraftInvariant, OneApply
<1>9. (\A q \in Replica : ApplySound(q)') /\ OneApply'
  BY <1>5, <1>8, AppliesStay
<1>10. LeasesSound'
  BY <1>0 DEF DraftInvariant, LeasesSound
<1>11. AnnouncedUnlessFault' /\ SchemasSound'
  BY <1>2 DEF AnnouncedUnlessFault, SchemasSound
<1> QED
  BY <1>4, <1>6, <1>7, <1>9, <1>10, <1>11 DEF DraftInvariant

-----------------------------------------------------------------------------
(* Publishing *)

\* A publication is asked for.
LEMMA PublishAskKeeps ==
  ASSUME DraftInvariant, NEW p \in Replica, PublishAsk(p)
  PROVE  DraftInvariant'
<1> DEFINE x == [Idle EXCEPT !.pc = "publishing"]
<1>0. /\ DraftTypeOK /\ UNCHANGED <<version, lock, lease, audit, overlapped, bounds>>
      /\ call[p].pc = "idle" /\ call' = [call EXCEPT ![p] = x]
  BY DEF DraftInvariant, PublishAsk, Free
<1>1. x \in Call /\ x.pc = "publishing"
  BY IdleType DEF Call
<1> HIDE DEF x
<1>2. Serves(p) /\ call'[p] = x
  BY <1>0, <1>1 DEF Serves, DraftTypeOK
<1>3. DraftTypeOK'
  BY <1>0, <1>2 DEF DraftTypeOK, Serves
<1>4. \A q \in Replica : LockCallSound(q)' /\ CaptureSound(q)'
  BY <1>0, <1>1, <1>2, OthersStay DEF LockCallSound, CaptureSound, InLockCall
<1>5. (\A q \in Replica : ApplySound(q)') /\ OneApply'
  BY <1>0, <1>1, <1>2, AppliesStay DEF DraftInvariant, ApplySound, InLockCall
<1>6. LeasesSound' /\ AppliedToItsBase'
  BY <1>0 DEF DraftInvariant, LeasesSound, AppliedToItsBase
<1>7. AnnouncedUnlessFault' /\ SchemasSound'
  BY <1>0, <1>2, PublicationStays
<1> QED
  BY <1>3, <1>4, <1>5, <1>6, <1>7 DEF DraftInvariant

\* A publication gets the version row, so that no apply is under way.
LEMMA PublishBeginKeeps ==
  ASSUME DraftInvariant, NEW p \in Replica, PublishBegin(p)
  PROVE  DraftInvariant'
<1>0. /\ DraftTypeOK /\ UNCHANGED <<lock, lease, audit, overlapped, bounds>>
      /\ call[p].pc = "publishing" /\ call \in [Replica -> Call]
      /\ call' = [call EXCEPT ![p].pc = "capturing", ![p].base = version.doc,
                              ![p].applies = Len(audit)]
      /\ version \in Version
      /\ version' = [version EXCEPT !.published = TRUE, !.announced = version.published /\ @,
                                    !.bypassed = @ /\ Capturing]
      /\ \A q \in Replica \ {p} : call[q].pc # "applying"
  BY DEF DraftInvariant, DraftTypeOK, PublishBegin, VersionRowFree
<1>1. /\ version' \in Version /\ version.doc \in Content /\ version'.doc = version.doc
      /\ Capturing /\ version.bypassed => version'.bypassed
      /\ Len(audit) \in Nat
  <2>1. Capturing \in BOOLEAN
    BY DEF Capturing
  <2>2. Len(audit) \in Nat
    BY <1>0, LenProperties DEF DraftTypeOK
  <2> QED
    BY <1>0, <2>1, <2>2 DEF Version
<1>2. /\ call'[p] \in Call /\ call'[p].pc = "capturing" /\ call'[p].base = version.doc
      /\ call'[p].applies = Len(audit)
      /\ \A q \in Replica \ {p} : call'[q] = call[q]
  <2> DEFINE x == [call[p] EXCEPT !.pc = "capturing", !.base = version.doc,
                                  !.applies = Len(audit)]
  <2>1. x \in Call /\ x.pc = "capturing" /\ x.base = version.doc /\ x.applies = Len(audit)
    <3>1. call[p] \in Call /\ version.doc \in Content /\ Len(audit) \in Nat
      BY <1>0, <1>1
    <3> QED
      BY <3>1 DEF Call
  <2>2. call' = [call EXCEPT ![p] = x]
    BY <1>0
  <2> HIDE DEF x
  <2> QED
    BY <1>0, <2>1, <2>2
<1>3. Serves(p)
  BY <1>0, <1>2 DEF Serves
<1>4. DraftTypeOK'
  BY <1>0, <1>1, <1>3 DEF DraftTypeOK, Serves
<1>5. \A q \in Replica : LockCallSound(q)' /\ CaptureSound(q)'
  <2>1. LockCallSound(p)' /\ CaptureSound(p)'
    BY <1>0, <1>1, <1>2 DEF LockCallSound, CaptureSound, InLockCall
  <2> QED
    BY <1>0, <1>1, <1>3, <2>1, OthersStay
<1>6. (\A q \in Replica : ApplySound(q)') /\ OneApply'
  BY <1>0, <1>2, <1>3, AppliesStay
<1>7. LeasesSound' /\ AppliedToItsBase'
  BY <1>0 DEF DraftInvariant, LeasesSound, AppliedToItsBase
<1>8. AnnouncedUnlessFault' /\ SchemasSound'
  BY <1>0, <1>2 DEF AnnouncedUnlessFault, SchemasSound, Capturing
<1> QED
  BY <1>4, <1>5, <1>6, <1>7, <1>8 DEF DraftInvariant

\* Its second half announces the revision.
LEMMA PublishEndKeeps ==
  ASSUME DraftInvariant, NEW p \in Replica, PublishEnd(p)
  PROVE  DraftInvariant'
<1>0. /\ DraftTypeOK /\ UNCHANGED <<lock, lease, audit, overlapped, bounds>>
      /\ call[p].pc = "capturing" /\ Returns(p) /\ version \in Version
      /\ version' = [version EXCEPT !.schema = Captured(p), !.announced = TRUE]
      /\ call[p].base \in Content
      /\ \A q \in Replica \ {p} : call[q].pc # "applying"
  BY DEF DraftInvariant, DraftTypeOK, CaptureSound, PublishEnd, VersionRowFree, Announced
<1>1. /\ version' \in Version /\ version'.announced
      /\ version'.doc = version.doc /\ version'.bypassed = version.bypassed
      /\ version'.published = version.published /\ version'.schema = Captured(p)
  <2>1. Captured(p) \in Content \union {NoContent}
    BY <1>0, VersionFields DEF Captured
  <2> QED
    BY <1>0, <2>1 DEF Version
<1>2. Serves(p) /\ call'[p].pc = "idle"
  BY <1>0, ReturnsEffect
<1>3. DraftTypeOK'
  BY <1>0, <1>1, <1>2 DEF DraftTypeOK, Serves
<1>4. \A q \in Replica : LockCallSound(q)' /\ CaptureSound(q)'
  BY <1>0, <1>1, <1>2, OthersStay DEF LockCallSound, CaptureSound, InLockCall
<1>5. (\A q \in Replica : ApplySound(q)') /\ OneApply'
  BY <1>0, <1>1, <1>2, AppliesStay
<1>6. LeasesSound' /\ AppliedToItsBase'
  BY <1>0 DEF DraftInvariant, LeasesSound, AppliedToItsBase
<1>7. AnnouncedUnlessFault'
  BY <1>1 DEF AnnouncedUnlessFault
<1>8. SchemasSound'
  <2>1. SUFFICES ASSUME version.published, ~ version.bypassed, Captured(p) # version.doc
                 PROVE  \E q \in Replica : call'[q].pc = "capturing" /\ call'[q].applies = Len(audit)
    BY <1>0, <1>1 DEF SchemasSound
  <2>2. call[p].applies # Len(audit) /\ version.schema # version.doc
    BY <1>0, <2>1 DEF DraftInvariant, CaptureSound, Captured
  <2>3. PICK q \in Replica : call[q].pc = "capturing" /\ call[q].applies = Len(audit)
    BY <2>1, <2>2 DEF DraftInvariant, SchemasSound
  <2> QED
    BY <1>2, <2>2, <2>3 DEF Serves
<1> QED
  BY <1>3, <1>4, <1>5, <1>6, <1>7, <1>8 DEF DraftInvariant

\* Back to draft.
LEMMA UnpublishKeeps ==
  ASSUME DraftInvariant, NEW p \in Replica, Unpublish(p)
  PROVE  DraftInvariant'
<1>0. /\ DraftTypeOK /\ UNCHANGED <<lock, lease, call, audit, overlapped, bounds>>
      /\ call[p].pc = "idle" /\ version \in Version
      /\ version' = [version EXCEPT !.published = FALSE]
      /\ \A q \in Replica \ {p} : call[q].pc # "applying"
  BY DEF DraftInvariant, DraftTypeOK, Unpublish, Free, VersionRowFree
<1>1. /\ version' \in Version /\ ~ version'.published /\ version'.doc = version.doc
      /\ version'.bypassed = version.bypassed
  BY <1>0 DEF Version
<1>2. Serves(p) /\ call'[p].pc = "idle"
  BY <1>0 DEF Serves, DraftTypeOK
<1>3. DraftTypeOK'
  BY <1>0, <1>1 DEF DraftTypeOK
<1>4. \A q \in Replica : LockCallSound(q)' /\ CaptureSound(q)'
  BY <1>0, <1>1, <1>2, OthersStay DEF LockCallSound, CaptureSound, InLockCall
<1>5. (\A q \in Replica : ApplySound(q)') /\ OneApply'
  BY <1>0, <1>2, AppliesStay
<1>6. LeasesSound' /\ AppliedToItsBase' /\ AnnouncedUnlessFault' /\ SchemasSound'
  BY <1>0, <1>1 DEF DraftInvariant, LeasesSound, AppliedToItsBase, AnnouncedUnlessFault,
                    SchemasSound
<1> QED
  BY <1>3, <1>4, <1>5, <1>6 DEF DraftInvariant

-----------------------------------------------------------------------------
(* The invariant *)

\* A request that dies leaves nothing behind but a fault.
LEMMA FailKeeps ==
  ASSUME DraftInvariant, NEW p \in Replica, Fail(p)
  PROVE  DraftInvariant'
<1>0. /\ DraftTypeOK /\ UNCHANGED <<lock, lease, audit, overlapped>>
      /\ Returns(p) /\ bounds \in [edits : 0..MaxEdits, faults : 0..MaxFaults]
      /\ bounds.faults < MaxFaults /\ bounds' = [bounds EXCEPT !.faults = @ + 1]
  BY DEF DraftInvariant, DraftTypeOK, Fail, Spent
<1>1. bounds' \in [edits : 0..MaxEdits, faults : 0..MaxFaults] /\ bounds'.faults > 0
  BY <1>0, DraftAssumption DEF DraftAssumption
<1>2. Serves(p) /\ call'[p].pc = "idle"
  BY <1>0, ReturnsEffect
<1>3. /\ version' \in Version /\ version'.doc = version.doc /\ version'.schema = version.schema
      /\ version'.published = version.published
      /\ version.bypassed \/ call[p].pc = "capturing" => version'.bypassed
  <2>1. version \in Version /\ version' = [version EXCEPT !.bypassed = @ \/ call[p].pc = "capturing"]
    BY DEF DraftInvariant, DraftTypeOK, Fail
  <2> QED
    BY <2>1 DEF Version
<1>4. DraftTypeOK'
  BY <1>0, <1>1, <1>2, <1>3 DEF DraftTypeOK, Serves
<1>5. \A q \in Replica : LockCallSound(q)' /\ CaptureSound(q)'
  BY <1>0, <1>2, <1>3, OthersStay DEF LockCallSound, CaptureSound, InLockCall
<1>6. (\A q \in Replica : ApplySound(q)') /\ OneApply'
  BY <1>0, <1>2, <1>3, AppliesStay DEF DraftInvariant, ApplySound, InLockCall
<1>7. LeasesSound' /\ AppliedToItsBase' /\ AnnouncedUnlessFault'
  BY <1>0, <1>1 DEF DraftInvariant, LeasesSound, AppliedToItsBase, AnnouncedUnlessFault
<1>8. SchemasSound'
  BY <1>0, <1>2, <1>3 DEF DraftInvariant, SchemasSound, Serves
<1> QED
  BY <1>4, <1>5, <1>6, <1>7, <1>8 DEF DraftInvariant

\* A revision nobody has touched is sound.
LEMMA DraftInvariantInit ==
  ASSUME DraftInit PROVE DraftInvariant
<1>1. PICK c \in Content :
        version = [published |-> FALSE, doc |-> c, schema |-> NoContent,
                   announced |-> FALSE, bypassed |-> FALSE]
  BY DEF DraftInit
<1>2. /\ lock = Unlocked /\ lease = [u \in User |-> FALSE] /\ call = [p \in Replica |-> Idle]
      /\ audit = <<>> /\ overlapped = FALSE /\ bounds = [edits |-> 0, faults |-> 0]
  BY DEF DraftInit
<1>3. DraftTypeOK
  <2>1. version \in Version
    BY <1>1 DEF Version
  <2>2. lock \in LockRow /\ ~ lock.live
    BY <1>2, LockTypes
  <2>3. call \in [Replica -> Call] /\ audit \in Seq(Applied)
    BY <1>2, IdleType
  <2>4. bounds \in [edits : 0..MaxEdits, faults : 0..MaxFaults]
    BY <1>2, DraftAssumption DEF DraftAssumption
  <2> QED
    BY <1>2, <2>1, <2>2, <2>3, <2>4 DEF DraftTypeOK
<1>4. \A p \in Replica : call[p].pc = "idle"
  BY <1>2, IdleType
<1>5. /\ \A p \in Replica : LockCallSound(p) /\ ApplySound(p) /\ CaptureSound(p)
      /\ OneApply
  BY <1>4 DEF LockCallSound, ApplySound, CaptureSound, OneApply, InLockCall
<1>6. LeasesSound
  BY <1>2, LockTypes DEF LeasesSound
<1>7. AppliedToItsBase /\ AnnouncedUnlessFault /\ SchemasSound
  BY <1>1, <1>2 DEF AppliedToItsBase, AnnouncedUnlessFault, SchemasSound
<1> QED
  BY <1>3, <1>5, <1>6, <1>7 DEF DraftInvariant

\* Nothing changes in a stuttering step.
LEMMA StutterKeeps ==
  ASSUME DraftInvariant, UNCHANGED draftVars PROVE DraftInvariant'
<1>0. UNCHANGED <<version, lock, lease, call, audit, overlapped, bounds>>
  BY DEF draftVars
<1>1. DraftTypeOK' /\ OneApply' /\ LeasesSound' /\ AppliedToItsBase' /\ AnnouncedUnlessFault'
      /\ SchemasSound'
  BY <1>0 DEF DraftInvariant, DraftTypeOK, OneApply, LeasesSound, AppliedToItsBase,
              AnnouncedUnlessFault, SchemasSound, Capturing
<1>2. \A p \in Replica : LockCallSound(p)' /\ ApplySound(p)' /\ CaptureSound(p)'
  BY <1>0 DEF DraftInvariant, LockCallSound, ApplySound, CaptureSound, InLockCall
<1> QED
  BY <1>1, <1>2 DEF DraftInvariant

\* Every step keeps the invariant.
LEMMA DraftInvariantStep ==
  ASSUME DraftInvariant, [DraftNext]_draftVars PROVE DraftInvariant'
<1>1. ASSUME NEW p \in Replica, NEW u \in User,
             \/ AcquireBegin(p, u) \/ RenewBegin(p, u)
             \/ \E c \in Content : ApplyBegin(p, u, c)
      PROVE  DraftInvariant'
  BY <1>1, AcquireBeginKeeps, RenewBeginKeeps, ApplyBeginKeeps
<1>2. ASSUME NEW p \in Replica, Continue(p)
      PROVE  DraftInvariant'
  BY <1>2, AcquireEndKeeps, RenewEndKeeps, ApplyEndKeeps, PublishBeginKeeps, PublishEndKeeps
     DEF Continue
<1>3. ASSUME NEW p \in Replica,
             \/ Release(p) \/ PublishAsk(p) \/ Unpublish(p) \/ Fail(p)
             \/ \E c \in Content : Edit(p, c)
      PROVE  DraftInvariant'
  BY <1>3, ReleaseKeeps, PublishAskKeeps, UnpublishKeeps, FailKeeps, EditKeeps
<1>4. ASSUME NEW u \in User, RunsOut(u)
      PROVE  DraftInvariant'
  BY <1>4, RunsOutKeeps
<1> QED
  BY <1>1, <1>2, <1>3, <1>4, RowRunsOutKeeps, StutterKeeps DEF DraftNext

-----------------------------------------------------------------------------
(* Theorems *)

\* The lock, the requests that are half way and the document agree in every reachable state.
THEOREM DraftInvariantHolds == DraftSpec => []DraftInvariant
<1> QED
  BY DraftInvariantInit, DraftInvariantStep, PTL DEF DraftSpec

\* Every variable keeps its type.
THEOREM DraftTypesHold == DraftSpec => []DraftTypeOK
<1>1. DraftInvariant => DraftTypeOK
  BY DEF DraftInvariant
<1> QED
  BY <1>1, DraftInvariantHolds, PTL

\* Two users hold the lock at once only after a lock call wrote a row that had changed since
\* it judged it (acquire_version_draft_lock commits in between).
THEOREM LeasesAreExclusive == DraftSpec => []LeaseIsExclusive
<1>1. DraftInvariant => LeaseIsExclusive
  BY DEF DraftInvariant, LeasesSound, LeaseIsExclusive
<1> QED
  BY <1>1, DraftInvariantHolds, PTL

\* A source change replaces the document it was reviewed against, unless a canvas edit came
\* in between (apply_source_change_set holds the version row throughout).
THEOREM AppliesReplaceTheirBase == DraftSpec => []AppliedToItsBase
<1>1. DraftInvariant => AppliedToItsBase
  BY DEF DraftInvariant
<1> QED
  BY <1>1, DraftInvariantHolds, PTL

\* Only a request that died leaves a published revision without its inbox rows.
THEOREM PublishedRevisionsAreAnnounced == DraftSpec => []AnnouncedUnlessFault
<1>1. DraftInvariant => AnnouncedUnlessFault
  BY DEF DraftInvariant
<1> QED
  BY <1>1, DraftInvariantHolds, PTL

\* Published revisions have the schemas of their document (publish_version writes them in a
\* second transaction), unless a canvas edit or a death came between.
THEOREM SchemasFollowTheDocument == DraftSpec => []SchemasAreOfTheDocument
<1>1. DraftInvariant => SchemasAreOfTheDocument
  BY DEF DraftInvariant, SchemasSound, SchemasAreOfTheDocument, Capturing
<1> QED
  BY <1>1, DraftInvariantHolds, PTL

\* The audit trail grows only when an apply ends.
LEMMA OnlyApplyEndAudits ==
  ASSUME [DraftNext]_draftVars, audit' # audit
  PROVE  \E p \in Replica : ApplyEnd(p)
BY DEF DraftNext, draftVars, AcquireBegin, AcquireEnd, RenewBegin, RenewEnd, Release, RunsOut,
       RowRunsOut, Edit, ApplyBegin, PublishAsk, PublishBegin, PublishEnd, Unpublish, Fail,
       Continue

\* An apply that ends does so under no lock but its user's, or one whose call was half way
\* when the apply began.
THEOREM AppliesHonourTheLock == DraftSpec => ApplyHonoursTheLock
<1>1. ASSUME DraftInvariant, NEW p \in Replica, call[p].pc = "applying", lock.live
      PROVE  lock.owner = call[p].user \/ lock.by \in call[p].waiting
  BY <1>1 DEF DraftInvariant, ApplySound
<1>2. DraftInvariant =>
        \A p \in Replica : audit' # audit /\ call[p].pc = "applying" /\ lock.live
                           => lock.owner = call[p].user \/ lock.by \in call[p].waiting
  BY <1>1
<1>3. DraftInvariant => [\A p \in Replica :
          /\ audit' # audit
          /\ call[p].pc = "applying"
          /\ lock.live
          => lock.owner = call[p].user \/ lock.by \in call[p].waiting]_draftVars
  BY <1>2
<1> QED
  BY <1>3, DraftInvariantHolds, PTL DEF ApplyHonoursTheLock

\* No source change reaches a published revision: publication waits for the applies that are
\* under way, and none begins after it.
THEOREM PublishedStaysAsItIs == DraftSpec => PublishedIsNotRewritten
<1>1. ASSUME DraftInvariant, [DraftNext]_draftVars, version.published
      PROVE  audit' = audit
  <2>1. SUFFICES ASSUME audit' # audit PROVE FALSE
    OBVIOUS
  <2>2. PICK p \in Replica : ApplyEnd(p)
    BY <1>1, <2>1, OnlyApplyEndAudits
  <2>3. call[p].pc = "applying"
    BY <2>2 DEF ApplyEnd
  <2> QED
    BY <1>1, <2>3 DEF DraftInvariant, ApplySound
<1>2. DraftInvariant /\ [DraftNext]_draftVars
        => [version.published => audit' = audit]_draftVars
  BY <1>1
<1> QED
  BY <1>2, DraftInvariantHolds, PTL DEF DraftSpec, PublishedIsNotRewritten
=============================================================================
