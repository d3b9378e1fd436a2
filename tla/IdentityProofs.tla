--------------------------- MODULE IdentityProofs ---------------------------
(***************************************************************************)
(* For any number of accounts, roles, sessions and requests: as long as no *)
(* change that may give edit_staff overlaps another change, the two guards *)
(* keep an active holder of edit_staff.                                    *)
(***************************************************************************)
EXTENDS Identity, TLAPS

Open(q) == txn[q] # NoTxn

(* What a transaction is about exists, and stays known. *)
WellFormed(q) ==
    LET t == txn[q] IN
    /\ t.phase \in {"reading", "weighing", "written"} => t.table = "staff"
    /\ t.table = "staff" => /\ t.staff \in Staff /\ roleOf[t.staff] # None
                            /\ t.role # Same \/ t.active # Same
                            /\ t.role # Same => role[t.role] # "absent"
                            /\ t.phase \in {"checking", "weighing"} => t.was \in Roles
    /\ t.table = "roles" => t.role \in Roles /\ role[t.role] # "absent"
    /\ t.phase \in {"written", "ready"} /\ t.table = "staff" => t.staff \in t.rows
    /\ t.phase \in {"written", "ready"} /\ t.role # Same => RoleExists(t.role)
    /\ t.phase \in {"reading", "checking", "weighing", "locking"} => ~t.guard
    /\ t.phase \in {"counting", "waiting"} => t.guard

(* The foreign key of staff. *)
RolesExist == \A s \in Staff : roleOf[s] # None => RoleExists(roleOf[s])

(* The advisory lock, the row locks, and the assumption on grants. *)
Exclusive ==
    \A p, q \in Requests : p # q =>
      /\ ~(txn[p].guard /\ txn[q].guard)
      /\ txn[p].rows \cap txn[q].rows = {}
      /\ Open(p) /\ Open(q) => ~MayGrant(txn[p])

Losing(t) == t.active = "off" \/ (t.role # Same /\ ~HasEditStaffPermission(t.role))

(* A guard that is reading knows the role of an account that matters. *)
ReadingKnows(q) ==
    LET t == txn[q] IN
    t.table = "staff" /\ t.phase \in {"checking", "weighing"} /\ t.staff \in Admins
      => roleOf[t.staff] = t.was

(* A guard that let its change pass without the lock had a reason that      *)
(* still holds.                                                             *)
PassedWithReason(q) ==
    LET t == txn[q] IN
    t.phase \in {"writing", "written", "ready"} /\ ~t.guard =>
      /\ t.table = "staff" /\ t.staff \in Admins =>
           ~Losing(t) \/ (t.phase = "writing" /\ t.role # Same /\ ~RoleExists(t.role))
      /\ t.table = "roles" /\ HasEditStaffPermission(t.role) => t.keeps

(* A snapshot's roles hold edit_staff until they are deleted. *)
SnapshotHolds(q) ==
    txn[q].phase = "waiting" =>
      \A c \in txn[q].candidates : role[c.role] \in {"editor", "deleted"}

(* A guard that counted has somebody else in its row locks. *)
SomebodyElse(q) ==
    LET t == txn[q] IN
    t.phase \in {"writing", "written", "ready"} /\ t.guard =>
      \E s \in t.rows \cap Admins :
        IF t.table = "staff" THEN s # t.staff ELSE roleOf[s] # t.role

Sound(q) ==
    /\ WellFormed(q)
    /\ ReadingKnows(q)
    /\ PassedWithReason(q)
    /\ SnapshotHolds(q)
    /\ SomebodyElse(q)

IdentityInv ==
    /\ IdentityTypeOK
    /\ RolesExist
    /\ Exclusive
    /\ \A q \in Requests : Sound(q)
    /\ AdminRemains
-----------------------------------------------------------------------------
LEMMA InitInv == Init => IdentityInv
<1> SUFFICES ASSUME Init PROVE IdentityInv
  OBVIOUS
<1>1. IdentityTypeOK
  BY IdentityAssumption DEF Init, IdentityTypeOK, RoleStates, SessionStates
<1>2. RolesExist
  BY IdentityAssumption DEF Init, RolesExist, RoleExists
<1>3. Exclusive
  BY DEF Init, Exclusive, Open, NoTxn
<1>4. \A q \in Requests : Sound(q)
  BY DEF Init, Sound, WellFormed, ReadingKnows, PassedWithReason, SnapshotHolds,
         SomebodyElse, NoTxn, None
<1>5. AdminRemains
  <2>1. Owner \in Admins
    BY IdentityAssumption DEF Init, Admins, HasEditStaffPermission
  <2> QED BY <2>1 DEF AdminRemains
<1> QED BY <1>1, <1>2, <1>3, <1>4, <1>5 DEF IdentityInv

(* An open transaction, by its phase. *)
LEMMA OpenFacts ==
    ASSUME IdentityTypeOK, NEW q \in Requests
    PROVE  /\ txn[q].phase # "idle" <=> Open(q)
           /\ Open(q) => txn[q] \in OpenTxn
BY DEF IdentityTypeOK, Open, OpenTxn, NoTxn

LEMMA NoTxnIsSound ==
    ASSUME NEW q \in Requests, txn'[q] = NoTxn
    PROVE  Sound(q)'
BY DEF Sound, WellFormed, ReadingKnows, PassedWithReason, SnapshotHolds, SomebodyElse,
       NoTxn, None

(* A step that changes one transaction and no table keeps the invariant if  *)
(* what it leaves of that transaction is sound and exclusive.               *)
LEMMA LocalStep ==
    ASSUME IdentityInv, NEW q \in Requests, NEW t \in OpenTxn \cup {NoTxn},
           txn' = [txn EXCEPT ![q] = t],
           UnchangedTables,
           Sound(q)',
           t.guard => txn[q].guard \/ GuardFree(q),
           RowsFree(q, t.rows),
           t # NoTxn => \A p \in Others(q) : Open(p) => ~MayGrant(t) /\ ~MayGrant(txn[p])
    PROVE  IdentityInv'
<1>1. /\ txn'[q] = t
      /\ \A p \in Others(q) : txn'[p] = txn[p]
  BY DEF IdentityInv, IdentityTypeOK, Others
<1>2. UNCHANGED <<roleOf, active, role, session, trusted>>
  BY DEF UnchangedTables
<1>3. Admins' = Admins
  BY <1>2 DEF Admins, HasEditStaffPermission
<1>4. IdentityTypeOK'
  BY <1>2 DEF IdentityInv, IdentityTypeOK
<1>5. Exclusive'
  <2>1. \A x : MayGrant(x)' = MayGrant(x)
    BY <1>2 DEF MayGrant, HasEditStaffPermission
  <2> QED BY <1>1, <2>1 DEF IdentityInv, Exclusive, Open, Others, GuardFree, RowsFree
<1>6. ASSUME NEW p \in Others(q) PROVE Sound(p)'
  <2>1. Sound(p)
    BY <1>6 DEF IdentityInv, Others
  <2>2. txn'[p] = txn[p]
    BY <1>1
  <2> QED BY <1>2, <1>3, <2>1, <2>2 DEF Sound, WellFormed, ReadingKnows, PassedWithReason,
             SnapshotHolds, SomebodyElse, RoleExists, Losing, HasEditStaffPermission
<1>7. RolesExist' /\ AdminRemains'
  BY <1>2, <1>3 DEF IdentityInv, RolesExist, RoleExists, AdminRemains
<1> QED BY <1>4, <1>5, <1>6, <1>7 DEF IdentityInv, Others

(* The same for a transaction that goes on with the change it is about.     *)
LEMMA Progress ==
    ASSUME IdentityInv, NEW q \in Requests, Open(q), NEW t \in OpenTxn,
           txn' = [txn EXCEPT ![q] = t],
           UnchangedTables,
           t.table = txn[q].table, t.staff = txn[q].staff, t.role = txn[q].role,
           t.active = txn[q].active, t.keeps = txn[q].keeps,
           t.guard => txn[q].guard \/ GuardFree(q),
           RowsFree(q, t.rows \ txn[q].rows),
           Sound(q)'
    PROVE  IdentityInv'
<1>1. MayGrant(t) <=> MayGrant(txn[q])
  BY DEF MayGrant
<1>2. \A p \in Others(q) : Open(p) => ~MayGrant(t) /\ ~MayGrant(txn[p])
  BY <1>1 DEF IdentityInv, Exclusive, Others
<1>3. RowsFree(q, t.rows)
  <2>1. RowsFree(q, txn[q].rows)
    BY DEF IdentityInv, Exclusive, RowsFree, Others
  <2> QED BY <2>1 DEF RowsFree
<1> QED BY <1>2, <1>3, LocalStep

LEMMA RollbackInv ==
    ASSUME IdentityInv, NEW q \in Requests, End(q), UnchangedTables
    PROVE  IdentityInv'
<1>1. txn'[q] = NoTxn
  BY DEF IdentityInv, IdentityTypeOK, End
<1>2. Sound(q)'
  BY <1>1, NoTxnIsSound
<1>3. ~NoTxn.guard /\ RowsFree(q, NoTxn.rows)
  BY DEF NoTxn, RowsFree
<1> QED BY <1>2, <1>3, LocalStep DEF End

LEMMA BeginInv ==
    ASSUME IdentityInv, GrantsAlone = TRUE, NEW q \in Requests, NEW t \in OpenTxn,
           Begin(q, t), ~t.guard, t.rows = {}, t # NoTxn,
           Sound(q)'
    PROVE  IdentityInv'
<1>1. txn' = [txn EXCEPT ![q] = t] /\ UnchangedTables
  BY DEF Begin
<1>2. \A p \in Others(q) : Open(p) => ~MayGrant(t) /\ ~MayGrant(txn[p])
  BY DEF Begin, Others, Open
<1>3. RowsFree(q, t.rows)
  BY DEF RowsFree
<1> QED BY <1>1, <1>2, <1>3, LocalStep

LEMMA ChangeInv ==
    ASSUME IdentityInv, GrantsAlone = TRUE, NEW q \in Requests, NEW s \in Staff,
           NEW r \in Roles \cup {Same}, NEW a \in Activity, Change(q, s, r, a),
           r # Same \/ a # Same,
           r # Same => role[r] # "absent"
    PROVE  IdentityInv'
<1> DEFINE t == [NoTxn EXCEPT !.phase = "reading", !.table = "staff", !.staff = s,
                              !.role = r, !.active = a]
<1>1. /\ t \in OpenTxn
      /\ t # NoTxn /\ ~t.guard /\ t.rows = {}
      /\ t.phase = "reading" /\ t.table = "staff" /\ t.staff = s /\ t.role = r /\ t.active = a
  BY DEF NoTxn, OpenTxn
<1>2. /\ Begin(q, t)
      /\ r # Same \/ a # Same
      /\ roleOf[s] # None
      /\ r # Same => role[r] # "absent"
  BY DEF Change
<1>3. txn'[q] = t /\ UNCHANGED <<roleOf, active, role, session, trusted>>
  BY <1>2 DEF Begin, UnchangedTables, IdentityInv, IdentityTypeOK
<1> HIDE DEF t
<1>4. Sound(q)'
  BY <1>1, <1>2, <1>3 DEF Sound, WellFormed, ReadingKnows, PassedWithReason, SnapshotHolds,
                          SomebodyElse
<1> QED BY <1>1, <1>2, <1>4, BeginInv

LEMMA UpdateRoleInv ==
    ASSUME IdentityInv, GrantsAlone = TRUE, NEW q \in Requests, NEW r \in Roles,
           NEW keeps \in BOOLEAN, UpdateRole(q, r, keeps)
    PROVE  IdentityInv'
<1> DEFINE t == [NoTxn EXCEPT !.phase = "checking", !.table = "roles", !.role = r,
                              !.keeps = keeps]
<1>1. /\ t \in OpenTxn
      /\ t # NoTxn /\ ~t.guard /\ t.rows = {}
      /\ t.phase = "checking" /\ t.table = "roles" /\ t.role = r
  BY DEF NoTxn, OpenTxn, Activity
<1>2. Begin(q, t) /\ RoleExists(r)
  BY DEF UpdateRole
<1>3. txn'[q] = t /\ UNCHANGED <<roleOf, active, role, session, trusted>>
  BY <1>2 DEF Begin, UnchangedTables, IdentityInv, IdentityTypeOK
<1> HIDE DEF t
<1>4. Sound(q)'
  BY <1>1, <1>2, <1>3 DEF Sound, WellFormed, ReadingKnows, PassedWithReason, SnapshotHolds,
                          SomebodyElse, RoleExists
<1> QED BY <1>1, <1>2, <1>4, BeginInv

(* A change is passed on to the next phase: the rest is as it was.          *)
LEMMA GotoFacts ==
    ASSUME IdentityInv, NEW q \in Requests, Open(q), NEW phase,
           phase \in {"checking", "weighing", "locking", "counting", "waiting", "writing",
                      "written", "ready"}
    PROVE  [txn[q] EXCEPT !.phase = phase] \in OpenTxn
<1>1. txn[q] \in OpenTxn
  BY DEF IdentityInv, IdentityTypeOK, Open
<1> QED BY <1>1 DEF OpenTxn

LEMMA SoundFacts ==
    ASSUME IdentityInv, NEW q \in Requests, txn[q].phase # "idle"
    PROVE  /\ Open(q)
           /\ txn[q] \in OpenTxn
           /\ WellFormed(q) /\ ReadingKnows(q) /\ PassedWithReason(q)
           /\ SnapshotHolds(q) /\ SomebodyElse(q)
BY DEF IdentityInv, IdentityTypeOK, Open, OpenTxn, NoTxn, Sound

LEMMA GetByIDInv ==
    ASSUME IdentityInv, NEW q \in Requests, GetByID(q)
    PROVE  IdentityInv'
<1> DEFINE t == [txn[q] EXCEPT !.phase = IF active[txn[q].staff] THEN "checking" ELSE "writing",
                               !.was = roleOf[txn[q].staff]]
<1>1. /\ txn[q].phase = "reading"
      /\ txn' = [txn EXCEPT ![q] = t]
      /\ UnchangedTables
  BY DEF GetByID
<1>2. /\ Open(q)
      /\ txn[q] \in OpenTxn
      /\ WellFormed(q)
  BY <1>1, SoundFacts
<1>3. txn[q].table = "staff" /\ txn[q].staff \in Staff /\ ~txn[q].guard
  BY <1>1, <1>2 DEF WellFormed
<1>4. roleOf[txn[q].staff] \in Roles
  BY <1>2, <1>3 DEF WellFormed, IdentityInv, IdentityTypeOK
<1>5. /\ t \in OpenTxn
      /\ t.phase = IF active[txn[q].staff] THEN "checking" ELSE "writing"
      /\ t.was = roleOf[txn[q].staff]
      /\ t.table = txn[q].table /\ t.staff = txn[q].staff /\ t.role = txn[q].role
      /\ t.active = txn[q].active /\ t.keeps = txn[q].keeps /\ t.guard = txn[q].guard
      /\ t.rows = txn[q].rows
  BY <1>2, <1>4 DEF OpenTxn
<1>6. txn'[q] = t /\ UNCHANGED <<roleOf, active, role, session, trusted>>
  BY <1>1 DEF UnchangedTables, IdentityInv, IdentityTypeOK
<1> HIDE DEF t
<1>7. RowsFree(q, t.rows \ txn[q].rows)
  BY <1>5 DEF RowsFree
<1>8. WellFormed(q)'
  BY <1>1, <1>2, <1>3, <1>4, <1>5, <1>6 DEF WellFormed, RoleExists
<1>9. ReadingKnows(q)' /\ SnapshotHolds(q)'
  BY <1>3, <1>5, <1>6 DEF ReadingKnows, SnapshotHolds
<1>10. PassedWithReason(q)'
  BY <1>3, <1>5, <1>6 DEF PassedWithReason, Admins
<1>11. SomebodyElse(q)'
  BY <1>3, <1>5, <1>6 DEF SomebodyElse
<1>12. Sound(q)'
  BY <1>8, <1>9, <1>10, <1>11 DEF Sound
<1> QED BY <1>1, <1>2, <1>5, <1>7, <1>12, Progress

LEMMA CheckRoleInv ==
    ASSUME IdentityInv, NEW q \in Requests, CheckRole(q)
    PROVE  IdentityInv'
<1>1. /\ txn[q].phase = "checking"
      /\ UnchangedTables
      /\ \/ txn[q].table = "staff" \/ txn[q].table = "roles"
  BY DEF CheckRole
<1>2. /\ Open(q)
      /\ txn[q] \in OpenTxn
      /\ WellFormed(q) /\ ReadingKnows(q)
  BY <1>1, SoundFacts
<1>3. PICK phase \in {"weighing", "locking", "writing"} :
        /\ Goto(q, phase)
        /\ txn[q].table = "staff" =>
             phase = IF HasEditStaffPermission(txn[q].was) THEN "weighing" ELSE "writing"
        /\ txn[q].table = "roles" =>
             phase = IF HasEditStaffPermission(txn[q].role) /\ ~txn[q].keeps THEN "locking"
                     ELSE "writing"
  BY <1>1 DEF CheckRole
<1> DEFINE t == [txn[q] EXCEPT !.phase = phase]
<1>4. txn' = [txn EXCEPT ![q] = t]
  BY <1>3 DEF Goto
<1>5. /\ t \in OpenTxn
      /\ t.phase = phase /\ t.was = txn[q].was
      /\ t.table = txn[q].table /\ t.staff = txn[q].staff /\ t.role = txn[q].role
      /\ t.active = txn[q].active /\ t.keeps = txn[q].keeps /\ t.guard = txn[q].guard
      /\ t.rows = txn[q].rows
  BY <1>2, GotoFacts DEF OpenTxn
<1>6. txn'[q] = t /\ UNCHANGED <<roleOf, active, role, session, trusted>>
  BY <1>1, <1>4 DEF UnchangedTables, IdentityInv, IdentityTypeOK
<1> HIDE DEF t
<1>7. RowsFree(q, t.rows \ txn[q].rows)
  BY <1>5 DEF RowsFree
<1>8. ~txn[q].guard
  BY <1>1, <1>2 DEF WellFormed
<1>9. WellFormed(q)'
  BY <1>1, <1>2, <1>3, <1>5, <1>6, <1>8 DEF WellFormed, RoleExists
<1>10. ReadingKnows(q)' /\ SnapshotHolds(q)' /\ SomebodyElse(q)'
  BY <1>1, <1>2, <1>3, <1>5, <1>6, <1>8
     DEF ReadingKnows, SnapshotHolds, SomebodyElse, Admins, HasEditStaffPermission
<1>11. PassedWithReason(q)'
  BY <1>1, <1>2, <1>3, <1>5, <1>6 DEF PassedWithReason, ReadingKnows, Admins,
                                      HasEditStaffPermission
<1>12. Sound(q)'
  BY <1>9, <1>10, <1>11 DEF Sound
<1> QED BY <1>1, <1>2, <1>4, <1>5, <1>7, <1>8, <1>12, Progress

LEMMA CheckLosingInv ==
    ASSUME IdentityInv, NEW q \in Requests, CheckLosing(q)
    PROVE  IdentityInv'
<1>1. /\ txn[q].phase = "weighing"
      /\ UnchangedTables
      /\ Goto(q, IF Losing(txn[q]) THEN "locking" ELSE "writing")
  BY DEF CheckLosing, Losing
<1>2. /\ Open(q)
      /\ txn[q] \in OpenTxn
      /\ WellFormed(q)
  BY <1>1, SoundFacts
<1> DEFINE phase == IF Losing(txn[q]) THEN "locking" ELSE "writing"
           t == [txn[q] EXCEPT !.phase = phase]
<1>3. phase \in {"locking", "writing"} /\ txn' = [txn EXCEPT ![q] = t]
  BY <1>1 DEF Goto
<1>4. /\ t \in OpenTxn
      /\ t.phase = phase
      /\ t.table = txn[q].table /\ t.staff = txn[q].staff /\ t.role = txn[q].role
      /\ t.active = txn[q].active /\ t.keeps = txn[q].keeps /\ t.guard = txn[q].guard
      /\ t.rows = txn[q].rows
  BY <1>2, <1>3, GotoFacts DEF OpenTxn
<1>5. txn'[q] = t /\ UNCHANGED <<roleOf, active, role, session, trusted>>
  BY <1>1, <1>3 DEF UnchangedTables, IdentityInv, IdentityTypeOK
<1> HIDE DEF t
<1>6. RowsFree(q, t.rows \ txn[q].rows)
  BY <1>4 DEF RowsFree
<1>7. ~txn[q].guard /\ txn[q].table = "staff"
  BY <1>1, <1>2 DEF WellFormed
<1>8. WellFormed(q)'
  BY <1>1, <1>2, <1>3, <1>4, <1>5, <1>7 DEF WellFormed, RoleExists
<1>9. ReadingKnows(q)' /\ SnapshotHolds(q)' /\ SomebodyElse(q)'
  BY <1>3, <1>4, <1>5, <1>7 DEF ReadingKnows, SnapshotHolds, SomebodyElse
<1>10. PassedWithReason(q)'
  <2>1. t.phase = "writing" => ~Losing(txn[q])
    BY <1>4
  <2> QED BY <1>3, <1>4, <1>5, <1>7, <2>1 DEF PassedWithReason, Losing, HasEditStaffPermission
<1>11. Sound(q)'
  BY <1>8, <1>9, <1>10 DEF Sound
<1> QED BY <1>1, <1>2, <1>3, <1>4, <1>6, <1>7, <1>11, Progress

LEMMA TakeGuardLockInv ==
    ASSUME IdentityInv, NEW q \in Requests, TakeGuardLock(q)
    PROVE  IdentityInv'
<1> DEFINE t == [txn[q] EXCEPT !.phase = "counting", !.guard = TRUE]
<1>1. /\ txn[q].phase = "locking"
      /\ GuardFree(q)
      /\ txn' = [txn EXCEPT ![q] = t]
      /\ UnchangedTables
  BY DEF TakeGuardLock
<1>2. Open(q) /\ txn[q] \in OpenTxn /\ WellFormed(q)
  BY <1>1, SoundFacts
<1>3. /\ t \in OpenTxn
      /\ t.phase = "counting" /\ t.guard
      /\ t.table = txn[q].table /\ t.staff = txn[q].staff /\ t.role = txn[q].role
      /\ t.active = txn[q].active /\ t.keeps = txn[q].keeps /\ t.rows = txn[q].rows
  BY <1>2 DEF OpenTxn
<1>4. txn'[q] = t /\ UNCHANGED <<roleOf, active, role, session, trusted>>
  BY <1>1 DEF UnchangedTables, IdentityInv, IdentityTypeOK
<1> HIDE DEF t
<1>5. RowsFree(q, t.rows \ txn[q].rows)
  BY <1>3 DEF RowsFree
<1>6. WellFormed(q)'
  BY <1>2, <1>3, <1>4 DEF WellFormed
<1>7. Sound(q)'
  BY <1>3, <1>4, <1>6 DEF Sound, ReadingKnows, SnapshotHolds, SomebodyElse, PassedWithReason
<1> QED BY <1>1, <1>2, <1>3, <1>5, <1>7, Progress

LEMMA CountAdminsInv ==
    ASSUME IdentityInv, NEW q \in Requests, CountAdmins(q)
    PROVE  IdentityInv'
<1> DEFINE found == {[staff |-> s, role |-> roleOf[s]] : s \in Admins}
           t == [txn[q] EXCEPT !.phase = "waiting", !.candidates = found]
<1>1. /\ txn[q].phase = "counting"
      /\ txn' = [txn EXCEPT ![q] = t]
      /\ UnchangedTables
  BY DEF CountAdmins
<1>2. Open(q) /\ txn[q] \in OpenTxn /\ WellFormed(q)
  BY <1>1, SoundFacts
<1>3. found \subseteq Candidate /\ \A c \in found : role[c.role] = "editor"
  <2>1. \A s \in Admins : s \in Staff /\ roleOf[s] \in Roles /\ role[roleOf[s]] = "editor"
    BY DEF Admins, HasEditStaffPermission, IdentityInv, IdentityTypeOK
  <2> QED BY <2>1 DEF Candidate
<1> HIDE DEF found
<1>4. /\ t \in OpenTxn
      /\ t.phase = "waiting" /\ t.candidates = found
      /\ t.table = txn[q].table /\ t.staff = txn[q].staff /\ t.role = txn[q].role
      /\ t.active = txn[q].active /\ t.keeps = txn[q].keeps /\ t.guard = txn[q].guard
      /\ t.rows = txn[q].rows
  BY <1>2, <1>3 DEF OpenTxn
<1>5. txn'[q] = t /\ UNCHANGED <<roleOf, active, role, session, trusted>>
  BY <1>1 DEF UnchangedTables, IdentityInv, IdentityTypeOK
<1> HIDE DEF t
<1>6. RowsFree(q, t.rows \ txn[q].rows)
  BY <1>4 DEF RowsFree
<1>7. WellFormed(q)'
  BY <1>1, <1>2, <1>4, <1>5 DEF WellFormed
<1>8. SnapshotHolds(q)'
  BY <1>3, <1>4, <1>5 DEF SnapshotHolds
<1>9. Sound(q)'
  BY <1>4, <1>5, <1>7, <1>8 DEF Sound, ReadingKnows, SomebodyElse, PassedWithReason
<1> QED BY <1>1, <1>2, <1>4, <1>6, <1>9, Progress

(* The witness of the count still is an admin: its row is unchanged since   *)
(* the snapshot, so its role is not deleted and holds edit_staff.           *)
LEMMA LockAdminsInv ==
    ASSUME IdentityInv, NEW q \in Requests, LockAdmins(q)
    PROVE  IdentityInv'
<1> DEFINE rows == {c.staff : c \in txn[q].candidates}
           t == [txn[q] EXCEPT !.phase = "writing", !.rows = rows]
<1>1. /\ txn[q].phase = "waiting"
      /\ RowsFree(q, rows)
      /\ UnchangedTables
  BY DEF LockAdmins
<1>2. Open(q) /\ txn[q] \in OpenTxn /\ WellFormed(q) /\ SnapshotHolds(q)
  BY <1>1, SoundFacts
<1>3. CASE Remaining(txn[q]) = {}
  BY <1>1, <1>3, RollbackInv DEF LockAdmins
<1>4. CASE Remaining(txn[q]) # {}
  <2>1. txn' = [txn EXCEPT ![q] = t]
    BY <1>4 DEF LockAdmins
  <2>2. txn[q].candidates \subseteq Candidate
    BY <1>2 DEF OpenTxn
  <2>3. rows \subseteq Staff
    BY <2>2 DEF Candidate
  <2>4. PICK c \in txn[q].candidates :
          /\ StillQualifies(c)
          /\ IF txn[q].table = "staff" THEN c.staff # txn[q].staff ELSE c.role # txn[q].role
    BY <1>4 DEF Remaining
  <2>5. c.staff \in rows
    OBVIOUS
  <2> HIDE DEF rows
  <2>6. /\ t \in OpenTxn
        /\ t.phase = "writing" /\ t.rows = rows
        /\ t.table = txn[q].table /\ t.staff = txn[q].staff /\ t.role = txn[q].role
        /\ t.active = txn[q].active /\ t.keeps = txn[q].keeps /\ t.guard = txn[q].guard
    BY <1>2, <2>3 DEF OpenTxn
  <2>7. txn'[q] = t /\ UNCHANGED <<roleOf, active, role, session, trusted>>
    BY <1>1, <2>1 DEF UnchangedTables, IdentityInv, IdentityTypeOK
  <2> HIDE DEF t
  <2>8. c.staff \in Admins /\ roleOf[c.staff] = c.role
    <3>1. c.staff \in Staff /\ c.role \in Roles /\ active[c.staff] /\ roleOf[c.staff] = c.role
      BY <2>2, <2>4 DEF Candidate, StillQualifies
    <3>2. c.role # None
      BY <3>1, IdentityAssumption
    <3>3. role[c.role] \in {"editor", "deleted"}
      BY <1>1, <1>2, <2>4 DEF SnapshotHolds
    <3>4. RoleExists(c.role)
      BY <3>1, <3>2 DEF IdentityInv, RolesExist
    <3> QED BY <3>1, <3>2, <3>3, <3>4 DEF Admins, RoleExists, HasEditStaffPermission
  <2>9. RowsFree(q, t.rows \ txn[q].rows)
    BY <1>1, <2>6 DEF RowsFree
  <2>10. WellFormed(q)' /\ txn[q].guard
    BY <1>1, <1>2, <2>6, <2>7 DEF WellFormed
  <2>11. Admins' = Admins
    BY <2>7 DEF Admins, HasEditStaffPermission
  <2>12. SomebodyElse(q)'
    BY <2>4, <2>5, <2>6, <2>7, <2>8, <2>11 DEF SomebodyElse
  <2>13. Sound(q)'
    BY <2>6, <2>7, <2>10, <2>12 DEF Sound, ReadingKnows, SnapshotHolds, PassedWithReason
  <2> QED BY <1>1, <1>2, <2>1, <2>6, <2>9, <2>13, Progress
<1> QED BY <1>3, <1>4

(* Had the role been gone, the statement would have failed: what passed     *)
(* without the lock and writes does not take edit_staff from an admin.      *)
LEMMA WriteStaffInv ==
    ASSUME IdentityInv, NEW q \in Requests, WriteStaff(q)
    PROVE  IdentityInv'
<1> DEFINE phase == IF txn[q].active = "off" THEN "written" ELSE "ready"
           t == [txn[q] EXCEPT !.phase = phase, !.rows = @ \cup {txn[q].staff}]
<1>1. /\ txn[q].phase = "writing" /\ txn[q].table = "staff"
      /\ RowsFree(q, {txn[q].staff})
      /\ txn[q].role # Same => RoleExists(txn[q].role)
      /\ txn' = [txn EXCEPT ![q] = t]
      /\ UnchangedTables
  BY DEF WriteStaff
<1>2. /\ Open(q) /\ txn[q] \in OpenTxn
      /\ WellFormed(q) /\ PassedWithReason(q) /\ SomebodyElse(q)
  BY <1>1, SoundFacts
<1>3. txn[q].staff \in Staff
  BY <1>1, <1>2 DEF WellFormed
<1>4. /\ t \in OpenTxn
      /\ t.phase \in {"written", "ready"} /\ t.rows = txn[q].rows \cup {txn[q].staff}
      /\ t.table = txn[q].table /\ t.staff = txn[q].staff /\ t.role = txn[q].role
      /\ t.active = txn[q].active /\ t.keeps = txn[q].keeps /\ t.guard = txn[q].guard
  BY <1>2, <1>3 DEF OpenTxn
<1>5. txn'[q] = t /\ UNCHANGED <<roleOf, active, role, session, trusted>>
  BY <1>1 DEF UnchangedTables, IdentityInv, IdentityTypeOK
<1> HIDE DEF t
<1>6. RowsFree(q, t.rows \ txn[q].rows)
  BY <1>1, <1>4 DEF RowsFree
<1>7. WellFormed(q)'
  BY <1>1, <1>2, <1>4, <1>5 DEF WellFormed, RoleExists
<1>8. Admins' = Admins
  BY <1>5 DEF Admins, HasEditStaffPermission
<1>9. SomebodyElse(q)'
  BY <1>1, <1>2, <1>4, <1>5, <1>8 DEF SomebodyElse
<1>10. PassedWithReason(q)'
  BY <1>1, <1>2, <1>4, <1>5, <1>8 DEF PassedWithReason, Losing, HasEditStaffPermission
<1>11. Sound(q)'
  BY <1>4, <1>5, <1>7, <1>9, <1>10 DEF Sound, ReadingKnows, SnapshotHolds
<1> QED BY <1>1, <1>2, <1>4, <1>6, <1>11, Progress

LEMMA RevokeSessionsInv ==
    ASSUME IdentityInv, NEW q \in Requests, RevokeSessions(q)
    PROVE  IdentityInv'
<1> DEFINE t == [txn[q] EXCEPT !.phase = "ready", !.revoked = LiveSessions(txn[q].staff)]
<1>1. /\ txn[q].phase = "written"
      /\ txn' = [txn EXCEPT ![q] = t]
      /\ UnchangedTables
  BY DEF RevokeSessions
<1>2. /\ Open(q) /\ txn[q] \in OpenTxn
      /\ WellFormed(q) /\ PassedWithReason(q) /\ SomebodyElse(q)
  BY <1>1, SoundFacts
<1>3. LiveSessions(txn[q].staff) \subseteq Tokens
  BY DEF LiveSessions
<1>4. /\ t \in OpenTxn
      /\ t.phase = "ready" /\ t.rows = txn[q].rows
      /\ t.table = txn[q].table /\ t.staff = txn[q].staff /\ t.role = txn[q].role
      /\ t.active = txn[q].active /\ t.keeps = txn[q].keeps /\ t.guard = txn[q].guard
  BY <1>2, <1>3 DEF OpenTxn
<1>5. txn'[q] = t /\ UNCHANGED <<roleOf, active, role, session, trusted>>
  BY <1>1 DEF UnchangedTables, IdentityInv, IdentityTypeOK
<1> HIDE DEF t
<1>6. RowsFree(q, t.rows \ txn[q].rows)
  BY <1>4 DEF RowsFree
<1>7. WellFormed(q)'
  BY <1>1, <1>2, <1>4, <1>5 DEF WellFormed, RoleExists
<1>8. Admins' = Admins
  BY <1>5 DEF Admins, HasEditStaffPermission
<1>9. SomebodyElse(q)'
  BY <1>1, <1>2, <1>4, <1>5, <1>8 DEF SomebodyElse
<1>10. PassedWithReason(q)'
  BY <1>1, <1>2, <1>4, <1>5, <1>8 DEF PassedWithReason, Losing, HasEditStaffPermission
<1>11. Sound(q)'
  BY <1>4, <1>5, <1>7, <1>9, <1>10 DEF Sound, ReadingKnows, SnapshotHolds
<1> QED BY <1>1, <1>2, <1>4, <1>6, <1>11, Progress

LEMMA WriteRoleInv ==
    ASSUME IdentityInv, NEW q \in Requests, WriteRole(q)
    PROVE  IdentityInv'
<1> DEFINE t == [txn[q] EXCEPT !.phase = "ready"]
<1>1. /\ txn[q].phase = "writing" /\ txn[q].table = "roles"
      /\ RoleExists(txn[q].role)
      /\ txn' = [txn EXCEPT ![q] = t]
      /\ UnchangedTables
  BY DEF WriteRole, Goto
<1>2. /\ Open(q) /\ txn[q] \in OpenTxn
      /\ WellFormed(q) /\ PassedWithReason(q) /\ SomebodyElse(q)
  BY <1>1, SoundFacts
<1>3. /\ t \in OpenTxn
      /\ t.phase = "ready" /\ t.rows = txn[q].rows
      /\ t.table = txn[q].table /\ t.staff = txn[q].staff /\ t.role = txn[q].role
      /\ t.active = txn[q].active /\ t.keeps = txn[q].keeps /\ t.guard = txn[q].guard
  BY <1>2 DEF OpenTxn
<1>4. txn'[q] = t /\ UNCHANGED <<roleOf, active, role, session, trusted>>
  BY <1>1 DEF UnchangedTables, IdentityInv, IdentityTypeOK
<1> HIDE DEF t
<1>5. RowsFree(q, t.rows \ txn[q].rows)
  BY <1>3 DEF RowsFree
<1>6. WellFormed(q)'
  BY <1>1, <1>2, <1>3, <1>4 DEF WellFormed, RoleExists
<1>7. Admins' = Admins
  BY <1>4 DEF Admins, HasEditStaffPermission
<1>8. SomebodyElse(q)' /\ PassedWithReason(q)'
  BY <1>1, <1>2, <1>3, <1>4, <1>7 DEF SomebodyElse, PassedWithReason, HasEditStaffPermission
<1>9. Sound(q)'
  BY <1>3, <1>4, <1>6, <1>8 DEF Sound, ReadingKnows, SnapshotHolds
<1> QED BY <1>1, <1>2, <1>3, <1>5, <1>9, Progress
-----------------------------------------------------------------------------
(* A step that changes a table and leaves or ends transactions.             *)
LEMMA TableStep ==
    ASSUME IdentityInv, IdentityTypeOK', RolesExist', AdminRemains',
           \A p \in Requests : txn'[p] = txn[p] \/ txn'[p] = NoTxn,
           \A p \in Requests : Open(p) /\ txn'[p] = txn[p] =>
              Sound(p)' /\ (MayGrant(txn[p])' => MayGrant(txn[p]))
    PROVE  IdentityInv'
<1>1. \A p \in Requests : Open(p)' => Open(p) /\ txn'[p] = txn[p]
  BY DEF Open
<1>2. \A p \in Requests : Sound(p)'
  <2> SUFFICES ASSUME NEW p \in Requests PROVE Sound(p)'
    OBVIOUS
  <2>1. CASE txn'[p] = NoTxn
    BY <2>1, NoTxnIsSound
  <2>2. CASE txn'[p] # NoTxn
    BY <1>1, <2>2 DEF Open
  <2> QED BY <2>1, <2>2
<1>3. Exclusive'
  <2> SUFFICES ASSUME NEW p \in Requests, NEW r \in Requests, p # r
               PROVE  /\ ~(txn'[p].guard /\ txn'[r].guard)
                      /\ txn'[p].rows \cap txn'[r].rows = {}
                      /\ Open(p)' /\ Open(r)' => ~MayGrant(txn[p])'
    BY DEF Exclusive
  <2>1. /\ ~NoTxn.guard /\ NoTxn.rows = {}
        /\ ~(txn[p].guard /\ txn[r].guard) /\ txn[p].rows \cap txn[r].rows = {}
    BY DEF NoTxn, IdentityInv, Exclusive
  <2>2. ~(txn'[p].guard /\ txn'[r].guard)
    <3>1. txn'[p].guard => txn[p].guard
      BY <2>1
    <3>2. txn'[r].guard => txn[r].guard
      BY <2>1
    <3> QED BY <2>1, <3>1, <3>2
  <2>3. txn'[p].rows \cap txn'[r].rows = {}
    BY <2>1
  <2>4. Open(p)' /\ Open(r)' => ~MayGrant(txn[p])'
    BY <1>1 DEF IdentityInv, Exclusive
  <2> QED BY <2>2, <2>3, <2>4
<1> QED BY <1>2, <1>3 DEF IdentityInv

LEMMA SessionStep ==
    ASSUME IdentityInv, UNCHANGED <<roleOf, active, role, txn>>, trusted' \subseteq Staff,
           session' \in [Tokens -> [state : SessionStates, owner : Staff \cup {None}]]
    PROVE  IdentityInv'
<1>1. IdentityTypeOK' /\ RolesExist'
  BY DEF IdentityInv, IdentityTypeOK, RolesExist, RoleExists
<1>2. Admins' = Admins
  BY DEF Admins, HasEditStaffPermission
<1>3. AdminRemains'
  BY <1>2 DEF IdentityInv, AdminRemains
<1>4. ASSUME NEW p \in Requests PROVE Sound(p)' /\ (MayGrant(txn[p])' => MayGrant(txn[p]))
  <2>1. Sound(p)
    BY DEF IdentityInv
  <2>2. Sound(p)'
    BY <1>2, <2>1 DEF Sound, WellFormed, ReadingKnows, PassedWithReason, SnapshotHolds,
                      SomebodyElse, RoleExists, Losing, HasEditStaffPermission
  <2> QED BY <2>2 DEF MayGrant, HasEditStaffPermission
<1> QED BY <1>1, <1>3, <1>4, TableStep

LEMMA ValidateInv ==
    ASSUME IdentityInv, NEW s \in Staff, Validate(s) \/ CacheExpires(s)
    PROVE  IdentityInv'
<1>1. UNCHANGED <<roleOf, active, role, session, txn>> /\ trusted' \subseteq Staff
  BY DEF Validate, CacheExpires, IdentityInv, IdentityTypeOK
<1> QED BY <1>1, SessionStep DEF IdentityInv, IdentityTypeOK

LEMMA VerifyCredentialsInv ==
    ASSUME IdentityInv, NEW k \in Tokens, NEW s \in Staff, VerifyCredentials(k, s)
    PROVE  IdentityInv'
<1>1. session' \in [Tokens -> [state : SessionStates, owner : Staff \cup {None}]]
  BY DEF IdentityInv, IdentityTypeOK, VerifyCredentials, SessionStates
<1> QED BY <1>1, SessionStep DEF VerifyCredentials, IdentityInv, IdentityTypeOK

LEMMA CreateSessionInv ==
    ASSUME IdentityInv, NEW k \in Tokens, CreateSession(k)
    PROVE  IdentityInv'
<1>1. session' \in [Tokens -> [state : SessionStates, owner : Staff \cup {None}]]
  BY DEF IdentityInv, IdentityTypeOK, CreateSession, SessionStates
<1> QED BY <1>1, SessionStep DEF CreateSession, IdentityInv, IdentityTypeOK

LEMMA EndSessionInv ==
    ASSUME IdentityInv, NEW k \in Tokens, EndSession(k)
    PROVE  IdentityInv'
<1>1. session' \in [Tokens -> [state : SessionStates, owner : Staff \cup {None}]]
  BY DEF IdentityInv, IdentityTypeOK, EndSession, SessionStates
<1> QED BY <1>1, SessionStep DEF EndSession, IdentityInv, IdentityTypeOK

LEMMA CreateStaffInv ==
    ASSUME IdentityInv, NEW caller, NEW s \in Staff, NEW r \in Roles, CreateStaff(caller, s, r)
    PROVE  IdentityInv'
<1>1. /\ roleOf[s] = None /\ RoleExists(r)
      /\ roleOf' = [roleOf EXCEPT ![s] = r]
      /\ active' = [active EXCEPT ![s] = TRUE]
      /\ UNCHANGED <<role, session, trusted, txn>>
  BY DEF CreateStaff
<1>2. IdentityTypeOK' /\ RolesExist'
  BY <1>1 DEF IdentityInv, IdentityTypeOK, RolesExist, RoleExists
<1>3. \A x \in Staff : x # s => roleOf'[x] = roleOf[x] /\ active'[x] = active[x]
  BY <1>1 DEF IdentityInv, IdentityTypeOK
<1>4. \A x \in Admins : x \in Admins' /\ x # s /\ roleOf'[x] = roleOf[x]
  BY <1>1, <1>3 DEF Admins, HasEditStaffPermission
<1>5. \A x \in Admins' : x # s => x \in Admins
  BY <1>1, <1>3 DEF Admins, HasEditStaffPermission
<1>6. AdminRemains'
  BY <1>4 DEF IdentityInv, AdminRemains
<1>7. ASSUME NEW p \in Requests, Open(p)
      PROVE  Sound(p)' /\ (MayGrant(txn[p])' => MayGrant(txn[p]))
  <2>1. Sound(p) /\ txn'[p] = txn[p]
    BY <1>1 DEF IdentityInv
  <2>2. txn[p].table = "staff" => txn[p].staff \in Staff /\ txn[p].staff # s
    BY <1>1, <2>1 DEF Sound, WellFormed
  <2>3. WellFormed(p)' /\ SnapshotHolds(p)'
    BY <1>1, <1>3, <2>1, <2>2 DEF Sound, WellFormed, SnapshotHolds, RoleExists
  <2>4. ReadingKnows(p)'
    BY <1>3, <1>5, <2>1, <2>2 DEF Sound, ReadingKnows
  <2>5. PassedWithReason(p)'
    BY <1>1, <1>5, <2>1, <2>2
       DEF Sound, PassedWithReason, Losing, RoleExists, HasEditStaffPermission
  <2>6. SomebodyElse(p)'
    BY <1>4, <2>1 DEF Sound, SomebodyElse
  <2> QED BY <1>1, <2>3, <2>4, <2>5, <2>6 DEF Sound, MayGrant, HasEditStaffPermission
<1> QED BY <1>1, <1>2, <1>6, <1>7, TableStep

LEMMA CreateRoleInv ==
    ASSUME IdentityInv, NEW r \in Roles, NEW keeps \in BOOLEAN, CreateRole(r, keeps)
    PROVE  IdentityInv'
<1>1. /\ role[r] = "absent"
      /\ role' = [role EXCEPT ![r] = IF keeps THEN "editor" ELSE "plain"]
      /\ UNCHANGED <<roleOf, active, session, trusted, txn>>
  BY DEF CreateRole
<1>2. \A x : x # r => role'[x] = role[x]
  BY <1>1 DEF IdentityInv, IdentityTypeOK
<1>3. \A s \in Staff : roleOf[s] # None => roleOf[s] # r
  BY <1>1 DEF IdentityInv, RolesExist, RoleExists
<1>4. IdentityTypeOK' /\ RolesExist'
  BY <1>1, <1>2, <1>3 DEF IdentityInv, IdentityTypeOK, RoleStates, RolesExist, RoleExists
<1>5. Admins' = Admins
  BY <1>1, <1>2, <1>3 DEF Admins, HasEditStaffPermission
<1>6. AdminRemains'
  BY <1>5 DEF IdentityInv, AdminRemains
<1>7. ASSUME NEW p \in Requests, Open(p)
      PROVE  Sound(p)' /\ (MayGrant(txn[p])' => MayGrant(txn[p]))
  <2>1. Sound(p) /\ txn'[p] = txn[p]
    BY <1>1 DEF IdentityInv
  <2>2. /\ txn[p].table = "staff" /\ txn[p].role # Same => txn[p].role # r
        /\ txn[p].table = "roles" => txn[p].role # r
    BY <1>1, <2>1 DEF Sound, WellFormed
  <2>3. txn[p] \in OpenTxn
    BY <1>7 DEF IdentityInv, IdentityTypeOK, Open
  <2>4. txn[p].table \in {"staff", "roles"}
    BY <2>3 DEF OpenTxn
  <2>5. WellFormed(p)'
    BY <1>1, <1>2, <2>1, <2>2, <2>4 DEF Sound, WellFormed, RoleExists
  <2>6. ReadingKnows(p)'
    BY <1>1, <1>5, <2>1 DEF Sound, ReadingKnows
  <2>7. SnapshotHolds(p)'
    BY <1>1, <1>2, <2>1 DEF Sound, SnapshotHolds
  <2>8. PassedWithReason(p)'
    BY <1>1, <1>2, <1>5, <2>1, <2>2
       DEF Sound, PassedWithReason, Losing, RoleExists, HasEditStaffPermission
  <2>9. SomebodyElse(p)'
    BY <1>1, <1>5, <2>1 DEF Sound, SomebodyElse
  <2>10. MayGrant(txn[p])' => MayGrant(txn[p])
    BY <1>1, <1>2, <2>1, <2>2 DEF MayGrant, HasEditStaffPermission
  <2> QED BY <2>5, <2>6, <2>7, <2>8, <2>9, <2>10 DEF Sound
<1> QED BY <1>1, <1>4, <1>6, <1>7, TableStep

LEMMA DeleteRoleInv ==
    ASSUME IdentityInv, NEW r \in Roles, DeleteRole(r)
    PROVE  IdentityInv'
<1>1. /\ RoleExists(r)
      /\ \A s \in Staff : roleOf[s] # r
      /\ \A q \in Requests : txn[q].phase \in {"written", "ready"} => txn[q].role # r
      /\ role' = [role EXCEPT ![r] = "deleted"]
      /\ UNCHANGED <<roleOf, active, session, trusted, txn>>
  BY DEF DeleteRole
<1>2. role'[r] = "deleted" /\ \A x : x # r => role'[x] = role[x]
  BY <1>1 DEF IdentityInv, IdentityTypeOK
<1>3. IdentityTypeOK' /\ RolesExist'
  BY <1>1, <1>2 DEF IdentityInv, IdentityTypeOK, RoleStates, RolesExist, RoleExists
<1>4. Admins' = Admins
  BY <1>1, <1>2 DEF Admins, HasEditStaffPermission
<1>5. AdminRemains'
  BY <1>4 DEF IdentityInv, AdminRemains
<1>6. ASSUME NEW p \in Requests, Open(p)
      PROVE  Sound(p)' /\ (MayGrant(txn[p])' => MayGrant(txn[p]))
  <2>1. Sound(p) /\ txn'[p] = txn[p]
    BY <1>1 DEF IdentityInv
  <2>2. WellFormed(p)'
    BY <1>1, <1>2, <2>1 DEF Sound, WellFormed, RoleExists
  <2>3. ReadingKnows(p)'
    BY <1>1, <1>4, <2>1 DEF Sound, ReadingKnows
  <2>4. SnapshotHolds(p)'
    BY <1>1, <1>2, <2>1 DEF Sound, SnapshotHolds
  <2>5. PassedWithReason(p)'
    BY <1>1, <1>2, <1>4, <2>1
       DEF Sound, PassedWithReason, Losing, RoleExists, HasEditStaffPermission
  <2>6. SomebodyElse(p)'
    BY <1>1, <1>4, <2>1 DEF Sound, SomebodyElse
  <2>7. MayGrant(txn[p])' => MayGrant(txn[p])
    BY <1>1, <1>2, <2>1 DEF MayGrant, HasEditStaffPermission
  <2> QED BY <2>2, <2>3, <2>4, <2>5, <2>6, <2>7 DEF Sound
<1> QED BY <1>1, <1>3, <1>5, <1>6, TableStep

(* A change of an account takes edit_staff from nobody but the account, and *)
(* a guard that counted has another; what may give it is alone.             *)
LEMMA CommitStaffInv ==
    ASSUME IdentityInv, NEW q \in Requests, CommitStaff(q)
    PROVE  IdentityInv'
<1> DEFINE t == txn[q]
<1>1. /\ t.phase = "ready" /\ t.table = "staff"
      /\ roleOf' = [roleOf EXCEPT ![t.staff] = IF t.role = Same THEN @ ELSE t.role]
      /\ active' = [active EXCEPT ![t.staff] = IF t.active = Same THEN @ ELSE t.active = "on"]
      /\ session' = [k \in Tokens |-> IF k \in t.revoked THEN [session[k] EXCEPT !.state = "ended"]
                                      ELSE session[k]]
      /\ txn' = [txn EXCEPT ![q] = NoTxn]
      /\ role' = role /\ trusted' = trusted
  BY DEF CommitStaff, Coalesce, End
<1>2. /\ Open(q) /\ t \in OpenTxn
      /\ WellFormed(q) /\ PassedWithReason(q) /\ SomebodyElse(q)
  BY <1>1, SoundFacts
<1>3. t.staff \in Staff /\ roleOf[t.staff] # None /\ t.staff \in t.rows
  BY <1>1, <1>2 DEF WellFormed
<1>4. t.role # Same => t.role \in Roles /\ t.role # None /\ RoleExists(t.role)
  BY <1>1, <1>2, IdentityAssumption DEF WellFormed, OpenTxn
<1>5. t.active \in Activity
  BY <1>2 DEF OpenTxn
<1> HIDE DEF t
<1>6. /\ \A x \in Staff : x # t.staff => roleOf'[x] = roleOf[x] /\ active'[x] = active[x]
      /\ roleOf'[t.staff] = IF t.role = Same THEN roleOf[t.staff] ELSE t.role
      /\ active'[t.staff] = IF t.active = Same THEN active[t.staff] ELSE t.active = "on"
  BY <1>1, <1>3 DEF IdentityInv, IdentityTypeOK
<1>7. IdentityTypeOK'
  <2>1. roleOf' \in [Staff -> Roles \cup {None}]
    BY <1>1, <1>4 DEF IdentityInv, IdentityTypeOK
  <2>2. active' \in [Staff -> BOOLEAN]
    <3>1. (t.active = "on") \in BOOLEAN
      OBVIOUS
    <3>2. (IF t.active = Same THEN active[t.staff] ELSE t.active = "on") \in BOOLEAN
      BY <1>3, <3>1, Zenon DEF IdentityInv, IdentityTypeOK
    <3> QED BY <1>1, <3>2, Zenon DEF IdentityInv, IdentityTypeOK
  <2>3. session' \in [Tokens -> [state : SessionStates, owner : Staff \cup {None}]]
    BY <1>1 DEF IdentityInv, IdentityTypeOK, SessionStates
  <2>4. txn' \in [Requests -> OpenTxn \cup {NoTxn}]
    BY <1>1 DEF IdentityInv, IdentityTypeOK
  <2> QED BY <1>1, <2>1, <2>2, <2>3, <2>4 DEF IdentityInv, IdentityTypeOK
<1>8. RolesExist'
  BY <1>1, <1>4, <1>6 DEF IdentityInv, RolesExist, RoleExists
<1>9. \A x \in Admins : x # t.staff => x \in Admins' /\ roleOf'[x] = roleOf[x]
  BY <1>1, <1>6 DEF Admins, HasEditStaffPermission
<1>10. AdminRemains'
  <2>1. CASE t.guard
    BY <1>1, <1>2, <1>9, <2>1 DEF SomebodyElse, AdminRemains, t
  <2>2. CASE ~t.guard /\ t.staff \notin Admins
    BY <1>9, <2>2 DEF IdentityInv, AdminRemains
  <2>3. CASE ~t.guard /\ t.staff \in Admins
    <3>1. ~Losing(t)
      BY <1>1, <1>2, <2>3 DEF PassedWithReason, t
    <3>2. active'[t.staff]
      BY <1>5, <1>6, <2>3, <3>1 DEF Losing, Activity, Admins
    <3>3. t.staff \in Admins'
      BY <1>1, <1>3, <1>4, <1>6, <2>3, <3>1, <3>2 DEF Losing, Admins, HasEditStaffPermission
    <3> QED BY <3>3 DEF AdminRemains
  <2> QED BY <2>1, <2>2, <2>3
<1>11. \A p \in Requests : txn'[p] = txn[p] \/ txn'[p] = NoTxn
  BY <1>1 DEF IdentityInv, IdentityTypeOK
<1>12. ASSUME NEW p \in Requests, Open(p), txn'[p] = txn[p]
       PROVE  Sound(p)' /\ (MayGrant(txn[p])' => MayGrant(txn[p]))
  <2>1. p # q
    BY <1>1, <1>12 DEF Open, IdentityInv, IdentityTypeOK
  <2>2. ~MayGrant(t) /\ t.rows \cap txn[p].rows = {}
    BY <1>2, <1>12, <2>1 DEF IdentityInv, Exclusive, t
  <2>3. Sound(p)
    BY DEF IdentityInv
  <2>4. \A x \in Admins' : x \in Admins /\ roleOf'[x] = roleOf[x]
    <3>1. \A x \in Admins' : x # t.staff => x \in Admins /\ roleOf'[x] = roleOf[x]
      BY <1>1, <1>6 DEF Admins, HasEditStaffPermission
    <3>2. t.staff \in Admins' => t.staff \in Admins /\ roleOf'[t.staff] = roleOf[t.staff]
      BY <1>1, <1>3, <1>6, <2>2 DEF Admins, HasEditStaffPermission, MayGrant
    <3> QED BY <3>1, <3>2
  <2>5. WellFormed(p)'
    <3>1. \A x \in Staff : roleOf[x] # None => roleOf'[x] # None
      BY <1>4, <1>6
    <3> QED BY <1>1, <1>12, <2>3, <3>1 DEF Sound, WellFormed, RoleExists
  <2>6. ReadingKnows(p)'
    BY <1>12, <2>3, <2>4 DEF Sound, ReadingKnows
  <2>7. SnapshotHolds(p)'
    BY <1>1, <1>12, <2>3 DEF Sound, SnapshotHolds
  <2>8. PassedWithReason(p)'
    BY <1>1, <1>12, <2>3, <2>4
       DEF Sound, PassedWithReason, Losing, RoleExists, HasEditStaffPermission
  <2>9. SomebodyElse(p)'
    BY <1>3, <1>9, <1>12, <2>2, <2>3 DEF Sound, SomebodyElse
  <2>10. MayGrant(txn[p])' => MayGrant(txn[p])
    BY <1>1, <1>12 DEF MayGrant, HasEditStaffPermission
  <2> QED BY <2>5, <2>6, <2>7, <2>8, <2>9, <2>10 DEF Sound
<1> QED BY <1>7, <1>8, <1>10, <1>11, <1>12, TableStep

(* A role that loses edit_staff loses it for its accounts: its guard holds  *)
(* the lock, so nobody else's count is open, and somebody with another role *)
(* is in its row locks.                                                     *)
LEMMA CommitRoleInv ==
    ASSUME IdentityInv, NEW q \in Requests, CommitRole(q)
    PROVE  IdentityInv'
<1> DEFINE t == txn[q]
<1>1. /\ t.phase = "ready" /\ t.table = "roles"
      /\ role' = [role EXCEPT ![t.role] = IF t.keeps THEN "editor" ELSE "plain"]
      /\ txn' = [txn EXCEPT ![q] = NoTxn]
      /\ UNCHANGED <<roleOf, active, session, trusted>>
  BY DEF CommitRole, End
<1>2. /\ Open(q) /\ t \in OpenTxn
      /\ WellFormed(q) /\ PassedWithReason(q) /\ SomebodyElse(q)
  BY <1>1, SoundFacts
<1>3. t.role \in Roles /\ t.role # Same /\ RoleExists(t.role)
  BY <1>1, <1>2, IdentityAssumption DEF WellFormed
<1> HIDE DEF t
<1>4. /\ \A x : x # t.role => role'[x] = role[x]
      /\ role'[t.role] = IF t.keeps THEN "editor" ELSE "plain"
  BY <1>1, <1>3 DEF IdentityInv, IdentityTypeOK
<1>5. \A x : RoleExists(x)' <=> RoleExists(x)
  BY <1>3, <1>4 DEF RoleExists
<1>6. IdentityTypeOK' /\ RolesExist'
  BY <1>1, <1>5 DEF IdentityInv, IdentityTypeOK, RoleStates, RolesExist
<1>7. HasEditStaffPermission(t.role) /\ ~t.keeps => t.guard
  BY <1>1, <1>2 DEF PassedWithReason, t
<1>8. AdminRemains'
  <2>1. CASE t.guard
    <3>1. PICK s \in Admins : roleOf[s] # t.role
      BY <1>1, <1>2, <2>1 DEF SomebodyElse, t
    <3> QED BY <1>1, <1>4, <3>1 DEF Admins, HasEditStaffPermission, AdminRemains
  <2>2. CASE ~t.guard
    <3>1. \A x : HasEditStaffPermission(x) => HasEditStaffPermission(x)'
      BY <1>4, <1>7, <2>2 DEF HasEditStaffPermission
    <3> QED BY <1>1, <3>1 DEF Admins, IdentityInv, AdminRemains
  <2> QED BY <2>1, <2>2
<1>9. \A p \in Requests : txn'[p] = txn[p] \/ txn'[p] = NoTxn
  BY <1>1 DEF IdentityInv, IdentityTypeOK
<1>10. ASSUME NEW p \in Requests, Open(p), txn'[p] = txn[p]
       PROVE  Sound(p)' /\ (MayGrant(txn[p])' => MayGrant(txn[p]))
  <2>1. p # q
    BY <1>1, <1>10 DEF Open, IdentityInv, IdentityTypeOK
  <2>2. ~MayGrant(t) /\ ~MayGrant(txn[p]) /\ ~(t.guard /\ txn[p].guard)
    BY <1>2, <1>10, <2>1 DEF IdentityInv, Exclusive, t
  <2>3. Sound(p)
    BY DEF IdentityInv
  <2>4. ~t.keeps
    BY <1>1, <2>2 DEF MayGrant
  <2>5. \A x : HasEditStaffPermission(x)' => HasEditStaffPermission(x)
    BY <1>4, <2>4 DEF HasEditStaffPermission
  <2>6. txn[p].guard => role[t.role] = "plain" /\ role' = role
    <3>1. txn[p].guard => role[t.role] = "plain"
      BY <1>3, <1>7, <2>2, <2>4 DEF RoleExists, HasEditStaffPermission
    <3> QED BY <1>1, <1>3, <2>4, <3>1 DEF IdentityInv, IdentityTypeOK
  <2>7. Admins' \subseteq Admins
    BY <1>1, <2>5 DEF Admins
  <2>8. WellFormed(p)'
    <3>1. \A x : role[x] # "absent" => role'[x] # "absent"
      BY <1>4
    <3> QED BY <1>1, <1>5, <1>10, <2>3, <3>1 DEF Sound, WellFormed
  <2>9. ReadingKnows(p)'
    BY <1>1, <1>10, <2>3, <2>7 DEF Sound, ReadingKnows
  <2>10. SnapshotHolds(p)'
    <3>1. txn[p].phase = "waiting" => txn[p].guard
      BY <2>3 DEF Sound, WellFormed
    <3> QED BY <1>10, <2>3, <2>6, <3>1 DEF Sound, SnapshotHolds
  <2>11. PassedWithReason(p)'
    <3>1. txn[p].table = "staff" /\ ~Losing(txn[p]) => ~Losing(txn[p])'
      BY <1>10, <2>2 DEF Losing, MayGrant
    <3> QED BY <1>5, <1>10, <2>3, <2>5, <2>7, <3>1 DEF Sound, PassedWithReason
  <2>12. SomebodyElse(p)'
    <3>1. txn[p].guard => Admins' = Admins
      BY <1>1, <2>6 DEF Admins, HasEditStaffPermission
    <3> QED BY <1>1, <1>10, <2>3, <3>1 DEF Sound, SomebodyElse
  <2>13. MayGrant(txn[p])' => MayGrant(txn[p])
    BY <1>10, <2>5 DEF MayGrant
  <2> QED BY <2>8, <2>9, <2>10, <2>11, <2>12, <2>13 DEF Sound
<1> QED BY <1>6, <1>8, <1>9, <1>10, TableStep
-----------------------------------------------------------------------------
LEMMA StutterInv ==
    ASSUME IdentityInv, UNCHANGED identityVars
    PROVE  IdentityInv'
<1>1. UNCHANGED <<roleOf, active, role, session, trusted, txn>>
  BY DEF identityVars
<1> QED BY <1>1, SessionStep DEF IdentityInv, IdentityTypeOK

LEMMA NextInv ==
    ASSUME IdentityInv, GrantsAlone = TRUE, [Next]_identityVars
    PROVE  IdentityInv'
<1>1. ASSUME NEW q \in Requests, NEW caller, NEW s \in Staff,
             NEW r \in Roles \cup {Same}, NEW a \in Activity,
             Deactivate(q, caller, s) \/ UpdateStaff(q, caller, s, r, a)
      PROVE  IdentityInv'
  BY <1>1, ChangeInv DEF Deactivate, UpdateStaff, Activity, Same
<1>2. ASSUME NEW q \in Requests,
             \/ GetByID(q) \/ CheckRole(q) \/ CheckLosing(q)
             \/ TakeGuardLock(q) \/ CountAdmins(q) \/ LockAdmins(q)
             \/ WriteStaff(q) \/ RevokeSessions(q) \/ WriteRole(q)
      PROVE  IdentityInv'
  BY <1>2, GetByIDInv, CheckRoleInv, CheckLosingInv, TakeGuardLockInv, CountAdminsInv,
     LockAdminsInv, WriteStaffInv, RevokeSessionsInv, WriteRoleInv
<1>3. ASSUME NEW q \in Requests, CommitStaff(q) \/ CommitRole(q) \/ Rollback(q)
      PROVE  IdentityInv'
  BY <1>3, CommitStaffInv, CommitRoleInv, RollbackInv DEF Rollback
<1>4. CASE \E q \in Requests :
         \/ \E caller, s \in Staff :
               \/ Deactivate(q, caller, s)
               \/ \E r \in Roles \cup {Same}, a \in Activity : UpdateStaff(q, caller, s, r, a)
         \/ \E r \in Roles, keeps \in BOOLEAN : UpdateRole(q, r, keeps)
  <2>1. "off" \in Activity /\ Same \in Roles \cup {Same}
    BY DEF Activity
  <2> QED BY <1>1, <1>4, <2>1, UpdateRoleInv
<1>5. CASE \/ \E s \in Staff : Validate(s) \/ CacheExpires(s)
           \/ \E caller, s \in Staff, r \in Roles : CreateStaff(caller, s, r)
           \/ \E r \in Roles : DeleteRole(r) \/ \E keeps \in BOOLEAN : CreateRole(r, keeps)
  BY <1>5, ValidateInv, CreateStaffInv, DeleteRoleInv, CreateRoleInv
<1>6. CASE \E t \in Tokens : \/ CreateSession(t) \/ EndSession(t)
                             \/ \E s \in Staff : VerifyCredentials(t, s)
  BY <1>6, CreateSessionInv, EndSessionInv, VerifyCredentialsInv
<1> QED BY <1>2, <1>3, <1>4, <1>5, <1>6, StutterInv DEF Next

(* The inductive invariant holds of the accounts, if nothing overlaps a     *)
(* change that may give edit_staff.                                         *)
THEOREM IdentityInvariant ==
    ASSUME GrantsAlone = TRUE
    PROVE  Spec => []IdentityInv
<1>1. IdentityInv /\ [Next]_identityVars => IdentityInv'
  BY NextInv
<1> QED BY <1>1, InitInv, PTL DEF Spec

(* Every account, role, session and transaction keeps its type.             *)
THEOREM IdentityType ==
    ASSUME GrantsAlone = TRUE
    PROVE  Spec => []IdentityTypeOK
<1>1. IdentityInv => IdentityTypeOK
  BY DEF IdentityInv
<1> QED BY <1>1, IdentityInvariant, PTL

(* The two guards of staff/service.go and role/service.go, under the one    *)
(* advisory lock, leave an active holder of edit_staff, for any number of   *)
(* requests.                                                                *)
THEOREM GuardsKeepAnAdmin ==
    ASSUME GrantsAlone = TRUE
    PROVE  Spec => []AdminRemains
<1>1. IdentityInv => AdminRemains
  BY DEF IdentityInv
<1> QED BY <1>1, IdentityInvariant, PTL
=============================================================================
