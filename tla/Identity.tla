------------------------------ MODULE Identity ------------------------------
(***************************************************************************)
(* The accounts of the Identity service: staff, roles and sessions, and    *)
(* the two guards that are to keep an active holder of edit_staff          *)
(* (services/identity/internal/staff, role and session).                   *)
(*                                                                         *)
(* PostgreSQL runs the transactions READ COMMITTED: every statement sees   *)
(* what is committed when it starts, so each statement of a guard is a     *)
(* step.  Of a role's permissions only edit_staff is kept, so that anybody *)
(* may change the roles; changes of names and e-mail addresses are left    *)
(* out.                                                                    *)
(***************************************************************************)
EXTENDS Naturals, FiniteSets

CONSTANTS Staff, Roles, Tokens,
          Owner, AdminRole,   \* what the migration and cmd/seed create
          Requests,           \* requests in progress at one time, at most
          GrantsAlone         \* whether nothing overlaps a change that may give edit_staff

None == "none"
Same == "same"

ASSUME IdentityAssumption ==
    /\ Owner \in Staff
    /\ AdminRole \in Roles
    /\ None \notin Roles \cup Staff
    /\ Same \notin Roles
    /\ GrantsAlone \in BOOLEAN

VARIABLES roleOf,    \* staff.role_id; None: no such account yet
          active,    \* staff.is_active
          role,      \* whether a role exists and whether it holds edit_staff
          session,   \* each token: its session row, or the login about to write it
          trusted,   \* whose requests the gateway says may edit staff
          txn        \* each request's transaction

identityVars == <<roleOf, active, role, session, trusted, txn>>

RoleStates == {"absent", "plain", "editor", "deleted"}
SessionStates == {"unused", "verified", "live", "ended"}
Activity == {"on", "off", Same}

NoTxn == [phase |-> "idle", table |-> None, staff |-> None, role |-> None, active |-> Same,
          keeps |-> FALSE, was |-> None, guard |-> FALSE, candidates |-> {}, rows |-> {},
          revoked |-> {}]

Candidate == [staff : Staff, role : Roles]

OpenTxn == [phase : {"reading", "checking", "weighing", "locking", "counting", "waiting",
                     "writing", "written", "ready"},
            table : {"staff", "roles"}, staff : Staff \cup {None}, role : Roles \cup {Same},
            active : Activity, keeps : BOOLEAN, was : Roles \cup {None}, guard : BOOLEAN,
            candidates : SUBSET Candidate, rows : SUBSET Staff, revoked : SUBSET Tokens]

IdentityTypeOK ==
    /\ roleOf \in [Staff -> Roles \cup {None}]
    /\ active \in [Staff -> BOOLEAN]
    /\ role \in [Roles -> RoleStates]
    /\ session \in [Tokens -> [state : SessionStates, owner : Staff \cup {None}]]
    /\ trusted \subseteq Staff
    /\ txn \in [Requests -> OpenTxn \cup {NoTxn}]

Init ==
    /\ roleOf = [s \in Staff |-> IF s = Owner THEN AdminRole ELSE None]
    /\ active = [s \in Staff |-> s = Owner]
    /\ role = [r \in Roles |-> IF r = AdminRole THEN "editor" ELSE "absent"]
    /\ session = [t \in Tokens |-> [state |-> "unused", owner |-> None]]
    /\ trusted = {}
    /\ txn = [q \in Requests |-> NoTxn]

RoleExists(r) == role[r] \in {"plain", "editor"}

HasEditStaffPermission(r) == role[r] = "editor"

(* The rows of lockActiveEditStaffQuery. *)
Admins == {s \in Staff : active[s] /\ roleOf[s] # None /\ HasEditStaffPermission(roleOf[s])}

Goto(q, phase) == txn' = [txn EXCEPT ![q].phase = phase]
End(q) == txn' = [txn EXCEPT ![q] = NoTxn]
Others(q) == Requests \ {q}

UnchangedTables == UNCHANGED <<roleOf, active, role, session, trusted>>
-----------------------------------------------------------------------------
(* Who may ask for changes of accounts.  The gateway's answer to that is    *)
(* cached, so an account may have lost edit_staff since.                    *)
Validate(s) ==
    /\ s \in Admins
    /\ trusted' = trusted \cup {s}
    /\ UNCHANGED <<roleOf, active, role, session, txn>>

CacheExpires(s) ==
    /\ trusted' = trusted \ {s}
    /\ UNCHANGED <<roleOf, active, role, session, txn>>

MayEditStaff(caller) == caller \in trusted
-----------------------------------------------------------------------------
(* A change that may give edit_staff to an account that did not have it.    *)
MayGrant(t) ==
    \/ t.table = "staff" /\ (t.active = "on" \/ (t.role # Same /\ HasEditStaffPermission(t.role)))
    \/ t.table = "roles" /\ t.keeps

Begin(q, t) ==
    /\ txn[q] = NoTxn
    /\ GrantsAlone => \A p \in Requests : txn[p] # NoTxn => ~MayGrant(t) /\ ~MayGrant(txn[p])
    /\ txn' = [txn EXCEPT ![q] = t]
    /\ UnchangedTables

Change(q, s, r, a) ==
    /\ roleOf[s] # None
    /\ Begin(q, [NoTxn EXCEPT !.phase = "reading", !.table = "staff", !.staff = s,
                              !.role = r, !.active = a])

(* PATCH /staff/{id} with a role or an activity, or both: of another        *)
(* account only, one's own takes names.                                     *)
UpdateStaff(q, caller, s, r, a) ==
    /\ MayEditStaff(caller) /\ caller # s
    /\ r # Same \/ a # Same
    /\ r # Same => role[r] # "absent"
    /\ Change(q, s, r, a)

(* POST /staff/{id}/deactivate, of any account. *)
Deactivate(q, caller, s) == MayEditStaff(caller) /\ Change(q, s, Same, "off")

(* PATCH /roles/{id} with permissions; without them no guard runs and       *)
(* nothing kept here changes.                                               *)
UpdateRole(q, r, keeps) ==
    /\ RoleExists(r)
    /\ Begin(q, [NoTxn EXCEPT !.phase = "checking", !.table = "roles", !.role = r,
                              !.keeps = keeps])

(* guardLastAdmin, staff: GetByID. *)
GetByID(q) ==
    LET t == txn[q] IN
    /\ t.phase = "reading"
    /\ txn' = [txn EXCEPT ![q].phase = IF active[t.staff] THEN "checking" ELSE "writing",
                          ![q].was = roleOf[t.staff]]
    /\ UnchangedTables

(* Both guards: does the role concerned hold edit_staff now? *)
CheckRole(q) ==
    LET t == txn[q] IN
    /\ t.phase = "checking"
    /\ \/ /\ t.table = "staff"
          /\ Goto(q, IF HasEditStaffPermission(t.was) THEN "weighing" ELSE "writing")
       \/ /\ t.table = "roles"
          /\ Goto(q, IF HasEditStaffPermission(t.role) /\ ~t.keeps THEN "locking" ELSE "writing")
    /\ UnchangedTables

(* guardLastAdmin, staff: is the account about to lose edit_staff? *)
CheckLosing(q) ==
    LET t == txn[q] IN
    /\ t.phase = "weighing"
    /\ Goto(q, IF t.active = "off" \/ (t.role # Same /\ ~HasEditStaffPermission(t.role))
               THEN "locking" ELSE "writing")
    /\ UnchangedTables

(* No advisory lock: the row locks alone. *)
NoAdvisoryLock(q) == TRUE

(* pg_advisory_xact_lock(4_812_001) would not wait. *)
GuardFree(q) == \A p \in Others(q) : ~txn[p].guard

TakeGuardLock(q) ==
    /\ txn[q].phase = "locking"
    /\ GuardFree(q)
    /\ txn' = [txn EXCEPT ![q].phase = "counting", ![q].guard = TRUE]
    /\ UnchangedTables

(* The snapshot of lockActiveEditStaffQuery. *)
CountAdmins(q) ==
    /\ txn[q].phase = "counting"
    /\ txn' = [txn EXCEPT ![q].phase = "waiting",
                          ![q].candidates = {[staff |-> s, role |-> roleOf[s]] : s \in Admins}]
    /\ UnchangedTables

(* A candidate row, after the wait for its lock, as FOR UPDATE rechecks it: *)
(* the account's own columns anew, the joined rows as in the snapshot.      *)
StillQualifies(c) == active[c.staff] /\ roleOf[c.staff] = c.role

(* Who would still hold edit_staff once the change is made. *)
Remaining(t) ==
    {c \in t.candidates :
       /\ StillQualifies(c)
       /\ IF t.table = "staff" THEN c.staff # t.staff ELSE c.role # t.role}

RowsFree(q, S) == \A p \in Others(q) : txn[p].rows \cap S = {}

(* FOR UPDATE OF s gets its last row: none but oneself left is ErrLastAdmin *)
(* and rolls back.                                                          *)
LockAdmins(q) ==
    LET t == txn[q]
        rows == {c.staff : c \in t.candidates}
    IN
    /\ t.phase = "waiting"
    /\ RowsFree(q, rows)
    /\ IF Remaining(t) = {} THEN End(q)
       ELSE txn' = [txn EXCEPT ![q].phase = "writing", ![q].rows = rows]
    /\ UnchangedTables

(* UPDATE staff, once nobody else has the row; the role must exist. *)
WriteStaff(q) ==
    LET t == txn[q] IN
    /\ t.phase = "writing" /\ t.table = "staff"
    /\ RowsFree(q, {t.staff})
    /\ t.role # Same => RoleExists(t.role)
    /\ txn' = [txn EXCEPT ![q].phase = IF t.active = "off" THEN "written" ELSE "ready",
                          ![q].rows = @ \cup {t.staff}]
    /\ UnchangedTables

LiveSessions(s) == {t \in Tokens : session[t].state = "live" /\ session[t].owner = s}

(* RevokeSessions: the sessions there are when the statement starts. *)
RevokeSessions(q) ==
    /\ txn[q].phase = "written"
    /\ txn' = [txn EXCEPT ![q].phase = "ready", ![q].revoked = LiveSessions(txn[q].staff)]
    /\ UnchangedTables

(* UPDATE roles, which locks the role's row, and the exchange of its        *)
(* permissions.                                                             *)
WriteRole(q) ==
    LET t == txn[q] IN
    /\ t.phase = "writing" /\ t.table = "roles"
    /\ RoleExists(t.role)
    /\ \A p \in Others(q) :
         ~(txn[p].phase = "ready" /\ txn[p].table = "roles" /\ txn[p].role = t.role)
    /\ Goto(q, "ready")
    /\ UnchangedTables

(* A column the request leaves out is overwritten as well. *)
Overwrite(new, old) == new

(* COALESCE($n, column) of updateStaffStmt. *)
Coalesce(new, old) == IF new = Same THEN old ELSE new

CommitStaff(q) ==
    LET t == txn[q] IN
    /\ t.phase = "ready" /\ t.table = "staff"
    /\ roleOf' = [roleOf EXCEPT ![t.staff] = Coalesce(t.role, @)]
    /\ active' = [active EXCEPT ![t.staff] = IF t.active = Same THEN @ ELSE t.active = "on"]
    /\ session' = [k \in Tokens |->
                     IF k \in t.revoked THEN [session[k] EXCEPT !.state = "ended"] ELSE session[k]]
    /\ End(q)
    /\ UNCHANGED <<role, trusted>>

CommitRole(q) ==
    LET t == txn[q] IN
    /\ t.phase = "ready" /\ t.table = "roles"
    /\ role' = [role EXCEPT ![t.role] = IF t.keeps THEN "editor" ELSE "plain"]
    /\ End(q)
    /\ UNCHANGED <<roleOf, active, session, trusted>>

(* An error, a cancelled request, a deadlock PostgreSQL breaks, a crash. *)
Rollback(q) ==
    /\ txn[q] # NoTxn
    /\ End(q)
    /\ UnchangedTables
-----------------------------------------------------------------------------
(* Single statements, or transactions no other can observe half done.       *)
CreateStaff(caller, s, r) ==
    /\ MayEditStaff(caller)
    /\ roleOf[s] = None
    /\ RoleExists(r)
    /\ roleOf' = [roleOf EXCEPT ![s] = r]
    /\ active' = [active EXCEPT ![s] = TRUE]
    /\ UNCHANGED <<role, session, trusted, txn>>

CreateRole(r, keeps) ==
    /\ role[r] = "absent"
    /\ role' = [role EXCEPT ![r] = IF keeps THEN "editor" ELSE "plain"]
    /\ UNCHANGED <<roleOf, active, session, trusted, txn>>

(* The foreign key of staff refuses it while an account has the role, and   *)
(* makes it wait for a transaction that has written one.                    *)
DeleteRole(r) ==
    /\ RoleExists(r)
    /\ \A s \in Staff : roleOf[s] # r
    /\ \A q \in Requests : txn[q].phase \in {"written", "ready"} => txn[q].role # r
    /\ role' = [role EXCEPT ![r] = "deleted"]
    /\ UNCHANGED <<roleOf, active, session, trusted, txn>>
-----------------------------------------------------------------------------
(* Login reads the account and compares the password ... *)
VerifyCredentials(t, s) ==
    /\ session[t].state = "unused"
    /\ roleOf[s] # None /\ active[s]
    /\ session' = [session EXCEPT ![t] = [state |-> "verified", owner |-> s]]
    /\ UNCHANGED <<roleOf, active, role, trusted, txn>>

(* The accounts a guard holds FOR UPDATE. *)
LockedForUpdate(q) ==
    IF txn[q].rows = {} THEN {} ELSE {c.staff : c \in txn[q].candidates}

(* ... and then inserts the session, without looking again; its foreign key *)
(* waits for a guard that has the account.                                  *)
CreateSession(t) ==
    /\ session[t].state = "verified"
    /\ \A q \in Requests : session[t].owner \notin LockedForUpdate(q)
    /\ session' = [session EXCEPT ![t].state = "live"]
    /\ UNCHANGED <<roleOf, active, role, trusted, txn>>

(* Logout, or expires_at passes. *)
EndSession(t) ==
    /\ session[t].state = "live"
    /\ session' = [session EXCEPT ![t].state = "ended"]
    /\ UNCHANGED <<roleOf, active, role, trusted, txn>>

Next ==
    \/ \E q \in Requests :
         \/ \E caller, s \in Staff :
               \/ Deactivate(q, caller, s)
               \/ \E r \in Roles \cup {Same}, a \in Activity : UpdateStaff(q, caller, s, r, a)
         \/ \E r \in Roles, keeps \in BOOLEAN : UpdateRole(q, r, keeps)
         \/ GetByID(q) \/ CheckRole(q) \/ CheckLosing(q)
         \/ TakeGuardLock(q) \/ CountAdmins(q) \/ LockAdmins(q)
         \/ WriteStaff(q) \/ RevokeSessions(q) \/ WriteRole(q)
         \/ CommitStaff(q) \/ CommitRole(q) \/ Rollback(q)
    \/ \E s \in Staff : Validate(s) \/ CacheExpires(s)
    \/ \E caller, s \in Staff, r \in Roles : CreateStaff(caller, s, r)
    \/ \E r \in Roles : DeleteRole(r) \/ \E keeps \in BOOLEAN : CreateRole(r, keeps)
    \/ \E t \in Tokens : \/ CreateSession(t) \/ EndSession(t)
                         \/ \E s \in Staff : VerifyCredentials(t, s)

Spec == Init /\ [][Next]_identityVars
-----------------------------------------------------------------------------
(* Some active account always holds edit_staff, whatever demotions,         *)
(* deactivations and role changes race: without one nobody can repair the   *)
(* accounts any more.                                                       *)
AdminRemains == Admins # {}
=============================================================================
