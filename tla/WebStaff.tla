------------------------------- MODULE WebStaff -------------------------------
(***************************************************************************)
(* The screens that administer colleagues and roles                        *)
(* (apps/web/src/routes/Staff.tsx, StaffDetail.tsx, Roles.tsx).  The       *)
(* person who works here may edit both.                                    *)
(***************************************************************************)
EXTENDS WebScreen

CONSTANT Me     \* the account signed in

ASSUME StaffAssumption == Me \in Members
-----------------------------------------------------------------------------
(* The staff list: the dialog that makes an account, and the one-time       *)
(* reveal of the password that was generated for it.                        *)

StaffScreen == [open |-> FALSE, step |-> "form", email |-> None, submitting |-> FALSE,
                error |-> FALSE, password |-> None, acknowledged |-> FALSE, owed |-> None]

DialogShown == At("staffList") /\ ui.open /\ ui.step = "form"

openDialog ==
    /\ At("staffList") /\ ~DialogShown
    /\ Edit([ui EXCEPT !.email = None, !.error = FALSE, !.acknowledged = FALSE,
                       !.step = "form", !.open = TRUE])

closeDialog == DialogShown /\ Edit([ui EXCEPT !.open = FALSE])
TypeEmail(email) == DialogShown /\ Edit([ui EXCEPT !.email = email])

CreateAccount ==
    /\ DialogShown /\ ~ui.submitting
    /\ IF ui.email = None THEN Edit([ui EXCEPT !.error = TRUE])
       ELSE /\ ui' = [ui EXCEPT !.error = FALSE, !.submitting = TRUE]
            /\ Submit("createStaff", ui.email, << >>, NotSeen)

AccountServed(c) ==
    /\ c.verb = "createStaff"
    /\ Served(c, rec[c.target].status = None, c.target, "active", rec[c.target])

(* The list is loaded again only when the password has been dismissed.      *)
AccountAnswered(c) ==
    /\ c.verb = "createStaff"
    /\ Take(c)
    /\ IF Mounted(c)
       THEN /\ ui' = IF c.state = "ok"
                     THEN [ui EXCEPT !.submitting = FALSE, !.password = c.target,
                                     !.step = "password", !.open = FALSE, !.owed = c.target]
                     ELSE [ui EXCEPT !.submitting = FALSE, !.error = TRUE]
            /\ UNCHANGED <<route, mount, shown, side, acked, late, once>>
       ELSE NothingHappens

Acknowledge ==
    /\ At("staffList") /\ ui.step = "password"
    /\ Edit([ui EXCEPT !.acknowledged = ~@, !.owed = IF ui.acknowledged THEN @ ELSE None])

dismissPasswordReveal ==
    /\ At("staffList") /\ ui.step = "password" /\ ui.acknowledged
    /\ ui' = [ui EXCEPT !.step = "form"]
    /\ shown' = NotLoaded
    /\ UNCHANGED <<tourVars, rec, route, mount, side, acked, late, once, calls, countVars>>
-----------------------------------------------------------------------------
(* One colleague.                                                           *)

MemberScreen == [editing |-> FALSE, active |-> "active", saving |-> FALSE, formError |-> FALSE,
                 asking |-> FALSE, deactivating |-> FALSE, deactivateError |-> FALSE]

MemberReady == At("staff") /\ Ready
NoDialog == ~ui.editing /\ ~ui.asking
isSelf == route.id = Me

openEdit ==
    /\ MemberReady /\ NoDialog
    /\ Edit([ui EXCEPT !.active = Current.status, !.formError = FALSE, !.editing = TRUE])

closeEdit == MemberReady /\ ui.editing /\ Edit([ui EXCEPT !.editing = FALSE])

ToggleActive ==
    /\ MemberReady /\ ui.editing /\ ~isSelf
    /\ Edit([ui EXCEPT !.active = IF @ = "active" THEN "inactive" ELSE "active"])

(* Everything on the form is sent, changed or not; one's own role and       *)
(* activity are not on it.                                                  *)
SaveMember ==
    /\ MemberReady /\ ui.editing /\ ~ui.saving
    /\ ui' = [ui EXCEPT !.saving = TRUE, !.formError = FALSE]
    /\ Submit("updateStaff", route.id, [active |-> IF isSelf THEN "same" ELSE ui.active], NotSeen)

AskDeactivate ==
    /\ MemberReady /\ NoDialog /\ Current.status = "active"
    /\ Edit([ui EXCEPT !.asking = TRUE, !.deactivateError = FALSE])

closeDeactivate == MemberReady /\ ui.asking /\ Edit([ui EXCEPT !.asking = FALSE])

Deactivate ==
    /\ MemberReady /\ ui.asking /\ ~ui.deactivating
    /\ ui' = [ui EXCEPT !.deactivating = TRUE]
    /\ Submit("deactivate", route.id, [active |-> "inactive"], NotSeen)

(* The service may refuse: an address that is taken, the last administrator. *)
MemberServed(c) ==
    /\ c.verb \in {"updateStaff", "deactivate"}
    /\ \E accepted \in BOOLEAN :
          Served(c, accepted, c.target,
                 IF c.body.active = "same" THEN rec[c.target].status ELSE c.body.active,
                 rec[c.target])

MemberSaved(c) ==
    /\ c.verb = "updateStaff"
    /\ Take(c)
    /\ IF Mounted(c)
       THEN /\ ui' = [ui EXCEPT !.saving = FALSE, !.editing = @ /\ c.state # "ok",
                                !.formError = @ \/ c.state # "ok"]
            /\ IF c.state = "ok" THEN Told(c) /\ shown' = NotLoaded
               ELSE UNCHANGED <<acked, late, shown>>
            /\ UNCHANGED <<route, mount, side, once>>
       ELSE NothingHappens

MemberDeactivated(c) ==
    /\ c.verb = "deactivate"
    /\ Take(c)
    /\ IF Mounted(c)
       THEN /\ ui' = [ui EXCEPT !.deactivating = FALSE, !.asking = FALSE,
                                !.deactivateError = @ \/ c.state # "ok"]
            /\ IF c.state = "ok" THEN Told(c) /\ shown' = NotLoaded
               ELSE UNCHANGED <<acked, late, shown>>
            /\ UNCHANGED <<route, mount, side, once>>
       ELSE NothingHappens
-----------------------------------------------------------------------------
(* The roles.                                                               *)

New == "new"
RolesScreen == [editing |-> None, named |-> FALSE, saving |-> FALSE, formError |-> FALSE,
                target |-> None, deleting |-> FALSE, deleteError |-> FALSE]

RoleDialog == ui.editing # None \/ ui.target # None

openCreate ==
    /\ At("roles") /\ ~RoleDialog
    /\ Edit([ui EXCEPT !.editing = New, !.named = FALSE, !.formError = FALSE])

openEditRole(r) ==
    /\ At("roles") /\ Ready /\ ~RoleDialog /\ r \in DOMAIN shown.copy
    /\ Edit([ui EXCEPT !.editing = r, !.named = TRUE, !.formError = FALSE])

closeRole == At("roles") /\ ui.editing # None /\ Edit([ui EXCEPT !.editing = None])
NameRole == At("roles") /\ ui.editing # None /\ Edit([ui EXCEPT !.named = ~@])

SaveRole ==
    /\ At("roles") /\ ui.editing # None /\ ~ui.saving
    /\ IF ~ui.named THEN Edit([ui EXCEPT !.formError = TRUE])
       ELSE /\ ui' = [ui EXCEPT !.saving = TRUE, !.formError = FALSE]
            /\ Submit(IF ui.editing = New THEN "createRole" ELSE "updateRole", ui.editing, << >>,
                      NotSeen)

AskDelete(r) ==
    /\ At("roles") /\ Ready /\ ~RoleDialog /\ r \in DOMAIN shown.copy
    /\ Edit([ui EXCEPT !.target = r, !.deleteError = FALSE])

closeDelete == At("roles") /\ ui.target # None /\ Edit([ui EXCEPT !.target = None])

DeleteRole ==
    /\ At("roles") /\ ui.target # None /\ ~ui.deleting
    /\ ui' = [ui EXCEPT !.deleting = TRUE]
    /\ Submit("deleteRole", ui.target, << >>, NotSeen)

(* A name that is taken, a role somebody holds or that is gone is refused.  *)
RoleServed(c) ==
    \/ /\ c.verb = "createRole"
       /\ \E r \in Roles, accepted \in BOOLEAN :
             rec[r].status = None /\ Served(c, accepted, r, "known", rec[r])
    \/ /\ c.verb \in {"updateRole", "deleteRole"}
       /\ \E accepted \in {FALSE, rec[c.target].status = "known"} :
             Served(c, accepted, c.target,
                    IF c.verb = "deleteRole" THEN "deleted" ELSE "known", rec[c.target])

RoleSaved(c) ==
    /\ c.verb \in {"createRole", "updateRole"}
    /\ Take(c)
    /\ IF Mounted(c)
       THEN /\ ui' = [ui EXCEPT !.saving = FALSE, !.editing = IF c.state = "ok" THEN None ELSE @,
                                !.formError = @ \/ c.state # "ok"]
            /\ IF c.state = "ok" THEN Told(c) /\ shown' = NotLoaded
               ELSE UNCHANGED <<acked, late, shown>>
            /\ UNCHANGED <<route, mount, side, once>>
       ELSE NothingHappens

RoleDeleted(c) ==
    /\ c.verb = "deleteRole"
    /\ Take(c)
    /\ IF Mounted(c)
       THEN /\ ui' = [ui EXCEPT !.deleting = FALSE, !.target = None,
                                !.deleteError = @ \/ c.state # "ok"]
            /\ IF c.state = "ok" THEN Told(c) /\ shown' = NotLoaded
               ELSE UNCHANGED <<acked, late, shown>>
            /\ UNCHANGED <<route, mount, side, once>>
       ELSE NothingHappens
-----------------------------------------------------------------------------
StaffControls ==
    \/ openDialog \/ closeDialog \/ CreateAccount \/ Acknowledge \/ dismissPasswordReveal
    \/ \E email \in Members : TypeEmail(email)
    \/ openEdit \/ closeEdit \/ ToggleActive \/ SaveMember
    \/ AskDeactivate \/ closeDeactivate \/ Deactivate
    \/ openCreate \/ closeRole \/ NameRole \/ SaveRole \/ closeDelete \/ DeleteRole
    \/ \E r \in Roles : openEditRole(r) \/ AskDelete(r)

StaffAnswers(c) ==
    \/ AccountServed(c) \/ AccountAnswered(c)
    \/ MemberServed(c) \/ MemberSaved(c) \/ MemberDeactivated(c)
    \/ RoleServed(c) \/ RoleSaved(c) \/ RoleDeleted(c)
=============================================================================
