----------------------------- MODULE Workspaces -----------------------------
(***************************************************************************)
(* Accounts, workspaces, roles, members and invitations: every use case of *)
(* WorkspaceService, and the ones of AccountService that read or write the *)
(* same rows, run as transactions of UnitOfWork by concurrent sessions.    *)
(*                                                                         *)
(* An email is identified with the account it belongs to, a role with its  *)
(* id inside one workspace, an invitation's token with the invitation.     *)
(* Names, slugs, mails and answers are left out; logos are in Catalog.     *)
(***************************************************************************)
EXTENDS UnitOfWork

CONSTANTS
  User, Workspace, Invitation,
  SpareRole,     \* ids for roles created after the workspace
  CustomName,    \* role names beside the system ones
  Absent,        \* no such row
  Gone,          \* the row was deleted: its random id is not given out again
  NoInvitation,
  Requests       \* the requests clients may send

VARIABLES
  expired        \* pending invitations older than INVITATION_LIFETIME

vars == <<db, tx, expired>>

-----------------------------------------------------------------------------
(*                        Catalog, roles and rows                          *)

Status == {"profile_pending", "workspace_pending", "completed"}

OwnerRole == "owner"
AdminRole == "admin"
DefaultMemberRole == "member"
SystemRole == {OwnerRole, AdminRole, DefaultMemberRole, "viewer"}
RoleId == SystemRole \cup SpareRole
RoleName == SystemRole \cup CustomName

(* The actions this module guards; products.* stands for the three product *)
(* permissions, which Catalog guards.                                      *)
Permission == {"workspace.update", "workspace.delete", "members.invite",
               "members.remove", "invitations.revoke", "roles.manage",
               "products.*"}
OwnerActions == {"workspace.delete", "workspace.transfer"}
Assignable == Permission \ OwnerActions
SystemPermissions ==
  [role \in SystemRole |->
     CASE role = AdminRole -> Permission \ {"workspace.delete"}
       [] role = DefaultMemberRole -> {"products.*"}
       [] OTHER -> {}]

Account(u) == <<"account", u>>
WorkspaceRow(w) == <<"workspace", w>>
Role(w, r) == <<"role", w, r>>
Member(w, u) == <<"member", w, u>>
InvitationRow(i) == <<"invitation", i>>

Row == {Account(u) : u \in User}
  \cup {WorkspaceRow(w) : w \in Workspace}
  \cup {Role(w, r) : w \in Workspace, r \in RoleId}
  \cup {Member(w, u) : w \in Workspace, u \in User}
  \cup {InvitationRow(i) : i \in Invitation}

WorkspaceRecord == [owner : User, deleted : BOOLEAN]
RoleRecord ==
  [name : RoleName, system : BOOLEAN, permissions : SUBSET Permission]
InvitationRecord ==
  [status : {"pending", "accepted", "revoked"}, workspace : Workspace,
   email : User, role : RoleId, invited_by : User]

(* What clients ask for; `by` is the signed-in account.                    *)
Request ==
  [call : {"register"}, by : User, named : BOOLEAN,
   invitation : Invitation \cup {NoInvitation}]
  \cup [call : {"ensure_account", "rename", "delete_account", "create"},
        by : User]
  \cup [call : {"update", "delete"}, by : User, workspace : Workspace]
  \cup [call : {"create_role"}, by : User, workspace : Workspace,
        name : RoleName]
  \cup [call : {"rename_role"}, by : User, workspace : Workspace,
        role : RoleId, name : RoleName]
  \cup [call : {"delete_role"}, by : User, workspace : Workspace,
        role : RoleId]
  \cup [call : {"set_permissions"}, by : User, workspace : Workspace,
        role : RoleId, permissions : SUBSET Permission]
  \cup [call : {"set_member_role"}, by : User, workspace : Workspace,
        member : User, role : RoleId]
  \cup [call : {"remove_member", "transfer"}, by : User,
        workspace : Workspace, member : User]
  \cup [call : {"invite"}, by : User, workspace : Workspace,
        email : User, role : RoleId]
  \cup [call : {"revoke_invitation"}, by : User, workspace : Workspace,
        invitation : Invitation]
  \cup [call : {"accept_invitation"}, by : User, invitation : Invitation]
  \cup [call : {"purge"}, workspace : Workspace]

(* What is left of an account deletion once it was found deletable.        *)
Deletion(u, purging) ==
  [call |-> "deleting_account", by |-> u, purging |-> purging]
Deletions == {Deletion(u, purging) : u \in User, purging \in SUBSET Workspace}

ASSUME RequestsAssumption == Requests \subseteq Request
ASSUME RowContentsAssumption ==
  /\ Absent # Gone
  /\ {Absent, Gone} \cap (Status \cup RoleId) = {}
  /\ Absent \notin WorkspaceRecord /\ Gone \notin WorkspaceRecord
  /\ Absent \notin RoleRecord /\ Gone \notin RoleRecord
  /\ Absent \notin InvitationRecord /\ Gone \notin InvitationRecord

-----------------------------------------------------------------------------
(*                    What the repositories read                           *)
(* v is a view of the database: a snapshot plus the transaction's writes.  *)

Exists(v, row) == v[row] \notin {Absent, Gone}
Live(v, w) == Exists(v, WorkspaceRow(w)) /\ ~v[WorkspaceRow(w)].deleted
Deleted(v, w) == Exists(v, WorkspaceRow(w)) /\ v[WorkspaceRow(w)].deleted
IsMember(v, w, u) == Exists(v, Member(w, u))
MemberIds(v, w) == {u \in User : IsMember(v, w, u)}
OwnerIds(v, w) == {u \in User : v[Member(w, u)] = OwnerRole}
BelongsToAny(v, u) == \E w \in Workspace : IsMember(v, w, u)
AnyOwnedBy(v, u) == \E w \in Workspace : Live(v, w) /\ v[WorkspaceRow(w)].owner = u
DeletedIds(v, u) == {w \in Workspace : Deleted(v, w) /\ v[WorkspaceRow(w)].owner = u}
InvitationsOf(v, w) ==
  {i \in Invitation : Exists(v, InvitationRow(i)) /\ v[InvitationRow(i)].workspace = w}
PendingOf(v, w) == {i \in InvitationsOf(v, w) : v[InvitationRow(i)].status = "pending"}
HasPending(v, w, u) ==
  \E i \in PendingOf(v, w) \ expired : v[InvitationRow(i)].email = u
RolesNamed(v, w, name) ==
  {r \in RoleId : Exists(v, Role(w, r)) /\ v[Role(w, r)].name = name}
IsInUse(v, w, r) ==
  \/ \E u \in User : v[Member(w, u)] = r
  \/ \E i \in PendingOf(v, w) \ expired : v[InvitationRow(i)].role = r

(* Statements that change a set of rows. *)
Put(v, rows, contents) == [row \in DOMAIN v |-> IF row \in rows THEN contents ELSE v[row]]
RemoveMembers(v, w, us) == Put(v, {Member(w, u) : u \in us}, Absent)
RemoveUser(v, u) == Put(v, {Member(w, u) : w \in Workspace}, Absent)
RevokePending(v, w) ==
  LET rows == {InvitationRow(i) : i \in PendingOf(v, w)} IN
  [row \in DOMAIN v |->
     IF row \in rows THEN [v[row] EXCEPT !.status = "revoked"] ELSE v[row]]

-----------------------------------------------------------------------------
(*                            Access                                       *)

Registered(v, u) == Exists(v, Account(u))

(* What the role, or being the owner, lets a member do.                    *)
Permits(v, u, action, w) ==
  /\ Live(v, w)
  /\ IsMember(v, w, u)
  /\ \/ u = v[WorkspaceRow(w)].owner
     \/ /\ action \notin OwnerActions
        /\ Exists(v, Role(w, v[Member(w, u)]))
        /\ action \in v[Role(w, v[Member(w, u)])].permissions

(* Every action on a workspace needs an account that completed onboarding. *)
Require(v, u, action, w) ==
  v[Account(u)] = "completed" /\ Permits(v, u, action, w)

Configurable(v, w, r) == Exists(v, Role(w, r)) /\ r # OwnerRole

AssignableName(v, w, r, name) ==
  name # OwnerRole /\ RolesNamed(v, w, name) \subseteq {r}

(* The check the use cases run on their own writes before they commit.     *)
SingleOwner(v, w) == OwnerIds(v, w) = {v[WorkspaceRow(w)].owner}

ReturnNobody(v, us) == v          \* mutant: nobody is sent back

(* People who no longer belong to any workspace go back to that step.      *)
ReturnToWorkspaceStep(v, us) ==
  Put(v, {Account(u) : u \in {x \in us : v[Account(x)] = "completed" /\ ~BelongsToAny(v, x)}},
      "workspace_pending")

(* Mutant: a settled invitation still counts as usable.                    *)
UsableWhateverStatus(v, i) == Exists(v, InvitationRow(i)) /\ i \notin expired

Usable(v, i) ==
  Exists(v, InvitationRow(i)) /\ v[InvitationRow(i)].status = "pending" /\ i \notin expired

(* The invitation can be accepted by u.                                    *)
CanJoin(v, i, u) ==
  /\ Registered(v, u)
  /\ Usable(v, i)
  /\ LET invitation == v[InvitationRow(i)] IN
     /\ invitation.email = u
     /\ Live(v, invitation.workspace)
     /\ Configurable(v, invitation.workspace, invitation.role)
     /\ ~IsMember(v, invitation.workspace, u)

(* Joining locks the live workspace of a usable invitation sent to u, then *)
(* looks at its role and at the membership.                                *)
LocksToJoin(v, i, u) ==
  {WorkspaceRow(w) : w \in {x \in Workspace :
     /\ i \in Invitation
     /\ Registered(v, u) /\ Usable(v, i)
     /\ v[InvitationRow(i)].email = u
     /\ v[InvitationRow(i)].workspace = x /\ Live(v, x)}}

(* Mutant: joining leaves the onboarding step as it is.                    *)
JoinedOnly(v, i, u) ==
  LET invitation == v[InvitationRow(i)] IN
  [v EXCEPT ![InvitationRow(i)].status = "accepted",
            ![Member(invitation.workspace, u)] = invitation.role]

Joined(v, i, u) ==
  LET invitation == v[InvitationRow(i)] IN
  [v EXCEPT ![InvitationRow(i)].status = "accepted",
            ![Member(invitation.workspace, u)] = invitation.role,
            ![Account(u)] = IF @ = "workspace_pending" THEN "completed" ELSE @]

-----------------------------------------------------------------------------
(*                       The signed-in person                              *)

Sends(p, r, call) == r.call = call /\ Serves(p, r)

(* The pool just issued this account's id, so its row was never deleted,   *)
(* though its first request may have created it.  An invitation that       *)
(* cannot be used leaves the registration as it is, though its workspace   *)
(* may stay locked.                                                        *)
Register(p, r) ==
  /\ Sends(p, r, "register")
  /\ View(p)[Account(r.by)] # Gone
  /\ LET s == View(p)
         taken == Registered(s, r.by)
         account == IF r.named THEN "workspace_pending" ELSE "profile_pending"
         created == IF taken THEN s ELSE [s EXCEPT ![Account(r.by)] = account]
         joins == r.invitation # NoInvitation /\ CanJoin(created, r.invitation, r.by)
     IN Attempt(p, r, LocksToJoin(created, r.invitation, r.by),
                IF joins THEN Joined(created, r.invitation, r.by) ELSE created)

(* The first request of a subject without a row creates one; a token that   *)
(* outlives its account does so again.                                     *)
EnsureAccount(p, r) ==
  /\ Sends(p, r, "ensure_account")
  /\ ~Registered(View(p), r.by)
  /\ Attempt(p, r, {}, [View(p) EXCEPT ![Account(r.by)] = "profile_pending"])

(* The name is written whatever the status becomes.                        *)
RenameProfile(p, r) ==
  /\ Sends(p, r, "rename")
  /\ Registered(View(p), r.by)
  /\ LET s == View(p) IN
     Attempt(p, r, {Account(r.by)},
             [s EXCEPT ![Account(r.by)] =
                IF @ # "profile_pending" THEN @
                ELSE IF BelongsToAny(s, r.by) THEN "completed" ELSE "workspace_pending"])

DeletableWhateverOwned(v, u) == Registered(v, u)   \* mutant: owners may leave
Deletable(v, u) == Registered(v, u) /\ ~AnyOwnedBy(v, u)

(* The workspaces the account deleted are listed in the transaction of the *)
(* first check, which the first purge, or the deletion itself, continues.  *)
StartAccountDeletion(p, r) ==
  /\ Sends(p, r, "delete_account")
  /\ Deletable(View(p), r.by)
  /\ tx' = [tx EXCEPT ![p].request = Deletion(r.by, DeletedIds(View(p), r.by))]
  /\ UNCHANGED db

(* Mutant: the invitations of a purged workspace are forgotten.            *)
PurgedButInvitations(v, w) ==
  IF ~Deleted(v, w) THEN v
  ELSE Put(Put(v, {Member(w, u) : u \in User}, Absent),
           {WorkspaceRow(w)} \cup {Role(w, x) : x \in {y \in RoleId : Exists(v, Role(w, y))}},
           Gone)

Purged(v, w) ==
  IF ~Deleted(v, w) THEN v
  ELSE LET members == {Member(w, u) : u \in User}
           others == {WorkspaceRow(w)} \cup {InvitationRow(i) : i \in InvitationsOf(v, w)}
                       \cup {Role(w, x) : x \in {y \in RoleId : Exists(v, Role(w, y))}}
       IN Put(Put(v, members, Absent), others, Gone)

PurgeOwned(p) ==
  \E u \in User, purging \in SUBSET Workspace : \E w \in purging :
    /\ tx[p].open
    /\ tx[p].request = Deletion(u, purging)
    /\ AttemptThen(p, Deletion(u, purging), {}, Purged(View(p), w),
                   Deletion(u, purging \ {w}))

DeleteAccount(p) ==
  \E u \in User :
    /\ tx[p].open
    /\ tx[p].request = Deletion(u, {})
    /\ Deletable(View(p), u)
    /\ LET s == View(p)
           sent == {i \in Invitation : Exists(s, InvitationRow(i))
                                         /\ s[InvitationRow(i)].invited_by = u}
       IN Attempt(p, Deletion(u, {}), {},
                  Put(RemoveUser(s, u),
                      {Account(u)} \cup {InvitationRow(i) : i \in sent}, Gone))

-----------------------------------------------------------------------------
(*                           Workspaces                                    *)

CreateWorkspace(p, r) ==
  /\ Sends(p, r, "create")
  /\ LET s == View(p) IN
     /\ s[Account(r.by)] \in {"completed", "workspace_pending"}
     /\ \E w \in Workspace :
          /\ db[WorkspaceRow(w)] = Absent
          /\ LET after ==
                   [row \in DOMAIN s |->
                      CASE row = WorkspaceRow(w) -> [owner |-> r.by, deleted |-> FALSE]
                        [] row = Member(w, r.by) -> OwnerRole
                        [] row = Account(r.by) -> "completed"
                        [] row \in {Role(w, x) : x \in SystemRole} ->
                             [name |-> row[3], system |-> TRUE,
                              permissions |-> SystemPermissions[row[3]]]
                        [] OTHER -> s[row]]
             IN /\ SingleOwner(after, w)
                /\ Attempt(p, r, {}, after)

(* Every change below locks its live workspace, then checks the permission.*)
Changes(p, r, call, action) ==
  /\ Sends(p, r, call)
  /\ Require(View(p), r.by, action, r.workspace)

(* Mutant: the workspace row is read without FOR UPDATE.                   *)
AttemptUnlocked(p, r, after) == Attempt(p, r, {}, after)

AttemptLocked(p, r, after) == Attempt(p, r, {WorkspaceRow(r.workspace)}, after)

(* A new name and slug, which are left out: the others notice the lock.    *)
UpdateWorkspace(p, r) ==
  /\ Changes(p, r, "update", "workspace.update")
  /\ AttemptLocked(p, r, View(p))

DeleteWorkspace(p, r) ==
  /\ Changes(p, r, "delete", "workspace.delete")
  /\ LET s == View(p)
         w == r.workspace
         emptied == RevokePending(RemoveMembers(s, w, MemberIds(s, w)), w)
     IN AttemptLocked(p, r,
          ReturnToWorkspaceStep([emptied EXCEPT ![WorkspaceRow(w)].deleted = TRUE],
                                MemberIds(s, w)))

(* The rows of a deleted workspace, as the daily job removes them.         *)
PurgeWorkspace(p, r) ==
  /\ Sends(p, r, "purge")
  /\ Deleted(View(p), r.workspace)
  /\ Attempt(p, r, {}, Purged(View(p), r.workspace))

-----------------------------------------------------------------------------
(*                             Roles                                       *)

CreateRole(p, r) ==
  /\ Changes(p, r, "create_role", "roles.manage")
  /\ \E role \in SpareRole :
       /\ db[Role(r.workspace, role)] = Absent
       /\ AssignableName(View(p), r.workspace, role, r.name)
       /\ AttemptLocked(p, r, [View(p) EXCEPT ![Role(r.workspace, role)] =
                                 [name |-> r.name, system |-> FALSE, permissions |-> {}]])

RenameRole(p, r) ==
  /\ Changes(p, r, "rename_role", "roles.manage")
  /\ Configurable(View(p), r.workspace, r.role)
  /\ AssignableName(View(p), r.workspace, r.role, r.name)
  /\ AttemptLocked(p, r, [View(p) EXCEPT ![Role(r.workspace, r.role)].name = r.name])

DeleteRole(p, r) ==
  /\ Changes(p, r, "delete_role", "roles.manage")
  /\ Configurable(View(p), r.workspace, r.role)
  /\ ~IsInUse(View(p), r.workspace, r.role)
  /\ LET s == View(p)
         stale == {i \in InvitationsOf(s, r.workspace) : s[InvitationRow(i)].role = r.role}
     IN AttemptLocked(p, r, Put(s, {Role(r.workspace, r.role)} \cup
                                     {InvitationRow(i) : i \in stale}, Gone))

SetPermissions(p, r) ==
  /\ Changes(p, r, "set_permissions", "roles.manage")
  /\ Configurable(View(p), r.workspace, r.role)
  /\ r.permissions \subseteq Assignable
  /\ AttemptLocked(p, r,
       [View(p) EXCEPT ![Role(r.workspace, r.role)].permissions = r.permissions])

-----------------------------------------------------------------------------
(*                            Members                                      *)

SetMemberRole(p, r) ==
  /\ Changes(p, r, "set_member_role", "roles.manage")
  /\ LET s == View(p)
         after == [s EXCEPT ![Member(r.workspace, r.member)] = r.role]
     IN /\ Configurable(s, r.workspace, r.role)
        /\ r.member # s[WorkspaceRow(r.workspace)].owner
        /\ IsMember(s, r.workspace, r.member)
        /\ SingleOwner(after, r.workspace)
        /\ AttemptLocked(p, r, after)

RemoveMember(p, r) ==
  /\ Changes(p, r, "remove_member", "members.remove")
  /\ LET s == View(p)
         after == RemoveMembers(s, r.workspace, {r.member})
     IN /\ r.member # s[WorkspaceRow(r.workspace)].owner
        /\ IsMember(s, r.workspace, r.member)
        /\ SingleOwner(after, r.workspace)
        /\ AttemptLocked(p, r, ReturnToWorkspaceStep(after, {r.member}))

(* The previous owner becomes an admin; a missing admin role is recreated. *)
Transfer(p, r) ==
  /\ Changes(p, r, "transfer", "workspace.transfer")
  /\ LET s == View(p)
         w == r.workspace
         admins == RolesNamed(s, w, AdminRole)
     IN /\ r.member # r.by
        /\ IsMember(s, w, r.member)
        /\ \E admin \in IF admins # {} THEN admins
                        ELSE {x \in SpareRole : db[Role(w, x)] = Absent} :
             LET after == [s EXCEPT
                   ![Role(w, admin)] =
                      IF admins # {} THEN @
                      ELSE [name |-> AdminRole, system |-> TRUE,
                            permissions |-> SystemPermissions[AdminRole]],
                   ![Member(w, r.member)] = s[Member(w, r.by)],
                   ![Member(w, r.by)] = admin,
                   ![WorkspaceRow(w)].owner = r.member]
             IN /\ SingleOwner(after, w)
                /\ AttemptLocked(p, r, after)

-----------------------------------------------------------------------------
(*                          Invitations                                    *)

(* members.invite alone hands out the system member role only.             *)
Invitable(v, u, w, role) ==
  \/ v[Role(w, role)].system /\ v[Role(w, role)].name = DefaultMemberRole
  \/ Permits(v, u, "roles.manage", w)

Invite(p, r) ==
  /\ Changes(p, r, "invite", "members.invite")
  /\ LET s == View(p)
         w == r.workspace
     IN /\ Configurable(s, w, r.role)
        /\ Invitable(s, r.by, w, r.role)
        /\ ~(IsMember(s, w, r.email) /\ Registered(s, r.email))
        /\ ~HasPending(s, w, r.email)
        /\ \E i \in Invitation :
             /\ db[InvitationRow(i)] = Absent
             /\ AttemptLocked(p, r, [s EXCEPT ![InvitationRow(i)] =
                  [status |-> "pending", workspace |-> w, email |-> r.email,
                   role |-> r.role, invited_by |-> r.by]])

RevokeInvitation(p, r) ==
  /\ Changes(p, r, "revoke_invitation", "invitations.revoke")
  /\ r.invitation \in InvitationsOf(View(p), r.workspace)
  /\ Usable(View(p), r.invitation)
  /\ AttemptLocked(p, r, [View(p) EXCEPT ![InvitationRow(r.invitation)].status = "revoked"])

AcceptInvitation(p, r) ==
  /\ Sends(p, r, "accept_invitation")
  /\ CanJoin(View(p), r.invitation, r.by)
  /\ Attempt(p, r, LocksToJoin(View(p), r.invitation, r.by),
             Joined(View(p), r.invitation, r.by))

(* Seven days pass: `now()` is read from the clock, not from the snapshot. *)
Expire(i) ==
  /\ i \notin expired
  /\ Usable(db, i)
  /\ expired' = expired \cup {i}
  /\ UNCHANGED <<db, tx>>

-----------------------------------------------------------------------------
(* The requests, listed: TLC computes this set once. *)
Asked == {r : r \in Requests}

Init ==
  /\ db = [row \in Row |-> Absent]
  /\ tx = [p \in Session |-> Idle]
  /\ expired = {}

Serve(p, r) ==
  \/ Register(p, r) \/ EnsureAccount(p, r) \/ RenameProfile(p, r)
  \/ StartAccountDeletion(p, r)
  \/ CreateWorkspace(p, r) \/ UpdateWorkspace(p, r)
  \/ DeleteWorkspace(p, r) \/ PurgeWorkspace(p, r)
  \/ CreateRole(p, r) \/ RenameRole(p, r) \/ DeleteRole(p, r) \/ SetPermissions(p, r)
  \/ SetMemberRole(p, r) \/ RemoveMember(p, r) \/ Transfer(p, r)
  \/ Invite(p, r) \/ RevokeInvitation(p, r) \/ AcceptInvitation(p, r)

Step(p) ==
  \/ Begin(p)
  \/ RollBack(p)
  \/ PurgeOwned(p)
  \/ DeleteAccount(p)
  \/ \E r \in Asked : Serve(p, r)

Next ==
  \/ \E p \in Session : Step(p) /\ UNCHANGED expired
  \/ \E i \in Invitation : Expire(i)

Spec == Init /\ [][Next]_vars

-----------------------------------------------------------------------------
(*                          Properties                                     *)

DatabaseOK(v) ==
  /\ DOMAIN v = Row
  /\ \A u \in User : v[Account(u)] \in Status \cup {Absent, Gone}
  /\ \A w \in Workspace :
       /\ v[WorkspaceRow(w)] \in WorkspaceRecord \cup {Absent, Gone}
       /\ \A r \in RoleId : v[Role(w, r)] \in RoleRecord \cup {Absent, Gone}
       /\ \A u \in User : v[Member(w, u)] \in RoleId \cup {Absent}
  /\ \A i \in Invitation : v[InvitationRow(i)] \in InvitationRecord \cup {Absent, Gone}

TransactionOK(t) ==
  /\ DOMAIN t = {"open", "snapshot", "touched", "attempt", "request"}
  /\ t.open \in BOOLEAN
  /\ t.attempt \in 1 .. ATTEMPTS
  /\ t.touched \subseteq Row
  /\ t.request \in Requests \cup Deletions \cup {NoRequest}
  /\ IF t.open THEN DatabaseOK(t.snapshot) ELSE t.snapshot = <<>> /\ t.touched = {}

(* Every row, of the database and of every open snapshot, holds what its   *)
(* table may hold (tables.py), and a session is open or has no snapshot.   *)
TypeOK ==
  /\ DatabaseOK(db)
  /\ DOMAIN tx = Session
  /\ \A p \in Session : TransactionOK(tx[p])
  /\ expired \subseteq Invitation

(* Workspace.ensure_single_owner, for everybody at once: whatever changes  *)
(* overlap (transfer, role changes, removals, joins, account deletions),   *)
(* exactly one member of a live workspace holds the protected owner role,  *)
(* it is owner_id, and a workspace that is not live has no member at all.  *)
OwnersAreSingle ==
  \A w \in Workspace :
    IF Live(db, w) THEN SingleOwner(db, w) ELSE MemberIds(db, w) = {}

(* "The use cases keep references consistent": delete_role never removes a *)
(* role some member holds or some usable invitation would hand out, however*)
(* it overlaps with assignments, invitations and transfers.                *)
RolesInUseExist ==
  /\ \A w \in Workspace : \A u \in MemberIds(db, w) : Exists(db, Role(w, db[Member(w, u)]))
  /\ \A i \in Invitation : Usable(db, i) =>
       Configurable(db, db[InvitationRow(i)].workspace, db[InvitationRow(i)].role)

(* preview_invitation relies on it: deleting a workspace revokes its       *)
(* pending invitations, so a usable invitation has a live workspace, also  *)
(* when the workspace is deleted while the invitation is being written.    *)
UsableInvitationIsLive ==
  \A i \in Invitation : Usable(db, i) => Live(db, db[InvitationRow(i)].workspace)

(* What the purge removed stays removed: no role, member or invitation of  *)
(* a purged workspace is left behind or comes back, since nothing would    *)
(* ever collect it again.                                                  *)
PurgedForGood ==
  \A w \in Workspace : db[WorkspaceRow(w)] = Gone =>
    /\ MemberIds(db, w) = {}
    /\ InvitationsOf(db, w) = {}
    /\ \A r \in RoleId : ~Exists(db, Role(w, r))

(* Two invites to one email at the same time: only one is left usable, so  *)
(* a person never holds two roles on offer in one workspace.               *)
OneUsableInvitation ==
  \A i, j \in Invitation :
    /\ Usable(db, i) /\ Usable(db, j)
    /\ db[InvitationRow(i)].workspace = db[InvitationRow(j)].workspace
    /\ db[InvitationRow(i)].email = db[InvitationRow(j)].email
    => i = j

(* An invitation is settled once: after accept or revoke no other request, *)
(* however late its transaction, gives it another outcome.                 *)
SettledOnce ==
  [][\A i \in Invitation :
       Exists(db, InvitationRow(i)) /\ db[InvitationRow(i)].status # "pending" =>
         db'[InvitationRow(i)] \in {db[InvitationRow(i)], Gone}]_vars

Guarding ==
  [delete |-> "workspace.delete", transfer |-> "workspace.transfer",
   create_role |-> "roles.manage", rename_role |-> "roles.manage",
   delete_role |-> "roles.manage", set_permissions |-> "roles.manage",
   set_member_role |-> "roles.manage", remove_member |-> "members.remove",
   invite |-> "members.invite", revoke_invitation |-> "invitations.revoke"]

Commits(p) == tx[p].open /\ ~tx'[p].open /\ db' # db

(* "a permission and the state it guards are read together": a change that *)
(* commits is one its sender may still make in the state it commits to,    *)
(* whatever was revoked, reassigned or transferred since it was checked.   *)
(* Only the sender's own account deletion, which takes no workspace lock,  *)
(* can overtake the check.                                                 *)
AuthorisedWhenCommitted ==
  [][\A p \in Session : Commits(p) =>
       \A r \in Asked : r.call \in DOMAIN Guarding /\ Serve(p, r) =>
         \/ /\ Permits(db, r.by, Guarding[r.call], r.workspace)
            /\ r.call = "invite" => /\ Configurable(db, r.workspace, r.role)
                                    /\ Invitable(db, r.by, r.workspace, r.role)
         \/ ~IsMember(db, r.workspace, r.by) /\ Account(r.by) \in tx[p].touched]_vars

(* "People who no longer belong to any workspace go back to that           *)
(* onboarding step."                                                       *)
ReturnedToWorkspaceStep ==
  \A u \in User : db[Account(u)] = "completed" => BelongsToAny(db, u)

(* The other direction: whoever belongs to a workspace is not held at the  *)
(* step of joining one, where every action on the workspace is refused.    *)
MembersPassedWorkspaceStep ==
  \A u \in User : db[Account(u)] = "workspace_pending" => ~BelongsToAny(db, u)

(* "The use cases keep references consistent": every live workspace has an *)
(* owner who can sign in, every member an account.                         *)
MembersHaveAccounts ==
  \A w \in Workspace : \A u \in MemberIds(db, w) : Registered(db, u)
-----------------------------------------------------------------------------
(*                     What it implements                                  *)

TeamState(w) ==
  IF db[WorkspaceRow(w)] = Absent THEN "none" ELSE IF Live(db, w) THEN "open" ELSE "closed"

Promise == INSTANCE Teams WITH
  NoRole <- Absent,
  team <- [w \in Workspace |-> [state |-> TeamState(w),
                                roles |-> [u \in User |-> db[Member(w, u)]]]],
  offers <- {[workspace |-> db[InvitationRow(i)].workspace,
              user |-> db[InvitationRow(i)].email,
              role |-> db[InvitationRow(i)].role] : i \in {j \in Invitation : Usable(db, j)}}

(* The handlers, each working on an old snapshot, look to the people in a  *)
(* workspace like changes made one at a time: whoever joins was not in the *)
(* team and held an offer nobody had withdrawn, whoever hands over still   *)
(* owned it, nobody is given a role after being removed, and no offer      *)
(* outlives its team.                                                      *)
ImplementsTeams == Promise!Spec

-----------------------------------------------------------------------------
(*                     The inductive invariant                             *)

(* OwnersAreSingle row by row, for any view of the database.               *)
OwnerOK(v, w) ==
  \A u \in User :
    /\ v[Member(w, u)] = OwnerRole <=> Live(v, w) /\ v[WorkspaceRow(w)].owner = u
    /\ IsMember(v, w, u) => Live(v, w)

OwnersOK(v) == \A w \in Workspace : OwnerOK(v, w)

(* What an open transaction may still rely on: rows nobody touched are as  *)
(* it read them; while nobody touched a workspace's row its members are    *)
(* too, except those whose account was deleted; and an id that is still    *)
(* unused was unused in the snapshot.                                      *)
Agrees(v, s, touched) ==
  /\ \A row \in Row \ touched : v[row] = s[row]
  /\ \A w \in Workspace : WorkspaceRow(w) \notin touched =>
       \A u \in User : v[Member(w, u)] \in {s[Member(w, u)], Absent}
  /\ \A w \in Workspace : v[WorkspaceRow(w)] = Absent => s[WorkspaceRow(w)] = Absent

IInv ==
  /\ TypeOK
  /\ OwnersOK(db)
  /\ \A p \in Session : tx[p].open =>
       OwnersOK(tx[p].snapshot) /\ Agrees(db, tx[p].snapshot, tx[p].touched)

(* A workspace that keeps its references: nothing is left of one that does *)
(* not exist, the roles of its members exist, its pending invitations can  *)
(* be accepted, and of those to one person at most one is not too late.    *)
WorkspaceOK(v, w, late) ==
  /\ ~Exists(v, WorkspaceRow(w)) =>
       InvitationsOf(v, w) = {} /\ \A r \in RoleId : ~Exists(v, Role(w, r))
  /\ \A u \in MemberIds(v, w) : Exists(v, Role(w, v[Member(w, u)]))
  /\ \A i \in PendingOf(v, w) : Live(v, w) /\ Configurable(v, w, v[InvitationRow(i)].role)
  /\ \A i, j \in PendingOf(v, w) \ late :
       v[InvitationRow(i)].email = v[InvitationRow(j)].email => i = j

(* The workspace is in v as it was in s, except for members and            *)
(* invitations that were removed.                                          *)
Remains(v, s, w) ==
  /\ v[WorkspaceRow(w)] = s[WorkspaceRow(w)]
  /\ \A r \in RoleId : v[Role(w, r)] = s[Role(w, r)]
  /\ \A u \in MemberIds(v, w) : v[Member(w, u)] = s[Member(w, u)]
  /\ \A i \in InvitationsOf(v, w) : v[InvitationRow(i)] = s[InvitationRow(i)]

Left(v, s, w) == MemberIds(s, w) \ MemberIds(v, w)

(* What the lock on a workspace's row is worth: while nobody else touched  *)
(* it, the whole workspace is as the transaction read it, but for the      *)
(* people who deleted their account and the invitations they had sent.     *)
LockInv ==
  /\ \A w \in Workspace : WorkspaceOK(db, w, expired)
  /\ \A p \in Session : tx[p].open => \A w \in Workspace :
       /\ WorkspaceOK(tx[p].snapshot, w, expired)
       /\ WorkspaceRow(w) \notin tx[p].touched =>
            /\ Remains(db, tx[p].snapshot, w)
            /\ \A u \in Left(db, tx[p].snapshot, w) : Account(u) \in tx[p].touched
=============================================================================
