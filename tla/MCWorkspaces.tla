---------------------------- MODULE MCWorkspaces ----------------------------
(* Small instances of Workspaces: what the clients of each run may ask.    *)
EXTENDS Workspaces, TLC

Calls(names) == {r \in Request : r.call \in names}

(* One person, the founder, makes the workspaces; the other joins them.    *)
Founder == CHOOSE u \in User : TRUE
OthersCall(names) == {r \in Calls(names) : r.by # Founder}
Registrations(by) ==
  {r \in Calls({"register"}) : r.by \in by /\ r.named /\ (r.by = Founder => r.invitation = NoInvitation)}

(* Every way to become, change or stop being a member of one workspace,    *)
(* with two invitations to hand out, and registrations that use them.      *)
MembershipRequests ==
  Registrations(User)
  \cup OthersCall({"ensure_account", "delete_account"})
  \cup {r \in Calls({"create", "update"}) : r.by = Founder}
  \cup Calls({"delete", "purge", "remove_member", "transfer", "accept_invitation",
              "revoke_invitation"})
  \cup {r \in Calls({"set_member_role"}) : r.role = "viewer" /\ r.member # Founder}
  \cup {r \in Calls({"invite"}) : r.role = AdminRole /\ r.email # Founder}

(* One person owns the workspace and the other is an admin or a member,    *)
(* while both change roles, assign them, and offer them.                   *)
RoleRequests ==
  Registrations({Founder})
  \cup OthersCall({"ensure_account", "rename"})
  \cup {r \in Calls({"create"}) : r.by = Founder}
  \cup {r \in Calls({"create_role"}) : r.name = "clerk"}
  \cup {r \in Calls({"rename_role"}) : r.role = AdminRole /\ r.name = "clerk"}
  \cup {r \in Calls({"delete_role"}) : r.role \in SpareRole \cup {AdminRole}}
  \cup {r \in Calls({"set_permissions"}) :
           r.role \in SpareRole /\ r.by = Founder /\ r.permissions = {"roles.manage"}}
  \cup {r \in Calls({"set_member_role"}) : r.role \in SpareRole \cup {AdminRole} /\ r.member # Founder}
  \cup {r \in Calls({"invite"}) : r.role \in SpareRole /\ r.email # Founder}
  \cup {r \in Calls({"remove_member"}) : r.member # Founder}
  \cup {r \in Calls({"transfer"}) : r.by = Founder}
  \cup Calls({"accept_invitation"})

(* One person with two workspaces.                                         *)
SkewRequests == Registrations(User) \cup Calls({"create", "delete"})

(* One person owns a workspace; the other arrives, takes a name and joins. *)
StuckRequests ==
  Registrations({Founder})
  \cup {r \in Calls({"create"}) : r.by = Founder}
  \cup OthersCall({"ensure_account", "rename", "accept_invitation"})
  \cup {r \in Calls({"invite"}) : r.role = "viewer" /\ r.email # Founder}

(* One person owns a workspace, the other joins it, and may then leave the *)
(* product while creating a workspace.                                     *)
DanglingRequests ==
  {r \in Calls({"register"}) : r.named /\ r.invitation = NoInvitation}
  \cup Calls({"delete_account", "create", "accept_invitation"})
  \cup {r \in Calls({"invite"}) : r.role = "viewer" /\ r.email # r.by}

Symmetry == Permutations(Session)
=============================================================================
