------------------------------- MODULE Teams --------------------------------
(***************************************************************************)
(* What workspaces promise the people in them, without rows, locks or      *)
(* reruns: who is in which team with what role, and which offers to join   *)
(* can still be taken up.  Every change happens at once, in the state that *)
(* everybody sees.  Workspaces implements it (ImplementsTeams there).      *)
(***************************************************************************)
CONSTANTS User, Workspace, RoleId, OwnerRole, NoRole

VARIABLES
  team,     \* [Workspace -> [state, roles : [User -> RoleId or NoRole]]]
  offers    \* the offers that can be taken up: [workspace, user, role]

Offered == [workspace : Workspace, user : User, role : RoleId \ {OwnerRole}]
Nobody == [u \in User |-> NoRole]
InTeam(w, u) == team[w].roles[u] # NoRole
Owns(w, u) == team[w].roles[u] = OwnerRole
OffersOf(w) == {o \in offers : o.workspace = w}

Found(w, u) ==
  /\ team[w].state = "none"
  /\ team' = [team EXCEPT ![w] = [state |-> "open",
                                  roles |-> [Nobody EXCEPT ![u] = OwnerRole]]]
  /\ UNCHANGED offers

(* Nobody holds two offers of one team.                                    *)
Offer(o) ==
  /\ team[o.workspace].state = "open"
  /\ \A other \in OffersOf(o.workspace) : other.user # o.user
  /\ offers' = offers \cup {o}
  /\ UNCHANGED team

(* Revoked, expired, or made unusable by what happened to its role.        *)
Withdraw(o) == offers' = offers \ {o} /\ UNCHANGED team

Join(o) ==
  /\ ~InTeam(o.workspace, o.user)
  /\ team' = [team EXCEPT ![o.workspace].roles[o.user] = o.role]
  /\ offers' = offers \ {o}

Assign(w, u, r) ==
  /\ InTeam(w, u) /\ ~Owns(w, u)
  /\ team' = [team EXCEPT ![w].roles[u] = r]
  /\ UNCHANGED offers

(* Ownership moves from its holder to another member, in one step.         *)
Transfer(w, u, v, r) ==
  /\ Owns(w, u)
  /\ InTeam(w, v) /\ u # v
  /\ team' = [team EXCEPT ![w].roles[v] = OwnerRole, ![w].roles[u] = r]
  /\ UNCHANGED offers

Remove(w, u) ==
  /\ InTeam(w, u) /\ ~Owns(w, u)
  /\ team' = [team EXCEPT ![w].roles[u] = NoRole]
  /\ UNCHANGED offers

(* The end of a team is the end of every offer to join it.                 *)
Close(w) ==
  /\ team[w].state = "open"
  /\ team' = [team EXCEPT ![w] = [state |-> "closed", roles |-> Nobody]]
  /\ offers' = offers \ OffersOf(w)

(* Somebody leaves the product: teams that are not theirs, and offers.     *)
Forget(u, left, sent) ==
  /\ \A w \in left : InTeam(w, u) /\ ~Owns(w, u)
  /\ team' = [w \in Workspace |-> IF w \in left THEN [team[w] EXCEPT !.roles[u] = NoRole]
                                  ELSE team[w]]
  /\ offers' = offers \ sent

Init ==
  /\ team = [w \in Workspace |-> [state |-> "none", roles |-> Nobody]]
  /\ offers = {}

Next ==
  \/ \E w \in Workspace : Close(w)
  \/ \E o \in Offered : Offer(o)
  \/ \E o \in offers : Withdraw(o) \/ Join(o)
  \/ \E w \in Workspace, u \in User :
       \/ Found(w, u)
       \/ Remove(w, u)
       \/ \E r \in RoleId \ {OwnerRole} :
            Assign(w, u, r) \/ \E v \in User : Transfer(w, u, v, r)
  \/ \E u \in User, left \in SUBSET Workspace, sent \in SUBSET offers : Forget(u, left, sent)

Spec == Init /\ [][Next]_<<team, offers>>
=============================================================================
