---------------------------- MODULE TeamsProofs ----------------------------
(***************************************************************************)
(* Workspaces implements Teams, for any number of sessions, accounts,      *)
(* workspaces, roles and invitations: however the handlers overlap, every  *)
(* commit changes teams and offers as one step of Teams does, or not at    *)
(* all.                                                                    *)
(*                                                                         *)
(* Teams sees three tables: the workspaces, their members and their        *)
(* invitations.  Every use case does one of nine deeds to them; a commit   *)
(* merges a deed into a database that others have changed since, and what  *)
(* it merged is a step of Teams.                                           *)
(***************************************************************************)
EXTENDS LocksProofs

-----------------------------------------------------------------------------
(*                     The state that Teams sees                           *)

(* As in the instance of Teams, so that its variables have names here.     *)
Roles(w) == [u \in User |-> db[Member(w, u)]]
Team == [w \in Workspace |-> [state |-> TeamState(w),
                              roles |-> [u \in User |-> db[Member(w, u)]]]]
OfferOf(i) == [workspace |-> db[InvitationRow(i)].workspace,
               user |-> db[InvitationRow(i)].email,
               role |-> db[InvitationRow(i)].role]
Offers == {[workspace |-> db[InvitationRow(i)].workspace,
            user |-> db[InvitationRow(i)].email,
            role |-> db[InvitationRow(i)].role] : i \in {j \in Invitation : Usable(db, j)}}

TeamStep == Promise!Next \/ UNCHANGED <<Team, Offers>>

LEMMA OfferFacts ==
  /\ \A i \in Invitation : Usable(db, i) => OfferOf(i) \in Offers
  /\ \A o \in Offers : \E i \in Invitation : Usable(db, i) /\ o = OfferOf(i)
  /\ \A i \in Invitation : Usable(db, i)' => OfferOf(i)' \in Offers'
  /\ \A o \in Offers' : \E i \in Invitation : Usable(db, i)' /\ o = OfferOf(i)'
BY DEF Offers, OfferOf

(* Two usable invitations are two offers.                                  *)
LEMMA OffersDiffer ==
  ASSUME IInv, LockInv, NEW i \in Invitation, NEW j \in Invitation, Usable(db, i), Usable(db, j),
         OfferOf(i) = OfferOf(j)
  PROVE  i = j
<1>1. /\ db[InvitationRow(i)].workspace = db[InvitationRow(j)].workspace
      /\ db[InvitationRow(i)].email = db[InvitationRow(j)].email
  BY DEF OfferOf
<1>. QED
  BY <1>1, OneUsable DEF OneUsableInvitation

(* Exactly the invitations in `gone` stop being usable.                    *)
LEMMA OffersLeft ==
  ASSUME IInv, LockInv, NEW gone \in SUBSET Invitation,
         \A i \in gone : Usable(db, i),
         \A i \in Invitation : Usable(db, i)' <=> Usable(db, i) /\ i \notin gone,
         \A i \in Invitation : Usable(db, i) /\ i \notin gone =>
           db'[InvitationRow(i)] = db[InvitationRow(i)]
  PROVE  Offers' = Offers \ {OfferOf(i) : i \in gone}
<1>1. \A i \in Invitation : Usable(db, i)' => OfferOf(i)' = OfferOf(i)
  BY DEF OfferOf
<1>2. ASSUME NEW o \in Offers'
      PROVE  o \in Offers /\ \A i \in gone : o # OfferOf(i)
  <2>1. PICK i \in Invitation : Usable(db, i)' /\ o = OfferOf(i)'
    BY <1>2, OfferFacts
  <2>2. Usable(db, i) /\ i \notin gone /\ o = OfferOf(i)
    BY <1>1, <2>1
  <2>3. \A j \in gone : OfferOf(j) # OfferOf(i)
    BY <2>2, OffersDiffer
  <2>. QED
    BY <2>2, <2>3, OfferFacts
<1>3. ASSUME NEW o \in Offers, \A i \in gone : o # OfferOf(i)
      PROVE  o \in Offers'
  <2>1. PICK i \in Invitation : Usable(db, i) /\ o = OfferOf(i)
    BY OfferFacts
  <2>2. Usable(db, i)' /\ o = OfferOf(i)'
    BY <1>1, <1>3, <2>1
  <2>. QED
    BY <2>2, OfferFacts
<1>. QED
  BY <1>2, <1>3

LEMMA OffersSame ==
  ASSUME \A i \in Invitation : Usable(db, i)' <=> Usable(db, i),
         \A i \in Invitation : Usable(db, i) => db'[InvitationRow(i)] = db[InvitationRow(i)]
  PROVE  Offers' = Offers
<1>1. \A i \in Invitation : Usable(db, i)' => OfferOf(i)' = OfferOf(i)
  BY DEF OfferOf
<1>. QED
  BY <1>1, OfferFacts

(* Teams whose states and roles are the same are the same.                 *)
LEMMA TeamsSame ==
  ASSUME \A w \in Workspace : TeamState(w)' = TeamState(w),
         \A w \in Workspace, u \in User : db'[Member(w, u)] = db[Member(w, u)]
  PROVE  Team' = Team
BY DEF Team

(* One member's role is another one.                                       *)
LEMMA RoleGiven ==
  ASSUME NEW w \in Workspace, NEW u \in User, NEW r,
         \A x \in Workspace : TeamState(x)' = TeamState(x),
         \A x \in Workspace, y \in User :
           db'[Member(x, y)] = IF x = w /\ y = u THEN r ELSE db[Member(x, y)]
  PROVE  Team' = [Team EXCEPT ![w].roles[u] = r]
<1>1. Team = [x \in Workspace |-> [state |-> TeamState(x), roles |-> Roles(x)]]
  BY DEF Team, Roles
<1>2. Team' = [x \in Workspace |-> [state |-> TeamState(x), roles |-> Roles(x)']]
  BY DEF Team, Roles
<1>3. Roles(w)' = [Roles(w) EXCEPT ![u] = r]
  BY DEF Roles
<1>4. \A x \in Workspace : x # w => Roles(x)' = Roles(x)
  BY DEF Roles
<1>. QED
  BY <1>1, <1>2, <1>3, <1>4

(* One team is another one.                                                *)
LEMMA TeamReplaced ==
  ASSUME NEW w \in Workspace, NEW state,
         NEW roles, \A x \in Workspace : TeamState(x)' = IF x = w THEN state ELSE TeamState(x),
         \A x \in Workspace, y \in User : x # w => db'[Member(x, y)] = db[Member(x, y)],
         Roles(w)' = roles
  PROVE  Team' = [Team EXCEPT ![w] = [state |-> state, roles |-> roles]]
<1>1. Team = [x \in Workspace |-> [state |-> TeamState(x), roles |-> Roles(x)]]
  BY DEF Team, Roles
<1>2. Team' = [x \in Workspace |-> [state |-> TeamState(x)', roles |-> Roles(x)']]
  BY DEF Team, Roles
<1>3. \A x \in Workspace : x # w => Roles(x)' = Roles(x)
  BY DEF Roles
<1>. QED
  BY <1>1, <1>2, <1>3

-----------------------------------------------------------------------------
(*                          Merging a deed                                 *)

(* A commit writes the rows that the use case changed, which nobody else   *)
(* touched, over the database.                                             *)
Merges(s, after) ==
  \A row \in Row :
    \/ after[row] = s[row] /\ db'[row] = db[row]
    \/ after[row] # s[row] /\ db[row] = s[row] /\ db'[row] = after[row]

LEMMA CommitMerges ==
  ASSUME IInv, LockInv, NEW p \in Session, tx[p].open, NEW locked, NEW after, NEW next,
         Commit(p, locked, after, next)
  PROVE  /\ Merges(View(p), after)
         /\ \A w \in Workspace : WorkspaceRow(w) \in locked => Remains(db, View(p), w)
<1>1. DatabaseOK(db) /\ Agrees(db, View(p), tx[p].touched)
  BY DEF IInv, TypeOK, View
<1>2. \A row \in Row : after[row] # View(p)[row] \/ row \in locked => row \notin tx[p].touched
  BY <1>1, FootprintUntouched DEF DatabaseOK, View
<1>3. \A row \in Row : db'[row] = IF after[row] # View(p)[row] THEN after[row] ELSE db[row]
  BY <1>1, MergedRow DEF DatabaseOK, View
<1>4. Merges(View(p), after)
  BY <1>1, <1>2, <1>3 DEF Agrees, Merges
<1>5. ASSUME NEW w \in Workspace, WorkspaceRow(w) \in locked
      PROVE  Remains(db, View(p), w)
  BY <1>2, <1>5, RowsOf DEF LockInv, View
<1>. QED
  BY <1>4, <1>5

(* What a merge does to the rows Teams sees.                               *)
LEMMA MergedRows ==
  ASSUME NEW s, NEW after, Merges(s, after)
  PROVE  /\ \A w \in Workspace :
              \/ /\ after[WorkspaceRow(w)] = s[WorkspaceRow(w)]
                 /\ db'[WorkspaceRow(w)] = db[WorkspaceRow(w)]
              \/ /\ after[WorkspaceRow(w)] # s[WorkspaceRow(w)]
                 /\ db[WorkspaceRow(w)] = s[WorkspaceRow(w)]
                 /\ db'[WorkspaceRow(w)] = after[WorkspaceRow(w)]
         /\ \A w \in Workspace, u \in User :
              \/ /\ after[Member(w, u)] = s[Member(w, u)]
                 /\ db'[Member(w, u)] = db[Member(w, u)]
              \/ /\ after[Member(w, u)] # s[Member(w, u)]
                 /\ db[Member(w, u)] = s[Member(w, u)]
                 /\ db'[Member(w, u)] = after[Member(w, u)]
         /\ \A i \in Invitation :
              \/ /\ after[InvitationRow(i)] = s[InvitationRow(i)]
                 /\ db'[InvitationRow(i)] = db[InvitationRow(i)]
              \/ /\ after[InvitationRow(i)] # s[InvitationRow(i)]
                 /\ db[InvitationRow(i)] = s[InvitationRow(i)]
                 /\ db'[InvitationRow(i)] = after[InvitationRow(i)]
BY RowsExist DEF Merges

-----------------------------------------------------------------------------
(*                          The nine deeds                                 *)
(* s: what the use case read; after: what it leaves.                       *)

SameWorkspaces(s, after) == \A w \in Workspace : after[WorkspaceRow(w)] = s[WorkspaceRow(w)]
SameInvitations(s, after) == \A i \in Invitation : after[InvitationRow(i)] = s[InvitationRow(i)]

(* Removes nothing that Teams sees: deleted workspaces, settled offers.    *)
Cleans(s, after) ==
  /\ \A w \in Workspace : \/ after[WorkspaceRow(w)] = s[WorkspaceRow(w)]
                          \/ Deleted(s, w) /\ after[WorkspaceRow(w)] = Gone
  /\ \A w \in Workspace, u \in User : after[Member(w, u)] = s[Member(w, u)]
  /\ \A i \in Invitation : \/ after[InvitationRow(i)] = s[InvitationRow(i)]
                           \/ ~Usable(s, i) /\ after[InvitationRow(i)] = Gone

Founds(s, after, w, u) ==
  /\ db[WorkspaceRow(w)] = Absent
  /\ \A x \in Workspace : after[WorkspaceRow(x)] =
       IF x = w THEN [owner |-> u, deleted |-> FALSE] ELSE s[WorkspaceRow(x)]
  /\ \A x \in Workspace, y \in User : after[Member(x, y)] =
       IF x = w /\ y = u THEN OwnerRole ELSE s[Member(x, y)]
  /\ SameInvitations(s, after)

Closes(s, after, w) ==
  /\ Live(s, w)
  /\ \A x \in Workspace : after[WorkspaceRow(x)] =
       IF x = w THEN [s[WorkspaceRow(w)] EXCEPT !.deleted = TRUE] ELSE s[WorkspaceRow(x)]
  /\ \A x \in Workspace, y \in User : after[Member(x, y)] =
       IF x = w /\ y \in MemberIds(s, w) THEN Absent ELSE s[Member(x, y)]
  /\ \A i \in Invitation : after[InvitationRow(i)] =
       IF i \in PendingOf(s, w) THEN [s[InvitationRow(i)] EXCEPT !.status = "revoked"]
       ELSE s[InvitationRow(i)]

Invites(s, after, w, i, c) ==
  /\ Live(s, w)
  /\ c.workspace = w /\ c.status = "pending"
  /\ c.role # OwnerRole /\ ~HasPending(s, w, c.email)
  /\ db[InvitationRow(i)] = Absent
  /\ SameWorkspaces(s, after)
  /\ \A x \in Workspace, y \in User : after[Member(x, y)] = s[Member(x, y)]
  /\ \A j \in Invitation : after[InvitationRow(j)] = IF j = i THEN c ELSE s[InvitationRow(j)]

Revokes(s, after, i) ==
  /\ Usable(s, i)
  /\ SameWorkspaces(s, after)
  /\ \A x \in Workspace, y \in User : after[Member(x, y)] = s[Member(x, y)]
  /\ \A j \in Invitation : after[InvitationRow(j)] =
       IF j = i THEN [s[InvitationRow(i)] EXCEPT !.status = "revoked"] ELSE s[InvitationRow(j)]

Joins(s, after, w, u, i) ==
  /\ Usable(s, i) /\ ~IsMember(s, w, u)
  /\ s[InvitationRow(i)].workspace = w /\ s[InvitationRow(i)].email = u
  /\ SameWorkspaces(s, after)
  /\ \A x \in Workspace, y \in User : after[Member(x, y)] =
       IF x = w /\ y = u THEN s[InvitationRow(i)].role ELSE s[Member(x, y)]
  /\ \A j \in Invitation : after[InvitationRow(j)] =
       IF j = i THEN [s[InvitationRow(i)] EXCEPT !.status = "accepted"] ELSE s[InvitationRow(j)]

(* Another role, or none any more.                                         *)
Assigns(s, after, w, u, r) ==
  /\ IsMember(s, w, u) /\ s[Member(w, u)] # OwnerRole
  /\ r \in (RoleId \cup {Absent}) \ {OwnerRole}
  /\ SameWorkspaces(s, after)
  /\ \A x \in Workspace, y \in User : after[Member(x, y)] =
       IF x = w /\ y = u THEN r ELSE s[Member(x, y)]
  /\ SameInvitations(s, after)

HandsOver(s, after, w, u, m, r) ==
  /\ Live(s, w)
  /\ u # m /\ s[Member(w, u)] = OwnerRole /\ IsMember(s, w, m) /\ s[Member(w, m)] # OwnerRole
  /\ r \in RoleId \ {OwnerRole}
  /\ \A x \in Workspace : after[WorkspaceRow(x)] =
       IF x = w THEN [s[WorkspaceRow(w)] EXCEPT !.owner = m] ELSE s[WorkspaceRow(x)]
  /\ \A x \in Workspace, y \in User : after[Member(x, y)] =
       IF x = w /\ y = u THEN r ELSE IF x = w /\ y = m THEN OwnerRole ELSE s[Member(x, y)]
  /\ SameInvitations(s, after)

Leaves(s, after, u) ==
  /\ \A w \in Workspace : s[Member(w, u)] # OwnerRole
  /\ SameWorkspaces(s, after)
  /\ \A w \in Workspace, y \in User : after[Member(w, y)] = IF y = u THEN Absent ELSE s[Member(w, y)]
  /\ \A i \in Invitation : after[InvitationRow(i)] \in {s[InvitationRow(i)], Gone}

Deed(s, locked, after) ==
  \/ Cleans(s, after)
  \/ \E w \in Workspace, u \in User : Founds(s, after, w, u)
  \/ \E w \in Workspace : WorkspaceRow(w) \in locked /\ Closes(s, after, w)
  \/ \E w \in Workspace, i \in Invitation, c \in InvitationRecord :
       WorkspaceRow(w) \in locked /\ Invites(s, after, w, i, c)
  \/ \E i \in Invitation : Revokes(s, after, i)
  \/ \E w \in Workspace, u \in User, i \in Invitation : Joins(s, after, w, u, i)
  \/ \E w \in Workspace, u \in User, r \in RoleId \cup {Absent} : Assigns(s, after, w, u, r)
  \/ \E w \in Workspace, u \in User, m \in User, r \in RoleId : HandsOver(s, after, w, u, m, r)
  \/ \E u \in User : Leaves(s, after, u)

-----------------------------------------------------------------------------
(*                    Merged deeds are steps of Teams                      *)

LEMMA WithdrawStep ==
  ASSUME NEW o \in Offers, Offers' = Offers \ {o}, Team' = Team
  PROVE  TeamStep
<1>1. Promise!Withdraw(o)
  BY DEF Promise!Withdraw, Team, Offers
<1>. QED
  BY <1>1 DEF TeamStep, Promise!Next, Offers

LEMMA JoinStep ==
  ASSUME NEW o \in Offers, o.workspace \in Workspace, o.user \in User,
         db[Member(o.workspace, o.user)] = Absent,
         Team' = [Team EXCEPT ![o.workspace].roles[o.user] = o.role], Offers' = Offers \ {o}
  PROVE  TeamStep
<1>1. Promise!Join(o)
  BY DEF Promise!Join, Promise!InTeam, Team, Offers
<1>. QED
  BY <1>1 DEF TeamStep, Promise!Next, Offers

LEMMA FoundStep ==
  ASSUME NEW w \in Workspace, NEW u \in User, TeamState(w) = "none",
         Team' = [Team EXCEPT ![w] = [state |-> "open",
                                      roles |-> [[y \in User |-> Absent] EXCEPT ![u] = OwnerRole]]],
         Offers' = Offers
  PROVE  TeamStep
<1>1. Promise!Found(w, u)
  BY DEF Promise!Found, Promise!Nobody, Team, Offers
<1>. QED
  BY <1>1 DEF TeamStep, Promise!Next

LEMMA CloseStep ==
  ASSUME NEW w \in Workspace, TeamState(w) = "open",
         Team' = [Team EXCEPT ![w] = [state |-> "closed", roles |-> [y \in User |-> Absent]]],
         Offers' = Offers \ {o \in Offers : o.workspace = w}
  PROVE  TeamStep
<1>1. Promise!Close(w)
  BY DEF Promise!Close, Promise!Nobody, Promise!OffersOf, Team, Offers
<1>. QED
  BY <1>1 DEF TeamStep, Promise!Next

LEMMA OfferStep ==
  ASSUME NEW o \in [workspace : Workspace, user : User, role : RoleId \ {OwnerRole}],
         TeamState(o.workspace) = "open",
         \A other \in Offers : other.workspace = o.workspace => other.user # o.user,
         Team' = Team, Offers' = Offers \cup {o}
  PROVE  TeamStep
<1>1. Promise!Offer(o)
  BY DEF Promise!Offer, Promise!OffersOf, Team, Offers
<1>. QED
  BY <1>1 DEF TeamStep, Promise!Next, Promise!Offered

LEMMA AssignStep ==
  ASSUME NEW w \in Workspace, NEW u \in User, db[Member(w, u)] \notin {Absent, OwnerRole},
         NEW r \in (RoleId \cup {Absent}) \ {OwnerRole},
         Team' = [Team EXCEPT ![w].roles[u] = r], Offers' = Offers
  PROVE  TeamStep
<1>1. CASE r = Absent
  <2>1. Promise!Remove(w, u)
    BY <1>1 DEF Promise!Remove, Promise!InTeam, Promise!Owns, Team, Offers
  <2>. QED
    BY <2>1 DEF TeamStep, Promise!Next
<1>2. CASE r # Absent
  <2>1. Promise!Assign(w, u, r) /\ r \in RoleId \ {OwnerRole}
    BY <1>2 DEF Promise!Assign, Promise!InTeam, Promise!Owns, Team, Offers
  <2>. QED
    BY <2>1 DEF TeamStep, Promise!Next
<1>. QED
  BY <1>1, <1>2

LEMMA TransferStep ==
  ASSUME NEW w \in Workspace, NEW u \in User, NEW m \in User, u # m,
         db[Member(w, u)] = OwnerRole, db[Member(w, m)] # Absent, NEW r \in RoleId \ {OwnerRole},
         Team' = [Team EXCEPT ![w].roles[m] = OwnerRole, ![w].roles[u] = r], Offers' = Offers
  PROVE  TeamStep
<1>1. Promise!Transfer(w, u, m, r)
  BY DEF Promise!Transfer, Promise!InTeam, Promise!Owns, Team, Offers
<1>. QED
  BY <1>1 DEF TeamStep, Promise!Next

LEMMA ForgetStep ==
  ASSUME NEW u \in User, NEW left \in SUBSET Workspace, NEW sent \in SUBSET Offers,
         \A w \in left : db[Member(w, u)] \notin {Absent, OwnerRole},
         Team' = [w \in Workspace |-> IF w \in left THEN [Team[w] EXCEPT !.roles[u] = Absent]
                                      ELSE Team[w]],
         Offers' = Offers \ sent
  PROVE  TeamStep
<1>1. Promise!Forget(u, left, sent)
  BY DEF Promise!Forget, Promise!InTeam, Promise!Owns, Team, Offers
<1>. QED
  BY <1>1 DEF TeamStep, Promise!Next, Offers

(* An invitation nobody rewrote is as usable as it was.                    *)
LEMMA UsableSame ==
  ASSUME expired' = expired, NEW i \in Invitation,
         db'[InvitationRow(i)] = db[InvitationRow(i)]
  PROVE  Usable(db, i)' <=> Usable(db, i)
BY DEF Usable, Exists

LEMMA StateSame ==
  ASSUME NEW w \in Workspace, db'[WorkspaceRow(w)] = db[WorkspaceRow(w)]
  PROVE  TeamState(w)' = TeamState(w)
BY DEF TeamState, Live, Exists

LEMMA StandingStill ==
  ASSUME db' = db, expired' = expired
  PROVE  TeamStep
BY DEF TeamStep, Team, Offers, TeamState, Live, Usable, Exists

LEMMA CleansStep ==
  ASSUME IInv, LockInv, NEW s, NEW after, Merges(s, after), Cleans(s, after), expired' = expired
  PROVE  TeamStep
<1>1. ASSUME NEW w \in Workspace
      PROVE  TeamState(w)' = TeamState(w)
  <2>1. CASE db'[WorkspaceRow(w)] = db[WorkspaceRow(w)]
    BY <2>1, StateSame
  <2>2. CASE db'[WorkspaceRow(w)] # db[WorkspaceRow(w)]
    <3>1. Deleted(db, w) /\ db'[WorkspaceRow(w)] = Gone
      BY <2>2, MergedRows DEF Cleans, Deleted, Exists
    <3>. QED
      BY <3>1, RowContentsAssumption DEF TeamState, Live, Deleted, Exists
  <2>. QED
    BY <2>1, <2>2
<1>2. \A w \in Workspace, u \in User : db'[Member(w, u)] = db[Member(w, u)]
  BY MergedRows DEF Cleans
<1>3. ASSUME NEW i \in Invitation
      PROVE  /\ Usable(db, i)' <=> Usable(db, i)
             /\ Usable(db, i) => db'[InvitationRow(i)] = db[InvitationRow(i)]
  <2>1. CASE db'[InvitationRow(i)] = db[InvitationRow(i)]
    BY <2>1, UsableSame
  <2>2. CASE db'[InvitationRow(i)] # db[InvitationRow(i)]
    <3>1. ~Usable(db, i) /\ db'[InvitationRow(i)] = Gone
      BY <2>2, MergedRows DEF Cleans, Usable, Exists
    <3>. QED
      BY <3>1 DEF Usable, Exists
  <2>. QED
    BY <2>1, <2>2
<1>. QED
  BY <1>1, <1>2, <1>3, TeamsSame, OffersSame DEF TeamStep

LEMMA RevokesStep ==
  ASSUME IInv, LockInv, NEW s, NEW after, Merges(s, after),
         NEW i \in Invitation, Revokes(s, after, i), expired' = expired
  PROVE  TeamStep
<1>1. \A w \in Workspace : TeamState(w)' = TeamState(w)
  BY MergedRows, StateSame DEF Revokes, SameWorkspaces
<1>2. Team' = Team
  BY <1>1, MergedRows, TeamsSame DEF Revokes
<1>3. s[InvitationRow(i)].status = "pending"
  BY DEF Revokes, Usable
<1>4. \A j \in Invitation : j # i => db'[InvitationRow(j)] = db[InvitationRow(j)]
  BY MergedRows DEF Revokes
<1>5. CASE db'[InvitationRow(i)] = db[InvitationRow(i)]
  BY <1>2, <1>4, <1>5, UsableSame, OffersSame DEF TeamStep
<1>6. CASE db'[InvitationRow(i)] # db[InvitationRow(i)]
  <2>1. /\ db[InvitationRow(i)] = s[InvitationRow(i)]
        /\ db'[InvitationRow(i)] = [s[InvitationRow(i)] EXCEPT !.status = "revoked"]
    BY <1>6, MergedRows DEF Revokes
  <2>2. Usable(db, i) /\ ~Usable(db, i)'
    <3>1. s[InvitationRow(i)] \in InvitationRecord
      BY <2>1 DEF IInv, TypeOK, DatabaseOK, Revokes, Usable, Exists
    <3>2. db'[InvitationRow(i)].status = "revoked"
      BY <2>1, <3>1 DEF InvitationRecord
    <3>. QED
      BY <2>1, <3>2 DEF Revokes, Usable, Exists
  <2>3. Offers' = Offers \ {OfferOf(j) : j \in {i}}
    <3>1. \A j \in Invitation : Usable(db, j)' <=> Usable(db, j) /\ j \notin {i}
      BY <1>4, <2>2, UsableSame
    <3>. QED
      BY <1>4, <2>2, <3>1, OffersLeft
  <2>4. OfferOf(i) \in Offers /\ Offers' = Offers \ {OfferOf(i)}
    BY <2>2, <2>3, OfferFacts
  <2>. QED
    BY <1>2, <2>4, WithdrawStep
<1>. QED
  BY <1>5, <1>6

(* Passing time withdraws an offer.                                        *)
LEMMA ExpireStep ==
  ASSUME IInv, LockInv, NEW i \in Invitation, Expire(i)
  PROVE  TeamStep
<1>1. db' = db /\ expired' = expired \cup {i} /\ Usable(db, i)
  BY DEF Expire
<1>2. Team' = Team
  BY <1>1 DEF Team, TeamState, Live, Exists
<1>3. \A j \in Invitation : Usable(db, j)' <=> Usable(db, j) /\ j \notin {i}
  BY <1>1 DEF Usable, Exists
<1>4. Offers' = Offers \ {OfferOf(j) : j \in {i}}
  BY <1>1, <1>3, OffersLeft
<1>5. OfferOf(i) \in Offers /\ Offers' = Offers \ {OfferOf(i)}
  BY <1>1, <1>4, OfferFacts
<1>. QED
  BY <1>2, <1>5, WithdrawStep

(* A settled invitation is another record.                                 *)
LEMMA Settling ==
  ASSUME NEW s, DatabaseOK(s), NEW i \in Invitation, Usable(s, i),
         NEW status \in {"accepted", "revoked"}
  PROVE  LET settled == [s[InvitationRow(i)] EXCEPT !.status = status] IN
         settled.status = status /\ settled # s[InvitationRow(i)]
BY DEF Usable, Exists, DatabaseOK, InvitationRecord

LEMMA JoinsStep ==
  ASSUME IInv, LockInv, NEW s, DatabaseOK(s), NEW after, Merges(s, after),
         NEW w \in Workspace, NEW u \in User, NEW i \in Invitation, Joins(s, after, w, u, i),
         expired' = expired
  PROVE  TeamStep
<1>. DEFINE role == s[InvitationRow(i)].role
            settled == [s[InvitationRow(i)] EXCEPT !.status = "accepted"]
<1>1. \A x \in Workspace : TeamState(x)' = TeamState(x)
  BY MergedRows, StateSame DEF Joins, SameWorkspaces
<1>2. settled.status = "accepted" /\ settled # s[InvitationRow(i)]
  BY Settling DEF Joins
<1>3. role \in RoleId /\ s[Member(w, u)] = Absent /\ role # Absent
  <2>1. s[InvitationRow(i)] \in InvitationRecord
    BY DEF Joins, Usable, Exists, DatabaseOK
  <2>2. s[Member(w, u)] = Absent
    BY RowContentsAssumption DEF Joins, IsMember, Exists, DatabaseOK
  <2>. QED
    BY <2>1, <2>2, RowContentsAssumption DEF InvitationRecord
<1>4. after[InvitationRow(i)] = settled /\ after[Member(w, u)] = role
  BY DEF Joins
<1>. HIDE DEF settled, role
<1>5. db[InvitationRow(i)] = s[InvitationRow(i)] /\ db'[InvitationRow(i)] = settled
  BY <1>2, <1>4, MergedRows
<1>6. db[Member(w, u)] = Absent /\ db'[Member(w, u)] = role
  BY <1>3, <1>4, MergedRows
<1>7. \A x \in Workspace, y \in User :
        db'[Member(x, y)] = IF x = w /\ y = u THEN role ELSE db[Member(x, y)]
  BY <1>6, MergedRows DEF Joins
<1>8. \A j \in Invitation : j # i => db'[InvitationRow(j)] = db[InvitationRow(j)]
  BY MergedRows DEF Joins
<1>9. Usable(db, i) /\ ~Usable(db, i)'
  BY <1>2, <1>5 DEF Joins, Usable, Exists
<1>10. \A j \in Invitation : Usable(db, j)' <=> Usable(db, j) /\ j \notin {i}
  BY <1>8, <1>9, UsableSame
<1>11. Offers' = Offers \ {OfferOf(j) : j \in {i}}
  BY <1>8, <1>9, <1>10, OffersLeft
<1>12. OfferOf(i) \in Offers /\ Offers' = Offers \ {OfferOf(i)}
  BY <1>9, <1>11, OfferFacts
<1>13. OfferOf(i) = [workspace |-> w, user |-> u, role |-> role]
  BY <1>5 DEF OfferOf, Joins, role
<1>14. Team' = [Team EXCEPT ![w].roles[u] = role]
  BY <1>1, <1>7, RoleGiven
<1>. QED
  BY <1>6, <1>12, <1>13, <1>14, JoinStep

LEMMA AssignsStep ==
  ASSUME IInv, LockInv, NEW s, DatabaseOK(s), NEW after, Merges(s, after),
         NEW w \in Workspace, NEW u \in User, NEW r, Assigns(s, after, w, u, r),
         expired' = expired
  PROVE  TeamStep
<1>1. \A x \in Workspace : TeamState(x)' = TeamState(x)
  BY MergedRows, StateSame DEF Assigns, SameWorkspaces
<1>2. \A i \in Invitation : db'[InvitationRow(i)] = db[InvitationRow(i)]
  BY MergedRows DEF Assigns, SameInvitations
<1>3. Offers' = Offers
  BY <1>2, UsableSame, OffersSame
<1>4. CASE s[Member(w, u)] = r
  <2>1. \A x \in Workspace, y \in User : db'[Member(x, y)] = db[Member(x, y)]
    BY <1>4, MergedRows DEF Assigns
  <2>. QED
    BY <1>1, <1>3, <2>1, TeamsSame DEF TeamStep
<1>5. CASE s[Member(w, u)] # r
  <2>1. db[Member(w, u)] = s[Member(w, u)] /\ db'[Member(w, u)] = r
    BY <1>5, MergedRows DEF Assigns
  <2>2. \A x \in Workspace, y \in User :
          db'[Member(x, y)] = IF x = w /\ y = u THEN r ELSE db[Member(x, y)]
    BY <2>1, MergedRows DEF Assigns
  <2>3. Team' = [Team EXCEPT ![w].roles[u] = r]
    BY <1>1, <2>2, RoleGiven
  <2>4. db[Member(w, u)] \notin {Absent, OwnerRole}
    BY <2>1 DEF Assigns, IsMember, Exists
  <2>. QED
    BY <1>3, <2>3, <2>4, AssignStep DEF Assigns
<1>. QED
  BY <1>4, <1>5

LEMMA FoundsStep ==
  ASSUME IInv, LockInv, NEW s, DatabaseOK(s), OwnersOK(s), NEW after, Merges(s, after),
         NEW w \in Workspace, NEW u \in User, Founds(s, after, w, u), s[WorkspaceRow(w)] = Absent,
         expired' = expired
  PROVE  TeamStep
<1>. DEFINE new == [owner |-> u, deleted |-> FALSE]
<1>1. new \in WorkspaceRecord /\ ~new.deleted
  BY DEF WorkspaceRecord
<1>2. after[WorkspaceRow(w)] = new
  BY DEF Founds
<1>. HIDE DEF new
<1>3. db[WorkspaceRow(w)] = Absent /\ db'[WorkspaceRow(w)] = new /\ new \notin {Absent, Gone}
  BY <1>1, <1>2, RowContentsAssumption, MergedRows DEF Founds
<1>4. \A x \in Workspace : TeamState(x)' = IF x = w THEN "open" ELSE TeamState(x)
  <2>1. TeamState(w)' = "open"
    BY <1>1, <1>3 DEF TeamState, Live, Exists
  <2>2. \A x \in Workspace : x # w => db'[WorkspaceRow(x)] = db[WorkspaceRow(x)]
    BY MergedRows DEF Founds
  <2>. QED
    BY <2>1, <2>2, StateSame
<1>5. \A y \in User : db[Member(w, y)] = Absent /\ s[Member(w, y)] = Absent
  <2>1. ~Live(db, w) /\ ~Live(s, w)
    BY <1>3 DEF Live, Exists
  <2>. QED
    BY <2>1, RowContentsAssumption
       DEF IInv, TypeOK, OwnersOK, OwnerOK, IsMember, Exists, DatabaseOK
<1>6. Absent # OwnerRole
  BY RowContentsAssumption DEF RoleId, SystemRole
<1>7. \A y \in User : db'[Member(w, y)] = IF y = u THEN OwnerRole ELSE Absent
  BY <1>5, <1>6, MergedRows DEF Founds
<1>8. \A x \in Workspace, y \in User : x # w => db'[Member(x, y)] = db[Member(x, y)]
  BY MergedRows DEF Founds
<1>9. Roles(w)' = [[y \in User |-> Absent] EXCEPT ![u] = OwnerRole]
  BY <1>7 DEF Roles
<1>10. Offers' = Offers
  <2>1. \A i \in Invitation : db'[InvitationRow(i)] = db[InvitationRow(i)]
    BY MergedRows DEF Founds, SameInvitations
  <2>. QED
    BY <2>1, UsableSame, OffersSame
<1>11. TeamState(w) = "none"
  BY <1>3 DEF TeamState
<1>. QED
  BY <1>4, <1>8, <1>9, <1>10, <1>11, TeamReplaced, FoundStep

LEMMA ClosesStep ==
  ASSUME IInv, LockInv, NEW s, DatabaseOK(s), NEW after, Merges(s, after),
         NEW w \in Workspace, Remains(db, s, w), Closes(s, after, w), expired' = expired
  PROVE  TeamStep
<1>. DEFINE closed == [s[WorkspaceRow(w)] EXCEPT !.deleted = TRUE]
            gone == {i \in InvitationsOf(db, w) : Usable(db, i)}
<1>1. closed.deleted /\ closed \in WorkspaceRecord /\ closed # s[WorkspaceRow(w)]
  BY DEF Closes, Live, Exists, DatabaseOK, WorkspaceRecord
<1>2. after[WorkspaceRow(w)] = closed
  BY DEF Closes
<1>. HIDE DEF closed
<1>3. /\ db[WorkspaceRow(w)] = s[WorkspaceRow(w)] /\ db'[WorkspaceRow(w)] = closed
      /\ closed \notin {Absent, Gone}
  BY <1>1, <1>2, RowContentsAssumption, MergedRows
<1>4. TeamState(w) = "open"
  BY <1>3 DEF TeamState, Closes, Live, Exists
<1>5. \A x \in Workspace : TeamState(x)' = IF x = w THEN "closed" ELSE TeamState(x)
  <2>1. TeamState(w)' = "closed"
    BY <1>1, <1>3 DEF TeamState, Live
  <2>2. \A x \in Workspace : x # w => db'[WorkspaceRow(x)] = db[WorkspaceRow(x)]
    BY MergedRows DEF Closes
  <2>. QED
    BY <2>1, <2>2, StateSame
<1>6. \A y \in User : db'[Member(w, y)] = Absent
  <2>1. ASSUME NEW y \in User, y \in MemberIds(s, w)
        PROVE  db'[Member(w, y)] = Absent
    <3>1. s[Member(w, y)] # Absent /\ after[Member(w, y)] = Absent
      BY <2>1 DEF Closes, MemberIds, IsMember, Exists
    <3>. QED
      BY <3>1, MergedRows
  <2>2. ASSUME NEW y \in User, y \notin MemberIds(s, w)
        PROVE  db'[Member(w, y)] = Absent
    <3>1. after[Member(w, y)] = s[Member(w, y)]
      BY <2>2 DEF Closes
    <3>2. db'[Member(w, y)] = db[Member(w, y)]
      BY <3>1, MergedRows
    <3>3. ~IsMember(db, w, y)
      BY <2>2 DEF Remains, MemberIds, IsMember, Exists
    <3>. QED
      BY <3>2, <3>3, RowContentsAssumption DEF IInv, TypeOK, DatabaseOK, IsMember, Exists
  <2>. QED
    BY <2>1, <2>2
<1>7. \A x \in Workspace, y \in User : x # w => db'[Member(x, y)] = db[Member(x, y)]
  BY MergedRows DEF Closes
<1>8. Roles(w)' = [y \in User |-> Absent]
  BY <1>6 DEF Roles
<1>9. ASSUME NEW i \in gone
      PROVE  i \in Invitation /\ Usable(db, i) /\ ~Usable(db, i)'
  <2>1. i \in Invitation /\ Usable(db, i) /\ db[InvitationRow(i)] = s[InvitationRow(i)]
    BY DEF Remains, InvitationsOf
  <2>2. i \in PendingOf(s, w) /\ Usable(s, i)
    BY <2>1 DEF PendingOf, InvitationsOf, Usable, Exists
  <2>. DEFINE revoked == [s[InvitationRow(i)] EXCEPT !.status = "revoked"]
  <2>3. revoked.status = "revoked" /\ revoked # s[InvitationRow(i)]
    BY <2>1, <2>2, Settling
  <2>4. after[InvitationRow(i)] = revoked
    BY <2>1, <2>2 DEF Closes
  <2>. HIDE DEF revoked
  <2>5. db'[InvitationRow(i)] = revoked
    BY <2>1, <2>3, <2>4, MergedRows
  <2>. QED
    BY <2>1, <2>3, <2>5 DEF Usable
<1>10. ASSUME NEW i \in Invitation, i \notin gone
       PROVE  /\ Usable(db, i)' <=> Usable(db, i)
              /\ Usable(db, i) => db'[InvitationRow(i)] = db[InvitationRow(i)]
  <2>1. CASE db'[InvitationRow(i)] = db[InvitationRow(i)]
    BY <2>1, UsableSame
  <2>2. CASE db'[InvitationRow(i)] # db[InvitationRow(i)]
    <3>1. i \in PendingOf(s, w) /\ db[InvitationRow(i)] = s[InvitationRow(i)]
      BY <2>2, MergedRows DEF Closes
    <3>2. ~Usable(db, i)
      BY <1>10, <3>1 DEF PendingOf, InvitationsOf, Exists
    <3>3. db'[InvitationRow(i)] = [s[InvitationRow(i)] EXCEPT !.status = "revoked"]
      BY <2>2, <3>1, MergedRows DEF Closes
    <3>4. i \in expired
      BY <3>1, <3>2 DEF Usable, PendingOf, InvitationsOf, Exists
    <3>. QED
      BY <3>2, <3>4 DEF Usable
  <2>. QED
    BY <2>1, <2>2
<1>11. Offers' = Offers \ {OfferOf(i) : i \in gone}
  <2>1. gone \in SUBSET Invitation
    BY DEF InvitationsOf
  <2>. HIDE DEF gone
  <2>. QED
    BY <1>9, <1>10, <2>1, OffersLeft
<1>12. \A o \in Offers : o.workspace = w <=> o \in {OfferOf(i) : i \in gone}
  <2>1. ASSUME NEW o \in Offers, o.workspace = w
        PROVE  \E i \in gone : o = OfferOf(i)
    <3>1. PICK i \in Invitation : Usable(db, i) /\ o = OfferOf(i)
      BY OfferFacts
    <3>2. i \in gone
      BY <2>1, <3>1 DEF OfferOf, InvitationsOf, Usable
    <3>. QED
      BY <3>1, <3>2
  <2>2. \A i \in gone : OfferOf(i).workspace = w
    BY DEF OfferOf, InvitationsOf
  <2>. HIDE DEF gone
  <2>. QED
    BY <2>1, <2>2
<1>13. Offers' = Offers \ {o \in Offers : o.workspace = w}
  BY <1>11, <1>12
<1>. QED
  BY <1>4, <1>5, <1>7, <1>8, <1>13, TeamReplaced, CloseStep

LEMMA InvitesStep ==
  ASSUME IInv, LockInv, NEW s, DatabaseOK(s), NEW after, Merges(s, after),
         NEW w \in Workspace, Remains(db, s, w),
         NEW i \in Invitation, NEW c \in InvitationRecord, Invites(s, after, w, i, c),
         expired' = expired
  PROVE  TeamStep
<1>1. Team' = Team
  BY MergedRows, StateSame, TeamsSame DEF Invites, SameWorkspaces
<1>2. \A j \in Invitation : j # i => db'[InvitationRow(j)] = db[InvitationRow(j)]
  BY MergedRows DEF Invites
<1>3. ~Usable(db, i)
  BY DEF Invites, Usable, Exists
<1>4. CASE ~Usable(db, i)'
  <2>1. \A j \in Invitation : Usable(db, j)' <=> Usable(db, j)
    BY <1>2, <1>3, <1>4, UsableSame
  <2>2. \A j \in Invitation : Usable(db, j) => db'[InvitationRow(j)] = db[InvitationRow(j)]
    BY <1>2, <1>3
  <2>3. Offers' = Offers
    BY <2>1, <2>2, OffersSame
  <2>. QED
    BY <1>1, <2>3 DEF TeamStep
<1>5. CASE Usable(db, i)'
  <2>. DEFINE o == [workspace |-> w, user |-> c.email, role |-> c.role]
  <2>1. db'[InvitationRow(i)] = c /\ i \notin expired
    <3>1. db'[InvitationRow(i)] # db[InvitationRow(i)] /\ i \notin expired
      BY <1>3, <1>5 DEF Usable, Exists
    <3>. QED
      BY <3>1, MergedRows DEF Invites
  <2>2. OfferOf(i)' = o
    BY <2>1 DEF OfferOf, Invites
  <2>3. o \in [workspace : Workspace, user : User, role : RoleId \ {OwnerRole}]
    BY DEF Invites, InvitationRecord
  <2>4. o.workspace = w /\ o.user = c.email
    OBVIOUS
  <2>. HIDE DEF o
  <2>5. \A j \in Invitation : Usable(db, j)' <=> Usable(db, j) \/ j = i
    BY <1>2, <1>5, UsableSame
  <2>6. \A j \in Invitation : Usable(db, j) => OfferOf(j)' = OfferOf(j)
    BY <1>2, <1>3 DEF OfferOf
  <2>7. Offers' = Offers \cup {o}
    <3>1. \A x \in Offers' : x \in Offers \/ x = o
      BY <2>2, <2>5, <2>6, OfferFacts
    <3>2. \A x \in Offers : x \in Offers'
      BY <2>5, <2>6, OfferFacts
    <3>3. o \in Offers'
      BY <1>5, <2>2, OfferFacts
    <3>. QED
      BY <3>1, <3>2, <3>3
  <2>8. TeamState(w) = "open"
    BY DEF Remains, Invites, TeamState, Live, Exists
  <2>9. ASSUME NEW other \in Offers, other.workspace = w
        PROVE  other.user # c.email
    <3>1. PICK j \in Invitation : Usable(db, j) /\ other = OfferOf(j)
      BY OfferFacts
    <3>2. j \in InvitationsOf(db, w) /\ other.user = db[InvitationRow(j)].email
      BY <2>9, <3>1 DEF OfferOf, InvitationsOf, Usable
    <3>3. db[InvitationRow(j)] = s[InvitationRow(j)]
      BY <3>2 DEF Remains
    <3>4. j \in PendingOf(s, w) \ expired
      BY <3>1, <3>2, <3>3 DEF PendingOf, InvitationsOf, Usable, Exists
    <3>. QED
      BY <3>2, <3>3, <3>4 DEF Invites, HasPending
  <2>. QED
    BY <1>1, <2>3, <2>4, <2>7, <2>8, <2>9, OfferStep
<1>. QED
  BY <1>4, <1>5

LEMMA HandsOverStep ==
  ASSUME IInv, LockInv, NEW s, DatabaseOK(s), NEW after, Merges(s, after),
         NEW w \in Workspace, NEW u \in User, NEW m \in User, NEW r,
         HandsOver(s, after, w, u, m, r), expired' = expired
  PROVE  TeamStep
<1>1. \A i \in Invitation : db'[InvitationRow(i)] = db[InvitationRow(i)]
  BY MergedRows DEF HandsOver, SameInvitations
<1>2. Offers' = Offers
  BY <1>1, UsableSame, OffersSame
<1>3. ASSUME NEW x \in Workspace
      PROVE  TeamState(x)' = TeamState(x)
  <2>1. CASE db'[WorkspaceRow(x)] = db[WorkspaceRow(x)]
    BY <2>1, StateSame
  <2>2. CASE db'[WorkspaceRow(x)] # db[WorkspaceRow(x)]
    <3>. DEFINE owned == [s[WorkspaceRow(w)] EXCEPT !.owner = m]
    <3>1. /\ x = w /\ db[WorkspaceRow(x)] = s[WorkspaceRow(x)]
          /\ db'[WorkspaceRow(x)] = owned
      BY <2>2, MergedRows DEF HandsOver
    <3>2. owned \in WorkspaceRecord /\ ~owned.deleted
      BY DEF HandsOver, Live, Exists, DatabaseOK, WorkspaceRecord
    <3>. HIDE DEF owned
    <3>3. owned \notin {Absent, Gone}
      BY <3>2, RowContentsAssumption
    <3>. QED
      BY <3>1, <3>2, <3>3 DEF HandsOver, TeamState, Live, Exists
  <2>. QED
    BY <2>1, <2>2
<1>4. /\ db[Member(w, u)] = OwnerRole /\ db'[Member(w, u)] = r
      /\ db[Member(w, m)] = s[Member(w, m)] /\ db'[Member(w, m)] = OwnerRole
  <2>1. after[Member(w, u)] = r /\ after[Member(w, m)] = OwnerRole
    BY DEF HandsOver
  <2>. QED
    BY <2>1, MergedRows DEF HandsOver
<1>5. \A x \in Workspace, y \in User : db'[Member(x, y)] =
        IF x = w /\ y = u THEN r ELSE IF x = w /\ y = m THEN OwnerRole ELSE db[Member(x, y)]
  BY <1>4, MergedRows DEF HandsOver
<1>6. Team' = [Team EXCEPT ![w].roles[m] = OwnerRole, ![w].roles[u] = r]
  <2>1. Team = [x \in Workspace |-> [state |-> TeamState(x), roles |-> Roles(x)]]
    BY DEF Team, Roles
  <2>2. Team' = [x \in Workspace |-> [state |-> TeamState(x), roles |-> Roles(x)']]
    BY <1>3 DEF Team, Roles
  <2>3. Roles(w)' = [[Roles(w) EXCEPT ![m] = OwnerRole] EXCEPT ![u] = r]
    BY <1>5 DEF Roles, HandsOver
  <2>4. \A x \in Workspace : x # w => Roles(x)' = Roles(x)
    BY <1>5 DEF Roles
  <2>. QED
    BY <2>1, <2>2, <2>3, <2>4
<1>7. db[Member(w, m)] # Absent
  BY <1>4 DEF HandsOver, IsMember, Exists
<1>. QED
  BY <1>2, <1>4, <1>6, <1>7, TransferStep DEF HandsOver

LEMMA LeavesStep ==
  ASSUME IInv, LockInv, NEW s, DatabaseOK(s), NEW after, Merges(s, after),
         NEW u \in User, Leaves(s, after, u), expired' = expired
  PROVE  TeamStep
<1>. DEFINE left == {w \in Workspace : s[Member(w, u)] # Absent}
            gone == {i \in Invitation : Usable(db, i) /\ db'[InvitationRow(i)] # db[InvitationRow(i)]}
            sent == {OfferOf(i) : i \in gone}
<1>1. \A x \in Workspace : TeamState(x)' = TeamState(x)
  BY MergedRows, StateSame DEF Leaves, SameWorkspaces
<1>2. \A w \in left : /\ db[Member(w, u)] = s[Member(w, u)] /\ db'[Member(w, u)] = Absent
                      /\ s[Member(w, u)] \notin {Absent, OwnerRole}
  BY MergedRows DEF Leaves
<1>3. \A w \in Workspace, y \in User : db'[Member(w, y)] =
        IF w \in left /\ y = u THEN Absent ELSE db[Member(w, y)]
  BY <1>2, MergedRows DEF Leaves
<1>4. Team' = [w \in Workspace |-> IF w \in left THEN [Team[w] EXCEPT !.roles[u] = Absent]
                                   ELSE Team[w]]
  <2>. HIDE DEF left
  <2>1. Team = [x \in Workspace |-> [state |-> TeamState(x), roles |-> Roles(x)]]
    BY DEF Team, Roles
  <2>2. Team' = [x \in Workspace |-> [state |-> TeamState(x), roles |-> Roles(x)']]
    BY <1>1 DEF Team, Roles
  <2>3. \A w \in Workspace : Roles(w)' = IF w \in left THEN [Roles(w) EXCEPT ![u] = Absent]
                                         ELSE Roles(w)
    BY <1>3 DEF Roles
  <2>. QED
    BY <2>1, <2>2, <2>3
<1>5. \A i \in Invitation : \/ db'[InvitationRow(i)] = db[InvitationRow(i)]
                            \/ db'[InvitationRow(i)] = Gone
  BY MergedRows DEF Leaves
<1>6. \A i \in Invitation : Usable(db, i)' <=> Usable(db, i) /\ i \notin gone
  <2>1. \A i \in gone : ~Usable(db, i)'
    BY <1>5 DEF Usable, Exists
  <2>2. ASSUME NEW i \in Invitation, i \notin gone
        PROVE  Usable(db, i)' <=> Usable(db, i)
    <3>1. CASE db'[InvitationRow(i)] = db[InvitationRow(i)]
      BY <3>1, UsableSame
    <3>2. CASE db'[InvitationRow(i)] # db[InvitationRow(i)]
      BY <1>5, <2>2, <3>2 DEF Usable, Exists
    <3>. QED
      BY <3>1, <3>2
  <2>. QED
    BY <2>1, <2>2
<1>7. Offers' = Offers \ sent
  BY <1>6, OffersLeft
<1>8. sent \in SUBSET Offers /\ left \in SUBSET Workspace
  BY OfferFacts
<1>9. \A w \in left : db[Member(w, u)] \notin {Absent, OwnerRole}
  BY <1>2
<1>. HIDE DEF left, sent, gone
<1>. QED
  BY <1>4, <1>7, <1>8, <1>9, ForgetStep

-----------------------------------------------------------------------------
(*                   Every use case does a deed                            *)

(* One run of the work of p, whose commit, if it comes to that, is a deed. *)
Does(p) ==
  /\ tx[p].open
  /\ \E r, locked, after, next :
       AttemptThen(p, r, locked, after, next) /\ Deed(View(p), locked, after)

LEMMA DoesOne ==
  ASSUME NEW p \in Session, tx[p].open, NEW r, NEW locked, NEW after,
         Attempt(p, r, locked, after), Deed(View(p), locked, after)
  PROVE  Does(p)
BY DEF Does, Attempt

LEMMA DoesQuietly ==
  ASSUME NEW p \in Session, tx[p].open, NEW r, NEW locked, NEW after,
         Attempt(p, r, locked, after),
         SameWorkspaces(View(p), after), SameInvitations(View(p), after),
         \A w \in Workspace, u \in User : after[Member(w, u)] = View(p)[Member(w, u)]
  PROVE  Does(p)
<1>1. Cleans(View(p), after)
  BY DEF Cleans, SameWorkspaces, SameInvitations
<1>2. Deed(View(p), locked, after)
  BY <1>1 DEF Deed
<1>. QED
  BY <1>2, DoesOne

(* Only accounts, or only one role, change.                                *)
LEMMA AccountsOnly ==
  ASSUME NEW p \in Session, tx[p].open, NEW r, NEW locked, NEW after,
         Attempt(p, r, locked, after), SameButAccounts(View(p), after)
  PROVE  Does(p)
BY DoesQuietly DEF SameButAccounts, SameWorkspaces, SameInvitations

LEMMA OneRoleOnly ==
  ASSUME IInv, NEW p \in Session, tx[p].open, NEW r, NEW locked,
         NEW w \in Workspace, NEW role \in RoleId, NEW c,
         Attempt(p, r, locked, [View(p) EXCEPT ![Role(w, role)] = c])
  PROVE  Does(p)
<1>. DEFINE s == View(p)
            after == [s EXCEPT ![Role(w, role)] = c]
<1>1. \A row \in Row : row # Role(w, role) => after[row] = s[row]
  BY OpenView DEF DatabaseOK
<1>. HIDE DEF after
<1>2. SameWorkspaces(s, after)
  BY <1>1, RowsExist, RoleRowDiffers DEF SameWorkspaces
<1>3. SameInvitations(s, after)
  BY <1>1, RowsExist, RoleRowDiffers DEF SameInvitations
<1>4. \A x \in Workspace, u \in User : after[Member(x, u)] = s[Member(x, u)]
  BY <1>1, RowsExist, RoleRowDiffers
<1>. QED
  BY <1>2, <1>3, <1>4, DoesQuietly DEF after

LEMMA AccountDeeds ==
  ASSUME IInv, NEW p \in Session, NEW r \in Requests, EnsureAccount(p, r) \/ RenameProfile(p, r)
  PROVE  Does(p)
<1>1. PICK locked, c : /\ tx[p].open /\ r.by \in User
                       /\ Attempt(p, r, locked, [View(p) EXCEPT ![Account(r.by)] = c])
  BY RequestFields DEF EnsureAccount, RenameProfile, Sends, Serves
<1>. DEFINE after == [View(p) EXCEPT ![Account(r.by)] = c]
<1>2. \A row \in Row : (\A u \in User : row # Account(u)) => after[row] = View(p)[row]
  BY <1>1, OpenView DEF DatabaseOK
<1>. HIDE DEF after
<1>3. SameButAccounts(View(p), after)
  BY <1>2, SameButAccountsIf
<1>. QED
  BY <1>1, <1>3, AccountsOnly DEF after

LEMMA UpdateWorkspaceDeed ==
  ASSUME IInv, NEW p \in Session, NEW r \in Requests, UpdateWorkspace(p, r)
  PROVE  Does(p)
<1>1. Changes(p, r, "update", "workspace.update")
  BY DEF UpdateWorkspace
<1>2. tx[p].open
  BY <1>1, ChangesFacts
<1>. QED
  BY <1>2, AccountsOnly DEF UpdateWorkspace, AttemptLocked, SameButAccounts

LEMMA CreateRoleDeed ==
  ASSUME IInv, NEW p \in Session, NEW r \in Requests, CreateRole(p, r)
  PROVE  Does(p)
<1>1. PICK role \in SpareRole :
        AttemptLocked(p, r, [View(p) EXCEPT ![Role(r.workspace, role)] =
                               [name |-> r.name, system |-> FALSE, permissions |-> {}]])
  BY DEF CreateRole
<1>2. Changes(p, r, "create_role", "roles.manage")
  BY DEF CreateRole
<1>3. tx[p].open /\ r.workspace \in Workspace /\ role \in RoleId
  BY <1>2, ChangesFacts DEF RoleId
<1>. QED
  BY <1>1, <1>3, OneRoleOnly DEF AttemptLocked

LEMMA RenameRoleDeed ==
  ASSUME IInv, NEW p \in Session, NEW r \in Requests, RenameRole(p, r)
  PROVE  Does(p)
<1>1. Changes(p, r, "rename_role", "roles.manage")
  BY DEF RenameRole
<1>2. tx[p].open /\ r.call = "rename_role" /\ r.workspace \in Workspace
  BY <1>1, ChangesFacts
<1>3. r.role \in RoleId
  BY <1>2, RequestFields
<1>. QED
  BY <1>2, <1>3, OneRoleOnly DEF RenameRole, AttemptLocked

LEMMA SetPermissionsDeed ==
  ASSUME IInv, NEW p \in Session, NEW r \in Requests, SetPermissions(p, r)
  PROVE  Does(p)
<1>1. Changes(p, r, "set_permissions", "roles.manage")
  BY DEF SetPermissions
<1>2. tx[p].open /\ r.call = "set_permissions" /\ r.workspace \in Workspace
  BY <1>1, ChangesFacts
<1>3. r.role \in RoleId
  BY <1>2, RequestFields
<1>. QED
  BY <1>2, <1>3, OneRoleOnly DEF SetPermissions, AttemptLocked

(* The invitations that go with a role cannot be accepted any more.        *)
LEMMA DeleteRoleDeed ==
  ASSUME IInv, NEW p \in Session, NEW r \in Requests, DeleteRole(p, r)
  PROVE  Does(p)
<1>. DEFINE s == View(p)
            w == r.workspace
            stale == {i \in InvitationsOf(s, w) : s[InvitationRow(i)].role = r.role}
            rows == {Role(w, r.role)} \cup {InvitationRow(i) : i \in stale}
            after == Put(s, rows, Gone)
<1>1. Changes(p, r, "delete_role", "roles.manage")
  BY DEF DeleteRole
<1>2. /\ tx[p].open /\ w \in Workspace
  BY <1>1, ChangesFacts
<1>3. Attempt(p, r, {WorkspaceRow(w)}, after)
  BY DEF DeleteRole, AttemptLocked
<1>4. DatabaseOK(s)
  BY <1>2, OpenView
<1>5. \A row \in Row : after[row] = IF row \in rows THEN Gone ELSE s[row]
  BY <1>4, PutRow DEF DatabaseOK
<1>6. /\ \A x : WorkspaceRow(x) \notin rows
      /\ \A x, y : Member(x, y) \notin rows
      /\ \A x : InvitationRow(x) \in rows <=> x \in stale
  BY WorkspaceRowDiffers, MemberRowDiffers, InvitationRowDiffers
<1>7. \A i \in stale : ~Usable(s, i)
  BY DEF DeleteRole, IsInUse, Usable, PendingOf
<1>. HIDE DEF rows, after, stale
<1>8. Cleans(s, after)
  BY <1>5, <1>6, <1>7, RowsExist DEF Cleans
<1>9. Deed(s, {WorkspaceRow(w)}, after)
  BY <1>8 DEF Deed
<1>. QED
  BY <1>2, <1>3, <1>9, DoesOne

LEMMA PurgedDeed ==
  ASSUME NEW s, DatabaseOK(s), OwnersOK(s), \A x \in Workspace : WorkspaceOK(s, x, expired),
         NEW w \in Workspace
  PROVE  Deed(s, {}, Purged(s, w))
<1>. DEFINE after == Purged(s, w)
<1>1. CASE ~Deleted(s, w)
  BY <1>1 DEF Purged, Deed, Cleans
<1>2. CASE Deleted(s, w)
  <2>1. /\ \A x \in Workspace : after[WorkspaceRow(x)] = IF x = w THEN Gone ELSE s[WorkspaceRow(x)]
        /\ \A x \in Workspace, y \in RoleId : after[Role(x, y)] =
              IF x = w /\ Exists(s, Role(w, y)) THEN Gone ELSE s[Role(x, y)]
        /\ \A x \in Workspace, y \in User : after[Member(x, y)] =
              IF x = w THEN Absent ELSE s[Member(x, y)]
        /\ \A i \in Invitation : after[InvitationRow(i)] =
              IF i \in InvitationsOf(s, w) THEN Gone ELSE s[InvitationRow(i)]
    BY <1>2, PurgedRows
  <2>. HIDE DEF after
  <2>2. ~Live(s, w)
    BY <1>2 DEF Deleted, Live
  <2>3. \A y \in User : s[Member(w, y)] = Absent
    BY <2>2, RowContentsAssumption DEF OwnersOK, OwnerOK, IsMember, Exists, DatabaseOK
  <2>4. \A i \in InvitationsOf(s, w) : ~Usable(s, i)
    BY <2>2 DEF WorkspaceOK, PendingOf, Usable
  <2>5. Cleans(s, after)
    BY <1>2, <2>1, <2>3, <2>4 DEF Cleans
  <2>. QED
    BY <2>5 DEF Deed, after
<1>. QED
  BY <1>1, <1>2

LEMMA PurgeWorkspaceDeed ==
  ASSUME IInv, LockInv, NEW p \in Session, NEW r \in Requests, PurgeWorkspace(p, r)
  PROVE  Does(p)
<1>1. /\ tx[p].open /\ r.workspace \in Workspace
      /\ Attempt(p, r, {}, Purged(View(p), r.workspace))
  BY RequestFields DEF PurgeWorkspace, Sends, Serves
<1>2. Deed(View(p), {}, Purged(View(p), r.workspace))
  BY <1>1, OpenView, OpenReferences, PurgedDeed
<1>. QED
  BY <1>1, <1>2, DoesOne

LEMMA PurgeOwnedDeed ==
  ASSUME IInv, LockInv, NEW p \in Session, PurgeOwned(p)
  PROVE  Does(p)
<1>1. PICK u \in User, purging \in SUBSET Workspace : \E w \in purging :
        /\ tx[p].open
        /\ AttemptThen(p, Deletion(u, purging), {}, Purged(View(p), w),
                       Deletion(u, purging \ {w}))
  BY DEF PurgeOwned
<1>2. PICK w \in purging :
        AttemptThen(p, Deletion(u, purging), {}, Purged(View(p), w), Deletion(u, purging \ {w}))
  BY <1>1
<1>3. Deed(View(p), {}, Purged(View(p), w))
  BY <1>1, OpenView, OpenReferences, PurgedDeed
<1>. QED
  BY <1>1, <1>2, <1>3 DEF Does

LEMMA DeleteAccountDeed ==
  ASSUME IInv, NEW p \in Session, DeleteAccount(p)
  PROVE  Does(p)
<1>. DEFINE s == View(p)
<1>1. PICK u \in User : /\ tx[p].open
                        /\ Deletable(s, u)
                        /\ Attempt(p, Deletion(u, {}), {}, Forgotten(s, u))
  BY DEF DeleteAccount, Forgotten, SentBy
<1>. DEFINE after == Forgotten(s, u)
<1>2. DatabaseOK(s) /\ OwnersOK(s)
  BY <1>1, OpenView
<1>3. /\ after[Account(u)] = Gone
      /\ \A x \in Workspace :
           /\ after[WorkspaceRow(x)] = s[WorkspaceRow(x)]
           /\ \A y \in RoleId : after[Role(x, y)] = s[Role(x, y)]
           /\ \A y \in User : after[Member(x, y)] = IF y = u THEN Absent ELSE s[Member(x, y)]
      /\ \A i \in Invitation : after[InvitationRow(i)] =
           IF i \in SentBy(s, u) THEN Gone ELSE s[InvitationRow(i)]
  BY <1>2, ForgottenRows
<1>4. Attempt(p, Deletion(u, {}), {}, after)
  BY <1>1
<1>. HIDE DEF after
<1>5. \A w \in Workspace : s[Member(w, u)] # OwnerRole
  BY <1>1, <1>2 DEF Deletable, AnyOwnedBy, OwnersOK, OwnerOK
<1>6. Leaves(s, after, u)
  BY <1>3, <1>5 DEF Leaves, SameWorkspaces
<1>7. Deed(s, {}, after)
  BY <1>6 DEF Deed
<1>. QED
  BY <1>1, <1>4, <1>7, DoesOne

LEMMA SetMemberRoleDeed ==
  ASSUME IInv, NEW p \in Session, NEW r \in Requests, SetMemberRole(p, r)
  PROVE  Does(p)
<1>. DEFINE s == View(p)
            w == r.workspace
            after == [s EXCEPT ![Member(w, r.member)] = r.role]
<1>1. Changes(p, r, "set_member_role", "roles.manage")
  BY DEF SetMemberRole
<1>2. /\ tx[p].open /\ r.call = "set_member_role" /\ w \in Workspace /\ Live(s, w)
  BY <1>1, ChangesFacts
<1>3. r.member \in User /\ r.role \in RoleId
  BY <1>2, RequestFields
<1>4. /\ r.role # OwnerRole /\ IsMember(s, w, r.member)
      /\ r.member # s[WorkspaceRow(w)].owner /\ Attempt(p, r, {WorkspaceRow(w)}, after)
  BY DEF SetMemberRole, Configurable, AttemptLocked
<1>5. DatabaseOK(s) /\ OwnersOK(s)
  BY <1>2, OpenView
<1>6. \A row \in Row : after[row] = IF row = Member(w, r.member) THEN r.role ELSE s[row]
  BY <1>5, SetRow DEF DatabaseOK
<1>. HIDE DEF after
<1>7. /\ SameWorkspaces(s, after)
      /\ \A x \in Workspace, y \in User : after[Member(x, y)] =
           IF x = w /\ y = r.member THEN r.role ELSE s[Member(x, y)]
      /\ SameInvitations(s, after)
  BY <1>6, RowsExist, MemberRowDiffers DEF SameWorkspaces, SameInvitations
<1>8. s[Member(w, r.member)] # OwnerRole
  BY <1>2, <1>3, <1>4, <1>5 DEF OwnersOK, OwnerOK
<1>9. Assigns(s, after, w, r.member, r.role)
  BY <1>3, <1>4, <1>7, <1>8 DEF Assigns
<1>10. Deed(s, {WorkspaceRow(w)}, after)
  BY <1>2, <1>3, <1>9 DEF Deed
<1>. QED
  BY <1>2, <1>4, <1>10, DoesOne

LEMMA RemoveMemberDeed ==
  ASSUME IInv, NEW p \in Session, NEW r \in Requests, RemoveMember(p, r)
  PROVE  Does(p)
<1>. DEFINE s == View(p)
            w == r.workspace
            removed == RemoveMembers(s, w, {r.member})
            after == ReturnToWorkspaceStep(removed, {r.member})
<1>1. Changes(p, r, "remove_member", "members.remove")
  BY DEF RemoveMember
<1>2. /\ tx[p].open /\ r.call = "remove_member" /\ w \in Workspace /\ Live(s, w)
  BY <1>1, ChangesFacts
<1>3. r.member \in User
  BY <1>2, RequestFields
<1>4. /\ IsMember(s, w, r.member) /\ r.member # s[WorkspaceRow(w)].owner
      /\ Attempt(p, r, {WorkspaceRow(w)}, after)
  BY DEF RemoveMember, AttemptLocked
<1>5. DatabaseOK(s) /\ OwnersOK(s)
  BY <1>2, OpenView
<1>6. DatabaseOK(removed)
  BY <1>2, <1>5, RemovedMembersView
<1>7. \A row \in Row : removed[row] = IF row = Member(w, r.member) THEN Absent ELSE s[row]
  BY <1>5, PutRow DEF DatabaseOK, RemoveMembers
<1>. HIDE DEF removed
<1>8. /\ SameWorkspaces(s, removed)
      /\ \A x \in Workspace, y \in User : removed[Member(x, y)] =
           IF x = w /\ y = r.member THEN Absent ELSE s[Member(x, y)]
      /\ SameInvitations(s, removed)
  BY <1>7, RowsExist, MemberRowDiffers DEF SameWorkspaces, SameInvitations
<1>9. SameButAccounts(removed, after)
  BY <1>3, <1>6, ReturnRows
<1>. HIDE DEF after
<1>10. s[Member(w, r.member)] # OwnerRole /\ Absent # OwnerRole
  BY <1>2, <1>3, <1>4, <1>5, RowContentsAssumption
     DEF OwnersOK, OwnerOK, RoleId, SystemRole
<1>11. Assigns(s, after, w, r.member, Absent)
  BY <1>4, <1>8, <1>9, <1>10 DEF Assigns, SameButAccounts, SameWorkspaces, SameInvitations
<1>12. Deed(s, {WorkspaceRow(w)}, after)
  BY <1>2, <1>3, <1>11 DEF Deed
<1>. QED
  BY <1>2, <1>4, <1>12, DoesOne

LEMMA TransferDeed ==
  ASSUME IInv, NEW p \in Session, NEW r \in Requests, Transfer(p, r)
  PROVE  Does(p)
<1>. DEFINE s == View(p)
            w == r.workspace
            kept == RolesNamed(s, w, AdminRole) # {}
            admins == IF kept THEN RolesNamed(s, w, AdminRole)
                      ELSE {x \in SpareRole : db[Role(w, x)] = Absent}
            c == [name |-> AdminRole, system |-> TRUE, permissions |-> SystemPermissions[AdminRole]]
            after(admin) == HandedOver(s, w, r.by, r.member, admin, kept, c)
<1>1. Changes(p, r, "transfer", "workspace.transfer")
  BY DEF Transfer
<1>2. /\ tx[p].open /\ r.call = "transfer" /\ w \in Workspace /\ Live(s, w) /\ r.by \in User
      /\ r.by = s[WorkspaceRow(w)].owner
  BY <1>1, ChangesFacts DEF OwnerActions
<1>3. r.member \in User /\ r.member # r.by /\ IsMember(s, w, r.member)
  BY <1>2, RequestFields DEF Transfer
<1>4. DatabaseOK(s) /\ OwnersOK(s)
  BY <1>2, OpenView
<1>5. PICK admin \in admins : /\ SingleOwner(after(admin), w)
                              /\ Attempt(p, r, {WorkspaceRow(w)}, after(admin))
  BY DEF Transfer, AttemptLocked, HandedOver
<1>. DEFINE view == after(admin)
<1>6. admin \in RoleId
  BY <1>5 DEF RolesNamed, RoleId
<1>. HIDE DEF c, kept
<1>7. /\ \A row \in Row : view[row] =
           IF row = WorkspaceRow(w) THEN [s[WorkspaceRow(w)] EXCEPT !.owner = r.member]
           ELSE IF row = Member(w, r.by) THEN admin
           ELSE IF row = Member(w, r.member) THEN s[Member(w, r.by)]
           ELSE IF row = Role(w, admin) THEN IF kept THEN s[row] ELSE c
           ELSE s[row]
      /\ view[WorkspaceRow(w)].owner = r.member
  BY <1>2, <1>3, <1>4, <1>6, TransferRows
<1>8. SingleOwner(view, w) /\ Attempt(p, r, {WorkspaceRow(w)}, view)
  BY <1>5
<1>. HIDE DEF view, after
<1>9. \A x \in Workspace : view[WorkspaceRow(x)] =
        IF x = w THEN [s[WorkspaceRow(w)] EXCEPT !.owner = r.member] ELSE s[WorkspaceRow(x)]
  BY <1>7, RowsExist, WorkspaceRowDiffers
<1>10. s[Member(w, r.by)] = OwnerRole /\ s[Member(w, r.member)] # OwnerRole
  BY <1>2, <1>3, <1>4 DEF OwnersOK, OwnerOK
<1>11. \A x \in Workspace, y \in User : view[Member(x, y)] =
         IF x = w /\ y = r.by THEN admin
         ELSE IF x = w /\ y = r.member THEN OwnerRole ELSE s[Member(x, y)]
  BY <1>7, <1>10, RowsExist, MemberRowDiffers
<1>12. SameInvitations(s, view)
  BY <1>7, RowsExist, InvitationRowDiffers DEF SameInvitations
<1>13. admin # OwnerRole
  <2>1. view[Member(w, r.by)] = admin
    BY <1>2, <1>11
  <2>2. OwnerIds(view, w) = {r.member}
    BY <1>7, <1>8 DEF SingleOwner
  <2>. QED
    BY <1>2, <1>3, <2>1, <2>2 DEF OwnerIds
<1>14. HandsOver(s, view, w, r.by, r.member, admin)
  BY <1>2, <1>3, <1>6, <1>9, <1>10, <1>11, <1>12, <1>13 DEF HandsOver
<1>15. Deed(s, {WorkspaceRow(w)}, view)
  BY <1>2, <1>3, <1>6, <1>14 DEF Deed
<1>. QED
  BY <1>2, <1>8, <1>15, DoesOne

LEMMA InviteDeed ==
  ASSUME IInv, NEW p \in Session, NEW r \in Requests, Invite(p, r)
  PROVE  Does(p)
<1>. DEFINE s == View(p)
            w == r.workspace
            c == [status |-> "pending", workspace |-> w, email |-> r.email,
                  role |-> r.role, invited_by |-> r.by]
            after(i) == [s EXCEPT ![InvitationRow(i)] = c]
<1>1. PICK i \in Invitation : db[InvitationRow(i)] = Absent /\ AttemptLocked(p, r, after(i))
  BY DEF Invite
<1>. DEFINE view == after(i)
<1>2. Changes(p, r, "invite", "members.invite")
  BY DEF Invite
<1>3. /\ tx[p].open /\ r.call = "invite" /\ r.by \in User /\ w \in Workspace /\ Live(s, w)
  BY <1>2, ChangesFacts
<1>4. /\ c \in InvitationRecord
      /\ c.workspace = w /\ c.email = r.email /\ c.role = r.role /\ c.status = "pending"
  BY <1>3, RequestFields DEF InvitationRecord
<1>5. Attempt(p, r, {WorkspaceRow(w)}, view)
  BY <1>1 DEF AttemptLocked
<1>6. r.role # OwnerRole /\ ~HasPending(s, w, r.email)
  BY DEF Invite, Configurable
<1>7. DatabaseOK(s)
  BY <1>3, OpenView
<1>. HIDE DEF c
<1>8. \A row \in Row : view[row] = IF row = InvitationRow(i) THEN c ELSE s[row]
  BY <1>7, SetRow DEF DatabaseOK
<1>. HIDE DEF view, after
<1>9. /\ SameWorkspaces(s, view)
      /\ \A x \in Workspace, u \in User : view[Member(x, u)] = s[Member(x, u)]
      /\ \A x \in Invitation : view[InvitationRow(x)] =
           IF x = i THEN c ELSE s[InvitationRow(x)]
  BY <1>8, RowsExist, InvitationRowDiffers DEF SameWorkspaces
<1>10. Invites(s, view, w, i, c)
  BY <1>1, <1>3, <1>4, <1>6, <1>9 DEF Invites
<1>11. Deed(s, {WorkspaceRow(w)}, view)
  BY <1>3, <1>4, <1>10 DEF Deed
<1>. QED
  BY <1>3, <1>5, <1>11, DoesOne

LEMMA RevokeInvitationDeed ==
  ASSUME IInv, NEW p \in Session, NEW r \in Requests, RevokeInvitation(p, r)
  PROVE  Does(p)
<1>. DEFINE s == View(p)
            w == r.workspace
            i == r.invitation
            c == [s[InvitationRow(i)] EXCEPT !.status = "revoked"]
            after == [s EXCEPT ![InvitationRow(i)] = c]
<1>1. Changes(p, r, "revoke_invitation", "invitations.revoke")
  BY DEF RevokeInvitation
<1>2. tx[p].open /\ r.call = "revoke_invitation"
  BY <1>1, ChangesFacts
<1>3. i \in Invitation /\ Usable(s, i)
  BY <1>2, RequestFields DEF RevokeInvitation
<1>4. Attempt(p, r, {WorkspaceRow(w)}, after)
  BY DEF RevokeInvitation, AttemptLocked
<1>5. DatabaseOK(s)
  BY <1>2, OpenView
<1>6. \A row \in Row : after[row] = IF row = InvitationRow(i) THEN c ELSE s[row]
  BY <1>5, SetRow DEF DatabaseOK
<1>. HIDE DEF after
<1>7. /\ SameWorkspaces(s, after)
      /\ \A x \in Workspace, u \in User : after[Member(x, u)] = s[Member(x, u)]
      /\ \A x \in Invitation : after[InvitationRow(x)] =
           IF x = i THEN c ELSE s[InvitationRow(x)]
  BY <1>6, RowsExist, InvitationRowDiffers DEF SameWorkspaces
<1>8. Revokes(s, after, i)
  BY <1>3, <1>7 DEF Revokes
<1>9. Deed(s, {WorkspaceRow(w)}, after)
  BY <1>3, <1>8 DEF Deed
<1>. QED
  BY <1>2, <1>4, <1>9, DoesOne

(* v: what was read, with the account that is being registered.            *)
LEMMA JoinedDeed ==
  ASSUME NEW s, NEW v, DatabaseOK(v), SameButAccounts(s, v),
         NEW i \in Invitation, NEW u \in User, CanJoin(v, i, u), NEW locked
  PROVE  Deed(s, locked, Joined(v, i, u))
<1>. DEFINE w == v[InvitationRow(i)].workspace
            role == v[InvitationRow(i)].role
            after == Joined(v, i, u)
<1>1. /\ w \in Workspace /\ role \in RoleId
      /\ \A row \in Row : row # Account(u) => after[row] =
           IF row = InvitationRow(i) THEN [v[InvitationRow(i)] EXCEPT !.status = "accepted"]
           ELSE IF row = Member(w, u) THEN role ELSE v[row]
  BY JoinedRows
<1>2. v[InvitationRow(i)] = s[InvitationRow(i)] /\ \A x \in Workspace :
        v[WorkspaceRow(x)] = s[WorkspaceRow(x)] /\ v[Member(x, u)] = s[Member(x, u)]
  BY DEF SameButAccounts
<1>3. /\ Usable(s, i) /\ ~IsMember(s, w, u)
      /\ s[InvitationRow(i)].workspace = w /\ s[InvitationRow(i)].email = u
  BY <1>1, <1>2 DEF CanJoin, Usable, IsMember, Exists
<1>. HIDE DEF after, w
<1>4. SameWorkspaces(v, after)
  BY <1>1, RowsExist, WorkspaceRowDiffers, AccountRowDiffers DEF SameWorkspaces
<1>5. \A x \in Workspace, y \in User : after[Member(x, y)] =
        IF x = w /\ y = u THEN role ELSE v[Member(x, y)]
  BY <1>1, RowsExist, MemberRowDiffers, AccountRowDiffers
<1>6. \A j \in Invitation : after[InvitationRow(j)] =
        IF j = i THEN [v[InvitationRow(i)] EXCEPT !.status = "accepted"] ELSE v[InvitationRow(j)]
  BY <1>1, RowsExist, InvitationRowDiffers, AccountRowDiffers
<1>7. Joins(s, after, w, u, i)
  BY <1>2, <1>3, <1>4, <1>5, <1>6 DEF Joins, SameButAccounts, SameWorkspaces
<1>. QED
  BY <1>1, <1>7 DEF Deed, after

LEMMA AcceptInvitationDeed ==
  ASSUME IInv, NEW p \in Session, NEW r \in Requests, AcceptInvitation(p, r)
  PROVE  Does(p)
<1>1. /\ tx[p].open /\ r.by \in User /\ r.invitation \in Invitation
      /\ CanJoin(View(p), r.invitation, r.by)
      /\ Attempt(p, r, LocksToJoin(View(p), r.invitation, r.by),
                 Joined(View(p), r.invitation, r.by))
  BY RequestFields DEF AcceptInvitation, Sends, Serves
<1>2. DatabaseOK(View(p)) /\ SameButAccounts(View(p), View(p))
  BY <1>1, OpenView DEF SameButAccounts
<1>3. Deed(View(p), LocksToJoin(View(p), r.invitation, r.by), Joined(View(p), r.invitation, r.by))
  BY <1>1, <1>2, JoinedDeed
<1>. QED
  BY <1>1, <1>3, DoesOne

LEMMA RegisterDeed ==
  ASSUME IInv, NEW p \in Session, NEW r \in Requests, Register(p, r)
  PROVE  Does(p)
<1>. DEFINE s == View(p)
            account == IF r.named THEN "workspace_pending" ELSE "profile_pending"
            created == IF Registered(s, r.by) THEN s ELSE [s EXCEPT ![Account(r.by)] = account]
            joins == r.invitation # NoInvitation /\ CanJoin(created, r.invitation, r.by)
            after == Joined(created, r.invitation, r.by)
            locks == LocksToJoin(created, r.invitation, r.by)
<1>1. /\ tx[p].open /\ r.by \in User /\ r.invitation \in Invitation \cup {NoInvitation}
      /\ Attempt(p, r, locks, IF joins THEN after ELSE created)
  BY RequestFields DEF Register, Sends, Serves
<1>2. account \in Status
  BY DEF Status
<1>. HIDE DEF account
<1>3. DatabaseOK(s)
  BY <1>1, OpenView
<1>4. DatabaseOK(created)
  BY <1>1, <1>2, <1>3, SetAccount
<1>5. \A row \in Row : (\A u \in User : row # Account(u)) => created[row] = s[row]
  BY <1>1, <1>3 DEF DatabaseOK
<1>. HIDE DEF created
<1>6. SameButAccounts(s, created)
  BY <1>5, SameButAccountsIf
<1>7. CASE joins
  <2>1. r.invitation \in Invitation /\ CanJoin(created, r.invitation, r.by)
    BY <1>1, <1>7
  <2>2. Deed(s, locks, after) /\ Attempt(p, r, locks, after)
    BY <1>1, <1>4, <1>6, <1>7, <2>1, JoinedDeed
  <2>. HIDE DEF after, locks, joins
  <2>. QED
    BY <1>1, <2>2, DoesOne
<1>8. CASE ~joins
  <2>1. Attempt(p, r, locks, created)
    BY <1>1, <1>8
  <2>. HIDE DEF locks, joins
  <2>. QED
    BY <1>1, <1>6, <2>1, AccountsOnly
<1>. QED
  BY <1>7, <1>8

LEMMA DeleteWorkspaceDeed ==
  ASSUME IInv, NEW p \in Session, NEW r \in Requests, DeleteWorkspace(p, r)
  PROVE  Does(p)
<1>. DEFINE s == View(p)
            w == r.workspace
            after == Closed(s, w)
<1>1. Changes(p, r, "delete", "workspace.delete")
  BY DEF DeleteWorkspace
<1>2. /\ tx[p].open /\ w \in Workspace /\ Live(s, w)
  BY <1>1, ChangesFacts
<1>3. Attempt(p, r, {WorkspaceRow(w)}, after)
  BY DEF DeleteWorkspace, AttemptLocked, Closed
<1>4. DatabaseOK(s)
  BY <1>2, OpenView
<1>5. Closes(s, after, w)
  BY <1>2, <1>4, ClosedRows DEF Closes
<1>. HIDE DEF after
<1>6. Deed(s, {WorkspaceRow(w)}, after)
  BY <1>2, <1>5 DEF Deed
<1>. QED
  BY <1>2, <1>3, <1>6, DoesOne

LEMMA CreateWorkspaceDeed ==
  ASSUME IInv, NEW p \in Session, NEW r \in Requests, CreateWorkspace(p, r)
  PROVE  Does(p)
<1>. DEFINE s == View(p)
<1>1. PICK w \in Workspace :
        db[WorkspaceRow(w)] = Absent /\ Attempt(p, r, {}, Founded(s, w, r.by))
  BY DEF CreateWorkspace, Founded
<1>. DEFINE after == Founded(s, w, r.by)
<1>2. tx[p].open /\ r.by \in User
  BY RequestFields DEF CreateWorkspace, Sends, Serves
<1>3. DatabaseOK(s)
  BY <1>2, OpenView
<1>4. /\ \A x \in Workspace : after[WorkspaceRow(x)] =
           IF x = w THEN [owner |-> r.by, deleted |-> FALSE] ELSE s[WorkspaceRow(x)]
      /\ \A x \in Workspace, y \in User : after[Member(x, y)] =
           IF x = w /\ y = r.by THEN OwnerRole ELSE s[Member(x, y)]
      /\ \A i \in Invitation : after[InvitationRow(i)] = s[InvitationRow(i)]
  <2>. HIDE DEF s
  <2>. QED
    BY <1>2, <1>3, FoundedRows
<1>5. Attempt(p, r, {}, after)
  BY <1>1
<1>. HIDE DEF after
<1>6. Founds(s, after, w, r.by)
  BY <1>1, <1>4 DEF Founds, SameInvitations
<1>7. Deed(s, {}, after)
  BY <1>2, <1>6 DEF Deed
<1>. QED
  BY <1>2, <1>5, <1>7, DoesOne

-----------------------------------------------------------------------------
(*                     From deeds to the theorems                          *)

LEMMA MergedDeedStep ==
  ASSUME IInv, LockInv, NEW s, DatabaseOK(s), OwnersOK(s), NEW locked, NEW after,
         Merges(s, after), Deed(s, locked, after), expired' = expired,
         \A w \in Workspace : WorkspaceRow(w) \in locked => Remains(db, s, w),
         \A w \in Workspace : db[WorkspaceRow(w)] = Absent => s[WorkspaceRow(w)] = Absent
  PROVE  TeamStep
<1>1. CASE Cleans(s, after)
  BY <1>1, CleansStep
<1>2. ASSUME NEW w \in Workspace, NEW u \in User, Founds(s, after, w, u)
      PROVE  TeamStep
  BY <1>2, FoundsStep DEF Founds
<1>3. ASSUME NEW w \in Workspace, WorkspaceRow(w) \in locked, Closes(s, after, w)
      PROVE  TeamStep
  BY <1>3, ClosesStep
<1>4. ASSUME NEW w \in Workspace, NEW i \in Invitation, NEW c \in InvitationRecord,
             WorkspaceRow(w) \in locked, Invites(s, after, w, i, c)
      PROVE  TeamStep
  BY <1>4, InvitesStep
<1>5. ASSUME NEW i \in Invitation, Revokes(s, after, i)
      PROVE  TeamStep
  BY <1>5, RevokesStep
<1>6. ASSUME NEW w \in Workspace, NEW u \in User, NEW i \in Invitation, Joins(s, after, w, u, i)
      PROVE  TeamStep
  BY <1>6, JoinsStep
<1>7. ASSUME NEW w \in Workspace, NEW u \in User, NEW r \in RoleId \cup {Absent},
             Assigns(s, after, w, u, r)
      PROVE  TeamStep
  BY <1>7, AssignsStep
<1>8. ASSUME NEW w \in Workspace, NEW u \in User, NEW m \in User, NEW r \in RoleId,
             HandsOver(s, after, w, u, m, r)
      PROVE  TeamStep
  BY <1>8, HandsOverStep
<1>9. ASSUME NEW u \in User, Leaves(s, after, u)
      PROVE  TeamStep
  BY <1>9, LeavesStep
<1>. QED
  BY <1>1, <1>2, <1>3, <1>4, <1>5, <1>6, <1>7, <1>8, <1>9 DEF Deed

(* A run of the work is a step of Teams, or changes nothing yet.           *)
LEMMA DoesStep ==
  ASSUME IInv, LockInv, NEW p \in Session, Does(p), expired' = expired
  PROVE  TeamStep
<1>1. PICK r, locked, after, next :
        AttemptThen(p, r, locked, after, next) /\ Deed(View(p), locked, after)
  BY DEF Does
<1>2. CASE Commit(p, locked, after, next)
  <2>1. tx[p].open
    BY DEF Does
  <2>2. /\ Merges(View(p), after)
        /\ \A w \in Workspace : WorkspaceRow(w) \in locked => Remains(db, View(p), w)
    BY <1>2, <2>1, CommitMerges
  <2>3. \A w \in Workspace : db[WorkspaceRow(w)] = Absent => View(p)[WorkspaceRow(w)] = Absent
    BY <2>1 DEF IInv, Agrees, View
  <2>. QED
    BY <1>1, <2>1, <2>2, <2>3, OpenView, MergedDeedStep
<1>3. CASE LoseRace(p, r, locked, after)
  <2>1. db' = db
    BY <1>3 DEF LoseRace, LoseRaceElse
  <2>. QED
    BY <2>1, StandingStill
<1>. QED
  BY <1>1, <1>2, <1>3 DEF AttemptThen

(* A deed leaves settled invitations as they are, or deletes them.         *)
LEMMA MergedDeedSettles ==
  ASSUME NEW s, NEW locked, NEW after, Merges(s, after), Deed(s, locked, after),
         NEW i \in Invitation, Exists(db, InvitationRow(i)),
         db[InvitationRow(i)].status # "pending"
  PROVE  db'[InvitationRow(i)] \in {db[InvitationRow(i)], Gone}
<1>1. SUFFICES ASSUME after[InvitationRow(i)] # s[InvitationRow(i)],
                      db[InvitationRow(i)] = s[InvitationRow(i)],
                      db'[InvitationRow(i)] = after[InvitationRow(i)]
               PROVE  after[InvitationRow(i)] = Gone
  BY MergedRows
<1>2. ~Usable(s, i) /\ \A w : i \notin PendingOf(s, w)
  BY <1>1 DEF Usable, PendingOf
<1>3. \/ Cleans(s, after)
      \/ \E w \in Workspace, j \in Invitation, c \in InvitationRecord : Invites(s, after, w, j, c)
      \/ \E u \in User : Leaves(s, after, u)
  <2>1. \A w, u : ~Founds(s, after, w, u)
    BY <1>1 DEF Founds, SameInvitations
  <2>2. \A w : ~Closes(s, after, w)
    BY <1>1, <1>2 DEF Closes
  <2>3. \A j : ~Revokes(s, after, j)
    BY <1>1, <1>2 DEF Revokes
  <2>4. \A w, u, j : ~Joins(s, after, w, u, j)
    BY <1>1, <1>2 DEF Joins
  <2>5. \A w, u, r : ~Assigns(s, after, w, u, r)
    BY <1>1 DEF Assigns, SameInvitations
  <2>6. \A w, u, m, r : ~HandsOver(s, after, w, u, m, r)
    BY <1>1 DEF HandsOver, SameInvitations
  <2>. QED
    BY <2>1, <2>2, <2>3, <2>4, <2>5, <2>6 DEF Deed
<1>4. CASE Cleans(s, after)
  BY <1>1, <1>4 DEF Cleans
<1>5. ASSUME NEW w, NEW j, NEW c, Invites(s, after, w, j, c)
      PROVE  FALSE
  BY <1>1, <1>5 DEF Invites, Exists
<1>6. CASE \E u \in User : Leaves(s, after, u)
  BY <1>1, <1>6 DEF Leaves
<1>. QED
  BY <1>3, <1>4, <1>5, <1>6

SettledStays ==
  \A i \in Invitation :
    Exists(db, InvitationRow(i)) /\ db[InvitationRow(i)].status # "pending" =>
      db'[InvitationRow(i)] \in {db[InvitationRow(i)], Gone}

LEMMA DoesSettle ==
  ASSUME IInv, LockInv, NEW p \in Session, Does(p)
  PROVE  SettledStays
<1>1. PICK r, locked, after, next :
        AttemptThen(p, r, locked, after, next) /\ Deed(View(p), locked, after)
  BY DEF Does
<1>2. CASE Commit(p, locked, after, next)
  <2>1. Merges(View(p), after)
    BY <1>2, CommitMerges DEF Does
  <2>. QED
    BY <1>1, <2>1, MergedDeedSettles DEF SettledStays
<1>3. CASE LoseRace(p, r, locked, after)
  BY <1>3 DEF LoseRace, LoseRaceElse, SettledStays
<1>. QED
  BY <1>1, <1>2, <1>3 DEF AttemptThen

LEMMA ServeDoes ==
  ASSUME IInv, LockInv, NEW p \in Session, NEW r \in Requests, Serve(p, r)
  PROVE  StartAccountDeletion(p, r) \/ Does(p)
BY RegisterDeed, AccountDeeds, CreateWorkspaceDeed, UpdateWorkspaceDeed, DeleteWorkspaceDeed,
   PurgeWorkspaceDeed, CreateRoleDeed, RenameRoleDeed, DeleteRoleDeed, SetPermissionsDeed,
   SetMemberRoleDeed, RemoveMemberDeed, TransferDeed, InviteDeed, RevokeInvitationDeed,
   AcceptInvitationDeed
   DEF Serve

(* A step that changes the database runs somebody's work.                  *)
LEMMA NextDoes ==
  ASSUME IInv, LockInv, [Next]_vars
  PROVE  \/ \E p \in Session : Does(p) /\ expired' = expired
         \/ \E i \in Invitation : Expire(i)
         \/ db' = db /\ expired' = expired
<1>1. ASSUME NEW p \in Session, Step(p), UNCHANGED expired
      PROVE  Does(p) \/ db' = db
  <2>1. CASE Begin(p) \/ RollBack(p)
    BY <2>1 DEF Begin, RollBack
  <2>2. CASE PurgeOwned(p)
    BY <2>2, PurgeOwnedDeed
  <2>3. CASE DeleteAccount(p)
    BY <2>3, DeleteAccountDeed
  <2>4. ASSUME NEW r \in Asked, Serve(p, r)
        PROVE  Does(p) \/ db' = db
    BY <2>4, ServeDoes DEF Asked, StartAccountDeletion
  <2>. QED
    BY <1>1, <2>1, <2>2, <2>3, <2>4 DEF Step
<1>2. CASE UNCHANGED vars
  BY <1>2 DEF vars
<1>. QED
  BY <1>1, <1>2 DEF Next

(* After accept or revoke no other request, however late its transaction,  *)
(* gives an invitation another outcome.                                    *)
THEOREM InvitationsSettleOnce == Spec => SettledOnce
<1>1. ASSUME IInv, LockInv, [Next]_vars
      PROVE  SettledStays
  <2>1. CASE \E i \in Invitation : Expire(i)
    BY <2>1 DEF Expire, SettledStays
  <2>2. CASE db' = db
    BY <2>2 DEF SettledStays
  <2>. QED
    BY <1>1, <2>1, <2>2, NextDoes, DoesSettle
<1>2. SettledStays =>
        [\A i \in Invitation :
           Exists(db, InvitationRow(i)) /\ db[InvitationRow(i)].status # "pending" =>
             db'[InvitationRow(i)] \in {db[InvitationRow(i)], Gone}]_vars
  BY DEF SettledStays
<1>. QED
  BY SnapshotsAgree, LocksHold, <1>1, <1>2, PTL DEF SettledOnce, Spec

LEMMA InitIsTeamsInit == Init => Promise!Init
<1>. SUFFICES ASSUME Init PROVE Promise!Init
  OBVIOUS
<1>1. \A row \in Row : db[row] = Absent
  BY DEF Init
<1>2. \A w \in Workspace : TeamState(w) = "none" /\ \A u \in User : db[Member(w, u)] = Absent
  BY <1>1, RowsExist DEF TeamState
<1>3. \A i \in Invitation : ~Usable(db, i)
  BY <1>1, RowsExist DEF Usable, Exists
<1>. QED
  BY <1>2, <1>3 DEF Promise!Init, Promise!Nobody

(* The handlers, each working on an old snapshot and merged when it        *)
(* commits, look to the people in a workspace like changes made one at a   *)
(* time in the state that everybody sees.                                  *)
THEOREM TeamsImplemented == Spec => ImplementsTeams
<1>1. ASSUME IInv, LockInv, [Next]_vars
      PROVE  TeamStep
  <2>1. CASE \E i \in Invitation : Expire(i)
    BY <1>1, <2>1, ExpireStep
  <2>2. CASE db' = db /\ expired' = expired
    BY <2>2, StandingStill
  <2>. QED
    BY <1>1, <2>1, <2>2, NextDoes, DoesStep
<1>2. TeamStep => [Promise!Next]_<<Team, Offers>>
  BY DEF TeamStep
<1>3. Spec => Promise!Init
  BY InitIsTeamsInit DEF Spec
<1>. QED
  BY SnapshotsAgree, LocksHold, <1>1, <1>2, <1>3, PTL
     DEF ImplementsTeams, Promise!Spec, Spec, Team, Offers
=============================================================================
