---------------------------- MODULE LocksProofs ----------------------------
(***************************************************************************)
(* What the lock on a workspace's row protects: the references inside the  *)
(* workspace and the permission a change was granted with, for any number  *)
(* of sessions, accounts, workspaces, roles and invitations.               *)
(***************************************************************************)
EXTENDS WorkspacesProofs

-----------------------------------------------------------------------------
(*                     Removals break no reference                         *)

(* A workspace that lost members and invitations keeps its references.     *)
LEMMA RemainsOK ==
  ASSUME NEW w \in Workspace, NEW s, NEW v, NEW late,
         DatabaseOK(s) \/ DatabaseOK(v),
         WorkspaceOK(s, w, late), Remains(v, s, w)
  PROVE  WorkspaceOK(v, w, late)
<1>1. \A u \in MemberIds(v, w) : u \in MemberIds(s, w) /\ v[Member(w, u)] = s[Member(w, u)]
  BY DEF Remains, MemberIds, IsMember, Exists
<1>2. \A i \in InvitationsOf(v, w) :
        i \in InvitationsOf(s, w) /\ v[InvitationRow(i)] = s[InvitationRow(i)]
  BY DEF Remains, InvitationsOf, Exists
<1>3. \A i \in PendingOf(v, w) :
        i \in PendingOf(s, w) /\ v[InvitationRow(i)] = s[InvitationRow(i)]
  BY <1>2 DEF PendingOf
<1>4. \A r \in RoleId : Exists(v, Role(w, r)) <=> Exists(s, Role(w, r))
  BY DEF Remains, Exists
<1>5. /\ Exists(v, WorkspaceRow(w)) <=> Exists(s, WorkspaceRow(w))
      /\ Live(v, w) <=> Live(s, w)
  BY DEF Remains, Exists, Live
<1>6. ~Exists(v, WorkspaceRow(w)) =>
        InvitationsOf(v, w) = {} /\ \A r \in RoleId : ~Exists(v, Role(w, r))
  BY <1>2, <1>4, <1>5 DEF WorkspaceOK
<1>7. \A u \in MemberIds(v, w) : Exists(v, Role(w, v[Member(w, u)]))
  <2>1. \A u \in MemberIds(v, w) : v[Member(w, u)] \in RoleId
    BY <1>1 DEF MemberIds, IsMember, Exists, DatabaseOK
  <2>2. \A u \in MemberIds(v, w) : Exists(s, Role(w, v[Member(w, u)]))
    BY <1>1 DEF WorkspaceOK
  <2>. QED
    BY <1>4, <2>1, <2>2
<1>8. \A i \in PendingOf(v, w) : Live(v, w) /\ Configurable(v, w, v[InvitationRow(i)].role)
  <2>1. \A i \in PendingOf(v, w) : v[InvitationRow(i)].role \in RoleId
    BY <1>3 DEF PendingOf, InvitationsOf, Exists, DatabaseOK, InvitationRecord
  <2>2. \A i \in PendingOf(v, w) : Live(s, w) /\ Configurable(s, w, v[InvitationRow(i)].role)
    BY <1>3 DEF WorkspaceOK
  <2>. QED
    BY <1>4, <1>5, <2>1, <2>2 DEF Configurable
<1>9. \A i, j \in PendingOf(v, w) \ late :
        v[InvitationRow(i)].email = v[InvitationRow(j)].email => i = j
  BY <1>3 DEF WorkspaceOK
<1>. QED
  BY <1>6, <1>7, <1>8, <1>9 DEF WorkspaceOK

(* Nothing is lost by looking twice.                                       *)
LEMMA RemainsTransitive ==
  ASSUME NEW w \in Workspace, NEW s, NEW v, NEW after, Remains(after, v, w), Remains(v, s, w)
  PROVE  Remains(after, s, w)
<1>1. \A u \in MemberIds(after, w) : u \in MemberIds(v, w)
  BY DEF Remains, MemberIds, IsMember, Exists
<1>2. \A i \in InvitationsOf(after, w) : i \in InvitationsOf(v, w)
  BY DEF Remains, InvitationsOf, Exists
<1>. QED
  BY <1>1, <1>2 DEF Remains

-----------------------------------------------------------------------------
(*                     Commits under the lock                              *)

(* What every use case respects, as a relation between the view it read,   *)
(* the rows it locked and the view it leaves: it keeps the references of   *)
(* every workspace, and a workspace whose row it neither locks nor changes *)
(* only loses members, whose accounts it changes, and invitations.         *)
Governed(s, locked, after) ==
  \A w \in Workspace :
    /\ WorkspaceOK(after, w, expired)
    /\ \/ WorkspaceRow(w) \in locked
       \/ after[WorkspaceRow(w)] # s[WorkspaceRow(w)]
       \/ /\ Remains(after, s, w)
          /\ \A u \in Left(after, s, w) : after[Account(u)] # s[Account(u)]

(* The rows of one workspace.                                              *)
LEMMA RowsOf ==
  ASSUME NEW w \in Workspace
  PROVE  /\ WorkspaceRow(w) \in Row
         /\ \A r \in RoleId : Role(w, r) \in Row
         /\ \A u \in User : Member(w, u) \in Row /\ Account(u) \in Row
         /\ \A i \in Invitation : InvitationRow(i) \in Row
BY RowsExist

(* A locked workspace is after the commit as the transaction left it, but  *)
(* for the people and invitations removed since its snapshot.              *)
LEMMA CommitLocked ==
  ASSUME NEW p \in Session, NEW locked, NEW after, NEW next, NEW w \in Workspace,
         DatabaseOK(db), Remains(db, tx[p].snapshot, w),
         Commit(p, locked, after, next)
  PROVE  Remains(db', after, w)
<1>. DEFINE s == tx[p].snapshot
<1>1. \A row \in Row : db'[row] = IF after[row] # s[row] THEN after[row] ELSE db[row]
  BY MergedRow DEF DatabaseOK
<1>2. db'[WorkspaceRow(w)] = after[WorkspaceRow(w)]
  BY <1>1, RowsOf DEF Remains
<1>3. \A r \in RoleId : db'[Role(w, r)] = after[Role(w, r)]
  BY <1>1, RowsOf DEF Remains
<1>4. ASSUME NEW u \in MemberIds(db', w)
      PROVE  db'[Member(w, u)] = after[Member(w, u)]
  <2>1. u \in User /\ Member(w, u) \in Row
    BY RowsOf DEF MemberIds
  <2>2. CASE after[Member(w, u)] = s[Member(w, u)]
    <3>1. db'[Member(w, u)] = db[Member(w, u)]
      BY <1>1, <2>1, <2>2
    <3>2. u \in MemberIds(db, w)
      BY <2>1, <3>1 DEF MemberIds, IsMember, Exists
    <3>. QED
      BY <2>2, <3>1, <3>2 DEF Remains
  <2>. QED
    BY <1>1, <2>1, <2>2
<1>5. ASSUME NEW i \in InvitationsOf(db', w)
      PROVE  db'[InvitationRow(i)] = after[InvitationRow(i)]
  <2>1. i \in Invitation /\ InvitationRow(i) \in Row
    BY RowsOf DEF InvitationsOf
  <2>2. CASE after[InvitationRow(i)] = s[InvitationRow(i)]
    <3>1. db'[InvitationRow(i)] = db[InvitationRow(i)]
      BY <1>1, <2>1, <2>2
    <3>2. i \in InvitationsOf(db, w)
      BY <2>1, <3>1 DEF InvitationsOf, Exists
    <3>. QED
      BY <2>2, <3>1, <3>2 DEF Remains
  <2>. QED
    BY <1>1, <2>1, <2>2
<1>. QED
  BY <1>2, <1>3, <1>4, <1>5 DEF Remains

(* A workspace the transaction has no hold of only loses people and        *)
(* invitations.                                                            *)
LEMMA CommitUnlocked ==
  ASSUME NEW p \in Session, NEW locked, NEW after, NEW next, NEW w \in Workspace,
         DatabaseOK(db), Remains(after, tx[p].snapshot, w),
         Commit(p, locked, after, next)
  PROVE  Remains(db', db, w)
<1>. DEFINE s == tx[p].snapshot
<1>1. \A row \in Row : db'[row] = IF after[row] # s[row] THEN after[row] ELSE db[row]
  BY MergedRow DEF DatabaseOK
<1>2. db'[WorkspaceRow(w)] = db[WorkspaceRow(w)]
  BY <1>1, RowsOf DEF Remains
<1>3. \A r \in RoleId : db'[Role(w, r)] = db[Role(w, r)]
  BY <1>1, RowsOf DEF Remains
<1>4. ASSUME NEW u \in MemberIds(db', w)
      PROVE  db'[Member(w, u)] = db[Member(w, u)]
  <2>1. u \in User /\ Member(w, u) \in Row
    BY RowsOf DEF MemberIds
  <2>2. CASE after[Member(w, u)] # s[Member(w, u)]
    <3>1. db'[Member(w, u)] = after[Member(w, u)]
      BY <1>1, <2>1, <2>2
    <3>2. u \in MemberIds(after, w)
      BY <2>1, <3>1 DEF MemberIds, IsMember, Exists
    <3>. QED
      BY <2>2, <3>2 DEF Remains
  <2>. QED
    BY <1>1, <2>1, <2>2
<1>5. ASSUME NEW i \in InvitationsOf(db', w)
      PROVE  db'[InvitationRow(i)] = db[InvitationRow(i)]
  <2>1. i \in Invitation /\ InvitationRow(i) \in Row
    BY RowsOf DEF InvitationsOf
  <2>2. CASE after[InvitationRow(i)] # s[InvitationRow(i)]
    <3>1. db'[InvitationRow(i)] = after[InvitationRow(i)]
      BY <1>1, <2>1, <2>2
    <3>2. i \in InvitationsOf(after, w)
      BY <2>1, <3>1 DEF InvitationsOf, Exists
    <3>. QED
      BY <2>2, <3>2 DEF Remains
  <2>. QED
    BY <1>1, <2>1, <2>2
<1>. QED
  BY <1>2, <1>3, <1>4, <1>5 DEF Remains

(* A governed commit keeps LockInv, for every other session too.           *)
LEMMA CommitKeepsLockInv ==
  ASSUME IInv, IInv', LockInv, NEW p \in Session, tx[p].open, NEW locked, NEW after,
         NEW next \in Deletions \cup {NoRequest}, locked \subseteq Row,
         Governed(tx[p].snapshot, locked, after),
         Commit(p, locked, after, next), UNCHANGED expired
  PROVE  LockInv'
<1>. DEFINE s == tx[p].snapshot
            footprint == Footprint(p, locked, after)
            Held(w) == WorkspaceRow(w) \in locked \/ after[WorkspaceRow(w)] # s[WorkspaceRow(w)]
<1>1. DatabaseOK(db) /\ DatabaseOK(db') /\ DatabaseOK(s) /\ TypeOK
  BY DEF IInv, TypeOK, TransactionOK
<1>2. \A row \in Row : after[row] # s[row] \/ row \in locked =>
        row \in footprint /\ row \notin tx[p].touched
  BY <1>1, FootprintUntouched DEF DatabaseOK
<1>3. \A row \in Row : db'[row] = IF after[row] # s[row] THEN after[row] ELSE db[row]
  BY <1>1, MergedRow DEF DatabaseOK
<1>4. \A w \in Workspace : WorkspaceOK(after, w, expired)
  BY DEF Governed
<1>5. \A w \in Workspace : ~Held(w) =>
        Remains(after, s, w) /\ \A u \in Left(after, s, w) : after[Account(u)] # s[Account(u)]
  BY DEF Governed
<1>6. ASSUME NEW w \in Workspace, Held(w)
      PROVE  Remains(db', after, w) /\ WorkspaceRow(w) \in footprint
  <2>1. WorkspaceRow(w) \in footprint /\ WorkspaceRow(w) \notin tx[p].touched
    BY <1>2, <1>6, RowsOf
  <2>2. Remains(db, s, w)
    BY <2>1 DEF LockInv
  <2>. QED
    BY <1>1, <2>1, <2>2, CommitLocked
<1>7. ASSUME NEW w \in Workspace, ~Held(w)
      PROVE  Remains(db', db, w)
  BY <1>1, <1>5, <1>7, CommitUnlocked
<1>. HIDE DEF Held
<1>8. ASSUME NEW w \in Workspace
      PROVE  WorkspaceOK(db', w, expired)
  <2>1. WorkspaceOK(db, w, expired)
    BY DEF LockInv
  <2>. QED
    BY <1>1, <1>4, <1>6, <1>7, <2>1, RemainsOK
<1>9. ASSUME NEW q \in Session, tx'[q].open, NEW w \in Workspace
      PROVE  /\ WorkspaceOK(tx'[q].snapshot, w, expired)
             /\ WorkspaceRow(w) \notin tx'[q].touched =>
                  /\ Remains(db', tx'[q].snapshot, w)
                  /\ \A u \in Left(db', tx'[q].snapshot, w) : Account(u) \in tx'[q].touched
  <2>1. /\ tx[q].open
        /\ tx'[q].snapshot = tx[q].snapshot
        /\ tx'[q].touched = tx[q].touched \cup footprint
    BY <1>1, <1>9, MergedTransactions
  <2>. DEFINE t == tx[q].snapshot
  <2>2. /\ WorkspaceOK(t, w, expired)
        /\ WorkspaceRow(w) \notin tx[q].touched =>
             Remains(db, t, w) /\ \A u \in Left(db, t, w) : Account(u) \in tx[q].touched
    BY <2>1 DEF LockInv
  <2>3. ASSUME WorkspaceRow(w) \notin tx[q].touched \cup footprint
        PROVE  /\ Remains(db', t, w)
               /\ \A u \in Left(db', t, w) : Account(u) \in tx[q].touched \cup footprint
    <3>1. ~Held(w)
      BY <1>6, <2>3
    <3>2. Remains(db', db, w) /\ Remains(db, t, w)
      BY <1>7, <2>2, <2>3, <3>1
    <3>3. Remains(db', t, w)
      BY <3>2, RemainsTransitive
    <3>4. ASSUME NEW u \in Left(db', t, w)
          PROVE  Account(u) \in tx[q].touched \cup footprint
      <4>1. CASE u \in Left(db, t, w)
        BY <2>2, <2>3, <4>1
      <4>2. CASE u \notin Left(db, t, w)
        <5>1. u \in User /\ IsMember(db, w, u) /\ ~IsMember(db', w, u)
          BY <4>2 DEF Left, MemberIds
        <5>2. after[Member(w, u)] # s[Member(w, u)] /\ db'[Member(w, u)] = after[Member(w, u)]
          BY <1>3, <5>1, RowsOf DEF IsMember, Exists
        <5>3. db[Member(w, u)] = s[Member(w, u)]
          <6>1. Member(w, u) \notin tx[p].touched
            BY <1>2, <5>1, <5>2, RowsOf
          <6>. QED
            BY <5>1, <6>1, RowsOf DEF IInv, Agrees
        <5>4. u \in Left(after, s, w)
          BY <5>1, <5>2, <5>3 DEF Left, MemberIds, IsMember, Exists
        <5>5. after[Account(u)] # s[Account(u)]
          BY <1>5, <3>1, <5>4
        <5>. QED
          BY <1>2, <5>1, <5>5, RowsOf
      <4>. QED
        BY <4>1, <4>2
    <3>. QED
      BY <3>3, <3>4
  <2>. QED
    BY <2>1, <2>2, <2>3
<1>10. expired' = expired
  OBVIOUS
<1>. QED
  BY <1>8, <1>9, <1>10 DEF LockInv

(* One run of a use case that respects the rule.                           *)
LEMMA AttemptKeepsLockInv ==
  ASSUME IInv, IInv', LockInv, NEW p \in Session, tx[p].open, NEW r, NEW locked, NEW after,
         NEW next \in Deletions \cup {NoRequest}, locked \subseteq Row,
         Governed(tx[p].snapshot, locked, after),
         AttemptThen(p, r, locked, after, next), UNCHANGED expired
  PROVE  LockInv'
<1>1. CASE Commit(p, locked, after, next)
  BY <1>1, CommitKeepsLockInv
<1>2. CASE LoseRace(p, r, locked, after)
  <2>1. /\ tx' = [tx EXCEPT ![p] = IF tx[p].attempt = ATTEMPTS THEN Waiting(NoRequest, 1)
                                   ELSE Waiting(r, tx[p].attempt + 1)]
        /\ db' = db /\ expired' = expired
    BY <1>2 DEF LoseRace, LoseRaceElse
  <2>2. ~tx'[p].open /\ \A q \in Session : q # p => tx'[q] = tx[q]
    BY <2>1 DEF Waiting, IInv, TypeOK
  <2>. QED
    BY <2>1, <2>2 DEF LockInv
<1>. QED
  BY <1>1, <1>2 DEF AttemptThen

LEMMA RollBackKeepsLockInv ==
  ASSUME IInv, LockInv, NEW p \in Session, RollBack(p), UNCHANGED expired
  PROVE  LockInv'
<1>1. ~tx'[p].open /\ \A q \in Session : q # p => tx'[q] = tx[q]
  BY DEF RollBack, Idle, Waiting, IInv, TypeOK
<1>2. db' = db /\ expired' = expired
  BY DEF RollBack
<1>. QED
  BY <1>1, <1>2 DEF LockInv

(* A new snapshot is the database itself.                                  *)
LEMMA BeginKeepsLockInv ==
  ASSUME IInv, LockInv, NEW p \in Session, Begin(p), UNCHANGED expired
  PROVE  LockInv'
<1>1. /\ tx'[p].snapshot = db /\ \A q \in Session : q # p => tx'[q] = tx[q]
      /\ db' = db /\ expired' = expired
  BY DEF Begin, IInv, TypeOK, TransactionOK
<1>2. \A w \in Workspace : Remains(db, db, w) /\ Left(db, db, w) = {}
  BY DEF Remains, Left
<1>. QED
  BY <1>1, <1>2 DEF LockInv

LEMMA StartAccountDeletionKeepsLockInv ==
  ASSUME IInv, LockInv, NEW p \in Session, NEW r, StartAccountDeletion(p, r),
         UNCHANGED expired
  PROVE  LockInv'
<1>1. /\ \A q \in Session : /\ tx'[q].open = tx[q].open
                              /\ tx'[q].snapshot = tx[q].snapshot
                              /\ tx'[q].touched = tx[q].touched
      /\ db' = db /\ expired' = expired
  BY DEF StartAccountDeletion, IInv, TypeOK, TransactionOK
<1>. QED
  BY <1>1 DEF LockInv

(* More invitations are too late.                                          *)
LEMMA ExpireKeepsLockInv ==
  ASSUME LockInv, NEW i \in Invitation, Expire(i)
  PROVE  LockInv'
<1>1. /\ db' = db /\ tx' = tx /\ expired \subseteq expired'
  BY DEF Expire
<1>2. ASSUME NEW v, NEW w \in Workspace, WorkspaceOK(v, w, expired)
      PROVE  WorkspaceOK(v, w, expired')
  BY <1>1, <1>2 DEF WorkspaceOK
<1>3. \A w \in Workspace : WorkspaceOK(db, w, expired')
  BY <1>2 DEF LockInv
<1>4. \A p \in Session : tx[p].open =>
        \A w \in Workspace : WorkspaceOK(tx[p].snapshot, w, expired')
  BY <1>2 DEF LockInv
<1>. QED
  BY <1>1, <1>3, <1>4 DEF LockInv

-----------------------------------------------------------------------------
(*                     Views that respect the rule                         *)

(* Only accounts differ.                                                   *)
LEMMA QuietGoverned ==
  ASSUME NEW s, DatabaseOK(s), \A w \in Workspace : WorkspaceOK(s, w, expired),
         NEW after, NEW locked,
         \A w \in Workspace :
           /\ after[WorkspaceRow(w)] = s[WorkspaceRow(w)]
           /\ \A r \in RoleId : after[Role(w, r)] = s[Role(w, r)]
           /\ \A u \in User : after[Member(w, u)] = s[Member(w, u)],
         \A i \in Invitation : after[InvitationRow(i)] = s[InvitationRow(i)]
  PROVE  Governed(s, locked, after)
<1>1. ASSUME NEW w \in Workspace
      PROVE  Remains(after, s, w) /\ Left(after, s, w) = {}
  BY DEF Remains, Left, MemberIds, InvitationsOf, IsMember, Exists
<1>2. \A w \in Workspace : WorkspaceOK(after, w, expired)
  BY <1>1, RemainsOK
<1>. QED
  BY <1>1, <1>2 DEF Governed

(* Nothing but accounts and the rows of w differ.                          *)
Elsewhere(s, after, w) ==
  /\ \A x \in Workspace \ {w} :
       /\ after[WorkspaceRow(x)] = s[WorkspaceRow(x)]
       /\ \A r \in RoleId : after[Role(x, r)] = s[Role(x, r)]
       /\ \A u \in User : after[Member(x, u)] = s[Member(x, u)]
  /\ \A i \in Invitation : \/ after[InvitationRow(i)] = s[InvitationRow(i)]
                            \/ i \in InvitationsOf(after, w)
                            \/ ~Exists(after, InvitationRow(i))

LEMMA OneWorkspaceGoverned ==
  ASSUME NEW s, DatabaseOK(s), \A x \in Workspace : WorkspaceOK(s, x, expired),
         NEW after, NEW locked, NEW w \in Workspace,
         WorkspaceRow(w) \in locked \/ after[WorkspaceRow(w)] # s[WorkspaceRow(w)],
         WorkspaceOK(after, w, expired), Elsewhere(s, after, w)
  PROVE  Governed(s, locked, after)
<1>1. ASSUME NEW x \in Workspace, x # w
      PROVE  Remains(after, s, x) /\ Left(after, s, x) = {}
  <2>1. \A i \in InvitationsOf(after, x) : after[InvitationRow(i)] = s[InvitationRow(i)]
    BY <1>1 DEF Elsewhere, InvitationsOf
  <2>. QED
    BY <1>1, <2>1 DEF Elsewhere, Remains, Left, MemberIds, IsMember, Exists
<1>2. \A x \in Workspace : WorkspaceOK(after, x, expired)
  BY <1>1, RemainsOK
<1>. QED
  BY <1>1, <1>2 DEF Governed

(* A live workspace where roles stay, whoever gets a role gets one that    *)
(* exists, and no invitation is added.                                     *)
LEMMA KeepsReferences ==
  ASSUME NEW s, DatabaseOK(s), NEW w \in Workspace, NEW late, WorkspaceOK(s, w, late),
         NEW after, Live(after, w), Live(s, w),
         \A r \in RoleId : Exists(s, Role(w, r)) => Exists(after, Role(w, r)),
         \A u \in User : \/ after[Member(w, u)] = s[Member(w, u)]
                         \/ ~IsMember(after, w, u)
                         \/ Exists(after, Role(w, after[Member(w, u)])),
         \A i \in PendingOf(after, w) : after[InvitationRow(i)] = s[InvitationRow(i)]
  PROVE  WorkspaceOK(after, w, late)
<1>1. Exists(after, WorkspaceRow(w))
  BY DEF Live
<1>2. \A u \in MemberIds(after, w) : Exists(after, Role(w, after[Member(w, u)]))
  <2>1. ASSUME NEW u \in MemberIds(after, w), after[Member(w, u)] = s[Member(w, u)]
        PROVE  Exists(after, Role(w, after[Member(w, u)]))
    <3>1. u \in MemberIds(s, w) /\ s[Member(w, u)] \in RoleId
      BY <2>1 DEF MemberIds, IsMember, Exists, DatabaseOK
    <3>2. Exists(s, Role(w, s[Member(w, u)]))
      BY <3>1 DEF WorkspaceOK
    <3>. QED
      BY <2>1, <3>1, <3>2
  <2>. QED
    BY <2>1 DEF MemberIds
<1>3. \A i \in PendingOf(after, w) :
        i \in PendingOf(s, w) /\ after[InvitationRow(i)] = s[InvitationRow(i)]
  BY DEF PendingOf, InvitationsOf, Exists
<1>4. \A i \in PendingOf(after, w) : Configurable(after, w, after[InvitationRow(i)].role)
  <2>1. \A i \in PendingOf(s, w) : s[InvitationRow(i)].role \in RoleId
    BY DEF PendingOf, InvitationsOf, Exists, DatabaseOK, InvitationRecord
  <2>2. \A i \in PendingOf(s, w) : Configurable(s, w, s[InvitationRow(i)].role)
    BY DEF WorkspaceOK
  <2>. QED
    BY <1>3, <2>1, <2>2 DEF Configurable
<1>5. \A i, j \in PendingOf(after, w) \ late :
        after[InvitationRow(i)].email = after[InvitationRow(j)].email => i = j
  BY <1>3 DEF WorkspaceOK
<1>. QED
  BY <1>1, <1>2, <1>4, <1>5 DEF WorkspaceOK

(* What a use case reads keeps its references.                             *)
LEMMA OpenReferences ==
  ASSUME LockInv, NEW p \in Session, tx[p].open
  PROVE  \A w \in Workspace : WorkspaceOK(View(p), w, expired)
BY DEF LockInv, View

LEMMA QuietAttemptKeepsLockInv ==
  ASSUME IInv, IInv', LockInv, NEW p \in Session, tx[p].open, NEW r, NEW locked,
         locked \subseteq Row, NEW after,
         \A row \in Row : (\A u \in User : row # Account(u)) => after[row] = View(p)[row],
         Attempt(p, r, locked, after), UNCHANGED expired
  PROVE  LockInv'
<1>1. /\ \A w \in Workspace :
           /\ after[WorkspaceRow(w)] = View(p)[WorkspaceRow(w)]
           /\ \A x \in RoleId : after[Role(w, x)] = View(p)[Role(w, x)]
           /\ \A u \in User : after[Member(w, u)] = View(p)[Member(w, u)]
      /\ \A i \in Invitation : after[InvitationRow(i)] = View(p)[InvitationRow(i)]
  BY RowsExist, AccountRowDiffers
<1>2. Governed(View(p), locked, after)
  BY <1>1, OpenView, OpenReferences, QuietGoverned
<1>. QED
  BY <1>2, AttemptKeepsLockInv DEF Attempt, View

LEMMA LockedAttemptKeepsLockInv ==
  ASSUME IInv, IInv', LockInv, NEW p \in Session, tx[p].open, NEW r, NEW w \in Workspace,
         NEW after, WorkspaceOK(after, w, expired), Elsewhere(View(p), after, w),
         Attempt(p, r, {WorkspaceRow(w)}, after), UNCHANGED expired
  PROVE  LockInv'
<1>1. Governed(View(p), {WorkspaceRow(w)}, after)
  BY OpenView, OpenReferences, OneWorkspaceGoverned
<1>. QED
  BY <1>1, AttemptKeepsLockInv, RowsExist DEF Attempt, View

-----------------------------------------------------------------------------
(*                     The use cases, one by one                           *)

LEMMA EnsureAccountKeepsLockInv ==
  ASSUME IInv, IInv', LockInv, NEW p \in Session, NEW r \in Requests,
         EnsureAccount(p, r), UNCHANGED expired
  PROVE  LockInv'
<1>. DEFINE after == [View(p) EXCEPT ![Account(r.by)] = "profile_pending"]
<1>1. tx[p].open /\ r.by \in User /\ Attempt(p, r, {}, after)
  BY RequestFields DEF EnsureAccount, Sends, Serves
<1>2. \A row \in Row : (\A u \in User : row # Account(u)) => after[row] = View(p)[row]
  BY <1>1, OpenView DEF DatabaseOK
<1>. HIDE DEF after
<1>. QED
  BY <1>1, <1>2, QuietAttemptKeepsLockInv

LEMMA RenameProfileKeepsLockInv ==
  ASSUME IInv, IInv', LockInv, NEW p \in Session, NEW r \in Requests,
         RenameProfile(p, r), UNCHANGED expired
  PROVE  LockInv'
<1>1. PICK status : LET after == [View(p) EXCEPT ![Account(r.by)] = status] IN
        tx[p].open /\ r.by \in User /\ Attempt(p, r, {Account(r.by)}, after)
  BY RequestFields DEF RenameProfile, Sends, Serves
<1>. DEFINE after == [View(p) EXCEPT ![Account(r.by)] = status]
<1>2. \A row \in Row : (\A u \in User : row # Account(u)) => after[row] = View(p)[row]
  BY <1>1, OpenView DEF DatabaseOK
<1>. HIDE DEF after
<1>3. {Account(r.by)} \subseteq Row
  BY <1>1, RowsExist
<1>. QED
  BY <1>1, <1>2, <1>3, QuietAttemptKeepsLockInv DEF after

LEMMA UpdateWorkspaceKeepsLockInv ==
  ASSUME IInv, IInv', LockInv, NEW p \in Session, NEW r \in Requests,
         UpdateWorkspace(p, r), UNCHANGED expired
  PROVE  LockInv'
<1>1. Changes(p, r, "update", "workspace.update")
  BY DEF UpdateWorkspace
<1>2. tx[p].open /\ {WorkspaceRow(r.workspace)} \subseteq Row
  BY <1>1, ChangesFacts
<1>. QED
  BY <1>2, QuietAttemptKeepsLockInv DEF UpdateWorkspace, AttemptLocked

(* A role that is created, renamed or given other permissions exists.      *)
LEMMA RoleSet ==
  ASSUME NEW s, DatabaseOK(s), NEW w \in Workspace, NEW late, WorkspaceOK(s, w, late),
         Live(s, w), NEW role \in RoleId, NEW c \in RoleRecord, NEW after,
         after = [s EXCEPT ![Role(w, role)] = c]
  PROVE  WorkspaceOK(after, w, late) /\ Elsewhere(s, after, w)
<1>1. \A row \in Row : after[row] = IF row = Role(w, role) THEN c ELSE s[row]
  BY SetRow DEF DatabaseOK
<1>2. c \notin {Absent, Gone}
  BY RowContentsAssumption
<1>3. /\ \A x \in Workspace : after[WorkspaceRow(x)] = s[WorkspaceRow(x)]
      /\ \A x \in Workspace, u \in User : after[Member(x, u)] = s[Member(x, u)]
      /\ \A i \in Invitation : after[InvitationRow(i)] = s[InvitationRow(i)]
      /\ \A x \in Workspace, y \in RoleId : after[Role(x, y)] =
           IF x = w /\ y = role THEN c ELSE s[Role(x, y)]
  BY <1>1, RowsExist, RoleRowDiffers
<1>4. Live(after, w)
  BY <1>3 DEF Live, Exists
<1>5. \A y \in RoleId : Exists(s, Role(w, y)) => Exists(after, Role(w, y))
  BY <1>2, <1>3 DEF Exists
<1>6. \A i \in PendingOf(after, w) : after[InvitationRow(i)] = s[InvitationRow(i)]
  BY <1>3 DEF PendingOf, InvitationsOf
<1>7. WorkspaceOK(after, w, late)
  BY <1>3, <1>4, <1>5, <1>6, KeepsReferences
<1>8. Elsewhere(s, after, w)
  BY <1>3 DEF Elsewhere
<1>. QED
  BY <1>7, <1>8

LEMMA CreateRoleKeepsLockInv ==
  ASSUME IInv, IInv', LockInv, NEW p \in Session, NEW r \in Requests,
         CreateRole(p, r), UNCHANGED expired
  PROVE  LockInv'
<1>. DEFINE c == [name |-> r.name, system |-> FALSE, permissions |-> {}]
            after(role) == [View(p) EXCEPT ![Role(r.workspace, role)] = c]
<1>1. PICK role \in SpareRole : AttemptLocked(p, r, after(role))
  BY DEF CreateRole
<1>2. Changes(p, r, "create_role", "roles.manage")
  BY DEF CreateRole
<1>3. /\ tx[p].open /\ r.call = "create_role" /\ r.workspace \in Workspace
      /\ Live(View(p), r.workspace)
  BY <1>2, ChangesFacts
<1>4. c \in RoleRecord /\ role \in RoleId
  BY <1>3, RequestFields DEF RoleRecord, RoleId
<1>. HIDE DEF c
<1>5. WorkspaceOK(after(role), r.workspace, expired)
      /\ Elsewhere(View(p), after(role), r.workspace)
  BY <1>3, <1>4, OpenView, OpenReferences, RoleSet
<1>6. Attempt(p, r, {WorkspaceRow(r.workspace)}, after(role))
  BY <1>1 DEF AttemptLocked
<1>. HIDE DEF after
<1>. QED
  BY <1>3, <1>5, <1>6, LockedAttemptKeepsLockInv

LEMMA RenameRoleKeepsLockInv ==
  ASSUME IInv, IInv', LockInv, NEW p \in Session, NEW r \in Requests,
         RenameRole(p, r), UNCHANGED expired
  PROVE  LockInv'
<1>. DEFINE old == View(p)[Role(r.workspace, r.role)]
            c == [old EXCEPT !.name = r.name]
            after == [View(p) EXCEPT ![Role(r.workspace, r.role)] = c]
<1>1. Changes(p, r, "rename_role", "roles.manage")
  BY DEF RenameRole
<1>2. /\ tx[p].open /\ r.call = "rename_role" /\ r.workspace \in Workspace
      /\ Live(View(p), r.workspace)
  BY <1>1, ChangesFacts
<1>3. r.role \in RoleId /\ r.name \in RoleName
  BY <1>2, RequestFields
<1>4. old \in RoleRecord
  BY <1>2, <1>3, OpenView DEF RenameRole, Configurable, Exists, DatabaseOK
<1>5. c \in RoleRecord
  BY <1>3, <1>4 DEF RoleRecord
<1>6. Attempt(p, r, {WorkspaceRow(r.workspace)}, after)
  BY DEF RenameRole, AttemptLocked
<1>. HIDE DEF c
<1>7. WorkspaceOK(after, r.workspace, expired) /\ Elsewhere(View(p), after, r.workspace)
  BY <1>2, <1>3, <1>5, OpenView, OpenReferences, RoleSet
<1>. HIDE DEF after
<1>. QED
  BY <1>2, <1>6, <1>7, LockedAttemptKeepsLockInv

LEMMA SetPermissionsKeepsLockInv ==
  ASSUME IInv, IInv', LockInv, NEW p \in Session, NEW r \in Requests,
         SetPermissions(p, r), UNCHANGED expired
  PROVE  LockInv'
<1>. DEFINE old == View(p)[Role(r.workspace, r.role)]
            c == [old EXCEPT !.permissions = r.permissions]
            after == [View(p) EXCEPT ![Role(r.workspace, r.role)] = c]
<1>1. Changes(p, r, "set_permissions", "roles.manage")
  BY DEF SetPermissions
<1>2. /\ tx[p].open /\ r.call = "set_permissions" /\ r.workspace \in Workspace
      /\ Live(View(p), r.workspace)
  BY <1>1, ChangesFacts
<1>3. r.role \in RoleId /\ r.permissions \in SUBSET Permission
  BY <1>2, RequestFields
<1>4. old \in RoleRecord
  BY <1>2, <1>3, OpenView DEF SetPermissions, Configurable, Exists, DatabaseOK
<1>5. c \in RoleRecord
  BY <1>3, <1>4 DEF RoleRecord
<1>6. Attempt(p, r, {WorkspaceRow(r.workspace)}, after)
  BY DEF SetPermissions, AttemptLocked
<1>. HIDE DEF c
<1>7. WorkspaceOK(after, r.workspace, expired) /\ Elsewhere(View(p), after, r.workspace)
  BY <1>2, <1>3, <1>5, OpenView, OpenReferences, RoleSet
<1>. HIDE DEF after
<1>. QED
  BY <1>2, <1>6, <1>7, LockedAttemptKeepsLockInv

(* Nobody holds a role that is deleted, and its invitations go with it.    *)
LEMMA DeleteRoleKeepsLockInv ==
  ASSUME IInv, IInv', LockInv, NEW p \in Session, NEW r \in Requests,
         DeleteRole(p, r), UNCHANGED expired
  PROVE  LockInv'
<1>. DEFINE s == View(p)
            w == r.workspace
            stale == {i \in InvitationsOf(s, w) : s[InvitationRow(i)].role = r.role}
            rows == {Role(w, r.role)} \cup {InvitationRow(i) : i \in stale}
            after == Put(s, rows, Gone)
<1>1. Changes(p, r, "delete_role", "roles.manage")
  BY DEF DeleteRole
<1>2. /\ tx[p].open /\ w \in Workspace /\ Live(s, w)
  BY <1>1, ChangesFacts
<1>3. Attempt(p, r, {WorkspaceRow(w)}, after)
  BY DEF DeleteRole, AttemptLocked
<1>4. DatabaseOK(s) /\ WorkspaceOK(s, w, expired)
  BY <1>2, OpenView, OpenReferences
<1>5. \A row \in Row : after[row] = IF row \in rows THEN Gone ELSE s[row]
  BY <1>4, PutRow DEF DatabaseOK
<1>6. /\ \A x : WorkspaceRow(x) \notin rows
      /\ \A x, y : Member(x, y) \notin rows
      /\ \A x, y : Role(x, y) \in rows <=> x = w /\ y = r.role
      /\ \A x : InvitationRow(x) \in rows <=> x \in stale
  BY WorkspaceRowDiffers, MemberRowDiffers, RoleRowDiffers, InvitationRowDiffers
<1>. HIDE DEF rows, after
<1>7. /\ \A x \in Workspace : after[WorkspaceRow(x)] = s[WorkspaceRow(x)]
      /\ \A x \in Workspace, u \in User : after[Member(x, u)] = s[Member(x, u)]
      /\ \A i \in Invitation : after[InvitationRow(i)] =
           IF i \in stale THEN Gone ELSE s[InvitationRow(i)]
      /\ \A x \in Workspace, y \in RoleId : after[Role(x, y)] =
           IF x = w /\ y = r.role THEN Gone ELSE s[Role(x, y)]
  BY <1>5, <1>6, RowsExist
<1>8. Live(after, w)
  BY <1>2, <1>7 DEF Live, Exists
<1>9. \A u \in User : s[Member(w, u)] # r.role
  BY DEF DeleteRole, IsInUse
<1>10. \A u \in MemberIds(after, w) : Exists(after, Role(w, after[Member(w, u)]))
  <2>1. ASSUME NEW u \in MemberIds(after, w)
        PROVE  Exists(after, Role(w, after[Member(w, u)]))
    <3>1. /\ u \in MemberIds(s, w) /\ u \in User
          /\ after[Member(w, u)] = s[Member(w, u)] /\ s[Member(w, u)] \in RoleId
      BY <1>2, <1>4, <1>7 DEF MemberIds, IsMember, Exists, DatabaseOK
    <3>2. Exists(s, Role(w, s[Member(w, u)]))
      BY <1>4, <3>1 DEF WorkspaceOK
    <3>. QED
      BY <1>2, <1>7, <1>9, <3>1, <3>2 DEF Exists
  <2>. QED
    BY <2>1
<1>11. \A i \in PendingOf(after, w) :
         /\ i \in PendingOf(s, w) /\ after[InvitationRow(i)] = s[InvitationRow(i)]
         /\ s[InvitationRow(i)].role # r.role
  BY <1>7 DEF PendingOf, InvitationsOf, Exists
<1>12. \A i \in PendingOf(after, w) : Configurable(after, w, after[InvitationRow(i)].role)
  <2>1. \A i \in PendingOf(s, w) : s[InvitationRow(i)].role \in RoleId
    BY <1>4 DEF PendingOf, InvitationsOf, Exists, DatabaseOK, InvitationRecord
  <2>2. \A i \in PendingOf(s, w) : Configurable(s, w, s[InvitationRow(i)].role)
    BY <1>4 DEF WorkspaceOK
  <2>. QED
    BY <1>2, <1>7, <1>11, <2>1, <2>2 DEF Configurable, Exists
<1>13. WorkspaceOK(after, w, expired)
  <2>1. \A i, j \in PendingOf(after, w) \ expired :
          after[InvitationRow(i)].email = after[InvitationRow(j)].email => i = j
    BY <1>4, <1>11 DEF WorkspaceOK
  <2>2. Exists(after, WorkspaceRow(w))
    BY <1>8 DEF Live
  <2>. QED
    BY <1>8, <1>10, <1>12, <2>1, <2>2 DEF WorkspaceOK
<1>14. Elsewhere(s, after, w)
  BY <1>7 DEF Elsewhere, Exists
<1>. QED
  BY <1>2, <1>3, <1>13, <1>14, LockedAttemptKeepsLockInv

(* Whoever is invited can accept, and holds no other offer that has not    *)
(* expired.                                                                *)
LEMMA InviteKeepsLockInv ==
  ASSUME IInv, IInv', LockInv, NEW p \in Session, NEW r \in Requests,
         Invite(p, r), UNCHANGED expired
  PROVE  LockInv'
<1>. DEFINE s == View(p)
            w == r.workspace
            c == [status |-> "pending", workspace |-> w, email |-> r.email,
                  role |-> r.role, invited_by |-> r.by]
            after(i) == [s EXCEPT ![InvitationRow(i)] = c]
<1>1. PICK i \in Invitation : AttemptLocked(p, r, after(i))
  BY DEF Invite
<1>. DEFINE view == after(i)
<1>2. Changes(p, r, "invite", "members.invite")
  BY DEF Invite
<1>3. /\ tx[p].open /\ r.call = "invite" /\ r.by \in User /\ w \in Workspace /\ Live(s, w)
  BY <1>2, ChangesFacts
<1>4. c \in InvitationRecord /\ c.workspace = w /\ c.email = r.email /\ c.role = r.role
  BY <1>3, RequestFields DEF InvitationRecord
<1>5. Attempt(p, r, {WorkspaceRow(w)}, view)
  BY <1>1 DEF AttemptLocked
<1>6. Configurable(s, w, r.role) /\ ~HasPending(s, w, r.email) /\ r.role \in RoleId
  BY <1>3, RequestFields DEF Invite
<1>7. DatabaseOK(s) /\ WorkspaceOK(s, w, expired)
  BY <1>3, OpenView, OpenReferences
<1>8. c \notin {Absent, Gone}
  BY <1>4, RowContentsAssumption
<1>. HIDE DEF c
<1>9. \A row \in Row : view[row] = IF row = InvitationRow(i) THEN c ELSE s[row]
  BY <1>7, SetRow DEF DatabaseOK
<1>. HIDE DEF view, after
<1>10. /\ \A x \in Workspace : view[WorkspaceRow(x)] = s[WorkspaceRow(x)]
       /\ \A x \in Workspace, y \in RoleId : view[Role(x, y)] = s[Role(x, y)]
       /\ \A x \in Workspace, u \in User : view[Member(x, u)] = s[Member(x, u)]
       /\ \A x \in Invitation : view[InvitationRow(x)] =
            IF x = i THEN c ELSE s[InvitationRow(x)]
  BY <1>9, RowsExist, InvitationRowDiffers
<1>11. Live(view, w) /\ Exists(view, WorkspaceRow(w))
  BY <1>3, <1>10 DEF Live, Exists
<1>12. \A u \in MemberIds(view, w) : Exists(view, Role(w, view[Member(w, u)]))
  <2>1. ASSUME NEW u \in MemberIds(view, w)
        PROVE  Exists(view, Role(w, view[Member(w, u)]))
    <3>1. /\ u \in MemberIds(s, w) /\ s[Member(w, u)] \in RoleId
          /\ view[Member(w, u)] = s[Member(w, u)]
      BY <1>3, <1>7, <1>10 DEF MemberIds, IsMember, Exists, DatabaseOK
    <3>2. Exists(s, Role(w, s[Member(w, u)]))
      BY <1>7, <3>1 DEF WorkspaceOK
    <3>. QED
      BY <1>3, <1>10, <3>1, <3>2 DEF Exists
  <2>. QED
    BY <2>1
<1>13. \A x \in PendingOf(view, w) : x # i =>
         x \in PendingOf(s, w) /\ view[InvitationRow(x)] = s[InvitationRow(x)]
  BY <1>10 DEF PendingOf, InvitationsOf, Exists
<1>14. ASSUME NEW x \in PendingOf(view, w)
       PROVE  Configurable(view, w, view[InvitationRow(x)].role)
  <2>1. CASE x = i
    BY <1>3, <1>4, <1>6, <1>10, <2>1 DEF Configurable, Exists
  <2>2. CASE x # i
    <3>1. Configurable(s, w, s[InvitationRow(x)].role) /\ s[InvitationRow(x)].role \in RoleId
      BY <1>7, <1>13, <2>2
         DEF WorkspaceOK, PendingOf, InvitationsOf, Exists, DatabaseOK, InvitationRecord
    <3>. QED
      BY <1>3, <1>10, <1>13, <2>2, <3>1 DEF Configurable, Exists
  <2>. QED
    BY <2>1, <2>2
<1>15. ASSUME NEW x \in PendingOf(view, w) \ expired, x # i
       PROVE  view[InvitationRow(x)].email # r.email
  <2>1. x \in PendingOf(s, w) \ expired /\ view[InvitationRow(x)] = s[InvitationRow(x)]
    BY <1>13, <1>15
  <2>. QED
    BY <1>6, <2>1 DEF HasPending
<1>16. \A x, y \in PendingOf(view, w) \ expired :
         view[InvitationRow(x)].email = view[InvitationRow(y)].email => x = y
  <2>1. view[InvitationRow(i)].email = r.email
    BY <1>4, <1>10
  <2>2. ASSUME NEW x \in PendingOf(view, w) \ expired, NEW y \in PendingOf(view, w) \ expired,
               view[InvitationRow(x)].email = view[InvitationRow(y)].email, x # i, y # i
        PROVE  x = y
    BY <1>7, <1>13, <2>2 DEF WorkspaceOK
  <2>. QED
    BY <1>15, <2>1, <2>2
<1>17. WorkspaceOK(view, w, expired)
  BY <1>11, <1>12, <1>14, <1>16 DEF WorkspaceOK
<1>18. Elsewhere(s, view, w)
  <2>1. \A x \in Invitation : \/ view[InvitationRow(x)] = s[InvitationRow(x)]
                              \/ x \in InvitationsOf(view, w)
    BY <1>4, <1>8, <1>10 DEF InvitationsOf, Exists
  <2>. QED
    BY <1>10, <2>1 DEF Elsewhere
<1>. QED
  BY <1>3, <1>5, <1>17, <1>18, LockedAttemptKeepsLockInv

LEMMA RevokeInvitationKeepsLockInv ==
  ASSUME IInv, IInv', LockInv, NEW p \in Session, NEW r \in Requests,
         RevokeInvitation(p, r), UNCHANGED expired
  PROVE  LockInv'
<1>. DEFINE s == View(p)
            w == r.workspace
            i == r.invitation
            c == [s[InvitationRow(i)] EXCEPT !.status = "revoked"]
            after == [s EXCEPT ![InvitationRow(i)] = c]
<1>1. Changes(p, r, "revoke_invitation", "invitations.revoke")
  BY DEF RevokeInvitation
<1>2. /\ tx[p].open /\ r.call = "revoke_invitation" /\ w \in Workspace /\ Live(s, w)
  BY <1>1, ChangesFacts
<1>3. i \in Invitation /\ i \in InvitationsOf(s, w)
  BY <1>2, RequestFields DEF RevokeInvitation
<1>4. Attempt(p, r, {WorkspaceRow(w)}, after)
  BY DEF RevokeInvitation, AttemptLocked
<1>5. DatabaseOK(s) /\ WorkspaceOK(s, w, expired)
  BY <1>2, OpenView, OpenReferences
<1>6. s[InvitationRow(i)] \in InvitationRecord
  BY <1>3, <1>5 DEF InvitationsOf, Exists, DatabaseOK
<1>7. c \in InvitationRecord /\ c.status = "revoked" /\ c.workspace = w
  BY <1>3, <1>6 DEF InvitationRecord, InvitationsOf
<1>8. c \notin {Absent, Gone}
  BY <1>7, RowContentsAssumption
<1>. HIDE DEF c
<1>9. \A row \in Row : after[row] = IF row = InvitationRow(i) THEN c ELSE s[row]
  BY <1>5, SetRow DEF DatabaseOK
<1>. HIDE DEF after
<1>10. /\ \A x \in Workspace : after[WorkspaceRow(x)] = s[WorkspaceRow(x)]
       /\ \A x \in Workspace, y \in RoleId : after[Role(x, y)] = s[Role(x, y)]
       /\ \A x \in Workspace, u \in User : after[Member(x, u)] = s[Member(x, u)]
       /\ \A x \in Invitation : after[InvitationRow(x)] =
            IF x = i THEN c ELSE s[InvitationRow(x)]
  BY <1>9, RowsExist, InvitationRowDiffers
<1>11. Live(after, w)
  BY <1>2, <1>10 DEF Live, Exists
<1>12. \A x \in PendingOf(after, w) : after[InvitationRow(x)] = s[InvitationRow(x)]
  BY <1>7, <1>10 DEF PendingOf, InvitationsOf
<1>13. WorkspaceOK(after, w, expired)
  <2>1. \A y \in RoleId : Exists(s, Role(w, y)) => Exists(after, Role(w, y))
    BY <1>2, <1>10 DEF Exists
  <2>2. \A u \in User : after[Member(w, u)] = s[Member(w, u)]
    BY <1>2, <1>10
  <2>. QED
    BY <1>2, <1>5, <1>11, <1>12, <2>1, <2>2, KeepsReferences
<1>14. Elsewhere(s, after, w)
  <2>1. i \in InvitationsOf(after, w)
    BY <1>3, <1>7, <1>8, <1>10 DEF InvitationsOf, Exists
  <2>. QED
    BY <1>10, <2>1 DEF Elsewhere
<1>. QED
  BY <1>2, <1>4, <1>13, <1>14, LockedAttemptKeepsLockInv

(* The view of somebody who joins, row by row.                             *)
LEMMA JoinedRows ==
  ASSUME NEW v, DatabaseOK(v), NEW i \in Invitation, NEW u \in User, CanJoin(v, i, u)
  PROVE  LET after == Joined(v, i, u)
             w == v[InvitationRow(i)].workspace
             role == v[InvitationRow(i)].role
         IN /\ w \in Workspace /\ role \in RoleId
            /\ \A row \in Row : row # Account(u) => after[row] =
                 IF row = InvitationRow(i) THEN [v[InvitationRow(i)] EXCEPT !.status = "accepted"]
                 ELSE IF row = Member(w, u) THEN role ELSE v[row]
<1>. DEFINE w == v[InvitationRow(i)].workspace
            role == v[InvitationRow(i)].role
            settled == [v[InvitationRow(i)] EXCEPT !.status = "accepted"]
            account == IF v[Account(u)] = "workspace_pending" THEN "completed"
                       ELSE v[Account(u)]
            after == [[[v EXCEPT ![InvitationRow(i)] = settled]
                          EXCEPT ![Member(w, u)] = role]
                          EXCEPT ![Account(u)] = account]
<1>1. v[InvitationRow(i)] \in InvitationRecord
  BY DEF CanJoin, Usable, Exists, DatabaseOK
<1>2. w \in Workspace /\ role \in RoleId
  BY <1>1 DEF InvitationRecord
<1>3. Joined(v, i, u) = after
  <2>1. Account(u) # InvitationRow(i) /\ Account(u) # Member(w, u)
    BY RowsDiffer
  <2>. QED
    BY <2>1 DEF Joined
<1>4. Member(w, u) # InvitationRow(i) /\ DOMAIN v = Row
  BY RowsDiffer DEF DatabaseOK
<1>. HIDE DEF settled, account, role
<1>5. \A row \in Row : row # Account(u) => after[row] =
        IF row = InvitationRow(i) THEN settled ELSE IF row = Member(w, u) THEN role ELSE v[row]
  BY <1>4
<1>. HIDE DEF after, w
<1>. QED
  BY <1>2, <1>3, <1>5 DEF w, role, settled

(* Whoever joins gets a role that exists, and the offer is settled.        *)
LEMMA JoinedReferences ==
  ASSUME NEW v, DatabaseOK(v), NEW i \in Invitation, NEW u \in User, CanJoin(v, i, u),
         NEW late, NEW w \in Workspace, v[InvitationRow(i)].workspace = w,
         WorkspaceOK(v, w, late)
  PROVE  WorkspaceOK(Joined(v, i, u), w, late) /\ Elsewhere(v, Joined(v, i, u), w)
<1>. DEFINE role == v[InvitationRow(i)].role
            settled == [v[InvitationRow(i)] EXCEPT !.status = "accepted"]
            after == Joined(v, i, u)
<1>1. /\ role \in RoleId
      /\ \A row \in Row : row # Account(u) => after[row] =
           IF row = InvitationRow(i) THEN settled ELSE IF row = Member(w, u) THEN role ELSE v[row]
  BY JoinedRows
<1>2. /\ Live(v, w) /\ Exists(v, Role(w, role)) /\ v[InvitationRow(i)] \in InvitationRecord
  BY DEF CanJoin, Configurable, Usable, Exists, DatabaseOK
<1>3. settled \in InvitationRecord /\ settled.status = "accepted" /\ settled.workspace = w
  BY <1>2 DEF InvitationRecord
<1>4. settled \notin {Absent, Gone}
  BY <1>3, RowContentsAssumption
<1>. HIDE DEF settled, after, role
<1>5. /\ \A x \in Workspace : after[WorkspaceRow(x)] = v[WorkspaceRow(x)]
      /\ \A x \in Workspace, y \in RoleId : after[Role(x, y)] = v[Role(x, y)]
  BY <1>1, RowsExist, WorkspaceRowDiffers, RoleRowDiffers
<1>6. /\ \A x \in Workspace, y \in User : after[Member(x, y)] =
           IF x = w /\ y = u THEN role ELSE v[Member(x, y)]
      /\ \A x \in Invitation : after[InvitationRow(x)] =
           IF x = i THEN settled ELSE v[InvitationRow(x)]
  BY <1>1, RowsExist, MemberRowDiffers, InvitationRowDiffers
<1>7. Live(after, w)
  BY <1>2, <1>5 DEF Live, Exists
<1>8. WorkspaceOK(after, w, late)
  <2>1. \A y \in RoleId : Exists(v, Role(w, y)) => Exists(after, Role(w, y))
    BY <1>5 DEF Exists
  <2>2. \A y \in User : after[Member(w, y)] = v[Member(w, y)]
                        \/ Exists(after, Role(w, after[Member(w, y)]))
    BY <1>1, <1>2, <1>6, <2>1
  <2>3. \A x \in PendingOf(after, w) : after[InvitationRow(x)] = v[InvitationRow(x)]
    BY <1>3, <1>6 DEF PendingOf, InvitationsOf
  <2>. QED
    BY <1>2, <1>7, <2>1, <2>2, <2>3, KeepsReferences
<1>9. Elsewhere(v, after, w)
  <2>1. i \in InvitationsOf(after, w)
    BY <1>3, <1>4, <1>6 DEF InvitationsOf, Exists
  <2>. QED
    BY <1>5, <1>6, <2>1 DEF Elsewhere
<1>. QED
  BY <1>8, <1>9 DEF after

LEMMA AcceptInvitationKeepsLockInv ==
  ASSUME IInv, IInv', LockInv, NEW p \in Session, NEW r \in Requests,
         AcceptInvitation(p, r), UNCHANGED expired
  PROVE  LockInv'
<1>. DEFINE w == View(p)[InvitationRow(r.invitation)].workspace
            after == Joined(View(p), r.invitation, r.by)
<1>1. /\ tx[p].open /\ r.by \in User /\ r.invitation \in Invitation
      /\ CanJoin(View(p), r.invitation, r.by)
      /\ Attempt(p, r, LocksToJoin(View(p), r.invitation, r.by), after)
  BY RequestFields DEF AcceptInvitation, Sends, Serves
<1>2. DatabaseOK(View(p)) /\ w \in Workspace
  BY <1>1, OpenView, JoinedRows
<1>3. LocksToJoin(View(p), r.invitation, r.by) = {WorkspaceRow(w)}
  BY <1>1, <1>2, JoinLocks
<1>4. WorkspaceOK(View(p), w, expired)
  BY <1>1, <1>2, OpenReferences
<1>5. WorkspaceOK(after, w, expired) /\ Elsewhere(View(p), after, w)
  BY <1>1, <1>2, <1>4, JoinedReferences
<1>. HIDE DEF after, w
<1>. QED
  BY <1>1, <1>2, <1>3, <1>5, LockedAttemptKeepsLockInv

(* Views that differ in accounts only.                                     *)
SameButAccounts(v, after) ==
  /\ \A w \in Workspace :
       /\ after[WorkspaceRow(w)] = v[WorkspaceRow(w)]
       /\ \A x \in RoleId : after[Role(w, x)] = v[Role(w, x)]
       /\ \A u \in User : after[Member(w, u)] = v[Member(w, u)]
  /\ \A i \in Invitation : after[InvitationRow(i)] = v[InvitationRow(i)]

LEMMA SameButAccountsIf ==
  ASSUME NEW v, NEW after,
         \A row \in Row : (\A u \in User : row # Account(u)) => after[row] = v[row]
  PROVE  SameButAccounts(v, after)
BY RowsExist, AccountRowDiffers DEF SameButAccounts

LEMMA SameButAccountsReferences ==
  ASSUME NEW v, DatabaseOK(v), NEW after, SameButAccounts(v, after), NEW w \in Workspace,
         NEW late, WorkspaceOK(v, w, late)
  PROVE  WorkspaceOK(after, w, late)
<1>1. Remains(after, v, w)
  BY DEF SameButAccounts, Remains, MemberIds, InvitationsOf
<1>. QED
  BY <1>1, RemainsOK

LEMMA SameButAccountsElsewhere ==
  ASSUME NEW v, NEW before, NEW after, NEW w \in Workspace
  PROVE  /\ SameButAccounts(v, before) /\ Elsewhere(before, after, w) => Elsewhere(v, after, w)
         /\ SameButAccounts(before, after) /\ Elsewhere(v, before, w) => Elsewhere(v, after, w)
<1>1. SameButAccounts(v, before) /\ Elsewhere(before, after, w) => Elsewhere(v, after, w)
  BY DEF SameButAccounts, Elsewhere
<1>2. SameButAccounts(before, after) /\ Elsewhere(v, before, w) => Elsewhere(v, after, w)
  BY DEF SameButAccounts, Elsewhere, InvitationsOf, Exists
<1>. QED
  BY <1>1, <1>2

LEMMA RegisterKeepsLockInv ==
  ASSUME IInv, IInv', LockInv, NEW p \in Session, NEW r \in Requests,
         Register(p, r), UNCHANGED expired
  PROVE  LockInv'
<1>. DEFINE s == View(p)
            account == IF r.named THEN "workspace_pending" ELSE "profile_pending"
            created == IF Registered(s, r.by) THEN s ELSE [s EXCEPT ![Account(r.by)] = account]
            joins == r.invitation # NoInvitation /\ CanJoin(created, r.invitation, r.by)
            w == created[InvitationRow(r.invitation)].workspace
            after == Joined(created, r.invitation, r.by)
            locks == LocksToJoin(created, r.invitation, r.by)
<1>1. /\ tx[p].open /\ r.by \in User /\ r.invitation \in Invitation \cup {NoInvitation}
      /\ Attempt(p, r, locks, IF joins THEN after ELSE created)
  BY RequestFields DEF Register, Sends, Serves
<1>2. account \in Status
  BY DEF Status
<1>. HIDE DEF account
<1>3. DatabaseOK(s) /\ \A x \in Workspace : WorkspaceOK(s, x, expired)
  BY <1>1, OpenView, OpenReferences
<1>4. DatabaseOK(created)
  BY <1>1, <1>2, <1>3, SetAccount
<1>5. \A row \in Row : (\A u \in User : row # Account(u)) => created[row] = s[row]
  BY <1>1, <1>3 DEF DatabaseOK
<1>. HIDE DEF created
<1>6. SameButAccounts(s, created)
  BY <1>5, SameButAccountsIf
<1>7. CASE joins
  <2>1. r.invitation \in Invitation
    BY <1>1, <1>7
  <2>2. w \in Workspace
    BY <1>1, <1>4, <1>7, <2>1, JoinedRows
  <2>3. WorkspaceOK(created, w, expired)
    BY <1>3, <1>6, <2>2, SameButAccountsReferences
  <2>4. WorkspaceOK(after, w, expired) /\ Elsewhere(created, after, w)
    BY <1>1, <1>4, <1>7, <2>1, <2>2, <2>3, JoinedReferences
  <2>5. Elsewhere(s, after, w)
    BY <1>6, <2>2, <2>4, SameButAccountsElsewhere
  <2>6. Attempt(p, r, {WorkspaceRow(w)}, after)
    BY <1>1, <1>7, <2>1, <2>2, JoinLocks
  <2>. HIDE DEF after, w, joins, locks
  <2>. QED
    BY <1>1, <2>2, <2>4, <2>5, <2>6, LockedAttemptKeepsLockInv
<1>8. CASE ~joins
  <2>1. Attempt(p, r, locks, created) /\ locks \subseteq Row
    BY <1>1, <1>8, JoinLocks
  <2>. HIDE DEF joins, locks
  <2>. QED
    BY <1>1, <1>5, <2>1, QuietAttemptKeepsLockInv
<1>. QED
  BY <1>7, <1>8

LEMMA SetMemberRoleKeepsLockInv ==
  ASSUME IInv, IInv', LockInv, NEW p \in Session, NEW r \in Requests,
         SetMemberRole(p, r), UNCHANGED expired
  PROVE  LockInv'
<1>. DEFINE s == View(p)
            w == r.workspace
            after == [s EXCEPT ![Member(w, r.member)] = r.role]
<1>1. Changes(p, r, "set_member_role", "roles.manage")
  BY DEF SetMemberRole
<1>2. /\ tx[p].open /\ r.call = "set_member_role" /\ w \in Workspace /\ Live(s, w)
  BY <1>1, ChangesFacts
<1>3. r.member \in User /\ r.role \in RoleId
  BY <1>2, RequestFields
<1>4. Exists(s, Role(w, r.role)) /\ Attempt(p, r, {WorkspaceRow(w)}, after)
  BY DEF SetMemberRole, Configurable, AttemptLocked
<1>5. DatabaseOK(s) /\ WorkspaceOK(s, w, expired)
  BY <1>2, OpenView, OpenReferences
<1>6. \A row \in Row : after[row] = IF row = Member(w, r.member) THEN r.role ELSE s[row]
  BY <1>5, SetRow DEF DatabaseOK
<1>. HIDE DEF after
<1>7. /\ \A x \in Workspace : after[WorkspaceRow(x)] = s[WorkspaceRow(x)]
      /\ \A x \in Workspace, y \in RoleId : after[Role(x, y)] = s[Role(x, y)]
      /\ \A x \in Workspace, y \in User : after[Member(x, y)] =
           IF x = w /\ y = r.member THEN r.role ELSE s[Member(x, y)]
      /\ \A x \in Invitation : after[InvitationRow(x)] = s[InvitationRow(x)]
  BY <1>6, RowsExist, MemberRowDiffers
<1>8. Live(after, w)
  BY <1>2, <1>7 DEF Live, Exists
<1>9. WorkspaceOK(after, w, expired)
  <2>1. \A y \in RoleId : Exists(s, Role(w, y)) => Exists(after, Role(w, y))
    BY <1>2, <1>7 DEF Exists
  <2>2. \A y \in User : after[Member(w, y)] = s[Member(w, y)]
                        \/ Exists(after, Role(w, after[Member(w, y)]))
    BY <1>2, <1>3, <1>4, <1>7, <2>1
  <2>3. \A x \in PendingOf(after, w) : after[InvitationRow(x)] = s[InvitationRow(x)]
    BY <1>7 DEF PendingOf, InvitationsOf
  <2>. QED
    BY <1>2, <1>5, <1>8, <2>1, <2>2, <2>3, KeepsReferences
<1>10. Elsewhere(s, after, w)
  BY <1>7 DEF Elsewhere
<1>. QED
  BY <1>2, <1>4, <1>9, <1>10, LockedAttemptKeepsLockInv

(* Sending people back changes accounts only.                              *)
LEMMA ReturnRows ==
  ASSUME NEW v, DatabaseOK(v), NEW us \in SUBSET User
  PROVE  SameButAccounts(v, ReturnToWorkspaceStep(v, us))
<1>. DEFINE rows == {Account(u) : u \in {x \in us : v[Account(x)] = "completed" /\ ~BelongsToAny(v, x)}}
            after == Put(v, rows, "workspace_pending")
<1>1. \A row \in Row : row \notin rows => after[row] = v[row]
  BY PutRow DEF DatabaseOK
<1>2. \A row \in rows : \E u \in User : row = Account(u)
  OBVIOUS
<1>. HIDE DEF rows, after
<1>3. SameButAccounts(v, after)
  BY <1>1, <1>2, SameButAccountsIf
<1>. QED
  BY <1>3 DEF ReturnToWorkspaceStep, after, rows

LEMMA RemoveMemberKeepsLockInv ==
  ASSUME IInv, IInv', LockInv, NEW p \in Session, NEW r \in Requests,
         RemoveMember(p, r), UNCHANGED expired
  PROVE  LockInv'
<1>. DEFINE s == View(p)
            w == r.workspace
            removed == RemoveMembers(s, w, {r.member})
            after == ReturnToWorkspaceStep(removed, {r.member})
<1>1. Changes(p, r, "remove_member", "members.remove")
  BY DEF RemoveMember
<1>2. /\ tx[p].open /\ r.call = "remove_member" /\ w \in Workspace /\ Live(s, w)
  BY <1>1, ChangesFacts
<1>3. r.member \in User
  BY <1>2, RequestFields
<1>4. Attempt(p, r, {WorkspaceRow(w)}, after)
  BY DEF RemoveMember, AttemptLocked
<1>5. DatabaseOK(s) /\ WorkspaceOK(s, w, expired)
  BY <1>2, OpenView, OpenReferences
<1>6. DatabaseOK(removed)
  BY <1>2, <1>5, RemovedMembersView
<1>7. \A row \in Row : removed[row] = IF row = Member(w, r.member) THEN Absent ELSE s[row]
  BY <1>5, PutRow DEF DatabaseOK, RemoveMembers
<1>. HIDE DEF removed
<1>8. /\ \A x \in Workspace : removed[WorkspaceRow(x)] = s[WorkspaceRow(x)]
      /\ \A x \in Workspace, y \in RoleId : removed[Role(x, y)] = s[Role(x, y)]
      /\ \A x \in Workspace, y \in User : removed[Member(x, y)] =
           IF x = w /\ y = r.member THEN Absent ELSE s[Member(x, y)]
      /\ \A x \in Invitation : removed[InvitationRow(x)] = s[InvitationRow(x)]
  BY <1>7, RowsExist, MemberRowDiffers
<1>9. Remains(removed, s, w)
  <2>1. \A u \in MemberIds(removed, w) : removed[Member(w, u)] = s[Member(w, u)]
    BY <1>2, <1>8 DEF MemberIds, IsMember, Exists
  <2>. QED
    BY <1>2, <1>8, <2>1 DEF Remains, InvitationsOf
<1>10. Elsewhere(s, removed, w)
  BY <1>8 DEF Elsewhere
<1>11. WorkspaceOK(removed, w, expired)
  BY <1>2, <1>5, <1>9, RemainsOK
<1>12. SameButAccounts(removed, after)
  BY <1>3, <1>6, ReturnRows
<1>. HIDE DEF after
<1>13. WorkspaceOK(after, w, expired) /\ Elsewhere(s, after, w)
  BY <1>2, <1>6, <1>10, <1>11, <1>12, SameButAccountsReferences, SameButAccountsElsewhere
<1>. QED
  BY <1>2, <1>4, <1>13, LockedAttemptKeepsLockInv

(* The view of a transfer: u hands the workspace over to m.                *)
HandedOver(v, w, u, m, admin, kept, c) ==
  [v EXCEPT ![Role(w, admin)] = IF kept THEN @ ELSE c,
            ![Member(w, m)] = v[Member(w, u)],
            ![Member(w, u)] = admin,
            ![WorkspaceRow(w)].owner = m]

(* The same, row by row.                                                   *)
LEMMA TransferRows ==
  ASSUME NEW v, DatabaseOK(v), NEW w \in Workspace, Live(v, w),
         NEW u \in User, NEW m \in User, u # m, NEW admin \in RoleId, NEW kept, NEW c,
         NEW after, after = HandedOver(v, w, u, m, admin, kept, c)
  PROVE  /\ \A row \in Row : after[row] =
              IF row = WorkspaceRow(w) THEN [v[WorkspaceRow(w)] EXCEPT !.owner = m]
              ELSE IF row = Member(w, u) THEN admin
              ELSE IF row = Member(w, m) THEN v[Member(w, u)]
              ELSE IF row = Role(w, admin) THEN IF kept THEN v[row] ELSE c
              ELSE v[row]
         /\ Live(after, w) /\ after[WorkspaceRow(w)].owner = m
<1>. DEFINE moved == [v[WorkspaceRow(w)] EXCEPT !.owner = m]
<1>1. v[WorkspaceRow(w)] \in WorkspaceRecord /\ ~v[WorkspaceRow(w)].deleted
  BY DEF DatabaseOK, Live, Exists
<1>2. moved \in WorkspaceRecord /\ ~moved.deleted /\ moved.owner = m
  BY <1>1 DEF WorkspaceRecord
<1>3. \A row \in Row : after[row] =
        IF row = WorkspaceRow(w) THEN moved
        ELSE IF row = Member(w, u) THEN admin
        ELSE IF row = Member(w, m) THEN v[Member(w, u)]
        ELSE IF row = Role(w, admin) THEN IF kept THEN v[row] ELSE c
        ELSE v[row]
  <2>1. /\ WorkspaceRow(w) \in Row /\ Member(w, u) \in Row /\ Member(w, m) \in Row
        /\ Role(w, admin) \in Row /\ DOMAIN v = Row
    BY RowsExist DEF DatabaseOK
  <2>2. /\ WorkspaceRow(w) # Member(w, u) /\ WorkspaceRow(w) # Member(w, m)
        /\ WorkspaceRow(w) # Role(w, admin)
        /\ Member(w, u) # Member(w, m)
        /\ Role(w, admin) # Member(w, u) /\ Role(w, admin) # Member(w, m)
    BY RowsDiffer
  <2>. QED
    BY <2>1, <2>2 DEF HandedOver
<1>. HIDE DEF moved
<1>4. after[WorkspaceRow(w)] = moved
  BY <1>3, RowsExist
<1>5. Live(after, w)
  BY <1>2, <1>4, RowContentsAssumption DEF Live, Exists
<1>. QED
  BY <1>2, <1>3, <1>4, <1>5 DEF moved

LEMMA TransferKeepsLockInv ==
  ASSUME IInv, IInv', LockInv, NEW p \in Session, NEW r \in Requests,
         Transfer(p, r), UNCHANGED expired
  PROVE  LockInv'
<1>. DEFINE s == View(p)
            w == r.workspace
            kept == RolesNamed(s, w, AdminRole) # {}
            admins == IF kept THEN RolesNamed(s, w, AdminRole)
                      ELSE {x \in SpareRole : db[Role(w, x)] = Absent}
            c == [name |-> AdminRole, system |-> TRUE, permissions |-> SystemPermissions[AdminRole]]
            after(admin) == HandedOver(s, w, r.by, r.member, admin, kept, c)
<1>1. Changes(p, r, "transfer", "workspace.transfer")
  BY DEF Transfer
<1>2. /\ tx[p].open /\ r.call = "transfer" /\ w \in Workspace /\ Live(s, w) /\ r.by \in User
      /\ IsMember(s, w, r.by)
  BY <1>1, ChangesFacts
<1>3. r.member \in User /\ r.member # r.by
  BY <1>2, RequestFields DEF Transfer
<1>4. DatabaseOK(s) /\ WorkspaceOK(s, w, expired)
  BY <1>2, OpenView, OpenReferences
<1>5. PICK admin \in admins : Attempt(p, r, {WorkspaceRow(w)}, after(admin))
  BY DEF Transfer, AttemptLocked, HandedOver
<1>. DEFINE view == after(admin)
<1>6. admin \in RoleId /\ (kept => Exists(s, Role(w, admin)))
  BY <1>5 DEF RolesNamed, RoleId
<1>7. c \notin {Absent, Gone}
  <2>1. c \in RoleRecord
    BY DEF RoleRecord, RoleName, SystemRole, SystemPermissions, Permission, AdminRole,
           OwnerRole, DefaultMemberRole
  <2>. QED
    BY <2>1, RowContentsAssumption
<1>. HIDE DEF c, kept
<1>8. /\ \A row \in Row : view[row] =
           IF row = WorkspaceRow(w) THEN [s[WorkspaceRow(w)] EXCEPT !.owner = r.member]
           ELSE IF row = Member(w, r.by) THEN admin
           ELSE IF row = Member(w, r.member) THEN s[Member(w, r.by)]
           ELSE IF row = Role(w, admin) THEN IF kept THEN s[row] ELSE c
           ELSE s[row]
      /\ Live(view, w)
  BY <1>2, <1>3, <1>4, <1>6, TransferRows
<1>9. Attempt(p, r, {WorkspaceRow(w)}, view)
  BY <1>5
<1>. HIDE DEF view, after
<1>10. /\ \A x \in Workspace : x # w => view[WorkspaceRow(x)] = s[WorkspaceRow(x)]
       /\ \A x \in Workspace, y \in RoleId : view[Role(x, y)] =
            IF x = w /\ y = admin THEN IF kept THEN s[Role(x, y)] ELSE c ELSE s[Role(x, y)]
  BY <1>8, RowsExist, WorkspaceRowDiffers, RoleRowDiffers
<1>11. /\ \A x \in Workspace, y \in User : view[Member(x, y)] =
            IF x = w /\ y = r.by THEN admin
            ELSE IF x = w /\ y = r.member THEN s[Member(w, r.by)] ELSE s[Member(x, y)]
       /\ \A x \in Invitation : view[InvitationRow(x)] = s[InvitationRow(x)]
  BY <1>8, RowsExist, MemberRowDiffers, InvitationRowDiffers
<1>12. WorkspaceOK(view, w, expired)
  <2>1. \A y \in RoleId : Exists(s, Role(w, y)) => Exists(view, Role(w, y))
    BY <1>2, <1>7, <1>10 DEF Exists
  <2>2. Exists(view, Role(w, admin))
    BY <1>2, <1>6, <1>7, <1>10 DEF Exists
  <2>3. Exists(view, Role(w, s[Member(w, r.by)]))
    <3>1. r.by \in MemberIds(s, w) /\ s[Member(w, r.by)] \in RoleId
      BY <1>2, <1>4 DEF MemberIds, IsMember, Exists, DatabaseOK
    <3>. QED
      BY <1>4, <2>1, <3>1 DEF WorkspaceOK
  <2>4. \A y \in User : view[Member(w, y)] = s[Member(w, y)]
                        \/ Exists(view, Role(w, view[Member(w, y)]))
    BY <1>2, <1>11, <2>2, <2>3
  <2>5. \A x \in PendingOf(view, w) : view[InvitationRow(x)] = s[InvitationRow(x)]
    BY <1>11 DEF PendingOf, InvitationsOf
  <2>. QED
    BY <1>2, <1>4, <1>8, <2>1, <2>4, <2>5, KeepsReferences
<1>13. Elsewhere(s, view, w)
  BY <1>10, <1>11 DEF Elsewhere
<1>. QED
  BY <1>2, <1>9, <1>12, <1>13, LockedAttemptKeepsLockInv

(* The rows revoking the pending invitations changes.                      *)
LEMMA RevokedRows ==
  ASSUME NEW v, DatabaseOK(v), NEW w \in Workspace
  PROVE  /\ \A x \in Workspace :
              /\ RevokePending(v, w)[WorkspaceRow(x)] = v[WorkspaceRow(x)]
              /\ \A y \in RoleId : RevokePending(v, w)[Role(x, y)] = v[Role(x, y)]
              /\ \A y \in User : RevokePending(v, w)[Member(x, y)] = v[Member(x, y)]
         /\ \A i \in Invitation : RevokePending(v, w)[InvitationRow(i)] =
              IF i \in PendingOf(v, w) THEN [v[InvitationRow(i)] EXCEPT !.status = "revoked"]
              ELSE v[InvitationRow(i)]
<1>. DEFINE rows == {InvitationRow(i) : i \in PendingOf(v, w)}
            after == RevokePending(v, w)
<1>1. \A row \in Row : after[row] =
        IF row \in rows THEN [v[row] EXCEPT !.status = "revoked"] ELSE v[row]
  BY DEF RevokePending, DatabaseOK
<1>2. /\ \A x : WorkspaceRow(x) \notin rows
      /\ \A x, y : Role(x, y) \notin rows
      /\ \A x, y : Member(x, y) \notin rows
      /\ \A x : InvitationRow(x) \in rows <=> x \in PendingOf(v, w)
  BY WorkspaceRowDiffers, RoleRowDiffers, MemberRowDiffers, InvitationRowDiffers
<1>. HIDE DEF rows, after
<1>. QED
  BY <1>1, <1>2, RowsExist DEF after

(* The view a deleted workspace leaves, and the same table by table.       *)
Closed(v, w) ==
  LET emptied == RevokePending(RemoveMembers(v, w, MemberIds(v, w)), w) IN
    ReturnToWorkspaceStep([emptied EXCEPT ![WorkspaceRow(w)].deleted = TRUE], MemberIds(v, w))

LEMMA ClosedRows ==
  ASSUME NEW v, DatabaseOK(v), NEW w \in Workspace, Live(v, w), NEW after,
         after = Closed(v, w)
  PROVE  /\ \A x \in Workspace : after[WorkspaceRow(x)] =
              IF x = w THEN [v[WorkspaceRow(w)] EXCEPT !.deleted = TRUE] ELSE v[WorkspaceRow(x)]
         /\ \A x \in Workspace, y \in RoleId : after[Role(x, y)] = v[Role(x, y)]
         /\ \A x \in Workspace, y \in User : after[Member(x, y)] =
              IF x = w /\ y \in MemberIds(v, w) THEN Absent ELSE v[Member(x, y)]
         /\ \A i \in Invitation : after[InvitationRow(i)] =
              IF i \in PendingOf(v, w) THEN [v[InvitationRow(i)] EXCEPT !.status = "revoked"]
              ELSE v[InvitationRow(i)]
<1>. DEFINE removed == RemoveMembers(v, w, MemberIds(v, w))
            emptied == RevokePending(removed, w)
            c == [emptied[WorkspaceRow(w)] EXCEPT !.deleted = TRUE]
            deleted == [emptied EXCEPT ![WorkspaceRow(w)] = c]
            rows == {Member(w, u) : u \in MemberIds(v, w)}
<1>1. /\ DatabaseOK(removed)
      /\ \A row \in Row : removed[row] = IF row \in rows THEN Absent ELSE v[row]
  <2>1. DatabaseOK(removed)
    BY RemovedMembersView
  <2>. QED
    BY <2>1, PutRow DEF RemoveMembers, DatabaseOK
<1>2. /\ \A x : WorkspaceRow(x) \notin rows
      /\ \A x, y : Role(x, y) \notin rows
      /\ \A x, y : Member(x, y) \in rows <=> x = w /\ y \in MemberIds(v, w)
      /\ \A x : InvitationRow(x) \notin rows
  BY WorkspaceRowDiffers, RoleRowDiffers, MemberRowDiffers, InvitationRowDiffers
<1>. HIDE DEF rows, removed
<1>3. /\ \A x \in Workspace : removed[WorkspaceRow(x)] = v[WorkspaceRow(x)]
      /\ \A x \in Workspace, y \in RoleId : removed[Role(x, y)] = v[Role(x, y)]
      /\ \A x \in Workspace, y \in User : removed[Member(x, y)] =
           IF x = w /\ y \in MemberIds(v, w) THEN Absent ELSE v[Member(x, y)]
      /\ \A i \in Invitation : removed[InvitationRow(i)] = v[InvitationRow(i)]
  BY <1>1, <1>2, RowsExist
<1>4. PendingOf(removed, w) = PendingOf(v, w)
  BY <1>3 DEF PendingOf, InvitationsOf, Exists
<1>5. DatabaseOK(emptied)
  BY <1>1, RevokedView
<1>6. /\ \A x \in Workspace : emptied[WorkspaceRow(x)] = v[WorkspaceRow(x)]
      /\ \A x \in Workspace, y \in RoleId : emptied[Role(x, y)] = v[Role(x, y)]
      /\ \A x \in Workspace, y \in User : emptied[Member(x, y)] = removed[Member(x, y)]
      /\ \A i \in Invitation : emptied[InvitationRow(i)] =
           IF i \in PendingOf(v, w) THEN [v[InvitationRow(i)] EXCEPT !.status = "revoked"]
           ELSE v[InvitationRow(i)]
  BY <1>1, <1>3, <1>4, RevokedRows
<1>. HIDE DEF emptied
<1>7. c = [v[WorkspaceRow(w)] EXCEPT !.deleted = TRUE] /\ c \in WorkspaceRecord
  <2>1. emptied[WorkspaceRow(w)] = v[WorkspaceRow(w)] /\ v[WorkspaceRow(w)] \in WorkspaceRecord
    BY <1>6 DEF DatabaseOK, Live, Exists
  <2>. QED
    BY <2>1 DEF WorkspaceRecord
<1>. HIDE DEF c
<1>8. /\ DatabaseOK(deleted)
      /\ \A row \in Row : deleted[row] = IF row = WorkspaceRow(w) THEN c ELSE emptied[row]
  <2>1. DatabaseOK(deleted)
    BY <1>5, <1>7, SetWorkspace
  <2>. QED
    BY <1>5, <2>1, SetRow DEF DatabaseOK
<1>9. after = ReturnToWorkspaceStep(deleted, MemberIds(v, w))
  BY DEF Closed, emptied, c, removed
<1>. HIDE DEF deleted
<1>10. SameButAccounts(deleted, after)
  BY <1>8, <1>9, ReturnRows DEF MemberIds
<1>11. /\ \A x \in Workspace : deleted[WorkspaceRow(x)] =
            IF x = w THEN c ELSE emptied[WorkspaceRow(x)]
       /\ \A x \in Workspace, y \in RoleId : deleted[Role(x, y)] = emptied[Role(x, y)]
       /\ \A x \in Workspace, y \in User : deleted[Member(x, y)] = emptied[Member(x, y)]
       /\ \A i \in Invitation : deleted[InvitationRow(i)] = emptied[InvitationRow(i)]
  BY <1>8, RowsExist, WorkspaceRowDiffers
<1>12. \A x \in Workspace : after[WorkspaceRow(x)] = IF x = w THEN c ELSE v[WorkspaceRow(x)]
  BY <1>6, <1>10, <1>11 DEF SameButAccounts
<1>13. \A x \in Workspace, y \in RoleId : after[Role(x, y)] = v[Role(x, y)]
  BY <1>6, <1>10, <1>11 DEF SameButAccounts
<1>14. \A x \in Workspace, y \in User : after[Member(x, y)] = removed[Member(x, y)]
  BY <1>6, <1>10, <1>11 DEF SameButAccounts
<1>15. \A i \in Invitation : after[InvitationRow(i)] = emptied[InvitationRow(i)]
  BY <1>10, <1>11 DEF SameButAccounts
<1>16. \A x \in Workspace : after[WorkspaceRow(x)] =
         IF x = w THEN [v[WorkspaceRow(w)] EXCEPT !.deleted = TRUE] ELSE v[WorkspaceRow(x)]
  BY <1>7, <1>12
<1>17. \A x \in Workspace, y \in User : after[Member(x, y)] =
         IF x = w /\ y \in MemberIds(v, w) THEN Absent ELSE v[Member(x, y)]
  BY <1>3, <1>14
<1>18. \A i \in Invitation : after[InvitationRow(i)] =
         IF i \in PendingOf(v, w) THEN [v[InvitationRow(i)] EXCEPT !.status = "revoked"]
         ELSE v[InvitationRow(i)]
  BY <1>6, <1>15
<1>. QED
  BY <1>13, <1>16, <1>17, <1>18

LEMMA DeleteWorkspaceKeepsLockInv ==
  ASSUME IInv, IInv', LockInv, NEW p \in Session, NEW r \in Requests,
         DeleteWorkspace(p, r), UNCHANGED expired
  PROVE  LockInv'
<1>. DEFINE s == View(p)
            w == r.workspace
            after == Closed(s, w)
            c == [s[WorkspaceRow(w)] EXCEPT !.deleted = TRUE]
<1>1. Changes(p, r, "delete", "workspace.delete")
  BY DEF DeleteWorkspace
<1>2. /\ tx[p].open /\ w \in Workspace /\ Live(s, w)
  BY <1>1, ChangesFacts
<1>3. Attempt(p, r, {WorkspaceRow(w)}, after)
  BY DEF DeleteWorkspace, AttemptLocked, Closed
<1>4. DatabaseOK(s) /\ WorkspaceOK(s, w, expired)
  BY <1>2, OpenView, OpenReferences
<1>5. /\ \A x \in Workspace : after[WorkspaceRow(x)] = IF x = w THEN c ELSE s[WorkspaceRow(x)]
      /\ \A x \in Workspace, y \in RoleId : after[Role(x, y)] = s[Role(x, y)]
      /\ \A x \in Workspace, y \in User : after[Member(x, y)] =
           IF x = w /\ y \in MemberIds(s, w) THEN Absent ELSE s[Member(x, y)]
      /\ \A i \in Invitation : after[InvitationRow(i)] =
           IF i \in PendingOf(s, w) THEN [s[InvitationRow(i)] EXCEPT !.status = "revoked"]
           ELSE s[InvitationRow(i)]
  BY <1>2, <1>4, ClosedRows
<1>6. c \notin {Absent, Gone}
  <2>1. c \in WorkspaceRecord
    BY <1>2, <1>4 DEF DatabaseOK, Live, Exists, WorkspaceRecord
  <2>. QED
    BY <2>1, RowContentsAssumption
<1>. HIDE DEF after, c
<1>7. ASSUME NEW i \in PendingOf(s, w)
      PROVE  /\ after[InvitationRow(i)].status = "revoked"
             /\ i \in InvitationsOf(after, w)
  <2>. DEFINE d == [s[InvitationRow(i)] EXCEPT !.status = "revoked"]
  <2>1. i \in Invitation /\ s[InvitationRow(i)] \in InvitationRecord
        /\ s[InvitationRow(i)].workspace = w
    BY <1>4 DEF PendingOf, InvitationsOf, Exists, DatabaseOK
  <2>2. d \in InvitationRecord /\ d.status = "revoked" /\ d.workspace = w
    BY <2>1 DEF InvitationRecord
  <2>3. after[InvitationRow(i)] = d
    BY <1>5, <2>1
  <2>. HIDE DEF d
  <2>. QED
    BY <2>1, <2>2, <2>3, RowContentsAssumption DEF InvitationsOf, Exists
<1>8. PendingOf(after, w) = {}
  <2>1. ASSUME NEW i \in PendingOf(after, w)
        PROVE  FALSE
    <3>1. i \in Invitation /\ i \notin PendingOf(s, w)
      BY <1>7, <2>1 DEF PendingOf, InvitationsOf
    <3>2. after[InvitationRow(i)] = s[InvitationRow(i)]
      BY <1>5, <3>1
    <3>. QED
      BY <2>1, <3>1, <3>2 DEF PendingOf, InvitationsOf, Exists
  <2>. QED
    BY <2>1
<1>9. WorkspaceOK(after, w, expired)
  <2>1. Exists(after, WorkspaceRow(w))
    BY <1>2, <1>5, <1>6 DEF Exists
  <2>2. MemberIds(after, w) = {}
    BY <1>2, <1>5 DEF MemberIds, IsMember, Exists
  <2>. QED
    BY <1>8, <2>1, <2>2 DEF WorkspaceOK
<1>10. Elsewhere(s, after, w)
  BY <1>2, <1>5, <1>7 DEF Elsewhere
<1>. QED
  BY <1>2, <1>3, <1>9, <1>10, LockedAttemptKeepsLockInv

(* The view a new workspace leaves: its founder owns it, and the system    *)
(* roles are there.                                                        *)
Founded(v, w, u) ==
  [row \in DOMAIN v |->
     CASE row = WorkspaceRow(w) -> [owner |-> u, deleted |-> FALSE]
       [] row = Member(w, u) -> OwnerRole
       [] row = Account(u) -> "completed"
       [] row \in {Role(w, x) : x \in SystemRole} ->
            [name |-> row[3], system |-> TRUE, permissions |-> SystemPermissions[row[3]]]
       [] OTHER -> v[row]]

LEMMA FoundedRows ==
  ASSUME NEW v, DatabaseOK(v), NEW w \in Workspace, NEW u \in User
  PROVE  LET after == Founded(v, w, u) IN
         /\ \A x \in Workspace : after[WorkspaceRow(x)] =
              IF x = w THEN [owner |-> u, deleted |-> FALSE] ELSE v[WorkspaceRow(x)]
         /\ \A x \in Workspace, y \in User : after[Member(x, y)] =
              IF x = w /\ y = u THEN OwnerRole ELSE v[Member(x, y)]
         /\ \A i \in Invitation : after[InvitationRow(i)] = v[InvitationRow(i)]
         /\ \A x \in Workspace, y \in RoleId :
              x # w => after[Role(x, y)] = v[Role(x, y)]
         /\ \A y \in SystemRole : after[Role(w, y)] \in RoleRecord
<1>. DEFINE roles == {Role(w, x) : x \in SystemRole}
            new == [owner |-> u, deleted |-> FALSE]
            c(row) == [name |-> row[3], system |-> TRUE, permissions |-> SystemPermissions[row[3]]]
            after == Founded(v, w, u)
<1>1. \A row \in Row : after[row] =
        CASE row = WorkspaceRow(w) -> new
          [] row = Member(w, u) -> OwnerRole
          [] row = Account(u) -> "completed"
          [] row \in roles -> c(row)
          [] OTHER -> v[row]
  BY DEF Founded, DatabaseOK
<1>2. \A x : WorkspaceRow(x) \notin roles
  BY WorkspaceRowDiffers
<1>3. \A x : InvitationRow(x) \notin roles
  BY InvitationRowDiffers
<1>4. \A x, y : Member(x, y) \notin roles
  BY MemberRowDiffers
<1>5. \A x, y : Role(x, y) \in roles <=> x = w /\ y \in SystemRole
  BY RoleRowDiffers
<1>6. \A y \in SystemRole : c(Role(w, y)) \in RoleRecord
  <2>1. \A y \in SystemRole : SystemPermissions[y] \in SUBSET Permission
    BY DEF SystemPermissions, Permission
  <2>2. \A y : Role(w, y)[3] = y
    BY DEF Role
  <2>. QED
    BY <2>1, <2>2 DEF RoleRecord, RoleName
<1>. HIDE DEF roles, new, c, after
<1>7. \A x \in Workspace : after[WorkspaceRow(x)] = IF x = w THEN new ELSE v[WorkspaceRow(x)]
  BY <1>1, <1>2, RowsExist, WorkspaceRowDiffers
<1>8. \A x \in Workspace, y \in User : after[Member(x, y)] =
        IF x = w /\ y = u THEN OwnerRole ELSE v[Member(x, y)]
  BY <1>1, <1>4, RowsExist, MemberRowDiffers
<1>9. \A i \in Invitation : after[InvitationRow(i)] = v[InvitationRow(i)]
  BY <1>1, <1>3, RowsExist, InvitationRowDiffers
<1>10. \A x \in Workspace, y \in RoleId : x # w => after[Role(x, y)] = v[Role(x, y)]
  BY <1>1, <1>5, RowsExist, RoleRowDiffers
<1>11. \A y \in SystemRole : after[Role(w, y)] \in RoleRecord
  BY <1>1, <1>5, <1>6, RowsExist, RoleRowDiffers DEF RoleId
<1>. QED
  BY <1>7, <1>8, <1>9, <1>10, <1>11 DEF new, after

LEMMA CreateWorkspaceKeepsLockInv ==
  ASSUME IInv, IInv', LockInv, NEW p \in Session, NEW r \in Requests,
         CreateWorkspace(p, r), UNCHANGED expired
  PROVE  LockInv'
<1>. DEFINE s == View(p)
<1>1. PICK w \in Workspace :
        db[WorkspaceRow(w)] = Absent /\ Attempt(p, r, {}, Founded(s, w, r.by))
  BY DEF CreateWorkspace, Founded
<1>. DEFINE after == Founded(s, w, r.by)
<1>2. tx[p].open /\ r.by \in User
  BY RequestFields DEF CreateWorkspace, Sends, Serves
<1>3. DatabaseOK(s) /\ OwnersOK(s) /\ WorkspaceOK(s, w, expired)
  BY <1>2, OpenView, OpenReferences
<1>4. s[WorkspaceRow(w)] = Absent
  BY <1>1, <1>2 DEF IInv, Agrees, View
<1>5. /\ \A x \in Workspace : after[WorkspaceRow(x)] =
           IF x = w THEN [owner |-> r.by, deleted |-> FALSE] ELSE s[WorkspaceRow(x)]
      /\ \A x \in Workspace, y \in User : after[Member(x, y)] =
           IF x = w /\ y = r.by THEN OwnerRole ELSE s[Member(x, y)]
      /\ \A i \in Invitation : after[InvitationRow(i)] = s[InvitationRow(i)]
      /\ \A x \in Workspace, y \in RoleId : x # w => after[Role(x, y)] = s[Role(x, y)]
      /\ \A y \in SystemRole : after[Role(w, y)] \in RoleRecord
  <2>. HIDE DEF s
  <2>. QED
    BY <1>2, <1>3, FoundedRows
<1>. HIDE DEF after
<1>6. after[WorkspaceRow(w)] \notin {Absent, Gone}
  <2>1. [owner |-> r.by, deleted |-> FALSE] \in WorkspaceRecord
    BY <1>2 DEF WorkspaceRecord
  <2>2. after[WorkspaceRow(w)] = [owner |-> r.by, deleted |-> FALSE]
    BY <1>5
  <2>. QED
    BY <2>1, <2>2, RowContentsAssumption
<1>7. PendingOf(after, w) = {}
  <2>1. InvitationsOf(s, w) = {}
    BY <1>3, <1>4 DEF WorkspaceOK, Exists
  <2>. QED
    BY <1>5, <2>1 DEF PendingOf, InvitationsOf, Exists
<1>8. \A y \in MemberIds(after, w) : Exists(after, Role(w, after[Member(w, y)]))
  <2>1. \A y \in User : ~IsMember(s, w, y)
    BY <1>3, <1>4 DEF OwnersOK, OwnerOK, Live, Exists
  <2>2. \A y \in MemberIds(after, w) : after[Member(w, y)] = OwnerRole
    BY <1>5, <2>1 DEF MemberIds, IsMember, Exists
  <2>3. after[Role(w, OwnerRole)] \in RoleRecord
    BY <1>5 DEF SystemRole
  <2>4. Exists(after, Role(w, OwnerRole))
    BY <2>3, RowContentsAssumption DEF Exists
  <2>. QED
    BY <2>2, <2>4
<1>9. WorkspaceOK(after, w, expired)
  <2>1. Exists(after, WorkspaceRow(w))
    BY <1>6 DEF Exists
  <2>. QED
    BY <1>7, <1>8, <2>1 DEF WorkspaceOK
<1>10. Elsewhere(s, after, w)
  BY <1>5 DEF Elsewhere
<1>11. after[WorkspaceRow(w)] # s[WorkspaceRow(w)]
  BY <1>4, <1>6
<1>12. Governed(s, {}, after)
  BY <1>2, <1>3, <1>9, <1>10, <1>11, OpenReferences, OneWorkspaceGoverned
<1>13. Attempt(p, r, {}, after)
  BY <1>1 DEF after
<1>. QED
  BY <1>2, <1>12, <1>13, AttemptKeepsLockInv DEF Attempt, View

(* The view a purge leaves, table by table.                                *)
LEMMA PurgedRows ==
  ASSUME NEW v, DatabaseOK(v), NEW w \in Workspace, Deleted(v, w)
  PROVE  LET after == Purged(v, w) IN
         /\ \A x \in Workspace : after[WorkspaceRow(x)] = IF x = w THEN Gone ELSE v[WorkspaceRow(x)]
         /\ \A x \in Workspace, y \in RoleId : after[Role(x, y)] =
              IF x = w /\ Exists(v, Role(w, y)) THEN Gone ELSE v[Role(x, y)]
         /\ \A x \in Workspace, y \in User : after[Member(x, y)] =
              IF x = w THEN Absent ELSE v[Member(x, y)]
         /\ \A i \in Invitation : after[InvitationRow(i)] =
              IF i \in InvitationsOf(v, w) THEN Gone ELSE v[InvitationRow(i)]
<1>. DEFINE members == {Member(w, u) : u \in User}
            others == {WorkspaceRow(w)} \cup {InvitationRow(i) : i \in InvitationsOf(v, w)}
                        \cup {Role(w, x) : x \in {y \in RoleId : Exists(v, Role(w, y))}}
            emptied == Put(v, members, Absent)
            after == Put(emptied, others, Gone)
<1>1. Purged(v, w) = after
  BY DEF Purged
<1>2. /\ DOMAIN emptied = Row
      /\ \A row \in Row : emptied[row] = IF row \in members THEN Absent ELSE v[row]
  BY PutRow DEF DatabaseOK
<1>. HIDE DEF emptied
<1>3. \A row \in Row : after[row] = IF row \in others THEN Gone ELSE emptied[row]
  BY <1>2, PutRow
<1>4. \A row \in Row : after[row] = IF row \in others THEN Gone
                                    ELSE IF row \in members THEN Absent ELSE v[row]
  BY <1>2, <1>3
<1>5. /\ \A x : WorkspaceRow(x) \notin members
      /\ \A x : InvitationRow(x) \notin members
      /\ \A x, y : Role(x, y) \notin members
      /\ \A x, y : Member(x, y) \in members <=> x = w /\ y \in User
  BY WorkspaceRowDiffers, InvitationRowDiffers, RoleRowDiffers, MemberRowDiffers
<1>6. \A x : WorkspaceRow(x) \in others <=> x = w
  BY WorkspaceRowDiffers
<1>7. \A x : InvitationRow(x) \in others <=> x \in InvitationsOf(v, w)
  BY InvitationRowDiffers
<1>8. \A x, y : Role(x, y) \in others <=> x = w /\ y \in RoleId /\ Exists(v, Role(w, y))
  BY RoleRowDiffers
<1>9. \A x, y : Member(x, y) \notin others
  BY MemberRowDiffers
<1>. HIDE DEF after, members, others
<1>10. \A x \in Workspace : after[WorkspaceRow(x)] = IF x = w THEN Gone ELSE v[WorkspaceRow(x)]
  BY <1>4, <1>5, <1>6, RowsExist
<1>11. \A x \in Workspace, y \in RoleId : after[Role(x, y)] =
         IF x = w /\ Exists(v, Role(w, y)) THEN Gone ELSE v[Role(x, y)]
  BY <1>4, <1>5, <1>8, RowsExist
<1>12. \A x \in Workspace, y \in User : after[Member(x, y)] =
         IF x = w THEN Absent ELSE v[Member(x, y)]
  BY <1>4, <1>5, <1>9, RowsExist
<1>13. \A i \in Invitation : after[InvitationRow(i)] =
         IF i \in InvitationsOf(v, w) THEN Gone ELSE v[InvitationRow(i)]
  BY <1>4, <1>5, <1>7, RowsExist
<1>. QED
  BY <1>1, <1>10, <1>11, <1>12, <1>13

(* Nothing is left of a purged workspace.                                  *)
LEMMA PurgedGoverned ==
  ASSUME NEW v, DatabaseOK(v), \A x \in Workspace : WorkspaceOK(v, x, expired),
         NEW w \in Workspace
  PROVE  Governed(v, {}, Purged(v, w))
<1>1. CASE ~Deleted(v, w)
  <2>1. Purged(v, w) = v
    BY <1>1 DEF Purged
  <2>. QED
    BY <2>1, QuietGoverned
<1>2. CASE Deleted(v, w)
  <2>. DEFINE after == Purged(v, w)
  <2>1. /\ \A x \in Workspace : after[WorkspaceRow(x)] =
             IF x = w THEN Gone ELSE v[WorkspaceRow(x)]
        /\ \A x \in Workspace, y \in RoleId : after[Role(x, y)] =
             IF x = w /\ Exists(v, Role(w, y)) THEN Gone ELSE v[Role(x, y)]
        /\ \A x \in Workspace, y \in User : after[Member(x, y)] =
             IF x = w THEN Absent ELSE v[Member(x, y)]
        /\ \A i \in Invitation : after[InvitationRow(i)] =
             IF i \in InvitationsOf(v, w) THEN Gone ELSE v[InvitationRow(i)]
    BY <1>2, PurgedRows
  <2>. HIDE DEF after
  <2>2. InvitationsOf(after, w) = {}
    BY <2>1 DEF InvitationsOf, Exists
  <2>3. \A y \in RoleId : ~Exists(after, Role(w, y))
    BY <2>1 DEF Exists
  <2>4. MemberIds(after, w) = {}
    BY <2>1 DEF MemberIds, IsMember, Exists
  <2>5. WorkspaceOK(after, w, expired)
    BY <2>2, <2>3, <2>4 DEF WorkspaceOK, PendingOf
  <2>6. Elsewhere(v, after, w)
    BY <2>1 DEF Elsewhere, Exists
  <2>7. after[WorkspaceRow(w)] # v[WorkspaceRow(w)]
    BY <1>2, <2>1 DEF Deleted, Exists
  <2>8. Governed(v, {}, after)
    BY <2>5, <2>6, <2>7, OneWorkspaceGoverned
  <2>. QED
    BY <2>8 DEF after
<1>. QED
  BY <1>1, <1>2

LEMMA PurgeWorkspaceKeepsLockInv ==
  ASSUME IInv, IInv', LockInv, NEW p \in Session, NEW r \in Requests,
         PurgeWorkspace(p, r), UNCHANGED expired
  PROVE  LockInv'
<1>1. tx[p].open /\ r.workspace \in Workspace
  BY RequestFields DEF PurgeWorkspace, Sends, Serves
<1>2. Governed(View(p), {}, Purged(View(p), r.workspace))
  BY <1>1, OpenView, OpenReferences, PurgedGoverned
<1>. QED
  BY <1>1, <1>2, AttemptKeepsLockInv DEF PurgeWorkspace, Attempt, View

LEMMA PurgeOwnedKeepsLockInv ==
  ASSUME IInv, IInv', LockInv, NEW p \in Session, PurgeOwned(p), UNCHANGED expired
  PROVE  LockInv'
<1>1. PICK u \in User, purging \in SUBSET Workspace : \E w \in purging :
        /\ tx[p].open
        /\ AttemptThen(p, Deletion(u, purging), {}, Purged(View(p), w),
                       Deletion(u, purging \ {w}))
  BY DEF PurgeOwned
<1>2. PICK w \in purging :
        AttemptThen(p, Deletion(u, purging), {}, Purged(View(p), w), Deletion(u, purging \ {w}))
  BY <1>1
<1>3. Deletion(u, purging \ {w}) \in Deletions
  BY DEF Deletions
<1>4. Governed(View(p), {}, Purged(View(p), w))
  BY <1>1, OpenView, OpenReferences, PurgedGoverned
<1>. QED
  BY <1>1, <1>2, <1>3, <1>4, AttemptKeepsLockInv DEF View

(* The view an account deletion leaves, table by table.                    *)
SentBy(v, u) == {i \in Invitation : Exists(v, InvitationRow(i)) /\ v[InvitationRow(i)].invited_by = u}
Forgotten(v, u) ==
  Put(RemoveUser(v, u), {Account(u)} \cup {InvitationRow(i) : i \in SentBy(v, u)}, Gone)

LEMMA ForgottenRows ==
  ASSUME NEW v, DatabaseOK(v), NEW u \in User
  PROVE  LET after == Forgotten(v, u) IN
         /\ after[Account(u)] = Gone
         /\ \A x \in Workspace :
              /\ after[WorkspaceRow(x)] = v[WorkspaceRow(x)]
              /\ \A y \in RoleId : after[Role(x, y)] = v[Role(x, y)]
              /\ \A y \in User : after[Member(x, y)] = IF y = u THEN Absent ELSE v[Member(x, y)]
         /\ \A i \in Invitation : after[InvitationRow(i)] =
              IF i \in SentBy(v, u) THEN Gone ELSE v[InvitationRow(i)]
<1>. DEFINE mine == {Member(w, u) : w \in Workspace}
            left == RemoveUser(v, u)
            gone == {Account(u)} \cup {InvitationRow(i) : i \in SentBy(v, u)}
            after == Put(left, gone, Gone)
<1>1. Forgotten(v, u) = after
  BY DEF Forgotten
<1>2. /\ DOMAIN left = Row
      /\ \A row \in Row : left[row] = IF row \in mine THEN Absent ELSE v[row]
  BY PutRow DEF DatabaseOK, RemoveUser
<1>. HIDE DEF left
<1>3. \A row \in Row : after[row] = IF row \in gone THEN Gone ELSE left[row]
  BY <1>2, PutRow
<1>4. \A row \in Row : after[row] = IF row \in gone THEN Gone
                                    ELSE IF row \in mine THEN Absent ELSE v[row]
  BY <1>2, <1>3
<1>5. /\ \A x : WorkspaceRow(x) \notin mine
      /\ \A x : InvitationRow(x) \notin mine
      /\ \A x, y : Role(x, y) \notin mine
      /\ \A x \in Workspace, y \in User : Member(x, y) \in mine <=> y = u
  BY WorkspaceRowDiffers, InvitationRowDiffers, RoleRowDiffers, MemberRowDiffers
<1>6. Account(u) \in gone /\ \A x : WorkspaceRow(x) \notin gone
  BY WorkspaceRowDiffers
<1>7. \A x : InvitationRow(x) \in gone <=> x \in SentBy(v, u)
  BY InvitationRowDiffers
<1>8. \A x, y : Role(x, y) \notin gone
  BY RoleRowDiffers
<1>9. \A x, y : Member(x, y) \notin gone
  BY MemberRowDiffers
<1>. HIDE DEF after, mine, gone
<1>10. after[Account(u)] = Gone
  BY <1>4, <1>6, RowsExist
<1>11. \A x \in Workspace : after[WorkspaceRow(x)] = v[WorkspaceRow(x)]
  BY <1>4, <1>5, <1>6, RowsExist
<1>12. \A x \in Workspace, y \in RoleId : after[Role(x, y)] = v[Role(x, y)]
  BY <1>4, <1>5, <1>8, RowsExist
<1>13. \A x \in Workspace, y \in User : after[Member(x, y)] =
         IF y = u THEN Absent ELSE v[Member(x, y)]
  BY <1>4, <1>5, <1>9, RowsExist
<1>14. \A i \in Invitation : after[InvitationRow(i)] =
         IF i \in SentBy(v, u) THEN Gone ELSE v[InvitationRow(i)]
  BY <1>4, <1>5, <1>7, RowsExist
<1>. QED
  BY <1>1, <1>10, <1>11, <1>12, <1>13, <1>14

(* Deleting an account takes no lock, but it only removes, and its own row *)
(* tells every other transaction.                                          *)
LEMMA DeleteAccountKeepsLockInv ==
  ASSUME IInv, IInv', LockInv, NEW p \in Session, DeleteAccount(p), UNCHANGED expired
  PROVE  LockInv'
<1>. DEFINE s == View(p)
<1>1. PICK u \in User : /\ tx[p].open
                        /\ Deletable(s, u)
                        /\ Attempt(p, Deletion(u, {}), {}, Forgotten(s, u))
  BY DEF DeleteAccount, Forgotten, SentBy
<1>. DEFINE after == Forgotten(s, u)
<1>2. DatabaseOK(s) /\ \A w \in Workspace : WorkspaceOK(s, w, expired)
  BY <1>1, OpenView, OpenReferences
<1>3. /\ after[Account(u)] = Gone
      /\ \A x \in Workspace :
           /\ after[WorkspaceRow(x)] = s[WorkspaceRow(x)]
           /\ \A y \in RoleId : after[Role(x, y)] = s[Role(x, y)]
           /\ \A y \in User : after[Member(x, y)] = IF y = u THEN Absent ELSE s[Member(x, y)]
      /\ \A i \in Invitation : after[InvitationRow(i)] =
           IF i \in SentBy(s, u) THEN Gone ELSE s[InvitationRow(i)]
  BY <1>2, ForgottenRows
<1>4. Attempt(p, Deletion(u, {}), {}, after)
  BY <1>1
<1>. HIDE DEF after
<1>5. after[Account(u)] # s[Account(u)]
  BY <1>1, <1>3 DEF Deletable, Registered, Exists
<1>6. ASSUME NEW w \in Workspace
      PROVE  Remains(after, s, w) /\ \A y \in Left(after, s, w) : y = u
  <2>1. \A y \in MemberIds(after, w) : after[Member(w, y)] = s[Member(w, y)]
    BY <1>3 DEF MemberIds, IsMember, Exists
  <2>2. \A i \in InvitationsOf(after, w) : after[InvitationRow(i)] = s[InvitationRow(i)]
    BY <1>3 DEF InvitationsOf, Exists
  <2>3. \A y \in Left(after, s, w) : y = u
    BY <1>3 DEF Left, MemberIds, IsMember, Exists
  <2>. QED
    BY <1>3, <2>1, <2>2, <2>3 DEF Remains
<1>7. \A w \in Workspace : WorkspaceOK(after, w, expired)
  BY <1>2, <1>6, RemainsOK
<1>8. Governed(s, {}, after)
  BY <1>5, <1>6, <1>7 DEF Governed
<1>. QED
  BY <1>1, <1>4, <1>8, AttemptKeepsLockInv DEF Attempt, View

-----------------------------------------------------------------------------
(*                            The theorems                                 *)

LEMMA InitLockInv == Init => LockInv
<1>. SUFFICES ASSUME Init PROVE LockInv
  OBVIOUS
<1>1. \A row \in Row : ~Exists(db, row)
  BY DEF Init, Exists
<1>2. \A w \in Workspace : InvitationsOf(db, w) = {} /\ MemberIds(db, w) = {}
  BY <1>1, RowsExist DEF InvitationsOf, MemberIds, IsMember
<1>3. \A w \in Workspace : WorkspaceOK(db, w, expired)
  BY <1>1, <1>2, RowsExist DEF WorkspaceOK, PendingOf
<1>4. \A p \in Session : ~tx[p].open
  BY DEF Init, Idle, Waiting
<1>. QED
  BY <1>3, <1>4 DEF LockInv

LEMMA ServeKeepsLockInv ==
  ASSUME IInv, IInv', LockInv, NEW p \in Session, NEW r \in Requests, Serve(p, r),
         UNCHANGED expired
  PROVE  LockInv'
BY RegisterKeepsLockInv, EnsureAccountKeepsLockInv, RenameProfileKeepsLockInv,
   StartAccountDeletionKeepsLockInv, CreateWorkspaceKeepsLockInv,
   UpdateWorkspaceKeepsLockInv, DeleteWorkspaceKeepsLockInv,
   PurgeWorkspaceKeepsLockInv, CreateRoleKeepsLockInv, RenameRoleKeepsLockInv,
   DeleteRoleKeepsLockInv, SetPermissionsKeepsLockInv, SetMemberRoleKeepsLockInv,
   RemoveMemberKeepsLockInv, TransferKeepsLockInv, InviteKeepsLockInv,
   RevokeInvitationKeepsLockInv, AcceptInvitationKeepsLockInv
   DEF Serve

LEMMA NextKeepsLockInv == IInv /\ IInv' /\ LockInv /\ [Next]_vars => LockInv'
<1>. SUFFICES ASSUME IInv, IInv', LockInv, [Next]_vars PROVE LockInv'
  OBVIOUS
<1>1. ASSUME NEW p \in Session, Step(p), UNCHANGED expired
      PROVE  LockInv'
  BY <1>1, BeginKeepsLockInv, RollBackKeepsLockInv, PurgeOwnedKeepsLockInv,
     DeleteAccountKeepsLockInv, ServeKeepsLockInv DEF Step, Asked
<1>2. ASSUME NEW i \in Invitation, Expire(i)
      PROVE  LockInv'
  BY <1>2, ExpireKeepsLockInv
<1>3. ASSUME UNCHANGED vars
      PROVE  LockInv'
  BY <1>3 DEF vars, LockInv
<1>. QED
  BY <1>1, <1>2, <1>3 DEF Next

(* While nobody else touched a workspace's row, an open transaction knows  *)
(* the whole workspace, except for people who deleted their account and    *)
(* the invitations they had sent; and no workspace, in the database or in  *)
(* a snapshot, ever holds a reference to something that is not there.      *)
THEOREM LocksHold == Spec => []LockInv
BY InitIInv, NextKeepsIInv, InitLockInv, NextKeepsLockInv, PTL DEF Spec

(* A usable invitation is a pending one of its workspace.                  *)
LEMMA UsableIsPending ==
  ASSUME DatabaseOK(db), NEW i \in Invitation, Usable(db, i)
  PROVE  LET w == db[InvitationRow(i)].workspace IN
         w \in Workspace /\ i \in PendingOf(db, w) \ expired
<1>1. db[InvitationRow(i)] \in InvitationRecord
  BY DEF Usable, Exists, DatabaseOK
<1>. QED
  BY <1>1 DEF InvitationRecord, Usable, PendingOf, InvitationsOf

(* Deleting a workspace revokes its pending invitations, however the       *)
(* deletion and the invitation overlap: preview_invitation may rely on it. *)
THEOREM UsableInvitationsLive == Spec => []UsableInvitationIsLive
<1>1. IInv /\ LockInv => UsableInvitationIsLive
  BY UsableIsPending DEF IInv, TypeOK, LockInv, WorkspaceOK, UsableInvitationIsLive
<1>. QED
  BY SnapshotsAgree, LocksHold, <1>1, PTL

(* Nothing of a purged workspace is left behind, and nothing comes back.   *)
THEOREM PurgesAreForGood == Spec => []PurgedForGood
<1>1. ASSUME IInv, LockInv
      PROVE  PurgedForGood
  <2>1. ASSUME NEW w \in Workspace, db[WorkspaceRow(w)] = Gone
        PROVE  /\ MemberIds(db, w) = {}
               /\ InvitationsOf(db, w) = {}
               /\ \A r \in RoleId : ~Exists(db, Role(w, r))
    <3>1. ~Exists(db, WorkspaceRow(w))
      BY <2>1 DEF Exists
    <3>2. MemberIds(db, w) = {}
      BY <1>1, <3>1 DEF IInv, OwnersOK, OwnerOK, Live, MemberIds
    <3>. QED
      BY <1>1, <3>1, <3>2 DEF LockInv, WorkspaceOK
  <2>. QED
    BY <2>1 DEF PurgedForGood
<1>. QED
  BY SnapshotsAgree, LocksHold, <1>1, PTL

(* delete_role never removes a role that a member holds or that a usable   *)
(* invitation would hand out, whatever assignments, invitations, joins and *)
(* transfers run at the same time.                                         *)
THEOREM RolesInUseStay == Spec => []RolesInUseExist
<1>1. IInv /\ LockInv => RolesInUseExist
  BY UsableIsPending DEF IInv, TypeOK, LockInv, WorkspaceOK, RolesInUseExist
<1>. QED
  BY SnapshotsAgree, LocksHold, <1>1, PTL

LEMMA OneUsable ==
  ASSUME IInv, LockInv
  PROVE  OneUsableInvitation
<1>1. ASSUME NEW i \in Invitation, NEW j \in Invitation, Usable(db, i), Usable(db, j),
             db[InvitationRow(i)].workspace = db[InvitationRow(j)].workspace,
             db[InvitationRow(i)].email = db[InvitationRow(j)].email
      PROVE  i = j
  <2>. DEFINE w == db[InvitationRow(i)].workspace
  <2>1. w \in Workspace /\ i \in PendingOf(db, w) \ expired /\ j \in PendingOf(db, w) \ expired
    BY <1>1, UsableIsPending DEF IInv, TypeOK
  <2>. QED
    BY <1>1, <2>1 DEF LockInv, WorkspaceOK
<1>. QED
  BY <1>1 DEF OneUsableInvitation

(* Of two invites to one email that overlap, only one can be accepted.     *)
THEOREM OneInvitationIsUsable == Spec => []OneUsableInvitation
<1>1. IInv /\ LockInv => OneUsableInvitation
  BY OneUsable
<1>. QED
  BY SnapshotsAgree, LocksHold, <1>1, PTL

-----------------------------------------------------------------------------
(*                  The permission a change was granted with               *)

(* A change that commits found its workspace's row untouched, so whoever   *)
(* sent it, unless no longer a member, may still do what was checked.      *)
LEMMA StillPermitted ==
  ASSUME IInv, LockInv, NEW p \in Session, NEW r \in Requests, tx[p].open,
         r.workspace \in Workspace, r.by \in User,
         NEW action, Require(View(p), r.by, action, r.workspace),
         NEW after, AttemptLocked(p, r, after), db' # db
  PROVE  /\ \A y \in RoleId :
              db[Role(r.workspace, y)] = View(p)[Role(r.workspace, y)]
         /\ \/ \A other : Permits(View(p), r.by, other, r.workspace) =>
                            Permits(db, r.by, other, r.workspace)
            \/ ~IsMember(db, r.workspace, r.by) /\ Account(r.by) \in tx[p].touched
<1>. DEFINE s == View(p)
            w == r.workspace
<1>1. Commit(p, {WorkspaceRow(w)}, after, NoRequest)
  BY DEF AttemptLocked, Attempt, AttemptThen, LoseRace, LoseRaceElse
<1>2. WorkspaceRow(w) \notin tx[p].touched
  BY <1>1 DEF Commit, Footprint
<1>3. Remains(db, s, w) /\ \A u \in Left(db, s, w) : Account(u) \in tx[p].touched
  BY <1>2 DEF LockInv, View
<1>4. r.by \in MemberIds(s, w)
  BY DEF Require, Permits, MemberIds
<1>5. \A y \in RoleId : db[Role(w, y)] = s[Role(w, y)]
  BY <1>3 DEF Remains
<1>6. CASE IsMember(db, w, r.by)
  <2>1. db[Member(w, r.by)] = s[Member(w, r.by)] /\ s[Member(w, r.by)] \in RoleId
    <3>1. s[Member(w, r.by)] \in RoleId
      BY <1>4, OpenView DEF MemberIds, IsMember, Exists, DatabaseOK
    <3>. QED
      BY <1>3, <1>6, <3>1 DEF Remains, MemberIds
  <2>. DEFINE role == s[Member(w, r.by)]
  <2>2. db[WorkspaceRow(w)] = s[WorkspaceRow(w)] /\ db[Role(w, role)] = s[Role(w, role)]
    BY <1>3, <2>1 DEF Remains
  <2>3. Live(db, w) <=> Live(s, w)
    BY <2>2 DEF Live, Exists
  <2>4. Exists(db, Role(w, role)) <=> Exists(s, Role(w, role))
    BY <2>2 DEF Exists
  <2>5. ASSUME NEW other, Permits(s, r.by, other, w)
        PROVE  Permits(db, r.by, other, w)
    BY <1>6, <2>1, <2>2, <2>3, <2>4, <2>5 DEF Permits
  <2>. QED
    BY <1>5, <2>5
<1>7. CASE ~IsMember(db, w, r.by)
  <2>1. r.by \in Left(db, s, w)
    BY <1>4, <1>7 DEF Left, MemberIds
  <2>. QED
    BY <1>3, <1>7, <1>5, <2>1
<1>. QED
  BY <1>6, <1>7

(* The calls whose permission the property looks at, as changes of a       *)
(* locked workspace.                                                       *)
LEMMA GuardedChanges ==
  ASSUME NEW p \in Session, NEW r \in Requests, r.call \in DOMAIN Guarding, Serve(p, r)
  PROVE  /\ Changes(p, r, r.call, Guarding[r.call])
         /\ \E after : AttemptLocked(p, r, after)
         /\ r.call = "invite" => Invite(p, r)
<1>1. CASE \/ Register(p, r) \/ EnsureAccount(p, r) \/ RenameProfile(p, r)
           \/ StartAccountDeletion(p, r) \/ CreateWorkspace(p, r) \/ UpdateWorkspace(p, r)
           \/ PurgeWorkspace(p, r) \/ AcceptInvitation(p, r)
  BY <1>1 DEF Register, EnsureAccount, RenameProfile, StartAccountDeletion, CreateWorkspace,
     UpdateWorkspace, PurgeWorkspace, AcceptInvitation, Changes, Sends, Guarding
<1>2. CASE DeleteWorkspace(p, r)
  BY <1>2 DEF DeleteWorkspace, Changes, Sends, Guarding
<1>3. CASE CreateRole(p, r)
  BY <1>3 DEF CreateRole, Changes, Sends, Guarding
<1>4. CASE RenameRole(p, r)
  BY <1>4 DEF RenameRole, Changes, Sends, Guarding
<1>5. CASE DeleteRole(p, r)
  BY <1>5 DEF DeleteRole, Changes, Sends, Guarding
<1>6. CASE SetPermissions(p, r)
  BY <1>6 DEF SetPermissions, Changes, Sends, Guarding
<1>7. CASE SetMemberRole(p, r)
  BY <1>7 DEF SetMemberRole, Changes, Sends, Guarding
<1>8. CASE RemoveMember(p, r)
  BY <1>8 DEF RemoveMember, Changes, Sends, Guarding
<1>9. CASE Transfer(p, r)
  BY <1>9 DEF Transfer, Changes, Sends, Guarding
<1>10. CASE Invite(p, r)
  BY <1>10 DEF Invite, Changes, Sends, Guarding
<1>11. CASE RevokeInvitation(p, r)
  BY <1>11 DEF RevokeInvitation, Changes, Sends, Guarding
<1>. QED
  BY <1>1, <1>2, <1>3, <1>4, <1>5, <1>6, <1>7, <1>8, <1>9, <1>10, <1>11 DEF Serve

(* A change to members, roles or invitations that commits is one its       *)
(* sender may still make in the state it commits to, whatever was revoked, *)
(* reassigned or transferred since it was checked; only the sender's own   *)
(* account deletion, which takes no workspace lock, can overtake it.       *)
THEOREM AuthorisedChanges == Spec => AuthorisedWhenCommitted
<1>1. ASSUME IInv, LockInv, NEW p \in Session, Commits(p), NEW r \in Asked,
             r.call \in DOMAIN Guarding, Serve(p, r)
      PROVE  \/ /\ Permits(db, r.by, Guarding[r.call], r.workspace)
                /\ r.call = "invite" => /\ Configurable(db, r.workspace, r.role)
                                        /\ Invitable(db, r.by, r.workspace, r.role)
             \/ ~IsMember(db, r.workspace, r.by) /\ Account(r.by) \in tx[p].touched
  <2>. DEFINE s == View(p)
              w == r.workspace
              action == Guarding[r.call]
  <2>1. r \in Requests /\ tx[p].open /\ db' # db
    BY <1>1 DEF Asked, Commits
  <2>2. w \in Workspace /\ r.by \in User
    BY <1>1, <2>1, RequestFields DEF Guarding
  <2>3. /\ Require(s, r.by, action, w)
        /\ \E after : AttemptLocked(p, r, after)
        /\ r.call = "invite" => Invite(p, r)
    BY <1>1, <2>1, GuardedChanges DEF Changes
  <2>4. /\ \A y \in RoleId : db[Role(w, y)] = s[Role(w, y)]
        /\ \/ \A other : Permits(s, r.by, other, w) => Permits(db, r.by, other, w)
           \/ ~IsMember(db, w, r.by) /\ Account(r.by) \in tx[p].touched
    BY <1>1, <2>1, <2>2, <2>3, StillPermitted
  <2>5. CASE \A other : Permits(s, r.by, other, w) => Permits(db, r.by, other, w)
    <3>1. Permits(db, r.by, action, w)
      BY <2>3, <2>5 DEF Require
    <3>2. ASSUME r.call = "invite"
          PROVE  Configurable(db, w, r.role) /\ Invitable(db, r.by, w, r.role)
      <4>1. r.role \in RoleId
        BY <2>1, <3>2, RequestFields
      <4>2. db[Role(w, r.role)] = s[Role(w, r.role)]
        BY <2>4, <4>1
      <4>3. Configurable(s, w, r.role) /\ Invitable(s, r.by, w, r.role)
        BY <2>3, <3>2 DEF Invite
      <4>. QED
        BY <2>5, <4>2, <4>3 DEF Configurable, Invitable, Exists
    <3>. QED
      BY <3>1, <3>2
  <2>. QED
    BY <2>4, <2>5
<1>2. IInv /\ LockInv =>
        [\A p \in Session : Commits(p) =>
           \A r \in Asked : r.call \in DOMAIN Guarding /\ Serve(p, r) =>
             \/ /\ Permits(db, r.by, Guarding[r.call], r.workspace)
                /\ r.call = "invite" => /\ Configurable(db, r.workspace, r.role)
                                        /\ Invitable(db, r.by, r.workspace, r.role)
             \/ ~IsMember(db, r.workspace, r.by) /\ Account(r.by) \in tx[p].touched]_vars
  BY <1>1
<1>. QED
  BY SnapshotsAgree, LocksHold, <1>2, PTL DEF AuthorisedWhenCommitted
=============================================================================
