-------------------------- MODULE WorkspacesProofs --------------------------
(***************************************************************************)
(* Proofs about Workspaces for any number of sessions, accounts,           *)
(* workspaces, roles and invitations.                                      *)
(***************************************************************************)
EXTENDS Workspaces, UnitOfWorkProofs

-----------------------------------------------------------------------------
(* Rows of different tables, or with different keys, are different rows.   *)
LEMMA RowsDiffer ==
  ASSUME NEW u, NEW w, NEW r, NEW i, NEW x, NEW y
  PROVE  /\ Account(u) = Account(x) <=> u = x
         /\ WorkspaceRow(w) = WorkspaceRow(x) <=> w = x
         /\ InvitationRow(i) = InvitationRow(x) <=> i = x
         /\ Role(w, r) = Role(x, y) <=> w = x /\ r = y
         /\ Member(w, u) = Member(x, y) <=> w = x /\ u = y
         /\ Account(u) # WorkspaceRow(w)
         /\ Account(u) # InvitationRow(i)
         /\ Account(u) # Role(w, r)
         /\ Account(u) # Member(w, x)
         /\ WorkspaceRow(w) # InvitationRow(i)
         /\ WorkspaceRow(w) # Role(x, r)
         /\ WorkspaceRow(w) # Member(x, u)
         /\ InvitationRow(i) # Role(w, r)
         /\ InvitationRow(i) # Member(w, u)
         /\ Role(w, r) # Member(x, u)
BY DEF Account, WorkspaceRow, InvitationRow, Role, Member

(* The same fact, one table at a time.                                     *)
LEMMA MemberRowDiffers ==
  ASSUME NEW w, NEW u
  PROVE  /\ \A x, y : Member(x, y) = Member(w, u) <=> x = w /\ y = u
         /\ \A x : Account(x) # Member(w, u)
         /\ \A x : WorkspaceRow(x) # Member(w, u)
         /\ \A x, y : Role(x, y) # Member(w, u)
         /\ \A x : InvitationRow(x) # Member(w, u)
BY RowsDiffer

LEMMA WorkspaceRowDiffers ==
  ASSUME NEW w
  PROVE  /\ \A x : WorkspaceRow(x) = WorkspaceRow(w) <=> x = w
         /\ \A x : Account(x) # WorkspaceRow(w)
         /\ \A x, y : Member(x, y) # WorkspaceRow(w)
         /\ \A x, y : Role(x, y) # WorkspaceRow(w)
         /\ \A x : InvitationRow(x) # WorkspaceRow(w)
BY RowsDiffer

LEMMA AccountRowDiffers ==
  ASSUME NEW u
  PROVE  /\ \A x : Account(x) = Account(u) <=> x = u
         /\ \A x : WorkspaceRow(x) # Account(u)
         /\ \A x, y : Role(x, y) # Account(u)
         /\ \A x, y : Member(x, y) # Account(u)
         /\ \A x : InvitationRow(x) # Account(u)
BY RowsDiffer

LEMMA RoleRowDiffers ==
  ASSUME NEW w, NEW r
  PROVE  /\ \A x : Account(x) # Role(w, r)
         /\ \A x : WorkspaceRow(x) # Role(w, r)
         /\ \A x, y : Role(x, y) = Role(w, r) <=> x = w /\ y = r
         /\ \A x, y : Member(x, y) # Role(w, r)
         /\ \A x : InvitationRow(x) # Role(w, r)
BY RowsDiffer

LEMMA InvitationRowDiffers ==
  ASSUME NEW i
  PROVE  /\ \A x : Account(x) # InvitationRow(i)
         /\ \A x : WorkspaceRow(x) # InvitationRow(i)
         /\ \A x, y : Role(x, y) # InvitationRow(i)
         /\ \A x, y : Member(x, y) # InvitationRow(i)
         /\ \A x : InvitationRow(x) = InvitationRow(i) <=> x = i
BY RowsDiffer

LEMMA RowsExist ==
  /\ \A u \in User : Account(u) \in Row
  /\ \A w \in Workspace : WorkspaceRow(w) \in Row
  /\ \A w \in Workspace, r \in RoleId : Role(w, r) \in Row
  /\ \A w \in Workspace, u \in User : Member(w, u) \in Row
  /\ \A i \in Invitation : InvitationRow(i) \in Row
BY DEF Row

-----------------------------------------------------------------------------
(*                     The locking discipline                              *)

(* The locking discipline of the use cases, as a relation between the view *)
(* a transaction read, the rows it locked and the view it leaves: a member *)
(* row changes only under the workspace's row, unless it is the removal of *)
(* somebody who is not the owner.                                          *)
Disciplined(s, locked, after) ==
  /\ locked \subseteq Row
  /\ DatabaseOK(after)
  /\ OwnersOK(after)
  /\ \A w \in Workspace : after[WorkspaceRow(w)] = Absent => s[WorkspaceRow(w)] = Absent
  /\ \A w \in Workspace, u \in User : after[Member(w, u)] # s[Member(w, u)] =>
       \/ WorkspaceRow(w) \in locked
       \/ after[WorkspaceRow(w)] # s[WorkspaceRow(w)]
       \/ after[Member(w, u)] = Absent /\ s[Member(w, u)] # OwnerRole

-----------------------------------------------------------------------------
(*                     Commits keep the invariant                          *)

(* The database after a commit: each row is as the transaction left it or  *)
(* as it was.                                                              *)
LEMMA MergedDatabaseOK ==
  ASSUME NEW p \in Session, NEW locked, NEW after, NEW next,
         DatabaseOK(db), DatabaseOK(after), Commit(p, locked, after, next)
  PROVE  DatabaseOK(db')
<1>1. DOMAIN db' = Row
  BY DEF Commit, DatabaseOK
<1>2. \A row \in Row : db'[row] \in {db[row], after[row]}
  BY MergedRow DEF DatabaseOK
<1>. HIDE DEF Commit
<1>3. \A u \in User : db'[Account(u)] \in Status \cup {Absent, Gone}
  BY <1>2, RowsExist DEF DatabaseOK
<1>4. \A w \in Workspace : db'[WorkspaceRow(w)] \in WorkspaceRecord \cup {Absent, Gone}
  BY <1>2, RowsExist DEF DatabaseOK
<1>5. \A w \in Workspace, r \in RoleId : db'[Role(w, r)] \in RoleRecord \cup {Absent, Gone}
  BY <1>2, RowsExist DEF DatabaseOK
<1>6. \A w \in Workspace, u \in User : db'[Member(w, u)] \in RoleId \cup {Absent}
  BY <1>2, RowsExist DEF DatabaseOK
<1>7. \A i \in Invitation : db'[InvitationRow(i)] \in InvitationRecord \cup {Absent, Gone}
  BY <1>2, RowsExist DEF DatabaseOK
<1>. QED
  BY <1>1, <1>3, <1>4, <1>5, <1>6, <1>7 DEF DatabaseOK

(* A disciplined commit leaves every workspace with its single owner.      *)
LEMMA MergedOwnersOK ==
  ASSUME NEW p \in Session, NEW locked, NEW after, NEW next,
         DatabaseOK(db), DatabaseOK(tx[p].snapshot),
         OwnersOK(db), OwnersOK(tx[p].snapshot),
         Agrees(db, tx[p].snapshot, tx[p].touched),
         Disciplined(tx[p].snapshot, locked, after),
         Commit(p, locked, after, next)
  PROVE  OwnersOK(db')
<1>. DEFINE s == tx[p].snapshot
<1>1. ASSUME NEW w \in Workspace
      PROVE  OwnerOK(db', w)
  <2>1. \A row \in Row : db'[row] = IF after[row] # s[row] THEN after[row] ELSE db[row]
    BY MergedRow DEF DatabaseOK
  <2>2. \A row \in Row : after[row] # s[row] \/ row \in locked => row \notin tx[p].touched
    BY DEF Commit, Footprint, Written, DatabaseOK
  <2>3. WorkspaceRow(w) \in Row /\ \A u \in User : Member(w, u) \in Row
    BY RowsExist
  <2>4. OwnerOK(db, w) /\ OwnerOK(s, w) /\ OwnerOK(after, w)
    BY DEF OwnersOK, Disciplined
  <2>5. CASE WorkspaceRow(w) \in locked \/ after[WorkspaceRow(w)] # s[WorkspaceRow(w)]
    <3>1. WorkspaceRow(w) \notin tx[p].touched
      BY <2>2, <2>3, <2>5
    <3>2. db[WorkspaceRow(w)] = s[WorkspaceRow(w)]
      BY <2>3, <3>1 DEF Agrees
    <3>3. db'[WorkspaceRow(w)] = after[WorkspaceRow(w)]
      BY <2>1, <2>3, <3>2
    <3>4. Live(db', w) <=> Live(after, w)
      BY <3>3 DEF Live, Exists
    <3>5. Live(db, w) <=> Live(s, w)
      BY <3>2 DEF Live, Exists
    <3>6. ASSUME NEW u \in User
          PROVE  /\ db'[Member(w, u)] = OwnerRole <=>
                      Live(after, w) /\ after[WorkspaceRow(w)].owner = u
                 /\ db'[Member(w, u)] \in {after[Member(w, u)], Absent}
      <4>1. db[Member(w, u)] \in {s[Member(w, u)], Absent}
        BY <3>1 DEF Agrees
      <4>2. db[Member(w, u)] = OwnerRole <=> s[Member(w, u)] = OwnerRole
        BY <2>4, <3>2, <3>5 DEF OwnerOK
      <4>3. after[Member(w, u)] = OwnerRole <=>
              Live(after, w) /\ after[WorkspaceRow(w)].owner = u
        BY <2>4 DEF OwnerOK
      <4>4. db'[Member(w, u)] = IF after[Member(w, u)] # s[Member(w, u)]
                                THEN after[Member(w, u)] ELSE db[Member(w, u)]
        BY <2>1, <2>3
      <4>. QED
        BY <4>1, <4>2, <4>3, <4>4
    <3>7. ASSUME NEW u \in User
          PROVE  IsMember(db', w, u) => IsMember(after, w, u)
      BY <3>6 DEF IsMember, Exists
    <3>8. ASSUME NEW u \in User
          PROVE  IsMember(after, w, u) => Live(after, w)
      BY <2>4 DEF OwnerOK
    <3>. QED
      BY <3>3, <3>4, <3>6, <3>7, <3>8 DEF OwnerOK
  <2>6. CASE ~(WorkspaceRow(w) \in locked \/ after[WorkspaceRow(w)] # s[WorkspaceRow(w)])
    <3>1. db'[WorkspaceRow(w)] = db[WorkspaceRow(w)]
      BY <2>1, <2>3, <2>6
    <3>2. Live(db', w) <=> Live(db, w)
      BY <3>1 DEF Live, Exists
    <3>3. ASSUME NEW u \in User
          PROVE  /\ db'[Member(w, u)] = OwnerRole <=> db[Member(w, u)] = OwnerRole
                 /\ db'[Member(w, u)] \in {db[Member(w, u)], Absent}
      <4>1. after[Member(w, u)] # s[Member(w, u)] =>
              after[Member(w, u)] = Absent /\ s[Member(w, u)] # OwnerRole
        BY <2>6 DEF Disciplined
      <4>2. after[Member(w, u)] # s[Member(w, u)] => db[Member(w, u)] = s[Member(w, u)]
        BY <2>2, <2>3 DEF Agrees
      <4>3. Absent # OwnerRole
        BY RowContentsAssumption DEF RoleId, SystemRole
      <4>4. db'[Member(w, u)] = IF after[Member(w, u)] # s[Member(w, u)]
                                THEN after[Member(w, u)] ELSE db[Member(w, u)]
        BY <2>1, <2>3
      <4>. QED
        BY <4>1, <4>2, <4>3, <4>4
    <3>4. ASSUME NEW u \in User
          PROVE  IsMember(db', w, u) => IsMember(db, w, u)
      BY <3>3 DEF IsMember, Exists
    <3>. QED
      BY <2>4, <3>1, <3>2, <3>3, <3>4 DEF OwnerOK
  <2>. QED
    BY <2>5, <2>6
<1>. QED
  BY <1>1 DEF OwnersOK

(* What another open transaction relies on survives the commit.            *)
LEMMA MergedAgrees ==
  ASSUME NEW p \in Session, NEW locked, NEW after, NEW next,
         DatabaseOK(db), Agrees(db, tx[p].snapshot, tx[p].touched),
         Disciplined(tx[p].snapshot, locked, after),
         Commit(p, locked, after, next),
         NEW s, NEW touched, Agrees(db, s, touched)
  PROVE  Agrees(db', s, touched \cup Footprint(p, locked, after))
<1>. DEFINE mine == tx[p].snapshot
            footprint == Footprint(p, locked, after)
<1>1. \A row \in Row : db'[row] = IF after[row] # mine[row] THEN after[row] ELSE db[row]
  BY MergedRow DEF DatabaseOK
<1>2. \A row \in Row : after[row] # mine[row] => row \in footprint
  BY DEF Footprint, Written, DatabaseOK
<1>3. \A row \in Row \ (touched \cup footprint) : db'[row] = s[row]
  BY <1>1, <1>2 DEF Agrees
<1>4. ASSUME NEW w \in Workspace, WorkspaceRow(w) \notin touched \cup footprint,
             NEW u \in User
      PROVE  db'[Member(w, u)] \in {s[Member(w, u)], Absent}
  <2>1. db[Member(w, u)] \in {s[Member(w, u)], Absent}
    BY <1>4 DEF Agrees
  <2>2. after[WorkspaceRow(w)] = mine[WorkspaceRow(w)] /\ WorkspaceRow(w) \notin locked
    BY <1>2, <1>4, RowsExist DEF Footprint
  <2>3. after[Member(w, u)] # mine[Member(w, u)] => after[Member(w, u)] = Absent
    BY <2>2 DEF Disciplined
  <2>. QED
    BY <1>1, <2>1, <2>3, RowsExist
<1>5. ASSUME NEW w \in Workspace, db'[WorkspaceRow(w)] = Absent
      PROVE  s[WorkspaceRow(w)] = Absent
  <2>1. after[WorkspaceRow(w)] = Absent => mine[WorkspaceRow(w)] = Absent
    BY DEF Disciplined
  <2>2. db[WorkspaceRow(w)] = Absent
    BY <1>1, <1>5, <2>1, RowsExist
  <2>. QED
    BY <2>2 DEF Agrees
<1>. QED
  BY <1>3, <1>4, <1>5 DEF Agrees

(* The other transactions after a commit.                                  *)
LEMMA MergedTransactions ==
  ASSUME TypeOK, NEW p \in Session, NEW locked, NEW after,
         NEW next \in Deletions \cup {NoRequest},
         locked \subseteq Row, Commit(p, locked, after, next), NEW q \in Session
  PROVE  /\ TransactionOK(tx[q])'
         /\ tx'[q].open => /\ q # p /\ tx[q].open
                           /\ tx'[q].snapshot = tx[q].snapshot
                           /\ tx'[q].touched = tx[q].touched \cup Footprint(p, locked, after)
<1>1. Footprint(p, locked, after) \subseteq Row
  BY DEF Footprint, Written, TypeOK, DatabaseOK
<1>2. CASE q = p
  <2>1. tx'[q] = Waiting(next, 1)
    BY <1>2 DEF Commit
  <2>. QED
    BY <2>1, AttemptsAssumption DEF Waiting, TransactionOK
<1>3. CASE q # p /\ tx[q].open
  <2>1. tx'[q] = [tx[q] EXCEPT !.touched = @ \cup Footprint(p, locked, after)]
    BY <1>3 DEF Commit
  <2>. QED
    BY <1>1, <1>3, <2>1 DEF TypeOK, TransactionOK
<1>4. CASE q # p /\ ~tx[q].open
  <2>1. tx'[q] = tx[q]
    BY <1>4 DEF Commit
  <2>. QED
    BY <1>4, <2>1 DEF TypeOK, TransactionOK
<1>. QED
  BY <1>2, <1>3, <1>4

(* A disciplined commit keeps the invariant, for every other session too.  *)
LEMMA CommitKeepsIInv ==
  ASSUME IInv, NEW p \in Session, tx[p].open, NEW locked, NEW after,
         NEW next \in Deletions \cup {NoRequest},
         Disciplined(tx[p].snapshot, locked, after),
         Commit(p, locked, after, next), UNCHANGED expired
  PROVE  IInv'
<1>1. /\ DatabaseOK(db) /\ DatabaseOK(tx[p].snapshot) /\ DatabaseOK(after)
      /\ OwnersOK(db) /\ OwnersOK(tx[p].snapshot)
      /\ Agrees(db, tx[p].snapshot, tx[p].touched)
      /\ locked \subseteq Row
  BY DEF IInv, TypeOK, TransactionOK, Disciplined
<1>2. DatabaseOK(db')
  BY <1>1, MergedDatabaseOK
<1>3. \A q \in Session : TransactionOK(tx'[q])
  BY <1>1, MergedTransactions DEF IInv
<1>4. OwnersOK(db')
  BY <1>1, MergedOwnersOK
<1>5. ASSUME NEW q \in Session, tx'[q].open
      PROVE  OwnersOK(tx'[q].snapshot) /\ Agrees(db', tx'[q].snapshot, tx'[q].touched)
  <2>1. /\ tx[q].open
        /\ tx'[q].snapshot = tx[q].snapshot
        /\ tx'[q].touched = tx[q].touched \cup Footprint(p, locked, after)
    BY <1>1, <1>5, MergedTransactions DEF IInv
  <2>2. OwnersOK(tx[q].snapshot) /\ Agrees(db, tx[q].snapshot, tx[q].touched)
    BY <2>1 DEF IInv
  <2>3. Agrees(db', tx[q].snapshot, tx[q].touched \cup Footprint(p, locked, after))
    BY <1>1, <2>2, MergedAgrees
  <2>. QED
    BY <2>1, <2>2, <2>3
<1>6. DOMAIN tx' = Session
  BY DEF Commit
<1>. QED
  BY <1>2, <1>3, <1>4, <1>5, <1>6 DEF IInv, TypeOK

-----------------------------------------------------------------------------
(*            Steps that leave the database as it is                       *)

(* A session that is given a new record while the database stays.          *)
LEMMA QuietStepKeepsIInv ==
  ASSUME IInv, NEW p \in Session, NEW t, TransactionOK(t),
         t.open => OwnersOK(t.snapshot) /\ Agrees(db, t.snapshot, t.touched),
         tx' = [tx EXCEPT ![p] = t], UNCHANGED <<db, expired>>
  PROVE  IInv'
<1>1. /\ DOMAIN tx' = Session
      /\ \A q \in Session : tx'[q] = IF q = p THEN t ELSE tx[q]
  BY DEF IInv, TypeOK
<1>2. TypeOK'
  BY <1>1 DEF IInv, TypeOK
<1>3. OwnersOK(db')
  BY DEF IInv
<1>4. ASSUME NEW q \in Session, tx'[q].open
      PROVE  OwnersOK(tx'[q].snapshot) /\ Agrees(db', tx'[q].snapshot, tx'[q].touched)
  BY <1>1, <1>4 DEF IInv
<1>. QED
  BY <1>2, <1>3, <1>4 DEF IInv

(* Sessions without an open transaction.                                   *)
LEMMA WaitingOK ==
  ASSUME NEW r \in Requests \cup Deletions \cup {NoRequest}, NEW n \in 1 .. ATTEMPTS
  PROVE  TransactionOK(Waiting(r, n)) /\ ~Waiting(r, n).open
BY DEF TransactionOK, Waiting

LEMMA IdleOK == TransactionOK(Idle) /\ ~Idle.open
BY WaitingOK, AttemptsAssumption DEF Idle

(* A refused request, and one that lost a race, change the session only.   *)
LEMMA RollBackKeepsIInv ==
  ASSUME IInv, NEW p \in Session, RollBack(p), UNCHANGED expired
  PROVE  IInv'
BY IdleOK, QuietStepKeepsIInv DEF RollBack

LEMMA LoseRaceKeepsIInv ==
  ASSUME IInv, NEW p \in Session, NEW r \in Requests \cup Deletions,
         NEW locked, NEW after,
         LoseRace(p, r, locked, after), UNCHANGED expired
  PROVE  IInv'
<1>. DEFINE t == IF tx[p].attempt = ATTEMPTS THEN Idle ELSE Waiting(r, tx[p].attempt + 1)
<1>1. tx[p].attempt \in 1 .. ATTEMPTS
  BY DEF IInv, TypeOK, TransactionOK
<1>2. TransactionOK(t) /\ ~t.open
  <2>1. CASE tx[p].attempt = ATTEMPTS
    BY <2>1, IdleOK
  <2>2. CASE tx[p].attempt # ATTEMPTS
    BY <1>1, <2>2, WaitingOK, AttemptsAssumption
  <2>. QED
    BY <2>1, <2>2
<1>. QED
  BY <1>2, QuietStepKeepsIInv DEF LoseRace, LoseRaceElse, Idle

(* A new snapshot is the database itself.                                  *)
LEMMA BeginKeepsIInv ==
  ASSUME IInv, NEW p \in Session, Begin(p), UNCHANGED expired
  PROVE  IInv'
<1>. DEFINE t == [tx[p] EXCEPT !.open = TRUE, !.snapshot = db]
<1>1. TransactionOK(tx[p]) /\ ~tx[p].open /\ DatabaseOK(db) /\ OwnersOK(db)
  BY DEF IInv, TypeOK, Begin
<1>2. TransactionOK(t) /\ t.open /\ t.snapshot = db
  BY <1>1 DEF TransactionOK
<1>3. Agrees(db, t.snapshot, t.touched)
  BY <1>2 DEF Agrees
<1>4. tx' = [tx EXCEPT ![p] = t]
  BY DEF Begin, IInv, TypeOK
<1>. HIDE DEF t
<1>. QED
  BY <1>1, <1>2, <1>3, <1>4, QuietStepKeepsIInv DEF Begin

(* The first check of an account deletion reads and remembers.             *)
LEMMA StartAccountDeletionKeepsIInv ==
  ASSUME IInv, NEW p \in Session, NEW r \in Requests, StartAccountDeletion(p, r),
         UNCHANGED expired
  PROVE  IInv'
<1>. DEFINE d == Deletion(r.by, DeletedIds(View(p), r.by))
            t == [tx[p] EXCEPT !.request = d]
<1>1. TransactionOK(tx[p])
  BY DEF IInv, TypeOK
<1>2. d \in Deletions
  <2>1. r.by \in User
    BY RequestsAssumption DEF StartAccountDeletion, Sends, Request
  <2>. QED
    BY <2>1 DEF Deletions, DeletedIds
<1>. HIDE DEF d
<1>3. /\ TransactionOK(t)
      /\ t.open = tx[p].open /\ t.snapshot = tx[p].snapshot /\ t.touched = tx[p].touched
  BY <1>1, <1>2 DEF TransactionOK
<1>4. tx' = [tx EXCEPT ![p] = t]
  BY DEF StartAccountDeletion, IInv, TypeOK, d
<1>5. t.open => OwnersOK(t.snapshot) /\ Agrees(db, t.snapshot, t.touched)
  BY <1>3 DEF IInv
<1>. HIDE DEF t
<1>. QED
  BY <1>3, <1>4, <1>5, QuietStepKeepsIInv DEF StartAccountDeletion

(* One run of a use case whose view keeps the locking discipline.          *)
LEMMA AttemptKeepsIInv ==
  ASSUME IInv, NEW p \in Session, tx[p].open, NEW r \in Requests \cup Deletions,
         NEW next \in Deletions \cup {NoRequest}, NEW locked, NEW after,
         Disciplined(tx[p].snapshot, locked, after),
         AttemptThen(p, r, locked, after, next), UNCHANGED expired
  PROVE  IInv'
BY CommitKeepsIInv, LoseRaceKeepsIInv DEF AttemptThen
-----------------------------------------------------------------------------
(*                  Views that change a few rows                           *)

(* One row of a view after Put, and after an EXCEPT.                       *)
LEMMA PutRow ==
  ASSUME NEW v, DOMAIN v = Row, NEW rows, NEW contents
  PROVE  /\ DOMAIN Put(v, rows, contents) = Row
         /\ \A row \in Row :
              Put(v, rows, contents)[row] = IF row \in rows THEN contents ELSE v[row]
BY DEF Put

(* Two views with the same workspaces and the same members.                *)
SameMembership(v, after) ==
  \A w \in Workspace :
    /\ after[WorkspaceRow(w)] = v[WorkspaceRow(w)]
    /\ \A u \in User : after[Member(w, u)] = v[Member(w, u)]

(* Ownership depends on workspaces and members only.                       *)
LEMMA SameMembershipOwners ==
  ASSUME NEW v, NEW after, SameMembership(v, after), OwnersOK(v)
  PROVE  OwnersOK(after)
BY DEF SameMembership, OwnersOK, OwnerOK, Live, IsMember, Exists

(* A view that leaves workspaces and members alone is disciplined.         *)
LEMMA QuietView ==
  ASSUME NEW s, OwnersOK(s), NEW after, DatabaseOK(after), SameMembership(s, after),
         NEW locked, locked \subseteq Row
  PROVE  Disciplined(s, locked, after)
BY SameMembershipOwners DEF Disciplined, SameMembership

LEMMA SetRow ==
  ASSUME NEW v, DOMAIN v = Row, NEW key, NEW contents
  PROVE  /\ DOMAIN [v EXCEPT ![key] = contents] = Row
         /\ \A row \in Row :
              [v EXCEPT ![key] = contents][row] = IF row = key THEN contents ELSE v[row]
OBVIOUS

(* A view with one row changed, table by table.                            *)
LEMMA SetAccount ==
  ASSUME NEW v, DatabaseOK(v), NEW u \in User, NEW c \in Status \cup {Absent, Gone}
  PROVE  /\ DatabaseOK([v EXCEPT ![Account(u)] = c])
         /\ SameMembership(v, [v EXCEPT ![Account(u)] = c])
         /\ [v EXCEPT ![Account(u)] = c][Account(u)] = c
<1>. DEFINE after == [v EXCEPT ![Account(u)] = c]
<1>1. /\ DOMAIN after = Row
      /\ \A row \in Row : after[row] = IF row = Account(u) THEN c ELSE v[row]
  BY SetRow DEF DatabaseOK
<1>. HIDE DEF after
<1>2. DatabaseOK(after)
  BY <1>1, AccountRowDiffers, RowsExist DEF DatabaseOK
<1>3. SameMembership(v, after)
  BY <1>1, AccountRowDiffers, RowsExist DEF SameMembership
<1>. QED
  BY <1>1, <1>2, <1>3, RowsExist DEF after

LEMMA SetRole ==
  ASSUME NEW v, DatabaseOK(v), NEW w \in Workspace, NEW r \in RoleId,
         NEW c \in RoleRecord \cup {Absent, Gone}
  PROVE  /\ DatabaseOK([v EXCEPT ![Role(w, r)] = c])
         /\ SameMembership(v, [v EXCEPT ![Role(w, r)] = c])
<1>. DEFINE after == [v EXCEPT ![Role(w, r)] = c]
<1>1. /\ DOMAIN after = Row
      /\ \A row \in Row : after[row] = IF row = Role(w, r) THEN c ELSE v[row]
  BY SetRow DEF DatabaseOK
<1>. HIDE DEF after
<1>2. DatabaseOK(after)
  BY <1>1, RoleRowDiffers, RowsExist DEF DatabaseOK
<1>3. SameMembership(v, after)
  BY <1>1, RoleRowDiffers, RowsExist DEF SameMembership
<1>. QED
  BY <1>1, <1>2, <1>3, RowsExist DEF after

LEMMA SetInvitation ==
  ASSUME NEW v, DatabaseOK(v), NEW i \in Invitation,
         NEW c \in InvitationRecord \cup {Absent, Gone}
  PROVE  /\ DatabaseOK([v EXCEPT ![InvitationRow(i)] = c])
         /\ SameMembership(v, [v EXCEPT ![InvitationRow(i)] = c])
<1>. DEFINE after == [v EXCEPT ![InvitationRow(i)] = c]
<1>1. /\ DOMAIN after = Row
      /\ \A row \in Row : after[row] = IF row = InvitationRow(i) THEN c ELSE v[row]
  BY SetRow DEF DatabaseOK
<1>. HIDE DEF after
<1>2. DatabaseOK(after)
  BY <1>1, InvitationRowDiffers, RowsExist DEF DatabaseOK
<1>3. SameMembership(v, after)
  BY <1>1, InvitationRowDiffers, RowsExist DEF SameMembership
<1>. QED
  BY <1>1, <1>2, <1>3, RowsExist DEF after

LEMMA SetMember ==
  ASSUME NEW v, DatabaseOK(v), NEW w \in Workspace, NEW u \in User,
         NEW c \in RoleId \cup {Absent}
  PROVE  DatabaseOK([v EXCEPT ![Member(w, u)] = c])
<1>. DEFINE after == [v EXCEPT ![Member(w, u)] = c]
<1>1. /\ DOMAIN after = Row
      /\ \A row \in Row : after[row] = IF row = Member(w, u) THEN c ELSE v[row]
  BY SetRow DEF DatabaseOK
<1>. HIDE DEF after
<1>2. DatabaseOK(after)
  <2>1. \A x \in User : after[Account(x)] \in Status \cup {Absent, Gone}
    BY <1>1, MemberRowDiffers, RowsExist DEF DatabaseOK
  <2>2. \A x \in Workspace : after[WorkspaceRow(x)] \in WorkspaceRecord \cup {Absent, Gone}
    BY <1>1, MemberRowDiffers, RowsExist DEF DatabaseOK
  <2>3. \A x \in Workspace, y \in RoleId : after[Role(x, y)] \in RoleRecord \cup {Absent, Gone}
    BY <1>1, MemberRowDiffers, RowsExist DEF DatabaseOK
  <2>4. \A x \in Workspace, y \in User : after[Member(x, y)] \in RoleId \cup {Absent}
    BY <1>1, MemberRowDiffers, RowsExist DEF DatabaseOK
  <2>5. \A x \in Invitation : after[InvitationRow(x)] \in InvitationRecord \cup {Absent, Gone}
    BY <1>1, MemberRowDiffers, RowsExist DEF DatabaseOK
  <2>. QED
    BY <1>1, <2>1, <2>2, <2>3, <2>4, <2>5 DEF DatabaseOK
<1>. QED
  BY <1>2 DEF after

LEMMA SetWorkspace ==
  ASSUME NEW v, DatabaseOK(v), NEW w \in Workspace,
         NEW c \in WorkspaceRecord \cup {Absent, Gone}
  PROVE  DatabaseOK([v EXCEPT ![WorkspaceRow(w)] = c])
<1>. DEFINE after == [v EXCEPT ![WorkspaceRow(w)] = c]
<1>1. /\ DOMAIN after = Row
      /\ \A row \in Row : after[row] = IF row = WorkspaceRow(w) THEN c ELSE v[row]
  BY SetRow DEF DatabaseOK
<1>. HIDE DEF after
<1>2. DatabaseOK(after)
  <2>1. \A x \in User : after[Account(x)] \in Status \cup {Absent, Gone}
    BY <1>1, WorkspaceRowDiffers, RowsExist DEF DatabaseOK
  <2>2. \A x \in Workspace : after[WorkspaceRow(x)] \in WorkspaceRecord \cup {Absent, Gone}
    BY <1>1, WorkspaceRowDiffers, RowsExist DEF DatabaseOK
  <2>3. \A x \in Workspace, y \in RoleId : after[Role(x, y)] \in RoleRecord \cup {Absent, Gone}
    BY <1>1, WorkspaceRowDiffers, RowsExist DEF DatabaseOK
  <2>4. \A x \in Workspace, y \in User : after[Member(x, y)] \in RoleId \cup {Absent}
    BY <1>1, WorkspaceRowDiffers, RowsExist DEF DatabaseOK
  <2>5. \A x \in Invitation : after[InvitationRow(x)] \in InvitationRecord \cup {Absent, Gone}
    BY <1>1, WorkspaceRowDiffers, RowsExist DEF DatabaseOK
  <2>. QED
    BY <1>1, <2>1, <2>2, <2>3, <2>4, <2>5 DEF DatabaseOK
<1>. QED
  BY <1>2 DEF after

(* Sending people back to the workspace step changes accounts only.        *)
LEMMA ReturnView ==
  ASSUME NEW v, DatabaseOK(v), NEW us \in SUBSET User
  PROVE  /\ DatabaseOK(ReturnToWorkspaceStep(v, us))
         /\ SameMembership(v, ReturnToWorkspaceStep(v, us))
<1>. DEFINE rows == {Account(u) : u \in {x \in us : v[Account(x)] = "completed" /\ ~BelongsToAny(v, x)}}
            after == Put(v, rows, "workspace_pending")
<1>1. /\ DOMAIN after = Row
      /\ \A row \in Row : after[row] = IF row \in rows THEN "workspace_pending" ELSE v[row]
  BY PutRow DEF DatabaseOK
<1>2. \A u, w, r, i : /\ WorkspaceRow(w) \notin rows /\ Member(w, u) \notin rows
                      /\ Role(w, r) \notin rows /\ InvitationRow(i) \notin rows
  BY RowsDiffer
<1>. HIDE DEF rows, after
<1>3. DatabaseOK(after)
  BY <1>1, <1>2, RowsExist DEF DatabaseOK, Status
<1>4. SameMembership(v, after)
  BY <1>1, <1>2, RowsExist DEF SameMembership
<1>. QED
  BY <1>3, <1>4 DEF ReturnToWorkspaceStep, after, rows
-----------------------------------------------------------------------------
(*              Use cases that leave memberships alone                     *)

(* The fields of a request, by call.                                       *)
LEMMA RequestFields ==
  ASSUME NEW r \in Requests
  PROVE  /\ r.call # "purge" => r.by \in User
         /\ r.call \in {"update", "delete", "create_role", "rename_role", "delete_role",
                        "set_permissions", "set_member_role", "remove_member",
                        "transfer", "invite", "revoke_invitation", "purge"}
              => r.workspace \in Workspace
         /\ r.call \in {"create_role", "rename_role"} => r.name \in RoleName
         /\ r.call \in {"rename_role", "delete_role", "set_permissions",
                        "set_member_role", "invite"} => r.role \in RoleId
         /\ r.call = "set_permissions" => r.permissions \in SUBSET Permission
         /\ r.call \in {"set_member_role", "remove_member", "transfer"}
              => r.member \in User
         /\ r.call = "invite" => r.email \in User
         /\ r.call \in {"revoke_invitation", "accept_invitation"}
              => r.invitation \in Invitation
         /\ r.call = "register" => r.invitation \in Invitation \cup {NoInvitation}
BY RequestsAssumption DEF Request

(* What a use case reads is a well-formed snapshot.                        *)
LEMMA OpenView ==
  ASSUME IInv, NEW p \in Session, tx[p].open
  PROVE  DatabaseOK(View(p)) /\ OwnersOK(View(p))
BY DEF IInv, TypeOK, TransactionOK, View

(* A use case that ran on the snapshot of p and kept its members as they   *)
(* were keeps the invariant.                                               *)
LEMMA QuietAttemptKeepsIInv ==
  ASSUME IInv, NEW p \in Session, tx[p].open, NEW r \in Requests \cup Deletions,
         NEW locked, locked \subseteq Row,
         NEW after, DatabaseOK(after), SameMembership(View(p), after),
         Attempt(p, r, locked, after), UNCHANGED expired
  PROVE  IInv'
<1>1. Disciplined(View(p), locked, after)
  BY OpenView, QuietView
<1>. QED
  BY <1>1, AttemptKeepsIInv DEF Attempt, View

(* The use cases, one lemma each.                                          *)
LEMMA EnsureAccountKeepsIInv ==
  ASSUME IInv, NEW p \in Session, NEW r \in Requests, EnsureAccount(p, r), UNCHANGED expired
  PROVE  IInv'
<1>. DEFINE after == [View(p) EXCEPT ![Account(r.by)] = "profile_pending"]
<1>1. tx[p].open /\ r.by \in User /\ Attempt(p, r, {}, after)
  BY RequestFields DEF EnsureAccount, Sends, Serves
<1>2. DatabaseOK(after) /\ SameMembership(View(p), after)
  BY <1>1, OpenView, SetAccount DEF Status
<1>. HIDE DEF after
<1>. QED
  BY <1>1, <1>2, QuietAttemptKeepsIInv

LEMMA RenameProfileKeepsIInv ==
  ASSUME IInv, NEW p \in Session, NEW r \in Requests, RenameProfile(p, r), UNCHANGED expired
  PROVE  IInv'
<1>. DEFINE s == View(p)
            status == IF s[Account(r.by)] # "profile_pending" THEN s[Account(r.by)]
                      ELSE IF BelongsToAny(s, r.by) THEN "completed" ELSE "workspace_pending"
            after == [s EXCEPT ![Account(r.by)] = status]
<1>1. tx[p].open /\ r.by \in User /\ Attempt(p, r, {Account(r.by)}, after)
  BY RequestFields DEF RenameProfile, Sends, Serves
<1>2. status \in Status \cup {Absent, Gone}
  BY <1>1, OpenView DEF Status, DatabaseOK
<1>. HIDE DEF status
<1>3. DatabaseOK(after) /\ SameMembership(View(p), after)
  BY <1>1, <1>2, OpenView, SetAccount
<1>4. {Account(r.by)} \subseteq Row
  BY <1>1, RowsExist
<1>. HIDE DEF after
<1>. QED
  BY <1>1, <1>3, <1>4, QuietAttemptKeepsIInv

(* A change under the lock of a workspace.                                 *)
LEMMA ChangesFacts ==
  ASSUME NEW p \in Session, NEW r \in Requests, NEW call, NEW action,
         Changes(p, r, call, action),
         call \in {"update", "delete", "create_role", "rename_role", "delete_role",
                   "set_permissions", "set_member_role", "remove_member",
                   "transfer", "invite", "revoke_invitation"}
  PROVE  /\ tx[p].open /\ r.call = call /\ r.by \in User /\ r.workspace \in Workspace
         /\ {WorkspaceRow(r.workspace)} \subseteq Row
         /\ Live(View(p), r.workspace) /\ IsMember(View(p), r.workspace, r.by)
         /\ action \in OwnerActions => r.by = View(p)[WorkspaceRow(r.workspace)].owner
BY RequestFields, RowsExist DEF Changes, Sends, Serves, Require, Permits

LEMMA CreateRoleKeepsIInv ==
  ASSUME IInv, NEW p \in Session, NEW r \in Requests, CreateRole(p, r), UNCHANGED expired
  PROVE  IInv'
<1>1. PICK role \in SpareRole :
        AttemptLocked(p, r, [View(p) EXCEPT ![Role(r.workspace, role)] =
                               [name |-> r.name, system |-> FALSE, permissions |-> {}]])
  BY DEF CreateRole
<1>. DEFINE c == [name |-> r.name, system |-> FALSE, permissions |-> {}]
            after == [View(p) EXCEPT ![Role(r.workspace, role)] = c]
<1>2. Changes(p, r, "create_role", "roles.manage")
  BY DEF CreateRole
<1>3. /\ tx[p].open /\ r.call = "create_role" /\ r.workspace \in Workspace
      /\ {WorkspaceRow(r.workspace)} \subseteq Row
  BY <1>2, ChangesFacts
<1>4. c \in RoleRecord /\ role \in RoleId
  BY <1>3, RequestFields DEF RoleRecord, RoleId
<1>. HIDE DEF c
<1>5. DatabaseOK(after) /\ SameMembership(View(p), after)
  BY <1>3, <1>4, OpenView, SetRole
<1>6. Attempt(p, r, {WorkspaceRow(r.workspace)}, after)
  BY <1>1 DEF AttemptLocked, c
<1>. HIDE DEF after
<1>. QED
  BY <1>3, <1>5, <1>6, QuietAttemptKeepsIInv

LEMMA RenameRoleKeepsIInv ==
  ASSUME IInv, NEW p \in Session, NEW r \in Requests, RenameRole(p, r), UNCHANGED expired
  PROVE  IInv'
<1>. DEFINE old == View(p)[Role(r.workspace, r.role)]
            c == [old EXCEPT !.name = r.name]
            after == [View(p) EXCEPT ![Role(r.workspace, r.role)] = c]
<1>1. Changes(p, r, "rename_role", "roles.manage")
  BY DEF RenameRole
<1>2. /\ tx[p].open /\ r.call = "rename_role" /\ r.workspace \in Workspace
      /\ {WorkspaceRow(r.workspace)} \subseteq Row
  BY <1>1, ChangesFacts
<1>3. r.role \in RoleId /\ r.name \in RoleName
  BY <1>2, RequestFields
<1>4. old \in RoleRecord
  BY <1>2, <1>3, OpenView DEF RenameRole, Configurable, Exists, DatabaseOK
<1>5. c \in RoleRecord
  BY <1>3, <1>4 DEF RoleRecord
<1>6. Attempt(p, r, {WorkspaceRow(r.workspace)}, after)
  BY DEF RenameRole, AttemptLocked
<1>. HIDE DEF c
<1>7. DatabaseOK(after) /\ SameMembership(View(p), after)
  BY <1>2, <1>3, <1>5, OpenView, SetRole
<1>. HIDE DEF after
<1>. QED
  BY <1>2, <1>6, <1>7, QuietAttemptKeepsIInv

LEMMA SetPermissionsKeepsIInv ==
  ASSUME IInv, NEW p \in Session, NEW r \in Requests, SetPermissions(p, r), UNCHANGED expired
  PROVE  IInv'
<1>. DEFINE old == View(p)[Role(r.workspace, r.role)]
            c == [old EXCEPT !.permissions = r.permissions]
            after == [View(p) EXCEPT ![Role(r.workspace, r.role)] = c]
<1>1. Changes(p, r, "set_permissions", "roles.manage")
  BY DEF SetPermissions
<1>2. /\ tx[p].open /\ r.call = "set_permissions" /\ r.workspace \in Workspace
      /\ {WorkspaceRow(r.workspace)} \subseteq Row
  BY <1>1, ChangesFacts
<1>3. r.role \in RoleId /\ r.permissions \in SUBSET Permission
  BY <1>2, RequestFields
<1>4. old \in RoleRecord
  BY <1>2, <1>3, OpenView DEF SetPermissions, Configurable, Exists, DatabaseOK
<1>5. c \in RoleRecord
  BY <1>3, <1>4 DEF RoleRecord
<1>6. Attempt(p, r, {WorkspaceRow(r.workspace)}, after)
  BY DEF SetPermissions, AttemptLocked
<1>. HIDE DEF c
<1>7. DatabaseOK(after) /\ SameMembership(View(p), after)
  BY <1>2, <1>3, <1>5, OpenView, SetRole
<1>. HIDE DEF after
<1>. QED
  BY <1>2, <1>6, <1>7, QuietAttemptKeepsIInv

LEMMA UpdateWorkspaceKeepsIInv ==
  ASSUME IInv, NEW p \in Session, NEW r \in Requests, UpdateWorkspace(p, r), UNCHANGED expired
  PROVE  IInv'
<1>1. Changes(p, r, "update", "workspace.update")
  BY DEF UpdateWorkspace
<1>2. tx[p].open /\ {WorkspaceRow(r.workspace)} \subseteq Row
  BY <1>1, ChangesFacts
<1>3. DatabaseOK(View(p)) /\ SameMembership(View(p), View(p))
  BY <1>2, OpenView DEF SameMembership
<1>. QED
  BY <1>2, <1>3, QuietAttemptKeepsIInv DEF UpdateWorkspace, AttemptLocked

(* Removing roles and invitations, or any rows but accounts, workspaces    *)
(* and members.                                                            *)
LEMMA PutGone ==
  ASSUME NEW v, DatabaseOK(v), NEW rows,
         \A u, w : WorkspaceRow(w) \notin rows /\ Member(w, u) \notin rows
  PROVE  DatabaseOK(Put(v, rows, Gone)) /\ SameMembership(v, Put(v, rows, Gone))
<1>. DEFINE after == Put(v, rows, Gone)
<1>1. /\ DOMAIN after = Row
      /\ \A row \in Row : after[row] = IF row \in rows THEN Gone ELSE v[row]
  BY PutRow DEF DatabaseOK
<1>. HIDE DEF after
<1>2. DatabaseOK(after)
  BY <1>1, RowsExist DEF DatabaseOK
<1>3. SameMembership(v, after)
  BY <1>1, RowsExist DEF SameMembership
<1>. QED
  BY <1>2, <1>3 DEF after

LEMMA DeleteRoleKeepsIInv ==
  ASSUME IInv, NEW p \in Session, NEW r \in Requests, DeleteRole(p, r), UNCHANGED expired
  PROVE  IInv'
<1>. DEFINE stale == {i \in InvitationsOf(View(p), r.workspace) :
                        View(p)[InvitationRow(i)].role = r.role}
            rows == {Role(r.workspace, r.role)} \cup {InvitationRow(i) : i \in stale}
            after == Put(View(p), rows, Gone)
<1>1. Changes(p, r, "delete_role", "roles.manage")
  BY DEF DeleteRole
<1>2. /\ tx[p].open /\ r.workspace \in Workspace
      /\ {WorkspaceRow(r.workspace)} \subseteq Row
  BY <1>1, ChangesFacts
<1>3. Attempt(p, r, {WorkspaceRow(r.workspace)}, after)
  BY DEF DeleteRole, AttemptLocked
<1>4. \A u, w : WorkspaceRow(w) \notin rows /\ Member(w, u) \notin rows
  BY RowsDiffer
<1>. HIDE DEF rows
<1>5. DatabaseOK(after) /\ SameMembership(View(p), after)
  BY <1>2, <1>4, OpenView, PutGone
<1>. HIDE DEF after
<1>. QED
  BY <1>2, <1>3, <1>5, QuietAttemptKeepsIInv

LEMMA InviteKeepsIInv ==
  ASSUME IInv, NEW p \in Session, NEW r \in Requests, Invite(p, r), UNCHANGED expired
  PROVE  IInv'
<1>. DEFINE c == [status |-> "pending", workspace |-> r.workspace, email |-> r.email,
                  role |-> r.role, invited_by |-> r.by]
<1>1. PICK i \in Invitation :
        AttemptLocked(p, r, [View(p) EXCEPT ![InvitationRow(i)] = c])
  BY DEF Invite
<1>. DEFINE after == [View(p) EXCEPT ![InvitationRow(i)] = c]
<1>2. Changes(p, r, "invite", "members.invite")
  BY DEF Invite
<1>3. /\ tx[p].open /\ r.call = "invite" /\ r.by \in User /\ r.workspace \in Workspace
      /\ {WorkspaceRow(r.workspace)} \subseteq Row
  BY <1>2, ChangesFacts
<1>4. c \in InvitationRecord
  BY <1>3, RequestFields DEF InvitationRecord
<1>5. Attempt(p, r, {WorkspaceRow(r.workspace)}, after)
  BY <1>1 DEF AttemptLocked
<1>. HIDE DEF c
<1>6. DatabaseOK(after) /\ SameMembership(View(p), after)
  BY <1>3, <1>4, OpenView, SetInvitation
<1>. HIDE DEF after
<1>. QED
  BY <1>3, <1>5, <1>6, QuietAttemptKeepsIInv

LEMMA RevokeInvitationKeepsIInv ==
  ASSUME IInv, NEW p \in Session, NEW r \in Requests, RevokeInvitation(p, r),
         UNCHANGED expired
  PROVE  IInv'
<1>. DEFINE old == View(p)[InvitationRow(r.invitation)]
            c == [old EXCEPT !.status = "revoked"]
            after == [View(p) EXCEPT ![InvitationRow(r.invitation)] = c]
<1>1. Changes(p, r, "revoke_invitation", "invitations.revoke")
  BY DEF RevokeInvitation
<1>2. /\ tx[p].open /\ r.call = "revoke_invitation"
      /\ {WorkspaceRow(r.workspace)} \subseteq Row
  BY <1>1, ChangesFacts
<1>3. r.invitation \in Invitation
  BY <1>2, RequestFields
<1>4. old \in InvitationRecord
  BY <1>2, <1>3, OpenView DEF RevokeInvitation, Usable, Exists, DatabaseOK
<1>5. c \in InvitationRecord
  BY <1>4 DEF InvitationRecord
<1>6. Attempt(p, r, {WorkspaceRow(r.workspace)}, after)
  BY DEF RevokeInvitation, AttemptLocked
<1>. HIDE DEF c
<1>7. DatabaseOK(after) /\ SameMembership(View(p), after)
  BY <1>2, <1>3, <1>5, OpenView, SetInvitation
<1>. HIDE DEF after
<1>. QED
  BY <1>2, <1>6, <1>7, QuietAttemptKeepsIInv

-----------------------------------------------------------------------------
(*            Use cases that change who is a member                        *)

(* People who do not own a workspace enter it while it is live, leave it,  *)
(* or change their role.                                                   *)
LEMMA OthersChange ==
  ASSUME NEW v, OwnersOK(v), NEW after,
         \A x \in Workspace : after[WorkspaceRow(x)] = v[WorkspaceRow(x)],
         \A x \in Workspace, y \in User : after[Member(x, y)] # v[Member(x, y)] =>
           /\ v[Member(x, y)] # OwnerRole
           /\ after[Member(x, y)] # OwnerRole
           /\ Live(v, x) \/ after[Member(x, y)] = Absent
  PROVE  OwnersOK(after)
<1>1. ASSUME NEW w \in Workspace, NEW u \in User
      PROVE  /\ after[Member(w, u)] = OwnerRole <=>
                  Live(after, w) /\ after[WorkspaceRow(w)].owner = u
             /\ IsMember(after, w, u) => Live(after, w)
  <2>1. after[WorkspaceRow(w)] = v[WorkspaceRow(w)] /\ (Live(after, w) <=> Live(v, w))
    BY DEF Live, Exists
  <2>2. /\ v[Member(w, u)] = OwnerRole <=> Live(v, w) /\ v[WorkspaceRow(w)].owner = u
        /\ IsMember(v, w, u) => Live(v, w)
    BY DEF OwnersOK, OwnerOK
  <2>3. after[Member(w, u)] # OwnerRole <=> v[Member(w, u)] # OwnerRole
    OBVIOUS
  <2>4. IsMember(after, w, u) => Live(v, w)
    BY <2>2 DEF IsMember, Exists
  <2>. QED
    BY <2>1, <2>2, <2>3, <2>4
<1>. QED
  BY <1>1 DEF OwnersOK, OwnerOK

(* Joining adds one member who is not the owner, under the lock.           *)
LEMMA JoinedView ==
  ASSUME NEW v, DatabaseOK(v), OwnersOK(v), NEW i \in Invitation, NEW u \in User,
         CanJoin(v, i, u)
  PROVE  LET after == Joined(v, i, u)
             w == v[InvitationRow(i)].workspace
         IN /\ DatabaseOK(after) /\ OwnersOK(after) /\ w \in Workspace
            /\ \A x \in Workspace : after[WorkspaceRow(x)] = v[WorkspaceRow(x)]
            /\ \A x \in Workspace, y \in User :
                 after[Member(x, y)] # v[Member(x, y)] => x = w
<1>. DEFINE invitation == v[InvitationRow(i)]
            w == invitation.workspace
            settled == [invitation EXCEPT !.status = "accepted"]
            role == invitation.role
            account == IF v[Account(u)] = "workspace_pending" THEN "completed"
                       ELSE v[Account(u)]
            after == [[[v EXCEPT ![InvitationRow(i)] = settled]
                          EXCEPT ![Member(w, u)] = role]
                          EXCEPT ![Account(u)] = account]
<1>1. invitation \in InvitationRecord
  BY DEF CanJoin, Usable, Exists, DatabaseOK
<1>2. w \in Workspace /\ role \in RoleId /\ settled \in InvitationRecord
  BY <1>1 DEF InvitationRecord
<1>3. account \in Status \cup {Absent, Gone}
  BY DEF DatabaseOK, Status
<1>4. Joined(v, i, u) = after
  <2>1. Account(u) # InvitationRow(i) /\ Account(u) # Member(w, u)
    BY RowsDiffer
  <2>. QED
    BY <2>1 DEF Joined
<1>5. role # OwnerRole /\ Live(v, w) /\ ~IsMember(v, w, u)
  BY DEF CanJoin, Configurable
<1>. HIDE DEF settled, account, role, w
<1>6. DatabaseOK(after)
  <2>1. DatabaseOK([v EXCEPT ![InvitationRow(i)] = settled])
    BY <1>2, SetInvitation
  <2>2. DatabaseOK([[v EXCEPT ![InvitationRow(i)] = settled] EXCEPT ![Member(w, u)] = role])
    BY <1>2, <2>1, SetMember
  <2>. QED
    BY <1>3, <2>2, SetAccount
<1>7. \A row \in Row : row # InvitationRow(i) /\ row # Member(w, u) /\ row # Account(u)
        => after[row] = v[row]
  BY DEF DatabaseOK
<1>8. after[Member(w, u)] = role
  <2>1. Member(w, u) \in Row /\ Member(w, u) # Account(u)
    BY <1>2, RowsExist, MemberRowDiffers
  <2>. QED
    BY <2>1 DEF DatabaseOK
<1>. HIDE DEF after
<1>9. \A x \in Workspace : after[WorkspaceRow(x)] = v[WorkspaceRow(x)]
  BY <1>7, WorkspaceRowDiffers, RowsExist
<1>10. \A x \in Workspace, y \in User :
         after[Member(x, y)] # v[Member(x, y)] => x = w /\ y = u
  BY <1>7, MemberRowDiffers, RowsExist
<1>11. v[Member(w, u)] # OwnerRole
  BY <1>5, RowContentsAssumption DEF IsMember, Exists, RoleId, SystemRole
<1>12. OwnersOK(after)
  BY <1>5, <1>8, <1>9, <1>10, <1>11, OthersChange
<1>. QED
  BY <1>2, <1>4, <1>6, <1>9, <1>10, <1>12 DEF w

(* Joining locks the workspace of the invitation.                          *)
LEMMA JoinLocks ==
  ASSUME NEW v, NEW i, NEW u
  PROVE  /\ LocksToJoin(v, i, u) \subseteq Row
         /\ v[InvitationRow(i)].workspace \in Workspace /\ CanJoin(v, i, u) /\ i \in Invitation
              => LocksToJoin(v, i, u) = {WorkspaceRow(v[InvitationRow(i)].workspace)}
BY RowsExist DEF LocksToJoin, CanJoin

(* A view whose members differ in one workspace, locked by the transaction.*)
LEMMA LockedAttemptKeepsIInv ==
  ASSUME IInv, NEW p \in Session, tx[p].open, NEW r \in Requests,
         NEW w \in Workspace, NEW after, DatabaseOK(after), OwnersOK(after),
         \A x \in Workspace : after[WorkspaceRow(x)] = Absent =>
           View(p)[WorkspaceRow(x)] = Absent,
         \A x \in Workspace, y \in User :
           after[Member(x, y)] # View(p)[Member(x, y)] => x = w,
         Attempt(p, r, {WorkspaceRow(w)}, after), UNCHANGED expired
  PROVE  IInv'
<1>1. Disciplined(View(p), {WorkspaceRow(w)}, after)
  BY RowsExist DEF Disciplined
<1>. QED
  BY <1>1, AttemptKeepsIInv DEF Attempt, View

LEMMA AcceptInvitationKeepsIInv ==
  ASSUME IInv, NEW p \in Session, NEW r \in Requests, AcceptInvitation(p, r),
         UNCHANGED expired
  PROVE  IInv'
<1>. DEFINE w == View(p)[InvitationRow(r.invitation)].workspace
            after == Joined(View(p), r.invitation, r.by)
<1>1. /\ tx[p].open /\ r.by \in User /\ r.invitation \in Invitation
      /\ CanJoin(View(p), r.invitation, r.by)
      /\ Attempt(p, r, LocksToJoin(View(p), r.invitation, r.by), after)
  BY RequestFields DEF AcceptInvitation, Sends, Serves
<1>2. /\ DatabaseOK(after) /\ OwnersOK(after) /\ w \in Workspace
      /\ \A x \in Workspace : after[WorkspaceRow(x)] = View(p)[WorkspaceRow(x)]
      /\ \A x \in Workspace, y \in User :
           after[Member(x, y)] # View(p)[Member(x, y)] => x = w
  BY <1>1, OpenView, JoinedView
<1>3. LocksToJoin(View(p), r.invitation, r.by) = {WorkspaceRow(w)}
  BY <1>1, <1>2, JoinLocks
<1>. HIDE DEF after, w
<1>. QED
  BY <1>1, <1>2, <1>3, LockedAttemptKeepsIInv

LEMMA RegisterKeepsIInv ==
  ASSUME IInv, NEW p \in Session, NEW r \in Requests, Register(p, r), UNCHANGED expired
  PROVE  IInv'
<1>. DEFINE s == View(p)
            account == IF r.named THEN "workspace_pending" ELSE "profile_pending"
            created == IF Registered(s, r.by) THEN s ELSE [s EXCEPT ![Account(r.by)] = account]
            joins == r.invitation # NoInvitation /\ CanJoin(created, r.invitation, r.by)
            w == s[InvitationRow(r.invitation)].workspace
            after == Joined(created, r.invitation, r.by)
            locks == LocksToJoin(created, r.invitation, r.by)
<1>1. /\ tx[p].open /\ r.by \in User /\ r.invitation \in Invitation \cup {NoInvitation}
      /\ Attempt(p, r, locks, IF joins THEN after ELSE created)
  BY RequestFields DEF Register, Sends, Serves
<1>2. account \in Status
  BY DEF Status
<1>. HIDE DEF account
<1>3. DatabaseOK(s) /\ OwnersOK(s)
  BY <1>1, OpenView
<1>4. DatabaseOK(created) /\ SameMembership(s, created)
  <2>1. CASE Registered(s, r.by)
    BY <1>3, <2>1 DEF SameMembership
  <2>2. CASE ~Registered(s, r.by)
    BY <1>1, <1>2, <1>3, <2>2, SetAccount
  <2>. QED
    BY <2>1, <2>2
<1>5. CASE joins
  <2>1. r.invitation \in Invitation
    BY <1>1, <1>5
  <2>2. created[InvitationRow(r.invitation)] = s[InvitationRow(r.invitation)]
    BY <1>3, <2>1, AccountRowDiffers, RowsExist DEF DatabaseOK
  <2>. HIDE DEF created
  <2>3. OwnersOK(created)
    BY <1>3, <1>4, SameMembershipOwners
  <2>4. /\ DatabaseOK(after) /\ OwnersOK(after) /\ w \in Workspace
        /\ \A x \in Workspace : after[WorkspaceRow(x)] = created[WorkspaceRow(x)]
        /\ \A x \in Workspace, y \in User :
             after[Member(x, y)] # created[Member(x, y)] => x = w
    BY <1>1, <1>4, <1>5, <2>1, <2>2, <2>3, JoinedView
  <2>5. Attempt(p, r, {WorkspaceRow(w)}, after)
    BY <1>1, <1>5, <2>1, <2>2, <2>4, JoinLocks
  <2>. HIDE DEF after, w, joins, locks
  <2>6. /\ \A x \in Workspace : after[WorkspaceRow(x)] = View(p)[WorkspaceRow(x)]
        /\ \A x \in Workspace, y \in User :
             after[Member(x, y)] # View(p)[Member(x, y)] => x = w
    BY <1>4, <2>4 DEF SameMembership
  <2>. QED
    BY <1>1, <2>4, <2>5, <2>6, LockedAttemptKeepsIInv
<1>6. CASE ~joins
  <2>1. Attempt(p, r, locks, created) /\ locks \subseteq Row
    BY <1>1, <1>6, JoinLocks
  <2>. HIDE DEF created, joins, locks
  <2>. QED
    BY <1>1, <1>4, <2>1, QuietAttemptKeepsIInv
<1>. QED
  BY <1>5, <1>6

LEMMA SetMemberRoleKeepsIInv ==
  ASSUME IInv, NEW p \in Session, NEW r \in Requests, SetMemberRole(p, r), UNCHANGED expired
  PROVE  IInv'
<1>. DEFINE s == View(p)
            w == r.workspace
            after == [s EXCEPT ![Member(w, r.member)] = r.role]
<1>1. Changes(p, r, "set_member_role", "roles.manage")
  BY DEF SetMemberRole
<1>2. /\ tx[p].open /\ r.call = "set_member_role" /\ w \in Workspace /\ Live(s, w)
  BY <1>1, ChangesFacts
<1>3. r.member \in User /\ r.role \in RoleId
  BY <1>2, RequestFields
<1>4. /\ r.role # OwnerRole /\ r.member # s[WorkspaceRow(w)].owner
      /\ Attempt(p, r, {WorkspaceRow(w)}, after)
  BY DEF SetMemberRole, Configurable, AttemptLocked
<1>5. DatabaseOK(s) /\ OwnersOK(s)
  BY <1>2, OpenView
<1>6. DatabaseOK(after)
  BY <1>2, <1>3, <1>5, SetMember
<1>7. /\ DOMAIN after = Row
      /\ \A row \in Row : after[row] = IF row = Member(w, r.member) THEN r.role ELSE s[row]
  BY <1>5, SetRow DEF DatabaseOK
<1>. HIDE DEF after
<1>8. \A x \in Workspace : after[WorkspaceRow(x)] = s[WorkspaceRow(x)]
  BY <1>7, MemberRowDiffers, RowsExist
<1>9. \A x \in Workspace, y \in User :
        after[Member(x, y)] # s[Member(x, y)] => x = w /\ y = r.member
  BY <1>7, MemberRowDiffers, RowsExist
<1>10. s[Member(w, r.member)] # OwnerRole /\ after[Member(w, r.member)] # OwnerRole
  BY <1>2, <1>3, <1>4, <1>5, <1>7, RowsExist DEF OwnersOK, OwnerOK
<1>11. OwnersOK(after)
  BY <1>2, <1>5, <1>8, <1>9, <1>10, OthersChange
<1>. QED
  BY <1>2, <1>4, <1>6, <1>8, <1>9, <1>11, LockedAttemptKeepsIInv

LEMMA RemoveMemberKeepsIInv ==
  ASSUME IInv, NEW p \in Session, NEW r \in Requests, RemoveMember(p, r), UNCHANGED expired
  PROVE  IInv'
<1>. DEFINE s == View(p)
            w == r.workspace
            removed == RemoveMembers(s, w, {r.member})
            after == ReturnToWorkspaceStep(removed, {r.member})
<1>1. Changes(p, r, "remove_member", "members.remove")
  BY DEF RemoveMember
<1>2. /\ tx[p].open /\ r.call = "remove_member" /\ w \in Workspace /\ Live(s, w)
  BY <1>1, ChangesFacts
<1>3. r.member \in User
  BY <1>2, RequestFields
<1>4. /\ r.member # s[WorkspaceRow(w)].owner
      /\ Attempt(p, r, {WorkspaceRow(w)}, after)
  BY DEF RemoveMember, AttemptLocked
<1>5. DatabaseOK(s) /\ OwnersOK(s)
  BY <1>2, OpenView
<1>6. /\ DOMAIN removed = Row
      /\ \A row \in Row : removed[row] = IF row = Member(w, r.member) THEN Absent ELSE s[row]
  BY <1>5, PutRow DEF DatabaseOK, RemoveMembers
<1>. HIDE DEF removed
<1>7. DatabaseOK(removed)
  <2>1. removed = [s EXCEPT ![Member(w, r.member)] = Absent]
    BY <1>5, <1>6, SetRow DEF DatabaseOK, removed, RemoveMembers, Put
  <2>. QED
    BY <1>2, <1>3, <1>5, <2>1, SetMember
<1>8. \A x \in Workspace : removed[WorkspaceRow(x)] = s[WorkspaceRow(x)]
  BY <1>6, MemberRowDiffers, RowsExist
<1>9. \A x \in Workspace, y \in User :
        removed[Member(x, y)] # s[Member(x, y)] => x = w /\ y = r.member
  BY <1>6, MemberRowDiffers, RowsExist
<1>10. s[Member(w, r.member)] # OwnerRole /\ removed[Member(w, r.member)] # OwnerRole
  <2>1. s[Member(w, r.member)] # OwnerRole
    BY <1>2, <1>3, <1>4, <1>5 DEF OwnersOK, OwnerOK
  <2>2. Absent # OwnerRole
    BY RowContentsAssumption DEF RoleId, SystemRole
  <2>. QED
    BY <1>2, <1>3, <1>6, <2>1, <2>2, RowsExist
<1>11. OwnersOK(removed)
  BY <1>2, <1>5, <1>8, <1>9, <1>10, OthersChange
<1>12. DatabaseOK(after) /\ SameMembership(removed, after) /\ OwnersOK(after)
  BY <1>3, <1>7, <1>11, ReturnView, SameMembershipOwners
<1>. HIDE DEF after
<1>13. /\ \A x \in Workspace : after[WorkspaceRow(x)] = s[WorkspaceRow(x)]
       /\ \A x \in Workspace, y \in User : after[Member(x, y)] # s[Member(x, y)] => x = w
  BY <1>8, <1>9, <1>12 DEF SameMembership
<1>. QED
  BY <1>2, <1>4, <1>12, <1>13, LockedAttemptKeepsIInv

(* The new owner takes the owner role over; whatever role the previous one *)
(* gets, the check for a single owner has read the result.                 *)
LEMMA TransferKeepsIInv ==
  ASSUME IInv, NEW p \in Session, NEW r \in Requests, Transfer(p, r), UNCHANGED expired
  PROVE  IInv'
<1>. DEFINE s == View(p)
            w == r.workspace
            admins == RolesNamed(s, w, AdminRole)
            record(admin) == IF admins # {} THEN s[Role(w, admin)]
                             ELSE [name |-> AdminRole, system |-> TRUE,
                                   permissions |-> SystemPermissions[AdminRole]]
            after(admin) ==
              [s EXCEPT ![Role(w, admin)] =
                           IF admins # {} THEN @
                           ELSE [name |-> AdminRole, system |-> TRUE,
                                 permissions |-> SystemPermissions[AdminRole]],
                        ![Member(w, r.member)] = s[Member(w, r.by)],
                        ![Member(w, r.by)] = admin,
                        ![WorkspaceRow(w)].owner = r.member]
<1>1. Changes(p, r, "transfer", "workspace.transfer")
  BY DEF Transfer
<1>2. /\ tx[p].open /\ r.call = "transfer" /\ w \in Workspace /\ Live(s, w) /\ r.by \in User
      /\ r.by = s[WorkspaceRow(w)].owner
  BY <1>1, ChangesFacts DEF OwnerActions
<1>3. r.member \in User /\ r.member # r.by
  BY <1>2, RequestFields DEF Transfer
<1>4. DatabaseOK(s) /\ OwnersOK(s)
  BY <1>2, OpenView
<1>5. PICK admin \in IF admins # {} THEN admins ELSE {x \in SpareRole : db[Role(w, x)] = Absent} :
        /\ SingleOwner(after(admin), w)
        /\ Attempt(p, r, {WorkspaceRow(w)}, after(admin))
  BY DEF Transfer, AttemptLocked
<1>6. admin \in RoleId /\ record(admin) \in RoleRecord \cup {Absent, Gone}
  <2>1. admin \in RoleId
    BY <1>5 DEF RolesNamed, RoleId
  <2>2. s[Role(w, admin)] \in RoleRecord \cup {Absent, Gone}
    BY <1>2, <1>4, <2>1 DEF DatabaseOK
  <2>3. [name |-> AdminRole, system |-> TRUE, permissions |-> SystemPermissions[AdminRole]]
          \in RoleRecord
    BY DEF RoleRecord, RoleName, SystemRole, SystemPermissions, Permission, AdminRole,
           OwnerRole, DefaultMemberRole
  <2>. QED
    BY <2>1, <2>2, <2>3
<1>7. s[WorkspaceRow(w)] \in WorkspaceRecord /\ ~s[WorkspaceRow(w)].deleted
  BY <1>2, <1>4 DEF DatabaseOK, Live, Exists
<1>. DEFINE moved == [s[WorkspaceRow(w)] EXCEPT !.owner = r.member]
<1>8. moved \in WorkspaceRecord /\ ~moved.deleted /\ moved.owner = r.member
  BY <1>3, <1>7 DEF WorkspaceRecord
<1>9. s[Member(w, r.by)] = OwnerRole /\ OwnerRole \in RoleId
  BY <1>2, <1>4 DEF OwnersOK, OwnerOK, RoleId, SystemRole
<1>10. \A row \in Row : after(admin)[row] =
         IF row = WorkspaceRow(w) THEN moved
         ELSE IF row = Member(w, r.by) THEN admin
         ELSE IF row = Member(w, r.member) THEN OwnerRole
         ELSE IF row = Role(w, admin) THEN record(admin)
         ELSE s[row]
  <2>1. /\ WorkspaceRow(w) \in Row /\ Member(w, r.by) \in Row /\ Member(w, r.member) \in Row
        /\ Role(w, admin) \in Row /\ DOMAIN s = Row
    BY <1>2, <1>3, <1>4, <1>6, RowsExist DEF DatabaseOK
  <2>2. /\ WorkspaceRow(w) # Member(w, r.by) /\ WorkspaceRow(w) # Member(w, r.member)
        /\ WorkspaceRow(w) # Role(w, admin)
        /\ Member(w, r.by) # Member(w, r.member)
        /\ Role(w, admin) # Member(w, r.by) /\ Role(w, admin) # Member(w, r.member)
    BY <1>3, RowsDiffer
  <2>. QED
    BY <1>9, <2>1, <2>2
<1>11. DOMAIN after(admin) = Row
  BY <1>4 DEF DatabaseOK
<1>. DEFINE view == after(admin)
<1>12. Attempt(p, r, {WorkspaceRow(w)}, view) /\ SingleOwner(view, w)
  BY <1>5
<1>. HIDE DEF after, record, moved, view
<1>13. DOMAIN view = Row /\ \A row \in Row : view[row] =
         IF row = WorkspaceRow(w) THEN moved
         ELSE IF row = Member(w, r.by) THEN admin
         ELSE IF row = Member(w, r.member) THEN OwnerRole
         ELSE IF row = Role(w, admin) THEN record(admin)
         ELSE s[row]
  BY <1>10, <1>11 DEF view
<1>14. DatabaseOK(view)
  <2>1. \A x \in User : view[Account(x)] \in Status \cup {Absent, Gone}
    BY <1>4, <1>13, AccountRowDiffers, RowsExist DEF DatabaseOK
  <2>2. \A x \in Workspace : view[WorkspaceRow(x)] \in WorkspaceRecord \cup {Absent, Gone}
    BY <1>4, <1>8, <1>13, WorkspaceRowDiffers, RowsExist DEF DatabaseOK
  <2>3. \A x \in Workspace, y \in RoleId : view[Role(x, y)] \in RoleRecord \cup {Absent, Gone}
    BY <1>4, <1>6, <1>13, RoleRowDiffers, RowsExist DEF DatabaseOK
  <2>4. \A x \in Workspace, y \in User : view[Member(x, y)] \in RoleId \cup {Absent}
    BY <1>4, <1>6, <1>9, <1>13, MemberRowDiffers, RowsExist DEF DatabaseOK
  <2>5. \A x \in Invitation : view[InvitationRow(x)] \in InvitationRecord \cup {Absent, Gone}
    BY <1>4, <1>13, InvitationRowDiffers, RowsExist DEF DatabaseOK
  <2>. QED
    BY <1>13, <2>1, <2>2, <2>3, <2>4, <2>5 DEF DatabaseOK
<1>15. view[WorkspaceRow(w)] = moved
  BY <1>2, <1>13, RowsExist
<1>16. \A x \in Workspace : x # w => view[WorkspaceRow(x)] = s[WorkspaceRow(x)]
  BY <1>13, WorkspaceRowDiffers, MemberRowDiffers, RowsExist
<1>17. \A x \in Workspace, y \in User : view[Member(x, y)] # s[Member(x, y)] => x = w
  BY <1>13, MemberRowDiffers, RowsExist
<1>18. Live(view, w)
  BY <1>8, <1>15, RowContentsAssumption DEF Live, Exists
<1>19. OwnersOK(view)
  <2>1. OwnerOK(view, w)
    <3>1. \A y \in User : view[Member(w, y)] = OwnerRole <=> y = moved.owner
      BY <1>12, <1>15 DEF SingleOwner, OwnerIds
    <3>. QED
      BY <1>15, <1>18, <3>1 DEF OwnerOK
  <2>2. ASSUME NEW x \in Workspace, x # w
        PROVE  OwnerOK(view, x)
    <3>1. view[WorkspaceRow(x)] = s[WorkspaceRow(x)]
      BY <1>16, <2>2
    <3>2. \A y \in User : view[Member(x, y)] = s[Member(x, y)]
      BY <1>17, <2>2
    <3>3. OwnerOK(s, x)
      BY <1>4 DEF OwnersOK
    <3>. QED
      BY <3>1, <3>2, <3>3 DEF OwnerOK, Live, Exists, IsMember
  <2>. QED
    BY <2>1, <2>2 DEF OwnersOK
<1>20. \A x \in Workspace : view[WorkspaceRow(x)] = Absent => s[WorkspaceRow(x)] = Absent
  BY <1>15, <1>16, <1>18 DEF Live, Exists
<1>. QED
  BY <1>2, <1>12, <1>14, <1>17, <1>19, <1>20, LockedAttemptKeepsIInv

(* A workspace whose id nobody used: only its founder is in it.            *)
LEMMA CreateWorkspaceKeepsIInv ==
  ASSUME IInv, NEW p \in Session, NEW r \in Requests, CreateWorkspace(p, r), UNCHANGED expired
  PROVE  IInv'
<1>. DEFINE s == View(p)
            roles(w) == {Role(w, x) : x \in SystemRole}
            new == [owner |-> r.by, deleted |-> FALSE]
            after(w) ==
              [row \in DOMAIN s |->
                 CASE row = WorkspaceRow(w) -> new
                   [] row = Member(w, r.by) -> OwnerRole
                   [] row = Account(r.by) -> "completed"
                   [] row \in roles(w) ->
                        [name |-> row[3], system |-> TRUE,
                         permissions |-> SystemPermissions[row[3]]]
                   [] OTHER -> s[row]]
<1>1. PICK w \in Workspace :
        db[WorkspaceRow(w)] = Absent /\ SingleOwner(after(w), w) /\ Attempt(p, r, {}, after(w))
  BY DEF CreateWorkspace
<1>2. tx[p].open /\ r.by \in User
  BY RequestFields DEF CreateWorkspace, Sends, Serves
<1>3. DatabaseOK(s) /\ OwnersOK(s)
  BY <1>2, OpenView
<1>. DEFINE view == after(w)
<1>4. /\ \A x \in User : Account(x) \in Row => view[Account(x)] =
           IF x = r.by THEN "completed" ELSE s[Account(x)]
      /\ \A x \in Workspace : WorkspaceRow(x) \in Row => view[WorkspaceRow(x)] =
           IF x = w THEN new ELSE s[WorkspaceRow(x)]
      /\ \A x \in Invitation : InvitationRow(x) \in Row =>
           view[InvitationRow(x)] = s[InvitationRow(x)]
      /\ \A x \in Workspace, y \in User : Member(x, y) \in Row => view[Member(x, y)] =
           IF x = w /\ y = r.by THEN OwnerRole ELSE s[Member(x, y)]
  <2>1. DOMAIN s = Row
    BY <1>3 DEF DatabaseOK
  <2>2. \A x : Account(x) \notin roles(w)
    BY AccountRowDiffers
  <2>3. \A x : WorkspaceRow(x) \notin roles(w)
    BY WorkspaceRowDiffers
  <2>4. \A x : InvitationRow(x) \notin roles(w)
    BY InvitationRowDiffers
  <2>5. \A x, y : Member(x, y) \notin roles(w)
    BY MemberRowDiffers
  <2>. HIDE DEF roles
  <2>6. \A x \in User : Account(x) \in Row => view[Account(x)] =
           IF x = r.by THEN "completed" ELSE s[Account(x)]
    BY <2>1, <2>2, AccountRowDiffers
  <2>7. \A x \in Workspace : WorkspaceRow(x) \in Row => view[WorkspaceRow(x)] =
           IF x = w THEN new ELSE s[WorkspaceRow(x)]
    BY <2>1, <2>3, WorkspaceRowDiffers
  <2>8. \A x \in Invitation : InvitationRow(x) \in Row =>
           view[InvitationRow(x)] = s[InvitationRow(x)]
    BY <2>1, <2>4, InvitationRowDiffers
  <2>9. \A x \in Workspace, y \in User : Member(x, y) \in Row => view[Member(x, y)] =
           IF x = w /\ y = r.by THEN OwnerRole ELSE s[Member(x, y)]
    BY <2>1, <2>5, MemberRowDiffers
  <2>. QED
    BY <2>6, <2>7, <2>8, <2>9
<1>5. \A x \in Workspace, y \in RoleId : view[Role(x, y)] \in RoleRecord \cup {Absent, Gone}
  <2>1. ASSUME NEW x \in Workspace, NEW y \in RoleId, Role(x, y) \in roles(w)
        PROVE  view[Role(x, y)] \in RoleRecord
    <3>1. y \in SystemRole /\ Role(x, y)[3] = y
      BY <2>1, RoleRowDiffers DEF Role
    <3>. DEFINE row == Role(x, y)
                c == [name |-> row[3], system |-> TRUE,
                      permissions |-> SystemPermissions[row[3]]]
    <3>2. row \in DOMAIN s
      BY <1>3, RowsExist DEF DatabaseOK
    <3>3. row # WorkspaceRow(w) /\ row # Member(w, r.by) /\ row # Account(r.by)
      BY RoleRowDiffers
    <3>4. SystemPermissions[y] \in SUBSET Permission
      BY <3>1 DEF SystemPermissions, Permission
    <3>5. c \in RoleRecord
      BY <3>1, <3>4 DEF RoleRecord, RoleName
    <3>6. row \in roles(w)
      BY <2>1
    <3>. HIDE DEF row, roles
    <3>7. view[row] = c
      BY <3>2, <3>3, <3>6
    <3>. HIDE DEF c, after, view
    <3>. QED
      BY <3>5, <3>7 DEF row
  <2>2. ASSUME NEW x \in Workspace, NEW y \in RoleId, Role(x, y) \notin roles(w)
        PROVE  view[Role(x, y)] = s[Role(x, y)]
    <3>. HIDE DEF roles
    <3>. QED
      BY <1>3, <2>2, RoleRowDiffers, RowsExist DEF DatabaseOK
  <2>. QED
    BY <1>3, <2>1, <2>2 DEF DatabaseOK
<1>6. DOMAIN view = Row
  BY <1>3 DEF DatabaseOK
<1>7. Attempt(p, r, {}, view)
  BY <1>1
<1>8. new \in WorkspaceRecord /\ ~new.deleted /\ new.owner = r.by
  BY <1>2 DEF WorkspaceRecord
<1>. HIDE DEF after, view, new
<1>9. DatabaseOK(view)
  <2>1. \A x \in User : view[Account(x)] \in Status \cup {Absent, Gone}
    BY <1>3, <1>4, RowsExist DEF DatabaseOK, Status
  <2>2. \A x \in Workspace : view[WorkspaceRow(x)] \in WorkspaceRecord \cup {Absent, Gone}
    BY <1>3, <1>4, <1>8, RowsExist DEF DatabaseOK
  <2>3. \A x \in Workspace, y \in User : view[Member(x, y)] \in RoleId \cup {Absent}
    BY <1>3, <1>4, RowsExist DEF DatabaseOK, RoleId, SystemRole
  <2>4. \A x \in Invitation : view[InvitationRow(x)] \in InvitationRecord \cup {Absent, Gone}
    BY <1>3, <1>4, RowsExist DEF DatabaseOK
  <2>. QED
    BY <1>5, <1>6, <2>1, <2>2, <2>3, <2>4 DEF DatabaseOK
<1>10. s[WorkspaceRow(w)] = Absent
  BY <1>1, <1>2 DEF IInv, Agrees, View
<1>11. view[WorkspaceRow(w)] = new /\ Live(view, w)
  BY <1>4, <1>8, RowsExist, RowContentsAssumption DEF Live, Exists
<1>12. OwnersOK(view)
  <2>1. OwnerOK(view, w)
    <3>1. ASSUME NEW y \in User
          PROVE  view[Member(w, y)] = OwnerRole <=> y = r.by
      <4>1. s[Member(w, y)] # OwnerRole
        BY <1>3, <1>10 DEF OwnersOK, OwnerOK, Live, Exists
      <4>. QED
        BY <1>4, <4>1, RowsExist
    <3>. QED
      BY <1>8, <1>11, <3>1 DEF OwnerOK
  <2>2. ASSUME NEW x \in Workspace, x # w
        PROVE  OwnerOK(view, x)
    <3>1. /\ view[WorkspaceRow(x)] = s[WorkspaceRow(x)]
          /\ \A y \in User : view[Member(x, y)] = s[Member(x, y)]
      BY <1>4, <2>2, RowsExist
    <3>2. OwnerOK(s, x)
      BY <1>3 DEF OwnersOK
    <3>. QED
      BY <3>1, <3>2 DEF OwnerOK, Live, Exists, IsMember
  <2>. QED
    BY <2>1, <2>2 DEF OwnersOK
<1>13. Disciplined(View(p), {}, view)
  <2>1. \A x \in Workspace : view[WorkspaceRow(x)] = Absent => s[WorkspaceRow(x)] = Absent
    BY <1>4, <1>10, RowsExist
  <2>2. \A x \in Workspace, y \in User : view[Member(x, y)] # s[Member(x, y)] =>
          view[WorkspaceRow(x)] # s[WorkspaceRow(x)]
    BY <1>4, <1>10, <1>11, RowsExist DEF Live, Exists
  <2>. QED
    BY <1>9, <1>12, <2>1, <2>2 DEF Disciplined
<1>. QED
  BY <1>2, <1>7, <1>13, AttemptKeepsIInv DEF Attempt, View

(* Revoking the pending invitations changes invitations only.              *)
LEMMA RevokedView ==
  ASSUME NEW v, DatabaseOK(v), NEW w \in Workspace
  PROVE  DatabaseOK(RevokePending(v, w)) /\ SameMembership(v, RevokePending(v, w))
<1>. DEFINE rows == {InvitationRow(i) : i \in PendingOf(v, w)}
            after == RevokePending(v, w)
<1>1. /\ DOMAIN after = Row
      /\ \A row \in Row : after[row] =
           IF row \in rows THEN [v[row] EXCEPT !.status = "revoked"] ELSE v[row]
  BY DEF RevokePending, DatabaseOK
<1>2. \A u, x, y : /\ Account(u) \notin rows /\ WorkspaceRow(x) \notin rows
                   /\ Member(x, u) \notin rows /\ Role(x, y) \notin rows
  BY RowsDiffer
<1>3. ASSUME NEW i \in Invitation
      PROVE  after[InvitationRow(i)] \in InvitationRecord \cup {Absent, Gone}
  <2>1. CASE InvitationRow(i) \in rows
    <3>1. i \in PendingOf(v, w)
      BY <2>1, InvitationRowDiffers
    <3>2. v[InvitationRow(i)] \in InvitationRecord
      BY <3>1 DEF PendingOf, InvitationsOf, Exists, DatabaseOK
    <3>. DEFINE c == [v[InvitationRow(i)] EXCEPT !.status = "revoked"]
    <3>3. c \in InvitationRecord
      BY <3>2 DEF InvitationRecord
    <3>4. after[InvitationRow(i)] = c
      BY <1>1, <2>1, RowsExist
    <3>. QED
      BY <3>3, <3>4
  <2>2. CASE InvitationRow(i) \notin rows
    BY <1>1, <2>2, RowsExist DEF DatabaseOK
  <2>. QED
    BY <2>1, <2>2
<1>. HIDE DEF after, rows
<1>4. DatabaseOK(after)
  BY <1>1, <1>2, <1>3, RowsExist DEF DatabaseOK
<1>5. SameMembership(v, after)
  BY <1>1, <1>2, RowsExist DEF SameMembership
<1>. QED
  BY <1>4, <1>5 DEF after

(* Removing members of one workspace changes nothing else.                 *)
LEMMA RemovedMembersView ==
  ASSUME NEW v, DatabaseOK(v), NEW w \in Workspace, NEW us
  PROVE  LET after == RemoveMembers(v, w, us) IN
         /\ DatabaseOK(after)
         /\ \A x \in Workspace : after[WorkspaceRow(x)] = v[WorkspaceRow(x)]
         /\ \A x \in Workspace, y \in User : after[Member(x, y)] =
              IF x = w /\ y \in us THEN Absent ELSE v[Member(x, y)]
<1>. DEFINE rows == {Member(w, u) : u \in us}
            after == RemoveMembers(v, w, us)
<1>1. /\ DOMAIN after = Row
      /\ \A row \in Row : after[row] = IF row \in rows THEN Absent ELSE v[row]
  BY PutRow DEF DatabaseOK, RemoveMembers
<1>2. \A u, x, y : /\ Account(u) \notin rows /\ WorkspaceRow(x) \notin rows
                   /\ InvitationRow(u) \notin rows /\ Role(x, y) \notin rows
  BY RowsDiffer
<1>3. \A x, y : Member(x, y) \in rows <=> x = w /\ y \in us
  BY MemberRowDiffers
<1>. HIDE DEF after, rows
<1>4. DatabaseOK(after)
  BY <1>1, <1>2, RowsExist DEF DatabaseOK
<1>. QED
  BY <1>1, <1>2, <1>3, <1>4, RowsExist DEF after

LEMMA DeleteWorkspaceKeepsIInv ==
  ASSUME IInv, NEW p \in Session, NEW r \in Requests, DeleteWorkspace(p, r), UNCHANGED expired
  PROVE  IInv'
<1>. DEFINE s == View(p)
            w == r.workspace
            removed == RemoveMembers(s, w, MemberIds(s, w))
            emptied == RevokePending(removed, w)
            c == [emptied[WorkspaceRow(w)] EXCEPT !.deleted = TRUE]
            deleted == [emptied EXCEPT ![WorkspaceRow(w)] = c]
            after == ReturnToWorkspaceStep(deleted, MemberIds(s, w))
<1>1. Changes(p, r, "delete", "workspace.delete")
  BY DEF DeleteWorkspace
<1>2. /\ tx[p].open /\ w \in Workspace /\ Live(s, w)
  BY <1>1, ChangesFacts
<1>3. Attempt(p, r, {WorkspaceRow(w)}, after)
  BY DEF DeleteWorkspace, AttemptLocked
<1>4. DatabaseOK(s) /\ OwnersOK(s)
  BY <1>2, OpenView
<1>5. /\ DatabaseOK(removed)
      /\ \A x \in Workspace : removed[WorkspaceRow(x)] = s[WorkspaceRow(x)]
      /\ \A x \in Workspace, y \in User : removed[Member(x, y)] =
           IF x = w /\ y \in MemberIds(s, w) THEN Absent ELSE s[Member(x, y)]
  BY <1>2, <1>4, RemovedMembersView
<1>. HIDE DEF removed
<1>6. DatabaseOK(emptied) /\ SameMembership(removed, emptied)
  BY <1>2, <1>5, RevokedView
<1>. HIDE DEF emptied
<1>7. emptied[WorkspaceRow(w)] \in WorkspaceRecord
  <2>1. emptied[WorkspaceRow(w)] = s[WorkspaceRow(w)]
    BY <1>2, <1>5, <1>6 DEF SameMembership
  <2>. QED
    BY <1>2, <1>4, <2>1 DEF DatabaseOK, Live, Exists
<1>8. c \in WorkspaceRecord /\ c.deleted
  BY <1>7 DEF WorkspaceRecord
<1>. HIDE DEF c
<1>9. DatabaseOK(deleted)
  BY <1>2, <1>6, <1>8, SetWorkspace
<1>10. /\ DOMAIN deleted = Row
       /\ \A row \in Row : deleted[row] = IF row = WorkspaceRow(w) THEN c ELSE emptied[row]
  BY <1>6, SetRow DEF DatabaseOK
<1>. HIDE DEF deleted
<1>11. MemberIds(s, w) \in SUBSET User
  BY DEF MemberIds
<1>12. DatabaseOK(after) /\ SameMembership(deleted, after)
  BY <1>9, <1>11, ReturnView
<1>. HIDE DEF after
<1>13. \A x \in Workspace : after[WorkspaceRow(x)] = IF x = w THEN c ELSE s[WorkspaceRow(x)]
  BY <1>5, <1>6, <1>10, <1>12, WorkspaceRowDiffers, RowsExist DEF SameMembership
<1>14. \A x \in Workspace, y \in User : after[Member(x, y)] =
         IF x = w /\ y \in MemberIds(s, w) THEN Absent ELSE s[Member(x, y)]
  BY <1>5, <1>6, <1>10, <1>12, MemberRowDiffers, RowsExist DEF SameMembership
<1>15. OwnersOK(after)
  <2>1. OwnerOK(after, w)
    <3>1. \A y \in User : ~IsMember(after, w, y)
      BY <1>2, <1>14 DEF MemberIds, IsMember, Exists
    <3>2. \A y \in User : after[Member(w, y)] # OwnerRole
      BY <3>1, RowContentsAssumption DEF IsMember, Exists, RoleId, SystemRole
    <3>3. ~Live(after, w)
      BY <1>2, <1>8, <1>13 DEF Live
    <3>. QED
      BY <3>1, <3>2, <3>3 DEF OwnerOK
  <2>2. ASSUME NEW x \in Workspace, x # w
        PROVE  OwnerOK(after, x)
    <3>1. /\ after[WorkspaceRow(x)] = s[WorkspaceRow(x)]
          /\ \A y \in User : after[Member(x, y)] = s[Member(x, y)]
      BY <1>13, <1>14, <2>2
    <3>2. OwnerOK(s, x)
      BY <1>4 DEF OwnersOK
    <3>. QED
      BY <3>1, <3>2 DEF OwnerOK, Live, Exists, IsMember
  <2>. QED
    BY <2>1, <2>2 DEF OwnersOK
<1>16. \A x \in Workspace : after[WorkspaceRow(x)] = Absent => s[WorkspaceRow(x)] = Absent
  BY <1>8, <1>13, RowContentsAssumption
<1>17. \A x \in Workspace, y \in User : after[Member(x, y)] # s[Member(x, y)] => x = w
  BY <1>14
<1>. QED
  BY <1>2, <1>3, <1>12, <1>15, <1>16, <1>17, LockedAttemptKeepsIInv

-----------------------------------------------------------------------------
(*                    Purges and account deletions                         *)

(* A deleted workspace has no members left, so purging it removes none.    *)
LEMMA PurgedView ==
  ASSUME NEW v, DatabaseOK(v), OwnersOK(v), NEW w \in Workspace
  PROVE  Disciplined(v, {}, Purged(v, w))
<1>1. CASE ~Deleted(v, w)
  <2>1. Purged(v, w) = v
    BY <1>1 DEF Purged
  <2>. QED
    BY <2>1 DEF Disciplined
<1>2. CASE Deleted(v, w)
  <2>. DEFINE members == {Member(w, u) : u \in User}
              others == {WorkspaceRow(w)} \cup {InvitationRow(i) : i \in InvitationsOf(v, w)}
                          \cup {Role(w, x) : x \in {y \in RoleId : Exists(v, Role(w, y))}}
              emptied == Put(v, members, Absent)
              after == Put(emptied, others, Gone)
  <2>1. Purged(v, w) = after
    BY <1>2 DEF Purged
  <2>2. /\ DOMAIN emptied = Row
        /\ \A row \in Row : emptied[row] = IF row \in members THEN Absent ELSE v[row]
    BY PutRow DEF DatabaseOK
  <2>. HIDE DEF emptied
  <2>3. /\ DOMAIN after = Row
        /\ \A row \in Row : after[row] = IF row \in others THEN Gone ELSE emptied[row]
    BY <2>2, PutRow
  <2>4. /\ \A x : Account(x) \notin members /\ WorkspaceRow(x) \notin members
                  /\ InvitationRow(x) \notin members
        /\ \A x, y : Role(x, y) \notin members
        /\ \A x, y : Member(x, y) \in members => x = w
    BY AccountRowDiffers, WorkspaceRowDiffers, InvitationRowDiffers, RoleRowDiffers,
       MemberRowDiffers
  <2>5. /\ \A x : Account(x) \notin others
        /\ \A x : WorkspaceRow(x) \in others <=> x = w
        /\ \A x, y : Member(x, y) \notin others
    BY AccountRowDiffers, MemberRowDiffers, WorkspaceRowDiffers
  <2>. HIDE DEF after, members, others
  <2>6. ~Live(v, w) /\ v[WorkspaceRow(w)] # Absent
    BY <1>2 DEF Deleted, Live, Exists
  <2>7. \A y \in User : v[Member(w, y)] = Absent
    BY <2>6, RowContentsAssumption DEF OwnersOK, OwnerOK, IsMember, Exists, DatabaseOK
  <2>8. \A x \in Workspace, y \in User : after[Member(x, y)] = v[Member(x, y)]
    BY <2>2, <2>3, <2>4, <2>5, <2>7, RowsExist
  <2>9. \A x \in Workspace : after[WorkspaceRow(x)] = IF x = w THEN Gone ELSE v[WorkspaceRow(x)]
    BY <2>2, <2>3, <2>4, <2>5, RowsExist
  <2>10. DatabaseOK(after)
    <3>1. \A x \in User : after[Account(x)] \in Status \cup {Absent, Gone}
      BY <2>2, <2>3, <2>4, <2>5, RowsExist DEF DatabaseOK
    <3>2. \A x \in Workspace, y \in RoleId : after[Role(x, y)] \in RoleRecord \cup {Absent, Gone}
      BY <2>2, <2>3, <2>4, RowsExist DEF DatabaseOK
    <3>3. \A x \in Invitation : after[InvitationRow(x)] \in InvitationRecord \cup {Absent, Gone}
      BY <2>2, <2>3, <2>4, RowsExist DEF DatabaseOK
    <3>. QED
      BY <2>3, <2>8, <2>9, <3>1, <3>2, <3>3 DEF DatabaseOK
  <2>11. OwnersOK(after)
    <3>1. OwnerOK(after, w)
      <4>1. ~Live(after, w)
        BY <2>9 DEF Live, Exists
      <4>2. OwnerOK(v, w)
        BY DEF OwnersOK
      <4>. QED
        BY <2>6, <2>8, <4>1, <4>2 DEF OwnerOK, IsMember, Exists
    <3>2. ASSUME NEW x \in Workspace, x # w
          PROVE  OwnerOK(after, x)
      <4>1. OwnerOK(v, x)
        BY DEF OwnersOK
      <4>. QED
        BY <2>8, <2>9, <3>2, <4>1 DEF OwnerOK, Live, IsMember, Exists
    <3>. QED
      BY <3>1, <3>2 DEF OwnersOK
  <2>12. \A x \in Workspace : after[WorkspaceRow(x)] = Absent => v[WorkspaceRow(x)] = Absent
    BY <2>9, RowContentsAssumption
  <2>13. Disciplined(v, {}, after)
    BY <2>8, <2>10, <2>11, <2>12 DEF Disciplined
  <2>. QED
    BY <2>1, <2>13
<1>. QED
  BY <1>1, <1>2

LEMMA PurgeWorkspaceKeepsIInv ==
  ASSUME IInv, NEW p \in Session, NEW r \in Requests, PurgeWorkspace(p, r), UNCHANGED expired
  PROVE  IInv'
<1>1. tx[p].open /\ r.workspace \in Workspace
  BY RequestFields DEF PurgeWorkspace, Sends, Serves
<1>2. Disciplined(View(p), {}, Purged(View(p), r.workspace))
  BY <1>1, OpenView, PurgedView
<1>. QED
  BY <1>1, <1>2, AttemptKeepsIInv DEF PurgeWorkspace, Attempt, View

LEMMA PurgeOwnedKeepsIInv ==
  ASSUME IInv, NEW p \in Session, PurgeOwned(p), UNCHANGED expired
  PROVE  IInv'
<1>1. PICK u \in User, purging \in SUBSET Workspace : \E w \in purging :
        /\ tx[p].open
        /\ AttemptThen(p, Deletion(u, purging), {}, Purged(View(p), w),
                       Deletion(u, purging \ {w}))
  BY DEF PurgeOwned
<1>2. PICK w \in purging :
        AttemptThen(p, Deletion(u, purging), {}, Purged(View(p), w), Deletion(u, purging \ {w}))
  BY <1>1
<1>3. Deletion(u, purging) \in Deletions /\ Deletion(u, purging \ {w}) \in Deletions
  BY DEF Deletions
<1>4. Disciplined(View(p), {}, Purged(View(p), w))
  BY <1>1, OpenView, PurgedView
<1>. QED
  BY <1>1, <1>2, <1>3, <1>4, AttemptKeepsIInv DEF View

(* Whoever owns no live workspace is nobody's owner member.                *)
LEMMA DeleteAccountKeepsIInv ==
  ASSUME IInv, NEW p \in Session, DeleteAccount(p), UNCHANGED expired
  PROVE  IInv'
<1>. DEFINE s == View(p)
            sent(u) == {i \in Invitation : Exists(s, InvitationRow(i))
                                             /\ s[InvitationRow(i)].invited_by = u}
            rows(u) == {Account(u)} \cup {InvitationRow(i) : i \in sent(u)}
            after(u) == Put(RemoveUser(s, u), rows(u), Gone)
<1>1. PICK u \in User : /\ tx[p].open
                        /\ Deletable(s, u)
                        /\ Attempt(p, Deletion(u, {}), {}, after(u))
  BY DEF DeleteAccount
<1>. DEFINE mine == {Member(w, u) : w \in Workspace}
            left == RemoveUser(s, u)
            gone == rows(u)
            view == after(u)
<1>2. DatabaseOK(s) /\ OwnersOK(s) /\ Deletion(u, {}) \in Deletions
  BY <1>1, OpenView DEF Deletions
<1>3. /\ DOMAIN left = Row
      /\ \A row \in Row : left[row] = IF row \in mine THEN Absent ELSE s[row]
  BY <1>2, PutRow DEF DatabaseOK, RemoveUser
<1>4. /\ \A x : Account(x) \notin mine /\ WorkspaceRow(x) \notin mine
                /\ InvitationRow(x) \notin mine
      /\ \A x, y : Role(x, y) \notin mine
      /\ \A x \in Workspace, y \in User : Member(x, y) \in mine <=> y = u
  BY AccountRowDiffers, WorkspaceRowDiffers, InvitationRowDiffers, RoleRowDiffers,
     MemberRowDiffers
<1>5. \A x, y : WorkspaceRow(x) \notin gone /\ Member(x, y) \notin gone
  BY RowsDiffer
<1>6. Attempt(p, Deletion(u, {}), {}, view)
  BY <1>1
<1>7. view = Put(left, gone, Gone)
  OBVIOUS
<1>. HIDE DEF left, mine, gone, view, after, rows
<1>8. DatabaseOK(left)
  BY <1>2, <1>3, <1>4, RowsExist DEF DatabaseOK
<1>9. DatabaseOK(view) /\ SameMembership(left, view)
  BY <1>5, <1>7, <1>8, PutGone
<1>10. /\ \A x \in Workspace : view[WorkspaceRow(x)] = s[WorkspaceRow(x)]
       /\ \A x \in Workspace, y \in User : view[Member(x, y)] =
            IF y = u THEN Absent ELSE s[Member(x, y)]
  BY <1>3, <1>4, <1>9, RowsExist DEF SameMembership
<1>11. \A x \in Workspace : s[Member(x, u)] # OwnerRole
  BY <1>1, <1>2 DEF Deletable, AnyOwnedBy, OwnersOK, OwnerOK
<1>12. Absent # OwnerRole
  BY RowContentsAssumption DEF RoleId, SystemRole
<1>13. OwnersOK(view)
  BY <1>2, <1>10, <1>11, <1>12, OthersChange
<1>14. Disciplined(View(p), {}, view)
  BY <1>9, <1>10, <1>11, <1>13 DEF Disciplined
<1>. QED
  BY <1>1, <1>2, <1>6, <1>14, AttemptKeepsIInv DEF Attempt, View

-----------------------------------------------------------------------------
(*                            The theorems                                 *)

(* The invariant holds initially and every step keeps it.                  *)
LEMMA InitIInv == Init => IInv
<1>. SUFFICES ASSUME Init PROVE IInv
  OBVIOUS
<1>1. DatabaseOK(db)
  BY RowsExist DEF Init, DatabaseOK
<1>2. \A p \in Session : tx[p] = Idle
  BY DEF Init
<1>3. TypeOK
  BY <1>1, <1>2, IdleOK DEF TypeOK, Init
<1>4. OwnersOK(db)
  BY RowsExist, RowContentsAssumption
     DEF Init, OwnersOK, OwnerOK, Live, IsMember, Exists, RoleId, SystemRole
<1>. QED
  BY <1>2, <1>3, <1>4, IdleOK DEF IInv

LEMMA ServeKeepsIInv ==
  ASSUME IInv, NEW p \in Session, NEW r \in Requests, Serve(p, r), UNCHANGED expired
  PROVE  IInv'
BY RegisterKeepsIInv, EnsureAccountKeepsIInv, RenameProfileKeepsIInv,
   StartAccountDeletionKeepsIInv, CreateWorkspaceKeepsIInv,
   UpdateWorkspaceKeepsIInv, DeleteWorkspaceKeepsIInv,
   PurgeWorkspaceKeepsIInv, CreateRoleKeepsIInv, RenameRoleKeepsIInv,
   DeleteRoleKeepsIInv, SetPermissionsKeepsIInv, SetMemberRoleKeepsIInv,
   RemoveMemberKeepsIInv, TransferKeepsIInv, InviteKeepsIInv,
   RevokeInvitationKeepsIInv, AcceptInvitationKeepsIInv
   DEF Serve

LEMMA NextKeepsIInv == IInv /\ [Next]_vars => IInv'
<1>. SUFFICES ASSUME IInv, [Next]_vars PROVE IInv'
  OBVIOUS
<1>1. ASSUME NEW p \in Session, Step(p), UNCHANGED expired
      PROVE  IInv'
  BY <1>1, BeginKeepsIInv, RollBackKeepsIInv, PurgeOwnedKeepsIInv, DeleteAccountKeepsIInv,
     ServeKeepsIInv DEF Step, Asked
<1>2. ASSUME NEW i \in Invitation, Expire(i)
      PROVE  IInv'
  <2>1. UNCHANGED <<db, tx>> /\ expired' \subseteq Invitation
    BY <1>2 DEF Expire, IInv, TypeOK
  <2>2. TypeOK'
    BY <2>1 DEF IInv, TypeOK
  <2>. QED
    BY <2>1, <2>2 DEF IInv
<1>3. ASSUME UNCHANGED vars
      PROVE  IInv'
  BY <1>3 DEF vars, IInv, TypeOK
<1>. QED
  BY <1>1, <1>2, <1>3 DEF Next

(* OwnersOK says row by row what ensure_single_owner says set by set.      *)
LEMMA SingleOwners ==
  ASSUME TypeOK, OwnersOK(db)
  PROVE  OwnersAreSingle
<1>1. ASSUME NEW w \in Workspace, Live(db, w)
      PROVE  SingleOwner(db, w)
  <2>1. db[WorkspaceRow(w)].owner \in User
    BY <1>1 DEF TypeOK, DatabaseOK, Live, Exists, WorkspaceRecord
  <2>2. \A u \in User : db[Member(w, u)] = OwnerRole <=> db[WorkspaceRow(w)].owner = u
    BY <1>1 DEF OwnersOK, OwnerOK
  <2>. QED
    BY <2>1, <2>2 DEF SingleOwner, OwnerIds
<1>2. ASSUME NEW w \in Workspace, ~Live(db, w)
      PROVE  MemberIds(db, w) = {}
  BY <1>2 DEF OwnersOK, OwnerOK, MemberIds
<1>. QED
  BY <1>1, <1>2 DEF OwnersAreSingle

(* Whatever requests overlap, however often their work is rerun, every row *)
(* of the database and of every open snapshot holds what its table may     *)
(* hold, for any number of sessions, accounts, workspaces and invitations. *)
THEOREM TypeCorrect == Spec => []TypeOK
<1>1. IInv => TypeOK
  BY DEF IInv
<1>. QED
  BY InitIInv, NextKeepsIInv, <1>1, PTL DEF Spec

(* However transfers, role changes, removals, joins, workspace deletions,  *)
(* purges and account deletions overlap, a live workspace has exactly one  *)
(* member with the owner role, the one its row names, and a workspace that *)
(* is not live has no member.                                              *)
THEOREM SingleOwnership == Spec => []OwnersAreSingle
<1>1. IInv => OwnersAreSingle
  BY SingleOwners DEF IInv
<1>. QED
  BY InitIInv, NextKeepsIInv, <1>1, PTL DEF Spec

(* What a transaction still relies on when it commits: the rows nobody     *)
(* touched since its snapshot are as it read them, and while nobody touched*)
(* a workspace's row its members are too, unless their account is deleted. *)
THEOREM SnapshotsAgree == Spec => []IInv
BY InitIInv, NextKeepsIInv, PTL DEF Spec
=============================================================================
