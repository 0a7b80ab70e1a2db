--------------------------- MODULE AccountsProofs ---------------------------
(***************************************************************************)
(* Proofs about Accounts for any number of sessions, subjects, emails,     *)
(* uploads and files.                                                      *)
(***************************************************************************)
EXTENDS Accounts, UnitOfWorkProofs

-----------------------------------------------------------------------------
(*                              Rows                                       *)

LEMMA RowsDiffer ==
  ASSUME NEW x, NEW y
  PROVE  /\ UserRow(x) = UserRow(y) <=> x = y
         /\ EmailRow(x) = EmailRow(y) <=> x = y
         /\ UserRow(x) # EmailRow(y)
BY DEF UserRow, EmailRow

LEMMA RowsExist ==
  /\ \A sub \in Subject : UserRow(sub) \in Row /\ EmailOf[sub] \in Email
  /\ \A e \in Email : EmailRow(e) \in Row
BY EmailAssumption DEF Row

(* What a use case leaves: rows and index that fit, and no email in the    *)
(* hands of another account than the one it found there.                   *)
Sound(s, after) ==
  /\ DatabaseOK(after)
  /\ IndexOK(after)
  /\ \A e \in Email : Exists(s, EmailRow(e)) => after[EmailRow(e)] \in {s[EmailRow(e)], Absent}

(* NeverHandedOver, as a relation between two states.                      *)
EmailsStay ==
  \A e \in Email : Exists(db, EmailRow(e)) => db'[EmailRow(e)] \in {db[EmailRow(e)], Absent}

(* The state beside the database and the sessions.                         *)
StoresOK ==
  /\ MediaTypeOK
  /\ pool \in [Subject -> {"unissued", "temporary", "confirmed", "deleted"}]

-----------------------------------------------------------------------------
(*                     Commits keep the invariant                          *)

LEMMA MergedDatabaseOK ==
  ASSUME NEW p \in Session, NEW locked, NEW after, NEW next,
         DatabaseOK(db), DatabaseOK(after), Commit(p, locked, after, next)
  PROVE  DatabaseOK(db')
<1>1. DOMAIN db' = Row
  BY DEF Commit, DatabaseOK
<1>2. \A row \in Row : db'[row] \in {db[row], after[row]}
  BY MergedRow DEF DatabaseOK
<1>3. \A sub \in Subject : db'[UserRow(sub)] \in UserRecord \cup {Absent, Gone}
  BY <1>2, RowsExist DEF DatabaseOK
<1>4. \A e \in Email : db'[EmailRow(e)] \in Subject \cup {Absent}
  BY <1>2, RowsExist DEF DatabaseOK
<1>. QED
  BY <1>1, <1>3, <1>4 DEF DatabaseOK

(* A row and its entry in the index are written together or from the same  *)
(* untouched state, so they fit after the commit whichever was written.    *)
LEMMA MergedIndexOK ==
  ASSUME NEW p \in Session, NEW locked, NEW after, NEW next,
         DatabaseOK(db), IndexOK(db), IndexOK(tx[p].snapshot), IndexOK(after),
         Agrees(db, tx[p].snapshot, tx[p].touched), Commit(p, locked, after, next)
  PROVE  IndexOK(db')
<1>. DEFINE s == tx[p].snapshot
<1>1. ASSUME NEW row \in Row
      PROVE  \/ db'[row] = db[row] /\ after[row] = s[row]
             \/ db'[row] = after[row] /\ db[row] = s[row]
  <2>1. db'[row] = IF after[row] # s[row] THEN after[row] ELSE db[row]
    BY MergedRow DEF DatabaseOK
  <2>2. after[row] # s[row] => row \notin tx[p].touched
    BY FootprintUntouched DEF DatabaseOK
  <2>. QED
    BY <2>1, <2>2 DEF Agrees
<1>2. ASSUME NEW sub \in Subject
      PROVE  Exists(db', UserRow(sub)) <=> db'[EmailRow(EmailOf[sub])] = sub
  <2>1. UserRow(sub) \in Row /\ EmailRow(EmailOf[sub]) \in Row
    BY RowsExist
  <2>2. /\ Exists(db, UserRow(sub)) <=> db[EmailRow(EmailOf[sub])] = sub
        /\ Exists(s, UserRow(sub)) <=> s[EmailRow(EmailOf[sub])] = sub
        /\ Exists(after, UserRow(sub)) <=> after[EmailRow(EmailOf[sub])] = sub
    BY DEF IndexOK
  <2>. QED
    BY <1>1, <2>1, <2>2 DEF Exists
<1>3. ASSUME NEW e \in Email, NEW sub \in Subject, db'[EmailRow(e)] = sub
      PROVE  EmailOf[sub] = e
  BY <1>1, <1>3, RowsExist DEF IndexOK
<1>. QED
  BY <1>2, <1>3 DEF IndexOK

LEMMA MergedEmails ==
  ASSUME NEW p \in Session, NEW locked, NEW after, NEW next,
         DatabaseOK(db), Sound(tx[p].snapshot, after),
         Agrees(db, tx[p].snapshot, tx[p].touched), Commit(p, locked, after, next)
  PROVE  EmailsStay
<1>1. SUFFICES ASSUME NEW e \in Email, Exists(db, EmailRow(e))
               PROVE  db'[EmailRow(e)] \in {db[EmailRow(e)], Absent}
  BY DEF EmailsStay
<1>. DEFINE row == EmailRow(e)
<1>2. row \in Row
  BY RowsExist
<1>3. db'[row] = IF after[row] # tx[p].snapshot[row] THEN after[row] ELSE db[row]
  BY <1>2, MergedRow DEF DatabaseOK
<1>4. after[row] # tx[p].snapshot[row] => db[row] = tx[p].snapshot[row]
  BY <1>2, FootprintUntouched DEF DatabaseOK, Agrees
<1>. QED
  BY <1>1, <1>3, <1>4 DEF Sound, Exists

LEMMA MergedAgrees ==
  ASSUME NEW p \in Session, NEW locked, NEW after, NEW next,
         DatabaseOK(db), Commit(p, locked, after, next),
         NEW s, NEW touched, Agrees(db, s, touched)
  PROVE  Agrees(db', s, touched \cup Footprint(p, locked, after))
<1>1. ASSUME NEW row \in Row \ (touched \cup Footprint(p, locked, after))
      PROVE  db'[row] = s[row]
  <2>1. after[row] = tx[p].snapshot[row]
    BY FootprintUntouched DEF DatabaseOK
  <2>2. db'[row] = db[row]
    BY <2>1, MergedRow DEF DatabaseOK
  <2>. QED
    BY <2>2 DEF Agrees
<1>. QED
  BY <1>1 DEF Agrees

(* Sessions without an open transaction.                                   *)
LEMMA WaitingOK ==
  ASSUME NEW r \in Unfinished \cup {NoRequest}, NEW n \in 1 .. ATTEMPTS
  PROVE  TransactionOK(Waiting(r, n)) /\ ~Waiting(r, n).open
BY DEF TransactionOK, Waiting

LEMMA FirstAttempt == 1 \in 1 .. ATTEMPTS
BY AttemptsAssumption

LEMMA MergedTransactions ==
  ASSUME TypeOK, NEW p \in Session, NEW locked, NEW after,
         NEW next \in Unfinished \cup {NoRequest},
         locked \subseteq Row, Commit(p, locked, after, next), NEW q \in Session
  PROVE  /\ TransactionOK(tx'[q])
         /\ tx'[q].open => /\ q # p /\ tx[q].open
                           /\ tx'[q].snapshot = tx[q].snapshot
                           /\ tx'[q].touched = tx[q].touched \cup Footprint(p, locked, after)
<1>1. Footprint(p, locked, after) \subseteq Row
  BY DEF Footprint, Written, TypeOK, DatabaseOK
<1>2. TransactionOK(tx[q])
  BY DEF TypeOK
<1>3. CASE q = p
  <2>1. tx'[p] = Waiting(next, 1)
    BY DEF Commit
  <2>. QED
    BY <1>3, <2>1, WaitingOK, FirstAttempt
<1>4. CASE q # p /\ tx[q].open
  <2>1. tx'[q] = [tx[q] EXCEPT !.touched = @ \cup Footprint(p, locked, after)]
    BY <1>4, OtherSessions
  <2>. QED
    BY <1>1, <1>2, <1>4, <2>1 DEF TransactionOK
<1>5. CASE q # p /\ ~tx[q].open
  BY <1>2, <1>5, OtherSessions
<1>. QED
  BY <1>3, <1>4, <1>5

LEMMA CommitKeepsIInv ==
  ASSUME IInv, NEW p \in Session, tx[p].open, NEW locked, locked \subseteq Row, NEW after,
         NEW next \in Unfinished \cup {NoRequest}, Sound(tx[p].snapshot, after),
         Commit(p, locked, after, next), UNCHANGED <<uploads, files, pool>>
  PROVE  IInv' /\ EmailsStay
<1>1. /\ TypeOK /\ DatabaseOK(db) /\ IndexOK(db)
      /\ DatabaseOK(after) /\ IndexOK(after) /\ IndexOK(tx[p].snapshot)
      /\ Agrees(db, tx[p].snapshot, tx[p].touched)
  BY DEF IInv, TypeOK, Sound
<1>2. DatabaseOK(db')
  BY <1>1, MergedDatabaseOK
<1>3. \A q \in Session : TransactionOK(tx'[q])
  BY <1>1, MergedTransactions
<1>4. DOMAIN tx' = Session
  BY DEF Commit
<1>5. TypeOK'
  BY <1>1, <1>2, <1>3, <1>4 DEF TypeOK, MediaTypeOK
<1>6. IndexOK(db')
  BY <1>1, MergedIndexOK
<1>7. ASSUME NEW q \in Session, tx'[q].open
      PROVE  IndexOK(tx'[q].snapshot) /\ Agrees(db', tx'[q].snapshot, tx'[q].touched)
  <2>1. /\ tx[q].open
        /\ tx'[q].snapshot = tx[q].snapshot
        /\ tx'[q].touched = tx[q].touched \cup Footprint(p, locked, after)
    BY <1>1, <1>7, MergedTransactions
  <2>2. IndexOK(tx[q].snapshot) /\ Agrees(db, tx[q].snapshot, tx[q].touched)
    BY <2>1 DEF IInv
  <2>. QED
    BY <1>1, <2>1, <2>2, MergedAgrees
<1>8. EmailsStay
  BY <1>1, MergedEmails
<1>. QED
  BY <1>5, <1>6, <1>7, <1>8 DEF IInv

-----------------------------------------------------------------------------
(*            Steps that leave the database as it is                       *)

LEMMA QuietStepKeepsIInv ==
  ASSUME IInv, NEW p \in Session, NEW t, TransactionOK(t),
         t.open => IndexOK(t.snapshot) /\ Agrees(db, t.snapshot, t.touched),
         tx' = [tx EXCEPT ![p] = t], UNCHANGED db, StoresOK'
  PROVE  IInv' /\ EmailsStay
<1>1. /\ DOMAIN tx' = Session
      /\ \A q \in Session : tx'[q] = IF q = p THEN t ELSE tx[q]
  BY DEF IInv, TypeOK
<1>2. TypeOK'
  BY <1>1 DEF IInv, TypeOK, StoresOK
<1>3. ASSUME NEW q \in Session, tx'[q].open
      PROVE  IndexOK(tx'[q].snapshot) /\ Agrees(db', tx'[q].snapshot, tx'[q].touched)
  BY <1>1, <1>3 DEF IInv
<1>. QED
  BY <1>2, <1>3 DEF IInv, EmailsStay

(* A session that goes on to something else in the same transaction.       *)
LEMMA GoOnKeepsIInv ==
  ASSUME IInv, NEW p \in Session, NEW r \in Unfinished \cup {NoRequest},
         tx' = [tx EXCEPT ![p].request = r], UNCHANGED db, StoresOK'
  PROVE  IInv' /\ EmailsStay
<1>. DEFINE t == [tx[p] EXCEPT !.request = r]
<1>1. TransactionOK(tx[p])
  BY DEF IInv, TypeOK
<1>2. /\ TransactionOK(t)
      /\ t.open = tx[p].open /\ t.snapshot = tx[p].snapshot /\ t.touched = tx[p].touched
  BY <1>1 DEF TransactionOK
<1>3. tx' = [tx EXCEPT ![p] = t]
  BY DEF IInv, TypeOK
<1>4. t.open => IndexOK(t.snapshot) /\ Agrees(db, t.snapshot, t.touched)
  BY <1>2 DEF IInv
<1>. HIDE DEF t
<1>. QED
  BY <1>2, <1>3, <1>4, QuietStepKeepsIInv

(* A session whose transaction has ended.                                  *)
LEMMA WaitKeepsIInv ==
  ASSUME IInv, NEW p \in Session, NEW r \in Unfinished \cup {NoRequest},
         NEW n \in 1 .. ATTEMPTS, tx' = [tx EXCEPT ![p] = Waiting(r, n)],
         UNCHANGED db, StoresOK'
  PROVE  IInv' /\ EmailsStay
BY WaitingOK, QuietStepKeepsIInv

LEMMA IdleKeepsIInv ==
  ASSUME IInv, NEW p \in Session, tx' = [tx EXCEPT ![p] = Idle], UNCHANGED db, StoresOK'
  PROVE  IInv' /\ EmailsStay
BY WaitKeepsIInv, FirstAttempt DEF Idle

LEMMA LoseRaceKeepsIInv ==
  ASSUME IInv, NEW p \in Session, NEW r \in Unfinished \cup {NoRequest},
         NEW failed \in Unfinished \cup {NoRequest}, NEW locked, NEW after,
         LoseRaceElse(p, r, locked, after, failed), StoresOK'
  PROVE  IInv' /\ EmailsStay
<1>1. tx[p].attempt \in 1 .. ATTEMPTS
  BY DEF IInv, TypeOK, TransactionOK
<1>2. CASE tx[p].attempt = ATTEMPTS
  BY <1>2, WaitKeepsIInv, FirstAttempt DEF LoseRaceElse
<1>3. CASE tx[p].attempt # ATTEMPTS
  <2>1. tx[p].attempt + 1 \in 1 .. ATTEMPTS
    BY <1>1, <1>3, AttemptsAssumption
  <2>2. tx' = [tx EXCEPT ![p] = Waiting(r, tx[p].attempt + 1)] /\ UNCHANGED db
    BY <1>3 DEF LoseRaceElse
  <2>. QED
    BY <2>1, <2>2, WaitKeepsIInv
<1>. QED
  BY <1>2, <1>3

LEMMA StoresStay ==
  ASSUME IInv, UNCHANGED <<uploads, files, pool>>
  PROVE  StoresOK'
BY DEF IInv, TypeOK, StoresOK, MediaTypeOK

LEMMA AttemptKeepsIInv ==
  ASSUME IInv, NEW p \in Session, tx[p].open, NEW r \in Unfinished, NEW after,
         NEW next \in Unfinished \cup {NoRequest}, Sound(tx[p].snapshot, after),
         AttemptThen(p, r, {}, after, next), UNCHANGED <<uploads, files, pool>>
  PROVE  IInv' /\ EmailsStay
<1>1. StoresOK'
  BY StoresStay
<1>2. CASE Commit(p, {}, after, next)
  BY <1>2, CommitKeepsIInv
<1>3. CASE LoseRace(p, r, {}, after)
  BY <1>1, <1>3, LoseRaceKeepsIInv DEF LoseRace
<1>. QED
  BY <1>2, <1>3 DEF AttemptThen

-----------------------------------------------------------------------------
(*                        What a session is at                             *)

At(r, calls) == r # NoRequest /\ r.call \in calls

LEMMA UnfinishedRequests ==
  ASSUME NEW sub \in Subject
  PROVE  /\ ForAccount("creating_in_pool", sub) \in Unfinished
         /\ ForAccount("adding", sub) \in Unfinished
         /\ ForAccount("delete", sub) \in Unfinished
         /\ ForAccount("deleting_in_pool", sub) \in Unfinished
         /\ SettingAvatar(sub, NoUpload) \in Unfinished
         /\ \A u \in Upload : SettingAvatar(sub, u) \in Avatars
BY DEF Unfinished, ForAccounts, ForAccount, Avatars

LEMMA CleaningRecord ==
  ASSUME NEW fs \in SUBSET File, fs # {},
         NEW then \in ForAccounts({"deleting_in_pool"}) \cup {NoRequest}
  PROVE  [call |-> "cleaning", files |-> fs, then |-> then] \in Unfinished
<1>. DEFINE nexts == ForAccounts({"deleting_in_pool"}) \cup {NoRequest}
<1>1. fs \in (SUBSET File) \ {{}} /\ then \in nexts
  OBVIOUS
<1>2. [call |-> "cleaning", files |-> fs, then |-> then] \in Cleanings(nexts)
  <2>. HIDE DEF nexts
  <2>. QED
    BY <1>1 DEF Cleanings
<1>. QED
  BY <1>2 DEF Unfinished

LEMMA CleaningIsUnfinished ==
  ASSUME NEW fs \in SUBSET File,
         NEW then \in ForAccounts({"deleting_in_pool"}) \cup {NoRequest}
  PROVE  Cleaning(fs, then) \in Unfinished \cup {NoRequest}
<1>1. CASE fs = {}
  BY <1>1 DEF Cleaning, Unfinished, ForAccounts
<1>2. CASE fs # {}
  BY <1>2, CleaningRecord DEF Cleaning
<1>. QED
  BY <1>1, <1>2

LEMMA StoringIsUnfinished ==
  ASSUME NEW r \in Avatars
  PROVE  /\ Storing("storing", r, NoFile) \in Unfinished
         /\ \A f \in File : /\ Storing("consuming", r, f) \in Unfinished
                            /\ Storing("attaching", r, f) \in Unfinished
BY DEF Storing, Storings, Unfinished

LEMMA RequestInHand ==
  ASSUME IInv, NEW p \in Session, tx[p].request # NoRequest
  PROVE  tx[p].request \in Unfinished
BY DEF IInv, TypeOK, TransactionOK

LEMMA AccountInHand ==
  ASSUME IInv, NEW p \in Session, InStage(p, {"creating_in_pool", "deleting_in_pool"})
  PROVE  tx[p].request.by \in Subject
BY RequestInHand
   DEF InStage, Unfinished, ForAccounts, SettingAvatar, Storings, Cleanings

LEMMA AvatarInHand ==
  ASSUME IInv, NEW p \in Session, InStage(p, {"storing", "consuming", "attaching"})
  PROVE  /\ Purpose(p) \in Avatars
         /\ Purpose(p).by \in Subject /\ Purpose(p).upload \in Upload
         /\ InStage(p, {"consuming", "attaching"}) => InHand(p) \in File
         /\ tx[p].request = Storing(tx[p].request.call, Purpose(p), InHand(p))
<1>. DEFINE r == tx[p].request
<1>0. r \in Unfinished /\ r.call \in {"storing", "consuming", "attaching"}
  BY RequestInHand DEF InStage
<1>1. r \in Storings(Avatars)
  <2>1. r \notin ForAccounts({"creating_in_pool", "adding", "delete", "deleting_in_pool"})
    BY <1>0 DEF ForAccounts
  <2>2. \A sub \in Subject : r # SettingAvatar(sub, NoUpload)
    BY <1>0 DEF SettingAvatar
  <2>3. \A nexts : r \notin Cleanings(nexts)
    BY <1>0 DEF Cleanings
  <2>. QED
    BY <1>0, <2>1, <2>2, <2>3 DEF Unfinished
<1>2. /\ tx[p].request.purpose \in Avatars
      /\ tx[p].request.call \in {"consuming", "attaching"} => tx[p].request.file \in File
      /\ tx[p].request = Storing(tx[p].request.call, tx[p].request.purpose, tx[p].request.file)
  BY <1>1 DEF Storings, Storing
<1>3. \A a \in Avatars : a.by \in Subject /\ a.upload \in Upload
  BY DEF Avatars, SettingAvatar
<1>. QED
  BY <1>2, <1>3 DEF Purpose, InHand, InStage

LEMMA CleaningInHand ==
  ASSUME IInv, NEW p \in Session, InStage(p, {"cleaning"})
  PROVE  /\ tx[p].request.files \in SUBSET File
         /\ tx[p].request.then \in ForAccounts({"deleting_in_pool"}) \cup {NoRequest}
         /\ tx[p].request.then \in Unfinished \cup {NoRequest}
<1>. DEFINE r == tx[p].request
<1>0. r \in Unfinished /\ r.call = "cleaning"
  BY RequestInHand DEF InStage
<1>1. r \in Cleanings(ForAccounts({"deleting_in_pool"}) \cup {NoRequest})
  <2>1. r \notin ForAccounts({"creating_in_pool", "adding", "delete", "deleting_in_pool"})
    BY <1>0 DEF ForAccounts
  <2>2. \A sub \in Subject : r # SettingAvatar(sub, NoUpload)
    BY <1>0 DEF SettingAvatar
  <2>3. r \notin Storings(Avatars)
    BY <1>0 DEF Storings
  <2>. QED
    BY <1>0, <2>1, <2>2, <2>3 DEF Unfinished
<1>2. /\ tx[p].request.files \in SUBSET File
      /\ tx[p].request.then \in ForAccounts({"deleting_in_pool"}) \cup {NoRequest}
  BY <1>1 DEF Cleanings
<1>. QED
  BY <1>2 DEF Unfinished, ForAccounts

-----------------------------------------------------------------------------
(*                          Sound views                                    *)

LEMMA NotRows ==
  /\ Absent \notin Subject /\ Gone \notin Subject /\ Absent # Gone
  /\ Absent \notin UserRecord /\ Gone \notin UserRecord
BY MarkersAssumption

(* A row is only added where neither the id nor the email has one.         *)
LEMMA AddedIsSound ==
  ASSUME NEW v, DatabaseOK(v), IndexOK(v), NEW sub \in Subject
  PROVE  Sound(v, Added(v, sub))
<1>1. CASE ~UnlessTaken(v, sub)
  BY <1>1 DEF Added, Sound
<1>2. CASE UnlessTaken(v, sub)
  <2>. DEFINE row == [avatar |-> NoFile]
              after == [v EXCEPT ![UserRow(sub)] = row, ![EmailRow(EmailOf[sub])] = sub]
  <2>1. /\ DOMAIN after = Row
        /\ \A other \in Subject :
             after[UserRow(other)] = IF other = sub THEN row ELSE v[UserRow(other)]
        /\ \A e \in Email :
             after[EmailRow(e)] = IF e = EmailOf[sub] THEN sub ELSE v[EmailRow(e)]
    BY RowsDiffer, RowsExist DEF DatabaseOK
  <2>2. row \in UserRecord
    BY DEF UserRecord
  <2>3. Added(v, sub) = after
    BY <1>2 DEF Added
  <2>. HIDE DEF after, row
  <2>4. DatabaseOK(after)
    BY <2>1, <2>2 DEF DatabaseOK
  <2>5. v[EmailRow(EmailOf[sub])] \in {Absent, Gone}
    BY <1>2 DEF UnlessTaken, Exists
  <2>6. ASSUME NEW other \in Subject
        PROVE  Exists(after, UserRow(other)) <=> after[EmailRow(EmailOf[other])] = other
    <3>1. Exists(v, UserRow(other)) <=> v[EmailRow(EmailOf[other])] = other
      BY DEF IndexOK
    <3>. QED
      BY <2>1, <2>2, <2>5, <3>1, NotRows, RowsExist DEF Exists
  <2>7. \A e \in Email, other \in Subject : after[EmailRow(e)] = other => EmailOf[other] = e
    BY <2>1 DEF IndexOK
  <2>8. \A e \in Email : Exists(v, EmailRow(e)) => after[EmailRow(e)] = v[EmailRow(e)]
    BY <2>1, <2>5 DEF Exists
  <2>. QED
    BY <2>3, <2>4, <2>6, <2>7, <2>8 DEF Sound, IndexOK
<1>. QED
  BY <1>1, <1>2

LEMMA DeletedIsSound ==
  ASSUME NEW v, DatabaseOK(v), IndexOK(v), NEW sub \in Subject, Exists(v, UserRow(sub)),
         NEW after, after = [v EXCEPT ![UserRow(sub)] = Gone, ![EmailRow(EmailOf[sub])] = Absent]
  PROVE  Sound(v, after)
<1>1. /\ DOMAIN after = Row
      /\ \A other \in Subject :
           after[UserRow(other)] = IF other = sub THEN Gone ELSE v[UserRow(other)]
      /\ \A e \in Email :
           after[EmailRow(e)] = IF e = EmailOf[sub] THEN Absent ELSE v[EmailRow(e)]
  BY RowsDiffer, RowsExist DEF DatabaseOK
<1>2. DatabaseOK(after)
  BY <1>1 DEF DatabaseOK
<1>3. v[EmailRow(EmailOf[sub])] = sub
  BY DEF IndexOK
<1>4. ASSUME NEW other \in Subject
      PROVE  Exists(after, UserRow(other)) <=> after[EmailRow(EmailOf[other])] = other
  <2>1. Exists(v, UserRow(other)) <=> v[EmailRow(EmailOf[other])] = other
    BY DEF IndexOK
  <2>. QED
    BY <1>1, <1>3, <2>1, NotRows, RowsExist DEF Exists
<1>5. ASSUME NEW e \in Email, NEW other \in Subject, after[EmailRow(e)] = other
      PROVE  EmailOf[other] = e
  <2>1. v[EmailRow(e)] = other
    BY <1>1, <1>5, NotRows
  <2>. QED
    BY <2>1 DEF IndexOK
<1>. QED
  BY <1>1, <1>2, <1>4, <1>5 DEF Sound, IndexOK

(* An avatar changes neither the rows there are nor the index.             *)
LEMMA WithAvatarRows ==
  ASSUME NEW v, DatabaseOK(v), NEW sub \in Subject, Exists(v, UserRow(sub)),
         NEW f \in File \cup {NoFile}
  PROVE  /\ DOMAIN WithAvatar(v, sub, f) = Row
         /\ \A other \in Subject : WithAvatar(v, sub, f)[UserRow(other)] =
              IF other = sub THEN [avatar |-> f] ELSE v[UserRow(other)]
         /\ \A e \in Email : WithAvatar(v, sub, f)[EmailRow(e)] = v[EmailRow(e)]
<1>1. v[UserRow(sub)] \in UserRecord
  BY DEF DatabaseOK, Exists
<1>2. [v[UserRow(sub)] EXCEPT !.avatar = f] = [avatar |-> f]
  BY <1>1 DEF UserRecord
<1>3. WithAvatar(v, sub, f) = [v EXCEPT ![UserRow(sub)] = [avatar |-> f]]
  BY <1>2 DEF WithAvatar
<1>. QED
  BY <1>3, RowsDiffer, RowsExist DEF DatabaseOK

LEMMA WithAvatarIsSound ==
  ASSUME NEW v, DatabaseOK(v), IndexOK(v), NEW sub \in Subject, Exists(v, UserRow(sub)),
         NEW f \in File \cup {NoFile}
  PROVE  Sound(v, WithAvatar(v, sub, f))
<1>. DEFINE after == WithAvatar(v, sub, f)
<1>1. /\ DOMAIN after = Row
      /\ \A other \in Subject :
           after[UserRow(other)] = IF other = sub THEN [avatar |-> f] ELSE v[UserRow(other)]
      /\ \A e \in Email : after[EmailRow(e)] = v[EmailRow(e)]
  BY WithAvatarRows
<1>2. [avatar |-> f] \in UserRecord
  BY DEF UserRecord
<1>. HIDE DEF after
<1>3. DatabaseOK(after)
  BY <1>1, <1>2 DEF DatabaseOK
<1>4. \A other \in Subject : Exists(after, UserRow(other)) <=> Exists(v, UserRow(other))
  BY <1>1, <1>2, NotRows DEF Exists
<1>5. IndexOK(after)
  BY <1>1, <1>4, RowsExist DEF IndexOK
<1>. QED
  BY <1>1, <1>3, <1>5 DEF Sound, after

-----------------------------------------------------------------------------
(*                          The use cases                                  *)

LEMMA OpenView ==
  ASSUME IInv, NEW p \in Session, tx[p].open
  PROVE  DatabaseOK(View(p)) /\ IndexOK(View(p)) /\ View(p) = tx[p].snapshot
BY DEF IInv, TypeOK, TransactionOK, View

LEMMA AvatarType ==
  ASSUME NEW v, DatabaseOK(v), NEW sub \in Subject, Exists(v, UserRow(sub))
  PROVE  Avatar(v, sub) \in File \cup {NoFile} /\ Keys(Avatar(v, sub)) \in SUBSET File
BY DEF DatabaseOK, Exists, Avatar, UserRecord, Keys

LEMMA MediaStepKeepsIInv ==
  ASSUME IInv, NEW p \in Session, MediaStep(p), UNCHANGED pool
  PROVE  IInv' /\ EmailsStay
<1>1. TransactionOK(tx[p]) /\ MediaTypeOK /\ StoresOK
  BY DEF IInv, TypeOK, StoresOK
<1>2. CASE Start(p)
  <2>. DEFINE t == [tx[p] EXCEPT !.open = TRUE, !.snapshot = db]
  <2>1. ~tx[p].open /\ DatabaseOK(db) /\ IndexOK(db) /\ UNCHANGED <<db, uploads, files>>
    BY <1>2 DEF Start, Begin, Bucket, IInv, TypeOK
  <2>2. TransactionOK(t) /\ t.open /\ t.snapshot = db
    BY <1>1, <2>1 DEF TransactionOK
  <2>3. Agrees(db, t.snapshot, t.touched)
    BY <2>2 DEF Agrees
  <2>4. tx' = [tx EXCEPT ![p] = t]
    BY <1>2 DEF Start, Begin, IInv, TypeOK
  <2>5. StoresOK'
    BY <2>1, StoresStay
  <2>. HIDE DEF t
  <2>. QED
    BY <2>1, <2>2, <2>3, <2>4, <2>5, QuietStepKeepsIInv
<1>3. CASE RollBackRequest(p) \/ Interrupt(p)
  BY <1>3, StoresStay, IdleKeepsIInv DEF RollBackRequest, RollBack, Interrupt, Bucket
<1>4. CASE StoreFile(p)
  <2>1. InStage(p, {"storing"})
    BY <1>4 DEF StoreFile
  <2>2. Purpose(p) \in Avatars
    BY <2>1, AvatarInHand DEF InStage
  <2>3. PICK f \in File :
          /\ files' = [files EXCEPT ![f] = "stored"]
          /\ tx' = [tx EXCEPT ![p].request = Storing("consuming", @.purpose, f)]
    BY <1>4 DEF StoreFile
  <2>4. tx' = [tx EXCEPT ![p].request = Storing("consuming", Purpose(p), f)]
    BY <2>3 DEF Purpose
  <2>5. StoresOK'
    BY <1>1, <1>4, <2>3 DEF StoresOK, MediaTypeOK, StoreFile
  <2>6. Storing("consuming", Purpose(p), f) \in Unfinished
    BY <2>2, StoringIsUnfinished
  <2>. QED
    BY <1>4, <2>4, <2>5, <2>6, GoOnKeepsIInv DEF StoreFile
<1>5. CASE ConsumeUpload(p)
  <2>1. InStage(p, {"consuming"})
    BY <1>5 DEF ConsumeUpload
  <2>2. /\ Purpose(p) \in Avatars /\ InHand(p) \in File
        /\ tx[p].request = Storing("consuming", Purpose(p), InHand(p))
    BY <2>1, AvatarInHand DEF InStage
  <2>3. [tx[p].request EXCEPT !.call = "attaching"] = Storing("attaching", Purpose(p), InHand(p))
    BY <2>2 DEF Storing
  <2>4. tx' = [tx EXCEPT ![p].request = Storing("attaching", Purpose(p), InHand(p))]
    BY <1>5, <2>3 DEF ConsumeUpload
  <2>5. StoresOK'
    BY <1>1, <1>5 DEF StoresOK, MediaTypeOK, ConsumeUpload
  <2>6. Storing("attaching", Purpose(p), InHand(p)) \in Unfinished
    BY <2>2, StoringIsUnfinished
  <2>. QED
    BY <1>5, <2>4, <2>5, <2>6, GoOnKeepsIInv DEF ConsumeUpload
<1>6. CASE CleanUp(p)
  <2>1. tx[p].request.then \in Unfinished \cup {NoRequest}
    BY <1>6, CleaningInHand DEF CleanUp
  <2>2. StoresOK'
    BY <1>1, <1>6 DEF StoresOK, MediaTypeOK, CleanUp
  <2>. QED
    BY <1>6, <2>1, <2>2, GoOnKeepsIInv DEF CleanUp
<1>7. CASE FailAttach(p)
  <2>1. Discarding(p) \in Unfinished \cup {NoRequest}
    <3>1. InHand(p) \in File
      BY <1>7, AvatarInHand DEF FailAttach, InStage
    <3>. QED
      BY <3>1, CleaningIsUnfinished DEF Discarding
  <2>. QED
    BY <1>7, <2>1, StoresStay, FirstAttempt, WaitKeepsIInv DEF FailAttach
<1>. QED
  BY <1>2, <1>3, <1>4, <1>5, <1>6, <1>7 DEF MediaStep

LEMMA CreateInPoolKeepsIInv ==
  ASSUME IInv, NEW p \in Session, NEW sub \in Subject, CreateInPool(p, sub)
  PROVE  IInv' /\ EmailsStay
<1>1. StoresOK'
  BY DEF IInv, TypeOK, StoresOK, MediaTypeOK, CreateInPool
<1>. QED
  BY <1>1, UnfinishedRequests, GoOnKeepsIInv DEF CreateInPool

LEMMA SetPasswordKeepsIInv ==
  ASSUME IInv, NEW p \in Session, SetPassword(p)
  PROVE  IInv' /\ EmailsStay
<1>1. tx[p].request.by \in Subject
  BY AccountInHand DEF SetPassword, InStage
<1>2. StoresOK'
  BY <1>1 DEF IInv, TypeOK, StoresOK, MediaTypeOK, SetPassword
<1>. QED
  BY <1>1, <1>2, UnfinishedRequests, GoOnKeepsIInv, IdleKeepsIInv DEF SetPassword

LEMMA DeleteInPoolKeepsIInv ==
  ASSUME IInv, NEW p \in Session, DeleteInPool(p)
  PROVE  IInv' /\ EmailsStay
<1>1. tx[p].request.by \in Subject
  BY AccountInHand DEF DeleteInPool, InStage
<1>2. StoresOK'
  BY <1>1 DEF IInv, TypeOK, StoresOK, MediaTypeOK, DeleteInPool
<1>. QED
  BY <1>2, IdleKeepsIInv DEF DeleteInPool

LEMMA AddRowKeepsIInv ==
  ASSUME IInv, NEW p \in Session, AddRow(p)
  PROVE  IInv' /\ EmailsStay
<1>1. PICK sub \in Subject : Attempt(p, ForAccount("adding", sub), {}, Added(View(p), sub))
  BY DEF AddRow
<1>2. Sound(tx[p].snapshot, Added(View(p), sub))
  BY OpenView, AddedIsSound DEF AddRow
<1>3. ForAccount("adding", sub) \in Unfinished
  BY UnfinishedRequests
<1>. QED
  BY <1>1, <1>2, <1>3, AttemptKeepsIInv DEF AddRow, Attempt

LEMMA EnsureAccountKeepsIInv ==
  ASSUME IInv, NEW p \in Session, NEW sub \in Subject, EnsureAccount(p, sub)
  PROVE  IInv' /\ EmailsStay
BY StoresStay, UnfinishedRequests, GoOnKeepsIInv DEF EnsureAccount

LEMMA RequestAvatarUploadKeepsIInv ==
  ASSUME IInv, NEW p \in Session, NEW sub \in Subject, RequestAvatarUpload(p, sub)
  PROVE  IInv' /\ EmailsStay
<1>1. StoresOK'
  BY DEF IInv, TypeOK, StoresOK, MediaTypeOK, RequestAvatarUpload, Presign
<1>. QED
  BY <1>1, IdleKeepsIInv DEF RequestAvatarUpload

LEMMA ReadAvatarKeepsIInv ==
  ASSUME IInv, NEW p \in Session, NEW sub \in Subject, NEW u \in Upload, ReadAvatar(p, sub, u)
  PROVE  IInv' /\ EmailsStay
<1>1. CASE StartStoring(p, SettingAvatar(sub, u))
  <2>1. Storing("storing", SettingAvatar(sub, u), NoFile) \in Unfinished
    BY UnfinishedRequests, StoringIsUnfinished
  <2>. QED
    BY <1>1, <2>1, StoresStay, GoOnKeepsIInv DEF StartStoring, ReadAvatar
<1>2. CASE RefuseUpload(p, u)
  <2>1. StoresOK'
    BY <1>2 DEF IInv, TypeOK, StoresOK, MediaTypeOK, RefuseUpload, ReadAvatar
  <2>. QED
    BY <1>2, <2>1, IdleKeepsIInv DEF RefuseUpload
<1>. QED
  BY <1>1, <1>2 DEF ReadAvatar

LEMMA AttachAvatarKeepsIInv ==
  ASSUME IInv, NEW p \in Session, AttachAvatar(p)
  PROVE  IInv' /\ EmailsStay
<1>. DEFINE sub == Purpose(p).by
            after == WithAvatar(View(p), sub, InHand(p))
            next == Cleaning(Replaced(View(p), sub, InHand(p)), NoRequest)
<1>1. /\ tx[p].open /\ InStage(p, {"attaching"}) /\ Exists(View(p), UserRow(sub))
      /\ Attach(p, {}, after, next) /\ UNCHANGED <<uploads, files, pool>>
  BY DEF AttachAvatar
<1>2. sub \in Subject /\ InHand(p) \in File
  BY <1>1, AvatarInHand DEF InStage
<1>3. Sound(tx[p].snapshot, after)
  BY <1>1, <1>2, OpenView, WithAvatarIsSound
<1>4. next \in Unfinished \cup {NoRequest}
  BY <1>1, <1>2, OpenView, AvatarType, CleaningIsUnfinished DEF Replaced
<1>5. Discarding(p) \in Unfinished \cup {NoRequest}
  BY <1>2, CleaningIsUnfinished DEF Discarding
<1>6. tx[p].request \in Unfinished
  BY <1>1, RequestInHand DEF InStage
<1>. HIDE DEF after, next
<1>7. CASE Commit(p, {}, after, next)
  BY <1>1, <1>3, <1>4, <1>7, CommitKeepsIInv
<1>8. CASE Commit(p, {}, after, Discarding(p))
  BY <1>1, <1>3, <1>5, <1>8, CommitKeepsIInv
<1>9. CASE LoseRaceElse(p, tx[p].request, {}, after, Discarding(p))
  BY <1>1, <1>5, <1>6, <1>9, StoresStay, LoseRaceKeepsIInv
<1>. QED
  BY <1>1, <1>7, <1>8, <1>9 DEF Attach

LEMMA RemoveAvatarKeepsIInv ==
  ASSUME IInv, NEW p \in Session, NEW sub \in Subject, RemoveAvatar(p, sub)
  PROVE  IInv' /\ EmailsStay
<1>. DEFINE after == WithAvatar(View(p), sub, NoFile)
            next == Cleaning(Replaced(View(p), sub, NoFile), NoRequest)
<1>1. /\ tx[p].open /\ Exists(View(p), UserRow(sub))
      /\ AttemptThen(p, SettingAvatar(sub, NoUpload), {}, after, next)
      /\ UNCHANGED <<uploads, files, pool>>
  BY DEF RemoveAvatar, Serves
<1>2. Sound(tx[p].snapshot, after)
  BY <1>1, OpenView, WithAvatarIsSound
<1>3. next \in Unfinished \cup {NoRequest}
  BY <1>1, OpenView, AvatarType, CleaningIsUnfinished DEF Replaced
<1>. HIDE DEF after, next
<1>. QED
  BY <1>1, <1>2, <1>3, UnfinishedRequests, AttemptKeepsIInv

LEMMA DeleteAccountKeepsIInv ==
  ASSUME IInv, NEW p \in Session, NEW sub \in Subject, DeleteAccount(p, sub)
  PROVE  IInv' /\ EmailsStay
<1>. DEFINE after == [View(p) EXCEPT ![UserRow(sub)] = Gone, ![EmailRow(EmailOf[sub])] = Absent]
            next == AfterDeletion(View(p), sub)
<1>1. /\ tx[p].open /\ Exists(View(p), UserRow(sub))
      /\ AttemptThen(p, ForAccount("delete", sub), {}, after, next)
      /\ UNCHANGED <<uploads, files, pool>>
  BY DEF DeleteAccount, Serves
<1>2. Sound(tx[p].snapshot, after)
  BY <1>1, OpenView, DeletedIsSound
<1>3. ForAccount("deleting_in_pool", sub) \in ForAccounts({"deleting_in_pool"}) \cup {NoRequest}
  BY DEF ForAccount, ForAccounts
<1>4. next \in Unfinished \cup {NoRequest}
  BY <1>1, <1>3, OpenView, AvatarType, CleaningIsUnfinished DEF AfterDeletion
<1>. HIDE DEF after, next
<1>. QED
  BY <1>1, <1>2, <1>4, UnfinishedRequests, AttemptKeepsIInv

-----------------------------------------------------------------------------
(*                   Types, rows and emails: the theorems                  *)

LEMMA InitIInv == Init => IInv
<1>. SUFFICES ASSUME Init PROVE IInv
  OBVIOUS
<1>1. DatabaseOK(db)
  BY RowsExist DEF Init, DatabaseOK
<1>2. \A p \in Session : tx[p] = Idle
  BY DEF Init, MediaInit
<1>3. TransactionOK(Idle) /\ ~Idle.open
  BY WaitingOK, FirstAttempt DEF Idle
<1>4. TypeOK
  BY <1>1, <1>2, <1>3 DEF TypeOK, Init, MediaInit, MediaTypeOK
<1>5. IndexOK(db)
  BY RowsExist, NotRows DEF Init, IndexOK, Exists
<1>. QED
  BY <1>2, <1>3, <1>4, <1>5 DEF IInv

LEMMA NextKeepsIInv ==
  ASSUME IInv, [Next]_vars
  PROVE  IInv' /\ EmailsStay
<1>1. CASE Next
  <2>1. PICK p \in Session :
          \/ MediaStep(p) /\ UNCHANGED pool
          \/ SetPassword(p) \/ AddRow(p) \/ AttachAvatar(p) \/ DeleteInPool(p)
          \/ \E sub \in Subject :
               \/ CreateInPool(p, sub) \/ EnsureAccount(p, sub) \/ DeleteAccount(p, sub)
               \/ RequestAvatarUpload(p, sub) \/ RemoveAvatar(p, sub)
               \/ \E u \in Upload : ReadAvatar(p, sub, u)
    BY <1>1 DEF Next
  <2>. QED
    BY <2>1, MediaStepKeepsIInv, SetPasswordKeepsIInv, AddRowKeepsIInv,
       AttachAvatarKeepsIInv, DeleteInPoolKeepsIInv, CreateInPoolKeepsIInv,
       EnsureAccountKeepsIInv, DeleteAccountKeepsIInv, RequestAvatarUploadKeepsIInv,
       RemoveAvatarKeepsIInv, ReadAvatarKeepsIInv
<1>2. CASE UNCHANGED vars
  BY <1>2 DEF vars, IInv, TypeOK, MediaTypeOK, EmailsStay
<1>. QED
  BY <1>1, <1>2

(* What makes every commit safe: rows and index fit, in the database and in*)
(* every open snapshot, and a snapshot is right about what nobody touched. *)
THEOREM SnapshotsAgree == Spec => []IInv
<1>1. IInv /\ [Next]_vars => IInv'
  BY NextKeepsIInv
<1>. QED
  BY InitIInv, <1>1, PTL DEF Spec

(* Rows, snapshots, requests in hand, uploads, files and pool accounts     *)
(* always have their types, for any number of sessions and accounts.       *)
THEOREM TypeCorrect == Spec => []TypeOK
<1>1. IInv => TypeOK
  BY DEF IInv
<1>. QED
  BY SnapshotsAgree, <1>1, PTL

(* However registrations, first requests and deletions overlap, an email   *)
(* has one row at most, and the index names it.                            *)
THEOREM EmailsAreUnique == Spec => []OneRowPerEmail
<1>1. ASSUME IInv
      PROVE  OneRowPerEmail
  <2>1. SUFFICES ASSUME NEW e \in Email
                 PROVE  {sub \in Subject : EmailOf[sub] = e /\ Exists(db, UserRow(sub))}
                          = IF Exists(db, EmailRow(e)) THEN {db[EmailRow(e)]} ELSE {}
    BY DEF OneRowPerEmail
  <2>2. db[EmailRow(e)] \in Subject \cup {Absent}
    BY <1>1 DEF IInv, TypeOK, DatabaseOK
  <2>3. \A sub \in Subject :
          EmailOf[sub] = e /\ Exists(db, UserRow(sub)) <=> db[EmailRow(e)] = sub
    BY <1>1 DEF IInv, IndexOK
  <2>. QED
    BY <2>2, <2>3, NotRows DEF Exists
<1>2. IInv => OneRowPerEmail
  BY <1>1
<1>. QED
  BY SnapshotsAgree, <1>2, PTL

(* An email only ever goes to another account after the row that held it   *)
(* was deleted: no overlap of requests links it to a new subject directly. *)
THEOREM EmailsAreNotHandedOver == Spec => NeverHandedOver
<1>1. IInv /\ [Next]_vars =>
        [\A e \in Email : Exists(db, EmailRow(e)) =>
           db'[EmailRow(e)] \in {db[EmailRow(e)], Absent}]_vars
  BY NextKeepsIInv DEF EmailsStay
<1>. QED
  BY SnapshotsAgree, <1>1, PTL DEF Spec, NeverHandedOver
=============================================================================
