------------------------- MODULE AccountStoresProofs -------------------------
(***************************************************************************)
(* What accounts keep beside their rows, for any number of sessions,       *)
(* subjects, emails, uploads and files: the files of avatars, which steps  *)
(* move between rows and requests and lose none of, and the pool, which    *)
(* shares no transaction with the rows, so that what a request still has   *)
(* to do there is what keeps the two in step.                              *)
(***************************************************************************)
EXTENDS AccountsProofs

-----------------------------------------------------------------------------
(*                    Files, as a relation of the state                    *)

Carries(r) == At(r, {"consuming", "attaching"})
Holds(r, f) == (Carries(r) /\ r.file = f) \/ (At(r, {"cleaning"}) /\ f \in r.files)

(* FilesInOnePlace and FilesAccountedFor of any database, sessions and     *)
(* files.                                                                  *)
OnePlace(d, t, fs) ==
  /\ \A sub, other \in Subject : sub # other => FilesOf(d, sub) \cap FilesOf(d, other) = {}
  /\ \A sub \in Subject : \A f \in FilesOf(d, sub) : fs[f] = "stored"
  /\ \A p \in Session, f \in File : Holds(t[p].request, f) =>
       /\ fs[f] = "stored" /\ \A sub \in Subject : f \notin FilesOf(d, sub)
       /\ \A q \in Session : Holds(t[q].request, f) => q = p
  /\ \A p \in Session : t[p].open =>
       /\ ~At(t[p].request, {"cleaning"})
       /\ \A sub \in Subject : \A f \in FilesOf(t[p].snapshot, sub) :
            /\ fs[f] # "unused"
            /\ \A q \in Session : Carries(t[q].request) => t[q].request.file # f

Accounted(d, t, fs) ==
  \A f \in File : fs[f] = "stored" =>
    \/ \E sub \in Subject : f \in FilesOf(d, sub)
    \/ \E p \in Session : Holds(t[p].request, f)

LEMMA OnePlaceNow == FilesInOnePlace <=> OnePlace(db, tx, files)
BY DEF FilesInOnePlace, OnePlace, AvatarsHaveFiles, Shown, HasToDelete, InStage, InHand,
       Holds, Carries, At

LEMMA AccountedNow == FilesAccountedFor <=> Accounted(db, tx, files)
BY DEF FilesAccountedFor, Accounted, Shown, HasToDelete, InStage, InHand, Holds, Carries, At

LEMMA OnePlaceNext == FilesInOnePlace' <=> OnePlace(db', tx', files')
<1>1. FilesInOnePlace' <=> OnePlace(db, tx, files)'
  BY OnePlaceNow, PTL
<1>. QED
  BY <1>1

LEMMA AccountedNext == FilesAccountedFor' <=> Accounted(db', tx', files')
<1>1. FilesAccountedFor' <=> Accounted(db, tx, files)'
  BY AccountedNow, PTL
<1>. QED
  BY <1>1

(* Nobody dies, and the bucket deletes what it is told to.                 *)
NothingIsLost == Killable = {} /\ "undeleted" \notin Faults

FilesStay ==
  /\ OnePlace(db', tx', files')
  /\ NothingIsLost /\ Accounted(db, tx, files) => Accounted(db', tx', files')

(* Which requests have files in hand.                                      *)
LEMMA HoldsNothing ==
  /\ \A f : ~Holds(NoRequest, f) /\ ~Carries(NoRequest) /\ ~At(NoRequest, {"cleaning"})
  /\ \A sub, f : \A call \in {"creating_in_pool", "adding", "delete", "deleting_in_pool"} :
       LET r == ForAccount(call, sub)
       IN ~Holds(r, f) /\ ~Carries(r) /\ ~At(r, {"cleaning"})
  /\ \A sub, u, f : LET r == SettingAvatar(sub, u)
                    IN ~Holds(r, f) /\ ~Carries(r) /\ ~At(r, {"cleaning"})
  /\ \A purpose, f, g : LET r == Storing("storing", purpose, g)
                        IN ~Holds(r, f) /\ ~Carries(r) /\ ~At(r, {"cleaning"})
BY DEF Holds, Carries, At, ForAccount, SettingAvatar, Storing

LEMMA CleaningHolds ==
  ASSUME NEW fs \in SUBSET File,
         NEW then \in ForAccounts({"deleting_in_pool"}) \cup {NoRequest}
  PROVE  /\ ~Carries(Cleaning(fs, then))
         /\ \A f : Holds(Cleaning(fs, then), f) <=> f \in fs
<1>1. CASE fs = {}
  <2>1. Cleaning(fs, then) = then
    BY <1>1 DEF Cleaning
  <2>2. \A f : ~Holds(then, f) /\ ~Carries(then)
    BY DEF Holds, Carries, At, ForAccounts
  <2>. QED
    BY <1>1, <2>1, <2>2
<1>2. CASE fs # {}
  <2>. DEFINE r == [call |-> "cleaning", files |-> fs, then |-> then]
  <2>1. Cleaning(fs, then) = r
    BY <1>2 DEF Cleaning
  <2>2. r \in Unfinished
    BY <1>2, CleaningRecord
  <2>3. r # NoRequest
    BY <2>2, MarkersAssumption
  <2>. QED
    BY <2>1, <2>3 DEF Holds, Carries, At
<1>. QED
  BY <1>1, <1>2

-----------------------------------------------------------------------------
(*              Steps that move files between requests                     *)

(* A session that keeps its files, or lets go of some, and looks at nothing*)
(* but the database as it is.                                              *)
LEMMA SessionStepKeepsFiles ==
  ASSUME IInv, OnePlace(db, tx, files), NEW p \in Session, NEW t,
         tx' = [tx EXCEPT ![p] = t], UNCHANGED <<db, files>>,
         \A f \in File : Holds(t.request, f) => Holds(tx[p].request, f),
         Carries(t.request) =>
           Carries(tx[p].request) /\ t.request.file = tx[p].request.file,
         t.open => /\ ~At(t.request, {"cleaning"})
                   /\ t.snapshot = db \/ (tx[p].open /\ t.snapshot = tx[p].snapshot),
         NothingIsLost => \A f \in File : Holds(tx[p].request, f) => Holds(t.request, f)
  PROVE  FilesStay
<1>1. \A q \in Session : tx'[q] = IF q = p THEN t ELSE tx[q]
  BY DEF IInv, TypeOK
<1>2. /\ \A q \in Session, f \in File : Holds(tx'[q].request, f) => Holds(tx[q].request, f)
      /\ \A q \in Session : Carries(tx'[q].request) =>
           Carries(tx[q].request) /\ tx'[q].request.file = tx[q].request.file
  BY <1>1
<1>3. ASSUME NEW q \in Session, NEW f \in File, Holds(tx'[q].request, f)
      PROVE  /\ files[f] = "stored" /\ \A sub \in Subject : f \notin FilesOf(db, sub)
             /\ \A o \in Session : Holds(tx'[o].request, f) => o = q
  BY <1>2, <1>3 DEF OnePlace
<1>4. ASSUME NEW q \in Session, tx'[q].open, NEW sub \in Subject,
             NEW f \in FilesOf(tx'[q].snapshot, sub)
      PROVE  /\ files[f] # "unused"
             /\ \A o \in Session : Carries(tx[o].request) => tx[o].request.file # f
  <2>1. CASE tx[q].open /\ tx'[q].snapshot = tx[q].snapshot
    BY <1>4, <2>1 DEF OnePlace
  <2>2. CASE tx'[q].snapshot = db
    <3>1. f \in File
      BY <1>4, <2>2 DEF FilesOf, IInv, TypeOK, DatabaseOK, Exists, Avatar, Keys, UserRecord
    <3>2. files[f] = "stored" /\ \A o \in Session : ~Holds(tx[o].request, f)
      BY <1>4, <2>2, <3>1 DEF OnePlace
    <3>. QED
      BY <3>2 DEF Holds
  <2>. QED
    BY <1>1, <1>4, <2>1, <2>2
<1>5. \A q \in Session : tx'[q].open => ~At(tx'[q].request, {"cleaning"})
  BY <1>1 DEF OnePlace
<1>6. OnePlace(db', tx', files')
  <2>1. /\ \A sub, other \in Subject : sub # other => FilesOf(db, sub) \cap FilesOf(db, other) = {}
        /\ \A sub \in Subject : \A f \in FilesOf(db, sub) : files[f] = "stored"
    BY DEF OnePlace
  <2>2. \A q \in Session : tx'[q].open =>
          \A sub \in Subject : \A f \in FilesOf(tx'[q].snapshot, sub) :
            /\ files[f] # "unused"
            /\ \A o \in Session : Carries(tx'[o].request) => tx'[o].request.file # f
    BY <1>2, <1>4
  <2>. QED
    BY <1>3, <1>5, <2>1, <2>2 DEF OnePlace
<1>7. ASSUME NothingIsLost, Accounted(db, tx, files)
      PROVE  Accounted(db', tx', files')
  <2>1. \A q \in Session, f \in File : Holds(tx[q].request, f) => Holds(tx'[q].request, f)
    BY <1>1, <1>7
  <2>. QED
    BY <1>7, <2>1 DEF Accounted
<1>. QED
  BY <1>6, <1>7 DEF FilesStay

(* A session that goes on in the same transaction.                         *)
LEMMA GoOnKeepsFiles ==
  ASSUME IInv, OnePlace(db, tx, files), NEW p \in Session, NEW r,
         tx' = [tx EXCEPT ![p].request = r], UNCHANGED <<db, files>>,
         \A f \in File : Holds(r, f) <=> Holds(tx[p].request, f),
         Carries(r) => Carries(tx[p].request) /\ r.file = tx[p].request.file,
         ~At(r, {"cleaning"})
  PROVE  FilesStay
<1>. DEFINE t == [tx[p] EXCEPT !.request = r]
<1>1. TransactionOK(tx[p])
  BY DEF IInv, TypeOK
<1>2. t.request = r /\ t.open = tx[p].open /\ t.snapshot = tx[p].snapshot
  BY <1>1 DEF TransactionOK
<1>3. tx' = [tx EXCEPT ![p] = t]
  BY DEF IInv, TypeOK
<1>. HIDE DEF t
<1>. QED
  BY <1>2, <1>3, SessionStepKeepsFiles

(* A session whose transaction has ended, with the files it had.           *)
LEMMA WaitKeepsFiles ==
  ASSUME IInv, OnePlace(db, tx, files), NEW p \in Session, NEW r, NEW n,
         tx' = [tx EXCEPT ![p] = Waiting(r, n)], UNCHANGED <<db, files>>,
         \A f \in File : Holds(r, f) <=> Holds(tx[p].request, f),
         Carries(r) => Carries(tx[p].request) /\ r.file = tx[p].request.file
  PROVE  FilesStay
<1>1. Waiting(r, n).request = r /\ ~Waiting(r, n).open
  BY DEF Waiting
<1>. QED
  BY <1>1, SessionStepKeepsFiles

(* A session without files that is done.                                   *)
LEMMA IdleKeepsFiles ==
  ASSUME IInv, OnePlace(db, tx, files), NEW p \in Session,
         tx' = [tx EXCEPT ![p] = Idle], UNCHANGED <<db, files>>,
         \A f \in File : ~Holds(tx[p].request, f)
  PROVE  FilesStay
BY WaitKeepsFiles, HoldsNothing DEF Idle

LEMMA LoseRaceKeepsFiles ==
  ASSUME IInv, OnePlace(db, tx, files), NEW p \in Session, NEW r, NEW failed,
         NEW locked, NEW after, LoseRaceElse(p, r, locked, after, failed), UNCHANGED files,
         \A f \in File : /\ Holds(r, f) <=> Holds(tx[p].request, f)
                         /\ Holds(failed, f) <=> Holds(tx[p].request, f),
         Carries(r) => Carries(tx[p].request) /\ r.file = tx[p].request.file,
         ~Carries(failed)
  PROVE  FilesStay
<1>1. CASE tx[p].attempt = ATTEMPTS
  <2>1. tx' = [tx EXCEPT ![p] = Waiting(failed, 1)] /\ UNCHANGED db
    BY <1>1 DEF LoseRaceElse
  <2>. QED
    BY <2>1, WaitKeepsFiles
<1>2. CASE tx[p].attempt # ATTEMPTS
  <2>1. tx' = [tx EXCEPT ![p] = Waiting(r, tx[p].attempt + 1)] /\ UNCHANGED db
    BY <1>2 DEF LoseRaceElse
  <2>. QED
    BY <2>1, WaitKeepsFiles
<1>. QED
  BY <1>1, <1>2

-----------------------------------------------------------------------------
(*                    Commits move files                                   *)

(* A commit that changes the avatar of one row exchanges files between the *)
(* row and the request: what was shown or in hand before is shown or in    *)
(* hand afterwards.  When the row was not touched, the snapshot is right   *)
(* about the file it shows; when it is not written, it keeps its file.     *)
LEMMA CommitKeepsFiles ==
  ASSUME IInv, OnePlace(db, tx, files), NEW p \in Session, tx[p].open, NEW sub \in Subject,
         NEW after, NEW next, Commit(p, {}, after, next), UNCHANGED files,
         \A other \in Subject : other # sub =>
           after[UserRow(other)] = tx[p].snapshot[UserRow(other)],
         \A f \in FilesOf(after, sub) :
           f \in File /\ (f \in FilesOf(tx[p].snapshot, sub) \/ Holds(tx[p].request, f)),
         \A f \in File : Holds(next, f) <=>
           /\ f \in FilesOf(tx[p].snapshot, sub) \/ Holds(tx[p].request, f)
           /\ f \notin FilesOf(after, sub),
         ~Carries(next)
  PROVE  FilesStay
<1>. DEFINE s == tx[p].snapshot
            row == UserRow(sub)
<1>1. \A other \in Subject : UserRow(other) \in DOMAIN db
  BY RowsExist DEF IInv, TypeOK, DatabaseOK
<1>2. \A other \in Subject : other # sub => FilesOf(db', other) = FilesOf(db, other)
  BY <1>1, MergedRow DEF FilesOf, Exists, Avatar
<1>3. \/ db'[row] = db[row] /\ after[row] = s[row]
      \/ db'[row] = after[row] /\ db[row] = s[row]
  <2>1. after[row] # s[row] => row \in Row \ tx[p].touched
    BY <1>1, FootprintUntouched DEF IInv, TypeOK, DatabaseOK
  <2>2. after[row] # s[row] => db[row] = s[row]
    BY <2>1 DEF IInv, Agrees
  <2>3. db'[row] = IF after[row] # s[row] THEN after[row] ELSE db[row]
    BY <1>1, MergedRow
  <2>. QED
    BY <2>2, <2>3
<1>4. \/ FilesOf(db', sub) = FilesOf(db, sub) /\ FilesOf(after, sub) = FilesOf(s, sub)
      \/ FilesOf(db', sub) = FilesOf(after, sub) /\ FilesOf(db, sub) = FilesOf(s, sub)
  BY <1>3 DEF FilesOf, Exists, Avatar
<1>5. \A f \in FilesOf(db, sub) \cup FilesOf(s, sub) : f \in File
  <2>1. DatabaseOK(db) /\ DatabaseOK(s)
    BY DEF IInv, TypeOK, TransactionOK
  <2>. QED
    BY <2>1, AvatarType DEF FilesOf
<1>6. \A f \in File : Holds(tx[p].request, f) =>
        f \notin FilesOf(s, sub) /\ \A other \in Subject : f \notin FilesOf(db, other)
  BY DEF OnePlace, Holds
<1>7. \A f \in FilesOf(db', sub) :
        f \in File /\ (f \in FilesOf(db, sub) \/ Holds(tx[p].request, f))
  BY <1>4, <1>5
<1>8. \A f \in File : Holds(next, f) <=>
        /\ f \in FilesOf(db, sub) \/ Holds(tx[p].request, f)
        /\ f \notin FilesOf(db', sub)
  BY <1>4, <1>6
<1>9. /\ tx'[p].request = next /\ ~tx'[p].open
      /\ \A q \in Session : q # p =>
           /\ tx'[q].request = tx[q].request
           /\ tx'[q].open => tx[q].open /\ tx'[q].snapshot = tx[q].snapshot
  <2>1. tx'[p] = Waiting(next, 1)
    BY DEF Commit
  <2>2. ASSUME NEW q \in Session, q # p
        PROVE  /\ tx'[q].request = tx[q].request
               /\ tx'[q].open => tx[q].open /\ tx'[q].snapshot = tx[q].snapshot
    <3>1. TransactionOK(tx[q])
      BY DEF IInv, TypeOK
    <3>2. \/ tx'[q] = [tx[q] EXCEPT !.touched = @ \cup Footprint(p, {}, after)] /\ tx[q].open
          \/ tx'[q] = tx[q]
      BY <2>2, OtherSessions
    <3>. QED
      BY <3>1, <3>2 DEF TransactionOK
  <2>. QED
    BY <2>1, <2>2 DEF Waiting
<1>10. OnePlace(db', tx', files')
  <2>1. ASSUME NEW x \in Subject, NEW y \in Subject, x # y
        PROVE  FilesOf(db', x) \cap FilesOf(db', y) = {}
    BY <1>2, <1>6, <1>7, <2>1 DEF OnePlace
  <2>2. ASSUME NEW x \in Subject, NEW f \in FilesOf(db', x)
        PROVE  files[f] = "stored"
    BY <1>2, <1>7, <2>2 DEF OnePlace
  <2>3. ASSUME NEW q \in Session, NEW f \in File, Holds(tx'[q].request, f)
        PROVE  /\ files[f] = "stored"
               /\ \A x \in Subject : f \notin FilesOf(db', x)
               /\ \A o \in Session : Holds(tx'[o].request, f) => o = q
    <3>1. CASE q = p
      <4>1. f \in FilesOf(db, sub) \/ Holds(tx[p].request, f)
        BY <1>8, <1>9, <2>3, <3>1
      <4>2. f \notin FilesOf(db', sub)
        BY <1>8, <1>9, <2>3, <3>1
      <4>3. \A o \in Session : o # p => ~Holds(tx[o].request, f)
        BY <4>1 DEF OnePlace
      <4>4. \A x \in Subject : x # sub => f \notin FilesOf(db, x)
        BY <4>1 DEF OnePlace
      <4>. QED
        BY <1>2, <1>9, <3>1, <4>1, <4>2, <4>3, <4>4 DEF OnePlace
    <3>2. CASE q # p
      <4>1. Holds(tx[q].request, f)
        BY <1>9, <2>3, <3>2
      <4>2. /\ files[f] = "stored" /\ \A x \in Subject : f \notin FilesOf(db, x)
            /\ \A o \in Session : Holds(tx[o].request, f) => o = q
        BY <4>1 DEF OnePlace
      <4>3. f \notin FilesOf(db', sub) /\ ~Holds(next, f)
        BY <1>7, <1>8, <3>2, <4>2
      <4>. QED
        BY <1>2, <1>9, <4>2, <4>3
    <3>. QED
      BY <3>1, <3>2
  <2>4. ASSUME NEW q \in Session, tx'[q].open
        PROVE  /\ ~At(tx'[q].request, {"cleaning"})
               /\ \A x \in Subject : \A f \in FilesOf(tx'[q].snapshot, x) :
                    /\ files[f] # "unused"
                    /\ \A o \in Session : Carries(tx'[o].request) => tx'[o].request.file # f
    <3>1. q # p /\ tx[q].open /\ tx'[q].snapshot = tx[q].snapshot
          /\ tx'[q].request = tx[q].request
      BY <1>9, <2>4
    <3>2. \A o \in Session : Carries(tx'[o].request) => tx'[o].request = tx[o].request
      BY <1>9
    <3>. QED
      BY <3>1, <3>2 DEF OnePlace
  <2>. QED
    BY <2>1, <2>2, <2>3, <2>4 DEF OnePlace
<1>11. ASSUME Accounted(db, tx, files)
       PROVE  Accounted(db', tx', files')
  <2>1. SUFFICES ASSUME NEW f \in File, files[f] = "stored"
                 PROVE  \/ \E x \in Subject : f \in FilesOf(db', x)
                        \/ \E q \in Session : Holds(tx'[q].request, f)
    BY DEF Accounted
  <2>2. CASE \E x \in Subject : x # sub /\ f \in FilesOf(db, x)
    BY <1>2, <2>2
  <2>3. CASE \E q \in Session : q # p /\ Holds(tx[q].request, f)
    BY <1>9, <2>3
  <2>4. CASE f \in FilesOf(db, sub) \/ Holds(tx[p].request, f)
    BY <1>8, <1>9, <2>4
  <2>. QED
    BY <1>11, <2>1, <2>2, <2>3, <2>4 DEF Accounted
<1>. QED
  BY <1>10, <1>11 DEF FilesStay

-----------------------------------------------------------------------------
(*                 Every step keeps files in one place                     *)

LEMMA StoringHolds ==
  ASSUME NEW r \in Avatars, NEW f \in File, NEW call \in {"consuming", "attaching"}
  PROVE  /\ Carries(Storing(call, r, f)) /\ Storing(call, r, f).file = f
         /\ ~At(Storing(call, r, f), {"cleaning"})
         /\ \A g : Holds(Storing(call, r, f), g) <=> g = f
<1>1. Storing(call, r, f) # NoRequest
  BY StoringIsUnfinished, MarkersAssumption
<1>. QED
  BY <1>1 DEF Storing, Holds, Carries, At

(* What a session in a stage of its request has in hand.                   *)
LEMMA StageHolds ==
  ASSUME NEW p \in Session
  PROVE  /\ ~InStage(p, {"consuming", "attaching", "cleaning"}) =>
              \A f : ~Holds(tx[p].request, f)
         /\ InStage(p, {"consuming", "attaching"}) =>
              /\ Carries(tx[p].request) /\ tx[p].request.file = InHand(p)
              /\ \A f : Holds(tx[p].request, f) <=> f = InHand(p)
         /\ InStage(p, {"cleaning"}) =>
              \A f : Holds(tx[p].request, f) <=> f \in tx[p].request.files
BY DEF InStage, Holds, Carries, At, InHand

LEMMA DiscardingHolds ==
  ASSUME IInv, NEW p \in Session, InStage(p, {"consuming", "attaching"})
  PROVE  /\ ~Carries(Discarding(p))
         /\ \A f : Holds(Discarding(p), f) <=> f = InHand(p)
<1>1. InHand(p) \in File
  BY AvatarInHand DEF InStage
<1>. QED
  BY <1>1, CleaningHolds DEF Discarding

LEMMA StartKeepsFiles ==
  ASSUME IInv, OnePlace(db, tx, files), NEW p \in Session, Start(p)
  PROVE  FilesStay
<1>. DEFINE t == [tx[p] EXCEPT !.open = TRUE, !.snapshot = db]
<1>1. TransactionOK(tx[p])
  BY DEF IInv, TypeOK
<1>2. t.request = tx[p].request /\ t.snapshot = db
  BY <1>1 DEF TransactionOK
<1>3. tx' = [tx EXCEPT ![p] = t] /\ UNCHANGED <<db, files>>
  BY DEF Start, Begin, Bucket, IInv, TypeOK
<1>4. ~At(tx[p].request, {"cleaning"})
  BY DEF Start, InStage, Outside, At
<1>. HIDE DEF t
<1>. QED
  BY <1>2, <1>3, <1>4, SessionStepKeepsFiles

LEMMA StoreFileKeepsFiles ==
  ASSUME IInv, OnePlace(db, tx, files), NEW p \in Session, StoreFile(p)
  PROVE  FilesStay
<1>1. PICK f \in File :
        /\ files[f] = "unused" /\ files' = [files EXCEPT ![f] = "stored"]
        /\ tx' = [tx EXCEPT ![p].request = Storing("consuming", @.purpose, f)]
  BY DEF StoreFile
<1>. DEFINE r == Storing("consuming", Purpose(p), f)
<1>2. /\ \A g \in File : files'[g] = IF g = f THEN "stored" ELSE files[g]
      /\ db' = db
  BY <1>1 DEF StoreFile, IInv, TypeOK, MediaTypeOK
<1>3. /\ Carries(r) /\ r.file = f /\ ~At(r, {"cleaning"})
      /\ \A g : Holds(r, g) <=> g = f
  BY AvatarInHand, StoringHolds DEF StoreFile, InStage
<1>4. \A g : ~Holds(tx[p].request, g)
  BY StageHolds DEF StoreFile, InStage
<1>5. /\ tx'[p].request = r
      /\ tx'[p].open = tx[p].open /\ tx'[p].snapshot = tx[p].snapshot
      /\ \A q \in Session : q # p => tx'[q] = tx[q]
  BY <1>1 DEF IInv, TypeOK, TransactionOK, Purpose
<1>. HIDE DEF r
<1>6. \A sub \in Subject : \A g \in FilesOf(db, sub) : g \in File /\ g # f
  <2>1. \A sub \in Subject : \A g \in FilesOf(db, sub) : g \in File
    BY AvatarType DEF FilesOf, IInv, TypeOK
  <2>. QED
    BY <1>1, <2>1 DEF OnePlace
<1>7. \A q \in Session : ~Holds(tx[q].request, f)
  BY <1>1 DEF OnePlace
<1>8. ASSUME NEW q \in Session, tx'[q].open
      PROVE  /\ ~At(tx'[q].request, {"cleaning"})
             /\ \A sub \in Subject : \A g \in FilesOf(tx'[q].snapshot, sub) :
                  /\ files'[g] # "unused"
                  /\ \A o \in Session : Carries(tx'[o].request) => tx'[o].request.file # g
  <2>1. tx[q].open /\ tx'[q].snapshot = tx[q].snapshot
    BY <1>5, <1>8
  <2>2. ~At(tx'[q].request, {"cleaning"})
    BY <1>3, <1>5, <2>1 DEF OnePlace
  <2>3. ASSUME NEW sub \in Subject, NEW g \in FilesOf(tx[q].snapshot, sub)
        PROVE  /\ files'[g] # "unused"
               /\ \A o \in Session : Carries(tx'[o].request) => tx'[o].request.file # g
    <3>1. g \in File
      BY <2>1, AvatarType DEF FilesOf, IInv, TypeOK, TransactionOK
    <3>2. /\ files[g] # "unused"
          /\ \A o \in Session : Carries(tx[o].request) => tx[o].request.file # g
      BY <2>1, <2>3 DEF OnePlace
    <3>. QED
      BY <1>1, <1>2, <1>3, <1>5, <3>1, <3>2
  <2>. QED
    BY <2>1, <2>2, <2>3
<1>9. ASSUME NEW q \in Session, NEW g \in File, Holds(tx'[q].request, g)
      PROVE  /\ files'[g] = "stored" /\ \A sub \in Subject : g \notin FilesOf(db, sub)
             /\ \A o \in Session : Holds(tx'[o].request, g) => o = q
  <2>1. CASE g = f
    <3>1. \A o \in Session : Holds(tx'[o].request, f) => o = p
      BY <1>5, <1>7
    <3>. QED
      BY <1>2, <1>6, <1>9, <2>1, <3>1
  <2>2. CASE g # f
    <3>1. \A o \in Session : Holds(tx'[o].request, g) => Holds(tx[o].request, g)
      BY <1>3, <1>5, <2>2
    <3>. QED
      BY <1>2, <1>9, <2>2, <3>1 DEF OnePlace
  <2>. QED
    BY <2>1, <2>2
<1>10. OnePlace(db', tx', files')
  <2>1. /\ \A x, y \in Subject : x # y => FilesOf(db, x) \cap FilesOf(db, y) = {}
        /\ \A x \in Subject : \A g \in FilesOf(db, x) : files[g] = "stored"
    BY DEF OnePlace
  <2>2. \A x \in Subject : \A g \in FilesOf(db, x) : files'[g] = "stored"
    BY <1>2, <1>6, <2>1
  <2>. QED
    BY <1>2, <1>8, <1>9, <2>1, <2>2 DEF OnePlace
<1>11. ASSUME Accounted(db, tx, files)
       PROVE  Accounted(db', tx', files')
  <2>1. \A g \in File : g # f /\ files'[g] = "stored" => files[g] = "stored"
    BY <1>2
  <2>2. \A g : \A q \in Session : Holds(tx[q].request, g) => Holds(tx'[q].request, g)
    BY <1>4, <1>5
  <2>3. Holds(tx'[p].request, f)
    BY <1>3, <1>5
  <2>. QED
    BY <1>2, <1>11, <2>1, <2>2, <2>3 DEF Accounted
<1>. QED
  BY <1>10, <1>11 DEF FilesStay

LEMMA CleanUpKeepsFiles ==
  ASSUME IInv, OnePlace(db, tx, files), NEW p \in Session, CleanUp(p)
  PROVE  FilesStay
<1>. DEFINE mine == tx[p].request.files
            r == tx[p].request.then
<1>1. PICK kept \in SUBSET mine :
        /\ kept # {} => "undeleted" \in Faults
        /\ files' = [f \in File |-> IF f \in mine \ kept THEN "deleted" ELSE files[f]]
  BY DEF CleanUp
<1>2. InStage(p, {"cleaning"}) /\ db' = db /\ tx' = [tx EXCEPT ![p].request = r]
  BY DEF CleanUp
<1>3. r \in ForAccounts({"deleting_in_pool"}) \cup {NoRequest}
  BY <1>2, CleaningInHand
<1>4. \A f : ~Holds(r, f) /\ ~Carries(r) /\ ~At(r, {"cleaning"})
  BY <1>3 DEF Holds, Carries, At, ForAccounts
<1>5. \A f : Holds(tx[p].request, f) <=> f \in mine
  BY <1>2, StageHolds
<1>6. /\ tx'[p].request = r
      /\ tx'[p].open = tx[p].open /\ tx'[p].snapshot = tx[p].snapshot
      /\ \A q \in Session : q # p => tx'[q] = tx[q]
  BY <1>2 DEF IInv, TypeOK, TransactionOK
<1>7. ~tx[p].open
  BY <1>2 DEF OnePlace, InStage, At
<1>. HIDE DEF r, mine
<1>8. \A f \in File : f \notin mine => files'[f] = files[f]
  BY <1>1
<1>9. \A f \in File : files'[f] = "stored" => files[f] = "stored"
  BY <1>1
<1>10. OnePlace(db', tx', files')
  <2>1. ASSUME NEW x \in Subject, NEW f \in FilesOf(db, x)
        PROVE  files'[f] = "stored"
    <3>1. f \in File
      BY <2>1, AvatarType DEF FilesOf, IInv, TypeOK
    <3>2. files[f] = "stored" /\ f \notin mine
      BY <1>5, <2>1, <3>1 DEF OnePlace
    <3>. QED
      BY <1>8, <3>1, <3>2
  <2>2. ASSUME NEW q \in Session, NEW f \in File, Holds(tx'[q].request, f)
        PROVE  /\ files'[f] = "stored" /\ \A x \in Subject : f \notin FilesOf(db, x)
               /\ \A o \in Session : Holds(tx'[o].request, f) => o = q
    <3>1. q # p /\ Holds(tx[q].request, f)
      BY <1>4, <1>6, <2>2
    <3>2. /\ files[f] = "stored" /\ \A x \in Subject : f \notin FilesOf(db, x)
          /\ \A o \in Session : Holds(tx[o].request, f) => o = q
      BY <3>1 DEF OnePlace
    <3>3. f \notin mine
      BY <1>5, <3>1, <3>2
    <3>. QED
      BY <1>4, <1>6, <1>8, <3>2, <3>3
  <2>3. ASSUME NEW q \in Session, tx'[q].open
        PROVE  /\ ~At(tx'[q].request, {"cleaning"})
               /\ \A x \in Subject : \A f \in FilesOf(tx'[q].snapshot, x) :
                    /\ files'[f] # "unused"
                    /\ \A o \in Session : Carries(tx'[o].request) => tx'[o].request.file # f
    <3>1. q # p /\ tx[q].open /\ tx'[q] = tx[q]
      BY <1>6, <1>7, <2>3
    <3>2. ~At(tx'[q].request, {"cleaning"})
      BY <3>1 DEF OnePlace
    <3>3. ASSUME NEW x \in Subject, NEW f \in FilesOf(tx[q].snapshot, x)
          PROVE  /\ files'[f] # "unused"
                 /\ \A o \in Session : Carries(tx'[o].request) => tx'[o].request.file # f
      <4>1. f \in File
        BY <3>1, <3>3, AvatarType DEF FilesOf, IInv, TypeOK, TransactionOK
      <4>2. /\ files[f] # "unused"
            /\ \A o \in Session : Carries(tx[o].request) => tx[o].request.file # f
        BY <3>1, <3>3 DEF OnePlace
      <4>3. files'[f] # "unused"
        BY <1>1, <4>1, <4>2
      <4>. QED
        BY <1>4, <1>6, <4>2, <4>3
    <3>. QED
      BY <3>1, <3>2, <3>3
  <2>4. \A x, y \in Subject : x # y => FilesOf(db, x) \cap FilesOf(db, y) = {}
    BY DEF OnePlace
  <2>. QED
    BY <1>2, <2>1, <2>2, <2>3, <2>4 DEF OnePlace
<1>11. ASSUME NothingIsLost, Accounted(db, tx, files)
       PROVE  Accounted(db', tx', files')
  <2>1. \A f \in File : files'[f] = "stored" => files[f] = "stored" /\ f \notin mine
    BY <1>1, <1>11 DEF NothingIsLost
  <2>2. \A f \in File \ mine : \A q \in Session :
          Holds(tx[q].request, f) => Holds(tx'[q].request, f)
    BY <1>5, <1>6
  <2>. QED
    BY <1>2, <1>11, <2>1, <2>2 DEF Accounted
<1>. QED
  BY <1>10, <1>11 DEF FilesStay

LEMMA MediaStepKeepsFiles ==
  ASSUME IInv, OnePlace(db, tx, files), NEW p \in Session, MediaStep(p)
  PROVE  FilesStay
<1>1. CASE RollBackRequest(p)
  <2>1. tx' = [tx EXCEPT ![p] = Idle] /\ UNCHANGED <<db, files>>
    BY <1>1 DEF RollBackRequest, RollBack, Bucket
  <2>2. ~At(tx[p].request, {"cleaning"}) /\ ~Carries(tx[p].request)
    BY <1>1 DEF RollBackRequest, RollBack, OnePlace, InStage, Carries, At
  <2>. QED
    BY <2>1, <2>2, IdleKeepsFiles DEF Holds
<1>2. CASE Interrupt(p)
  <2>1. ~NothingIsLost
    BY <1>2 DEF Interrupt, NothingIsLost
  <2>2. /\ \A f : ~Holds(Idle.request, f) /\ ~Carries(Idle.request)
        /\ ~Idle.open
    BY HoldsNothing DEF Idle, Waiting
  <2>. QED
    BY <1>2, <2>1, <2>2, SessionStepKeepsFiles DEF Interrupt
<1>3. CASE ConsumeUpload(p)
  <2>1. /\ Purpose(p) \in Avatars /\ InHand(p) \in File
        /\ tx[p].request = Storing("consuming", Purpose(p), InHand(p))
    BY <1>3, AvatarInHand DEF ConsumeUpload, InStage
  <2>. DEFINE r == Storing("attaching", Purpose(p), InHand(p))
  <2>2. [tx[p].request EXCEPT !.call = "attaching"] = r
    BY <2>1 DEF Storing
  <2>3. tx' = [tx EXCEPT ![p].request = r] /\ UNCHANGED <<db, files>>
    BY <1>3, <2>2 DEF ConsumeUpload
  <2>4. /\ Carries(r) /\ r.file = InHand(p) /\ ~At(r, {"cleaning"})
        /\ \A f : Holds(r, f) <=> f = InHand(p)
    BY <2>1, StoringHolds
  <2>5. /\ Carries(tx[p].request) /\ tx[p].request.file = InHand(p)
        /\ \A f : Holds(tx[p].request, f) <=> f = InHand(p)
    BY <1>3, StageHolds DEF ConsumeUpload, InStage
  <2>. HIDE DEF r
  <2>. QED
    BY <2>3, <2>4, <2>5, GoOnKeepsFiles
<1>4. CASE FailAttach(p)
  <2>1. InStage(p, {"consuming", "attaching"})
    BY <1>4 DEF FailAttach, InStage
  <2>. QED
    BY <1>4, <2>1, StageHolds, DiscardingHolds, WaitKeepsFiles DEF FailAttach
<1>. QED
  BY <1>1, <1>2, <1>3, <1>4, StartKeepsFiles, StoreFileKeepsFiles, CleanUpKeepsFiles
     DEF MediaStep

(* A request for an account that is tried, or another time.                *)
LEMMA AttemptKeepsFiles ==
  ASSUME IInv, OnePlace(db, tx, files), NEW p \in Session, tx[p].open, NEW sub \in Subject,
         NEW r, ~Carries(r), \A f : ~Holds(r, f) /\ ~Holds(tx[p].request, f),
         NEW after, NEW next, AttemptThen(p, r, {}, after, next), UNCHANGED files,
         \A other \in Subject : other # sub =>
           after[UserRow(other)] = tx[p].snapshot[UserRow(other)],
         FilesOf(after, sub) = {},
         \A f \in File : Holds(next, f) <=> f \in FilesOf(tx[p].snapshot, sub),
         ~Carries(next)
  PROVE  FilesStay
<1>1. CASE Commit(p, {}, after, next)
  BY <1>1, CommitKeepsFiles
<1>2. CASE LoseRace(p, r, {}, after)
  BY <1>2, HoldsNothing, LoseRaceKeepsFiles DEF LoseRace
<1>. QED
  BY <1>1, <1>2 DEF AttemptThen

LEMMA AddRowKeepsFiles ==
  ASSUME IInv, OnePlace(db, tx, files), NEW p \in Session, AddRow(p)
  PROVE  FilesStay
<1>1. PICK sub \in Subject :
        /\ tx[p].request = ForAccount("adding", sub)
        /\ Attempt(p, ForAccount("adding", sub), {}, Added(View(p), sub))
  BY DEF AddRow
<1>. DEFINE s == tx[p].snapshot
            r == ForAccount("adding", sub)
            after == Added(s, sub)
<1>2. tx[p].open /\ UNCHANGED files /\ AttemptThen(p, r, {}, after, NoRequest)
  BY <1>1 DEF AddRow, Attempt, View
<1>3. DatabaseOK(s)
  BY <1>2 DEF IInv, TypeOK, TransactionOK
<1>4. \A f : ~Holds(r, f) /\ ~Carries(r) /\ ~Holds(tx[p].request, f)
             /\ ~Holds(NoRequest, f) /\ ~Carries(NoRequest)
  BY <1>1, HoldsNothing
<1>5. \A other \in Subject : other # sub => after[UserRow(other)] = s[UserRow(other)]
  BY <1>3, RowsDiffer, RowsExist DEF Added, DatabaseOK
<1>6. CASE UnlessTaken(s, sub)
  <2>1. after[UserRow(sub)] = [avatar |-> NoFile]
    BY <1>3, <1>6, RowsDiffer, RowsExist DEF Added, DatabaseOK
  <2>2. FilesOf(after, sub) = {}
    BY <2>1 DEF FilesOf, Avatar, Keys
  <2>3. FilesOf(s, sub) = {}
    BY <1>6 DEF FilesOf, UnlessTaken
  <2>. HIDE DEF after, r
  <2>. QED
    BY <1>2, <1>4, <1>5, <2>2, <2>3, AttemptKeepsFiles
<1>7. CASE ~UnlessTaken(s, sub)
  <2>1. after = s
    BY <1>7 DEF Added
  <2>2. CASE Commit(p, {}, s, NoRequest)
    <3>1. \A f \in FilesOf(s, sub) : f \in File
      BY <1>3, AvatarType DEF FilesOf
    <3>. QED
      BY <1>2, <1>4, <2>2, <3>1, CommitKeepsFiles
  <2>3. CASE LoseRace(p, r, {}, s)
    <3>. HIDE DEF r
    <3>. QED
      BY <1>2, <1>4, <2>3, LoseRaceKeepsFiles DEF LoseRace
  <2>. QED
    BY <1>2, <2>1, <2>2, <2>3 DEF AttemptThen
<1>. QED
  BY <1>6, <1>7

LEMMA RemoveAvatarKeepsFiles ==
  ASSUME IInv, OnePlace(db, tx, files), NEW p \in Session, NEW sub \in Subject,
         RemoveAvatar(p, sub)
  PROVE  FilesStay
<1>. DEFINE s == tx[p].snapshot
            r == SettingAvatar(sub, NoUpload)
            after == WithAvatar(s, sub, NoFile)
            next == Cleaning(Keys(Avatar(s, sub)), NoRequest)
<1>1. /\ tx[p].open /\ Exists(s, UserRow(sub)) /\ UNCHANGED files
      /\ tx[p].request \in {NoRequest, r} /\ AttemptThen(p, r, {}, after, next)
  BY DEF RemoveAvatar, Serves, View, Replaced
<1>2. DatabaseOK(s)
  BY <1>1 DEF IInv, TypeOK, TransactionOK
<1>3. \A f : ~Holds(r, f) /\ ~Carries(r) /\ ~Holds(tx[p].request, f)
  BY <1>1, HoldsNothing
<1>4. /\ ~Carries(next)
      /\ \A f : Holds(next, f) <=> f \in FilesOf(s, sub)
  BY <1>1, <1>2, AvatarType, CleaningHolds DEF FilesOf
<1>5. /\ after[UserRow(sub)] = [avatar |-> NoFile]
      /\ \A other \in Subject : other # sub => after[UserRow(other)] = s[UserRow(other)]
  BY <1>1, <1>2, WithAvatarRows
<1>6. FilesOf(after, sub) = {}
  BY <1>5 DEF FilesOf, Avatar, Keys
<1>. HIDE DEF after, next, r
<1>. QED
  BY <1>1, <1>3, <1>4, <1>5, <1>6, AttemptKeepsFiles

LEMMA DeleteAccountKeepsFiles ==
  ASSUME IInv, OnePlace(db, tx, files), NEW p \in Session, NEW sub \in Subject,
         DeleteAccount(p, sub)
  PROVE  FilesStay
<1>. DEFINE s == tx[p].snapshot
            r == ForAccount("delete", sub)
            after == [s EXCEPT ![UserRow(sub)] = Gone, ![EmailRow(EmailOf[sub])] = Absent]
            next == Cleaning(Keys(Avatar(s, sub)), ForAccount("deleting_in_pool", sub))
<1>1. /\ tx[p].open /\ Exists(s, UserRow(sub)) /\ UNCHANGED files
      /\ tx[p].request \in {NoRequest, r} /\ AttemptThen(p, r, {}, after, next)
  BY DEF DeleteAccount, Serves, View, AfterDeletion
<1>2. DatabaseOK(s)
  BY <1>1 DEF IInv, TypeOK, TransactionOK
<1>3. \A f : ~Holds(r, f) /\ ~Carries(r) /\ ~Holds(tx[p].request, f)
  BY <1>1, HoldsNothing
<1>4. /\ ~Carries(next)
      /\ \A f : Holds(next, f) <=> f \in FilesOf(s, sub)
  <2>1. ForAccount("deleting_in_pool", sub) \in ForAccounts({"deleting_in_pool"}) \cup {NoRequest}
    BY DEF ForAccount, ForAccounts
  <2>. QED
    BY <1>1, <1>2, <2>1, AvatarType, CleaningHolds DEF FilesOf
<1>5. /\ after[UserRow(sub)] = Gone
      /\ \A other \in Subject : other # sub => after[UserRow(other)] = s[UserRow(other)]
  BY <1>2, RowsDiffer, RowsExist DEF DatabaseOK
<1>6. FilesOf(after, sub) = {}
  BY <1>5 DEF FilesOf, Exists
<1>. HIDE DEF after, next, r
<1>. QED
  BY <1>1, <1>3, <1>4, <1>5, <1>6, AttemptKeepsFiles

(* The file in hand goes to the row, and the one it replaces comes to hand.*)
LEMMA AttachAvatarKeepsFiles ==
  ASSUME IInv, OnePlace(db, tx, files), NEW p \in Session, AttachAvatar(p),
         "unanswered" \notin Faults
  PROVE  FilesStay
<1>. DEFINE s == tx[p].snapshot
            sub == Purpose(p).by
            f == InHand(p)
            after == WithAvatar(s, sub, f)
            next == Cleaning(Keys(Avatar(s, sub)), NoRequest)
<1>1. /\ tx[p].open /\ InStage(p, {"consuming", "attaching"}) /\ Exists(s, UserRow(sub))
      /\ Attach(p, {}, after, next) /\ UNCHANGED files
  BY DEF AttachAvatar, InStage, View, Replaced
<1>2. sub \in Subject /\ f \in File
  BY <1>1, AvatarInHand DEF InStage
<1>3. DatabaseOK(s)
  BY <1>1 DEF IInv, TypeOK, TransactionOK
<1>4. /\ Carries(tx[p].request) /\ tx[p].request.file = f
      /\ \A g : Holds(tx[p].request, g) <=> g = f
  BY <1>1, StageHolds
<1>5. /\ ~Carries(next)
      /\ \A g : Holds(next, g) <=> g \in FilesOf(s, sub)
  BY <1>1, <1>2, <1>3, AvatarType, CleaningHolds DEF FilesOf
<1>6. /\ after[UserRow(sub)] = [avatar |-> f]
      /\ \A other \in Subject : other # sub => after[UserRow(other)] = s[UserRow(other)]
  BY <1>1, <1>2, <1>3, WithAvatarRows
<1>7. FilesOf(after, sub) = {f}
  <2>1. [avatar |-> f] \notin {Absent, Gone}
    BY <1>2, NotRows DEF UserRecord
  <2>. QED
    BY <1>2, <1>6, <2>1, MarkersAssumption DEF FilesOf, Exists, Avatar, Keys
<1>8. f \notin FilesOf(s, sub)
  BY <1>1, <1>2, <1>4 DEF OnePlace
<1>. HIDE DEF after, next, sub, f
<1>9. CASE Commit(p, {}, after, next)
  BY <1>1, <1>2, <1>4, <1>5, <1>6, <1>7, <1>8, <1>9, CommitKeepsFiles
<1>10. CASE LoseRaceElse(p, tx[p].request, {}, after, Discarding(p))
  BY <1>1, <1>4, <1>10, DiscardingHolds, LoseRaceKeepsFiles DEF f
<1>. QED
  BY <1>1, <1>9, <1>10 DEF Attach

LEMMA NextKeepsFiles ==
  ASSUME IInv, OnePlace(db, tx, files), [Next]_vars, "unanswered" \notin Faults
  PROVE  FilesStay
<1>1. ASSUME NEW p \in Session, SetPassword(p) \/ DeleteInPool(p)
      PROVE  FilesStay
  <2>1. \A f : ~Holds(tx[p].request, f)
    BY <1>1, StageHolds DEF SetPassword, DeleteInPool, InStage
  <2>2. \A sub, f : LET r == ForAccount("adding", sub)
                    IN ~Holds(r, f) /\ ~Carries(r) /\ ~At(r, {"cleaning"})
    BY HoldsNothing
  <2>. QED
    BY <1>1, <2>1, <2>2, IdleKeepsFiles, GoOnKeepsFiles DEF SetPassword, DeleteInPool
<1>2. ASSUME NEW p \in Session, NEW sub \in Subject,
             CreateInPool(p, sub) \/ EnsureAccount(p, sub)
      PROVE  FilesStay
  <2>1. tx[p].request = NoRequest
    BY <1>2 DEF CreateInPool, EnsureAccount, Asks, Serves, Idle, Waiting
  <2>2. \A f : \A call \in {"creating_in_pool", "adding"} :
          LET r == ForAccount(call, sub)
          IN ~Holds(r, f) /\ ~Carries(r) /\ ~At(r, {"cleaning"})
    BY HoldsNothing
  <2>. QED
    BY <1>2, <2>1, <2>2, HoldsNothing, GoOnKeepsFiles DEF CreateInPool, EnsureAccount
<1>3. ASSUME NEW p \in Session, NEW sub \in Subject, NEW u \in Upload,
             ReadAvatar(p, sub, u)
      PROVE  FilesStay
  <2>1. \A f : ~Holds(tx[p].request, f)
    BY <1>3, HoldsNothing DEF ReadAvatar, Asks, Serves
  <2>2. \A f : LET r == Storing("storing", SettingAvatar(sub, u), NoFile)
               IN ~Holds(r, f) /\ ~Carries(r) /\ ~At(r, {"cleaning"})
    BY HoldsNothing
  <2>. QED
    BY <1>3, <2>1, <2>2, IdleKeepsFiles, GoOnKeepsFiles
       DEF ReadAvatar, StartStoring, RefuseUpload
<1>4. CASE UNCHANGED vars
  BY <1>4 DEF vars, FilesStay
<1>5. CASE Next
  <2>1. PICK p \in Session :
          \/ MediaStep(p) /\ UNCHANGED pool
          \/ SetPassword(p) \/ AddRow(p) \/ AttachAvatar(p) \/ DeleteInPool(p)
          \/ \E sub \in Subject :
               \/ CreateInPool(p, sub) \/ EnsureAccount(p, sub) \/ DeleteAccount(p, sub)
               \/ RequestAvatarUpload(p, sub) \/ RemoveAvatar(p, sub)
               \/ \E u \in Upload : ReadAvatar(p, sub, u)
    BY <1>5 DEF Next
  <2>2. ASSUME NEW sub \in Subject, RequestAvatarUpload(p, sub)
        PROVE  FilesStay
    <3>1. \A f : ~Holds(tx[p].request, f)
      BY <2>2, HoldsNothing DEF RequestAvatarUpload, Asks, Serves
    <3>. QED
      BY <2>2, <3>1, IdleKeepsFiles DEF RequestAvatarUpload, Presign
  <2>. QED
    BY <1>1, <1>2, <1>3, <2>1, <2>2, MediaStepKeepsFiles, AddRowKeepsFiles,
       AttachAvatarKeepsFiles, RemoveAvatarKeepsFiles, DeleteAccountKeepsFiles
<1>. QED
  BY <1>4, <1>5

-----------------------------------------------------------------------------
(*                         Files: the theorems                             *)

LEMMA InitFiles == Init => FilesInOnePlace /\ FilesAccountedFor
<1>. SUFFICES ASSUME Init PROVE OnePlace(db, tx, files) /\ Accounted(db, tx, files)
  BY OnePlaceNow, AccountedNow
<1>1. \A sub \in Subject : FilesOf(db, sub) = {}
  BY RowsExist DEF Init, FilesOf, Exists
<1>2. \A p \in Session : /\ ~tx[p].open
                         /\ \A f : ~Holds(tx[p].request, f)
  BY HoldsNothing DEF Init, MediaInit, Idle, Waiting
<1>3. \A f \in File : files[f] # "stored"
  BY DEF Init, MediaInit
<1>. QED
  BY <1>1, <1>2, <1>3 DEF OnePlace, Accounted

(* As long as an error of the database means that nothing was committed, a *)
(* file is in one place: shown by one row, or in the hands of one request, *)
(* and a request never takes the file it brings for the one it replaces.   *)
THEOREM FilesAreInOnePlace ==
  ASSUME "unanswered" \notin Faults
  PROVE  Spec => []FilesInOnePlace
<1>1. IInv /\ FilesInOnePlace /\ [Next]_vars => FilesInOnePlace'
  BY NextKeepsFiles, OnePlaceNow, OnePlaceNext DEF FilesStay
<1>2. Init => FilesInOnePlace
  BY InitFiles
<1>. QED
  BY SnapshotsAgree, <1>1, <1>2, PTL DEF Spec

(* Under the same condition every avatar that is shown has its file.       *)
THEOREM AvatarsAreThere ==
  ASSUME "unanswered" \notin Faults
  PROVE  Spec => []AvatarsHaveFiles
<1>1. FilesInOnePlace => AvatarsHaveFiles
  BY DEF FilesInOnePlace
<1>. QED
  BY FilesAreInOnePlace, <1>1, PTL

(* When, besides, nobody dies and the bucket deletes what it is told to,   *)
(* no file is forgotten, whatever overlaps: commits exchange files between *)
(* rows and requests.                                                      *)
THEOREM NoFileIsForgotten ==
  ASSUME "unanswered" \notin Faults, NothingIsLost
  PROVE  Spec => []FilesAccountedFor
<1>1. IInv /\ FilesInOnePlace /\ FilesAccountedFor /\ [Next]_vars => FilesAccountedFor'
  BY NextKeepsFiles, OnePlaceNow, AccountedNow, AccountedNext DEF FilesStay
<1>2. Init => FilesAccountedFor
  BY InitFiles
<1>. QED
  BY SnapshotsAgree, FilesAreInOnePlace, <1>1, <1>2, PTL DEF Spec

-----------------------------------------------------------------------------
(*                      The pool and the rows                              *)

Creates(r, sub) == At(r, {"creating_in_pool"}) /\ r.by = sub
Deletes(r, sub) ==
  \/ r = ForAccount("deleting_in_pool", sub)
  \/ At(r, {"cleaning"}) /\ r.then = ForAccount("deleting_in_pool", sub)

(* PoolInStep and DeletedInBoth of any database, sessions and pool.        *)
InStep(d, t, po) ==
  /\ \A sub \in Subject :
       d[UserRow(sub)] = Gone \/ (\E p \in Session : Deletes(t[p].request, sub)) =>
         po[sub] \in {"confirmed", "deleted"}
  /\ \A p, q \in Session : \A sub : Creates(t[p].request, sub) =>
       /\ po[sub] = "temporary"
       /\ Creates(t[q].request, sub) => q = p
  /\ \A p \in Session : t[p].open => ~At(t[p].request, Outside)

InBoth(d, t, po) ==
  \A sub \in Subject : d[UserRow(sub)] = Gone /\ po[sub] = "confirmed" =>
    \E p \in Session : Deletes(t[p].request, sub)

LEMMA InStepNow == PoolInStep <=> InStep(db, tx, pool)
BY DEF PoolInStep, InStep, SignedIn, Deleting, InStage, Creates, Deletes, At

LEMMA InBothNow == DeletedInBoth <=> InBoth(db, tx, pool)
BY DEF DeletedInBoth, InBoth, Deleting, InStage, Deletes, At

LEMMA InStepNext == PoolInStep' <=> InStep(db', tx', pool')
<1>1. PoolInStep' <=> InStep(db, tx, pool)'
  BY InStepNow, PTL
<1>. QED
  BY <1>1

LEMMA InBothNext == DeletedInBoth' <=> InBoth(db', tx', pool')
<1>1. DeletedInBoth' <=> InBoth(db, tx, pool)'
  BY InBothNow, PTL
<1>. QED
  BY <1>1

(* Nobody dies, and the pool deletes what it is told to.                   *)
DeletionsSucceed == Killable = {} /\ "pool" \notin Faults

PoolStays ==
  /\ InStep(db', tx', pool')
  /\ DeletionsSucceed /\ InBoth(db, tx, pool) => InBoth(db', tx', pool')

(* A step that leaves the pool alone, and deletes rows only for a request  *)
(* that goes on to delete the account.                                     *)
LEMMA RowStepKeepsPool ==
  ASSUME InStep(db, tx, pool), NEW p \in Session, UNCHANGED pool,
         \A q \in Session : q # p => tx'[q].request = tx[q].request /\ tx'[q].open = tx[q].open,
         \A sub : Creates(tx'[p].request, sub) => Creates(tx[p].request, sub),
         \A sub \in Subject : Deletes(tx'[p].request, sub) =>
           Deletes(tx[p].request, sub) \/ SignedIn(sub),
         DeletionsSucceed => \A sub \in Subject :
           Deletes(tx[p].request, sub) => Deletes(tx'[p].request, sub),
         \A sub \in Subject : db'[UserRow(sub)] = Gone =>
           db[UserRow(sub)] = Gone \/ (Deletes(tx'[p].request, sub) /\ SignedIn(sub)),
         tx'[p].open => ~At(tx'[p].request, Outside)
  PROVE  PoolStays
<1>1. ASSUME NEW sub \in Subject,
             db'[UserRow(sub)] = Gone \/ (\E q \in Session : Deletes(tx'[q].request, sub))
      PROVE  pool'[sub] \in {"confirmed", "deleted"}
  BY <1>1 DEF InStep, SignedIn
<1>2. \A q \in Session : \A sub : Creates(tx'[q].request, sub) => Creates(tx[q].request, sub)
  OBVIOUS
<1>3. \A o, q \in Session : \A sub : Creates(tx'[o].request, sub) =>
        /\ pool'[sub] = "temporary"
        /\ Creates(tx'[q].request, sub) => q = o
  BY <1>2 DEF InStep
<1>4. \A q \in Session : tx'[q].open => ~At(tx'[q].request, Outside)
  BY DEF InStep
<1>5. ASSUME DeletionsSucceed, InBoth(db, tx, pool)
      PROVE  InBoth(db', tx', pool')
  <2>1. \A q \in Session, sub \in Subject :
          Deletes(tx[q].request, sub) => Deletes(tx'[q].request, sub)
    BY <1>5
  <2>. QED
    BY <1>5, <2>1 DEF InBoth
<1>. QED
  BY <1>1, <1>3, <1>4, <1>5 DEF InStep, PoolStays

(* A request with nothing to do in the pool.                               *)
Inert(r) == ~At(r, {"creating_in_pool"}) /\ \A sub \in Subject : ~Deletes(r, sub)

LEMMA InsideIsInert ==
  ASSUME NEW r, ~At(r, Outside)
  PROVE  Inert(r)
<1>1. \A sub \in Subject : r # ForAccount("deleting_in_pool", sub)
  <2>1. \A sub \in Subject : At(ForAccount("deleting_in_pool", sub), Outside)
    BY UnfinishedRequests, MarkersAssumption DEF At, Outside, ForAccount
  <2>. QED
    BY <2>1
<1>. QED
  BY <1>1 DEF Inert, At, Outside, Deletes

LEMMA InertRequests ==
  /\ ~At(NoRequest, Outside)
  /\ \A by : \A call \in {"adding", "delete"} : ~At(ForAccount(call, by), Outside)
  /\ \A by, u : ~At(SettingAvatar(by, u), Outside)
  /\ \A purpose, f : \A call \in {"storing", "consuming", "attaching"} :
       ~At(Storing(call, purpose, f), Outside)
BY DEF At, Outside, ForAccount, SettingAvatar, Storing

(* What is left of a request that deletes files, and maybe an account.     *)
LEMMA CleaningDeletes ==
  ASSUME NEW fs \in SUBSET File,
         NEW then \in ForAccounts({"deleting_in_pool"}) \cup {NoRequest}
  PROVE  /\ ~At(Cleaning(fs, then), {"creating_in_pool"})
         /\ \A sub \in Subject : Deletes(Cleaning(fs, then), sub) <=>
              then = ForAccount("deleting_in_pool", sub)
<1>1. ~At(then, {"creating_in_pool", "cleaning"})
  BY DEF At, ForAccounts
<1>2. CASE fs = {}
  BY <1>1, <1>2 DEF Cleaning, Deletes, At
<1>3. CASE fs # {}
  <2>. DEFINE r == [call |-> "cleaning", files |-> fs, then |-> then]
  <2>1. Cleaning(fs, then) = r /\ r # NoRequest
    BY <1>3, CleaningRecord, MarkersAssumption DEF Cleaning
  <2>2. \A sub : r # ForAccount("deleting_in_pool", sub)
    BY DEF ForAccount
  <2>. QED
    BY <2>1, <2>2 DEF Deletes, At
<1>. QED
  BY <1>2, <1>3

(* A step of a request inside the application, with nothing to do in the   *)
(* pool before and after it.                                               *)
LEMMA InertStepKeepsPool ==
  ASSUME IInv, InStep(db, tx, pool), NEW p \in Session, NEW t, UNCHANGED <<db, pool>>,
         tx' = [tx EXCEPT ![p] = t], ~At(tx[p].request, Outside), Inert(t.request),
         t.open => ~At(t.request, Outside)
  PROVE  PoolStays
<1>1. \A q \in Session : tx'[q] = IF q = p THEN t ELSE tx[q]
  BY DEF IInv, TypeOK
<1>2. Inert(tx[p].request)
  BY InsideIsInert
<1>3. \A sub : ~Creates(t.request, sub)
  BY DEF Inert, Creates
<1>. QED
  BY <1>1, <1>2, <1>3, RowStepKeepsPool DEF Inert

(* A session that goes on, waits, or is done.                              *)
LEMMA GoOnKeepsPool ==
  ASSUME IInv, InStep(db, tx, pool), NEW p \in Session, NEW r, UNCHANGED <<db, pool>>,
         tx' = [tx EXCEPT ![p].request = r],
         ~At(tx[p].request, Outside), ~At(r, Outside)
  PROVE  PoolStays
<1>. DEFINE t == [tx[p] EXCEPT !.request = r]
<1>1. t.request = r
  BY DEF IInv, TypeOK, TransactionOK
<1>2. tx' = [tx EXCEPT ![p] = t]
  BY DEF IInv, TypeOK
<1>. HIDE DEF t
<1>. QED
  BY <1>1, <1>2, InsideIsInert, InertStepKeepsPool

LEMMA WaitKeepsPool ==
  ASSUME IInv, InStep(db, tx, pool), NEW p \in Session, NEW r, NEW n,
         UNCHANGED <<db, pool>>, tx' = [tx EXCEPT ![p] = Waiting(r, n)],
         ~At(tx[p].request, Outside), Inert(r)
  PROVE  PoolStays
<1>1. Waiting(r, n).request = r /\ ~Waiting(r, n).open
  BY DEF Waiting
<1>. QED
  BY <1>1, InertStepKeepsPool

LEMMA IdleKeepsPool ==
  ASSUME IInv, InStep(db, tx, pool), NEW p \in Session,
         UNCHANGED <<db, pool>>, tx' = [tx EXCEPT ![p] = Idle],
         ~At(tx[p].request, Outside)
  PROVE  PoolStays
BY InsideIsInert, InertRequests, WaitKeepsPool DEF Idle

(* A transaction that is tried: what it deletes, its request deletes from  *)
(* the pool as well.                                                       *)
LEMMA CommitKeepsPool ==
  ASSUME IInv, InStep(db, tx, pool), NEW p \in Session, tx[p].open, UNCHANGED pool,
         NEW after, NEW next, Commit(p, {}, after, next),
         ~At(next, {"creating_in_pool"}),
         \A sub \in Subject : Deletes(next, sub) => SignedIn(sub),
         \A sub \in Subject : after[UserRow(sub)] = Gone =>
           \/ tx[p].snapshot[UserRow(sub)] = Gone
           \/ Deletes(next, sub)
  PROVE  PoolStays
<1>1. /\ tx'[p].request = next /\ ~tx'[p].open
      /\ \A q \in Session : q # p => tx'[q].request = tx[q].request /\ tx'[q].open = tx[q].open
  <2>1. tx'[p] = Waiting(next, 1)
    BY DEF Commit
  <2>2. ASSUME NEW q \in Session, q # p
        PROVE  tx'[q].request = tx[q].request /\ tx'[q].open = tx[q].open
    <3>1. DOMAIN tx[q] = {"open", "snapshot", "touched", "attempt", "request"}
      BY DEF IInv, TypeOK, TransactionOK
    <3>2. CASE tx[q].open
      <4>1. tx'[q] = [tx[q] EXCEPT !.touched = @ \cup Footprint(p, {}, after)]
        BY <2>2, <3>2, OtherSessions
      <4>. QED
        BY <3>1, <4>1
    <3>3. CASE ~tx[q].open
      BY <2>2, <3>3, OtherSessions
    <3>. QED
      BY <3>2, <3>3
  <2>. QED
    BY <2>1, <2>2 DEF Waiting
<1>2. ~At(tx[p].request, Outside)
  BY DEF InStep
<1>3. \A sub \in Subject : ~Deletes(tx[p].request, sub)
  BY <1>2, InsideIsInert DEF Inert
<1>4. \A sub : ~Creates(next, sub)
  BY DEF Creates
<1>5. ASSUME NEW sub \in Subject, db'[UserRow(sub)] = Gone
      PROVE  db[UserRow(sub)] = Gone \/ (Deletes(tx'[p].request, sub) /\ SignedIn(sub))
  <2>1. UserRow(sub) \in DOMAIN db
    BY RowsExist DEF IInv, TypeOK, DatabaseOK
  <2>. QED
    BY <1>1, <1>5, <2>1, MergedRow
<1>. QED
  BY <1>1, <1>3, <1>4, <1>5, RowStepKeepsPool

LEMMA LoseRaceKeepsPool ==
  ASSUME IInv, InStep(db, tx, pool), NEW p \in Session, tx[p].open, UNCHANGED pool,
         NEW r, NEW locked, NEW after, NEW failed, LoseRaceElse(p, r, locked, after, failed),
         Inert(r), Inert(failed)
  PROVE  PoolStays
<1>1. ~At(tx[p].request, Outside)
  BY DEF InStep
<1>2. CASE tx[p].attempt = ATTEMPTS
  <2>1. tx' = [tx EXCEPT ![p] = Waiting(failed, 1)] /\ UNCHANGED db
    BY <1>2 DEF LoseRaceElse
  <2>. QED
    BY <1>1, <2>1, WaitKeepsPool
<1>3. CASE tx[p].attempt # ATTEMPTS
  <2>1. tx' = [tx EXCEPT ![p] = Waiting(r, tx[p].attempt + 1)] /\ UNCHANGED db
    BY <1>3 DEF LoseRaceElse
  <2>. QED
    BY <1>1, <2>1, WaitKeepsPool
<1>. QED
  BY <1>2, <1>3

LEMMA AttemptKeepsPool ==
  ASSUME IInv, InStep(db, tx, pool), NEW p \in Session, tx[p].open, UNCHANGED pool,
         NEW r, ~At(r, Outside), NEW after, NEW next, AttemptThen(p, r, {}, after, next),
         ~At(next, {"creating_in_pool"}),
         \A sub \in Subject : Deletes(next, sub) => SignedIn(sub),
         \A sub \in Subject : after[UserRow(sub)] = Gone =>
           \/ tx[p].snapshot[UserRow(sub)] = Gone
           \/ Deletes(next, sub)
  PROVE  PoolStays
<1>1. Inert(r) /\ Inert(NoRequest)
  BY InsideIsInert, InertRequests
<1>. QED
  BY <1>1, CommitKeepsPool, LoseRaceKeepsPool DEF AttemptThen, LoseRace

-----------------------------------------------------------------------------
(*            Every step keeps the pool and the rows in step               *)

LEMMA DiscardingIsInert ==
  ASSUME IInv, NEW p \in Session, InStage(p, {"consuming", "attaching"})
  PROVE  Inert(Discarding(p))
<1>1. InHand(p) \in File
  BY AvatarInHand DEF InStage
<1>2. /\ ~At(Discarding(p), {"creating_in_pool"})
      /\ \A sub \in Subject : Deletes(Discarding(p), sub) <=>
           NoRequest = ForAccount("deleting_in_pool", sub)
  BY <1>1, CleaningDeletes DEF Discarding
<1>. QED
  BY <1>2, UnfinishedRequests, MarkersAssumption DEF Inert

LEMMA StageIsInside ==
  ASSUME NEW p \in Session, InStage(p, {"storing", "consuming", "attaching"})
  PROVE  ~At(tx[p].request, Outside)
BY DEF InStage, At, Outside

LEMMA StartKeepsPool ==
  ASSUME IInv, InStep(db, tx, pool), NEW p \in Session, Start(p), UNCHANGED pool
  PROVE  PoolStays
<1>. DEFINE t == [tx[p] EXCEPT !.open = TRUE, !.snapshot = db]
<1>1. ~At(tx[p].request, Outside) /\ UNCHANGED db
  BY DEF Start, Begin, InStage, At
<1>2. tx' = [tx EXCEPT ![p] = t]
  BY DEF Start, Begin, IInv, TypeOK
<1>3. t.request = tx[p].request
  BY DEF IInv, TypeOK, TransactionOK
<1>. HIDE DEF t
<1>. QED
  BY <1>1, <1>2, <1>3, InsideIsInert, InertStepKeepsPool

(* Files are gone from the bucket; a pool account may be left to delete.   *)
LEMMA CleanUpKeepsPool ==
  ASSUME IInv, InStep(db, tx, pool), NEW p \in Session, CleanUp(p), UNCHANGED pool
  PROVE  PoolStays
<1>. DEFINE then == tx[p].request.then
            r == tx[p].request
<1>1. At(r, {"cleaning"}) /\ UNCHANGED db
  BY DEF CleanUp, InStage, At
<1>2. then \in ForAccounts({"deleting_in_pool"}) \cup {NoRequest}
  BY <1>1, CleaningInHand DEF InStage, At
<1>3. \A q \in Session : tx'[q] = IF q = p THEN [tx[p] EXCEPT !.request = then] ELSE tx[q]
  BY DEF CleanUp, IInv, TypeOK
<1>4. tx'[p].request = then /\ ~tx'[p].open
  BY <1>1, <1>3 DEF InStep, IInv, TypeOK, TransactionOK, At, Outside
<1>5. \A sub : ~Creates(then, sub)
  BY <1>2 DEF Creates, At, ForAccounts
<1>6. \A sub \in Subject : Deletes(then, sub) <=> Deletes(r, sub)
  <2>1. \A sub : r # ForAccount("deleting_in_pool", sub)
    BY <1>1 DEF At, ForAccount
  <2>2. ~At(then, {"cleaning"})
    BY <1>2 DEF At, ForAccounts
  <2>. QED
    BY <1>1, <2>1, <2>2 DEF Deletes
<1>. HIDE DEF then, r
<1>7. \A q \in Session : q # p => tx'[q].request = tx[q].request /\ tx'[q].open = tx[q].open
  BY <1>3
<1>. QED
  BY <1>1, <1>4, <1>5, <1>6, <1>7, RowStepKeepsPool DEF r

LEMMA InterruptKeepsPool ==
  ASSUME IInv, InStep(db, tx, pool), NEW p \in Session, Interrupt(p), UNCHANGED pool
  PROVE  PoolStays
<1>1. \A q \in Session : tx'[q] = IF q = p THEN Idle ELSE tx[q]
  BY DEF Interrupt, IInv, TypeOK
<1>2. Idle.request = NoRequest /\ ~Idle.open
  BY DEF Idle, Waiting
<1>3. /\ \A sub : ~Creates(NoRequest, sub)
      /\ \A sub \in Subject : ~Deletes(NoRequest, sub)
  BY InertRequests, InsideIsInert DEF Inert, Creates, At
<1>4. ~DeletionsSucceed /\ UNCHANGED db
  BY DEF Interrupt, DeletionsSucceed
<1>. QED
  BY <1>1, <1>2, <1>3, <1>4, RowStepKeepsPool

LEMMA MediaStepKeepsPool ==
  ASSUME IInv, InStep(db, tx, pool), NEW p \in Session, MediaStep(p), UNCHANGED pool
  PROVE  PoolStays
<1>1. CASE RollBackRequest(p)
  <2>1. ~At(tx[p].request, Outside)
    BY <1>1 DEF RollBackRequest, RollBack, InStep
  <2>. QED
    BY <1>1, <2>1, IdleKeepsPool DEF RollBackRequest, RollBack
<1>2. CASE StoreFile(p)
  <2>1. PICK f \in File :
          tx' = [tx EXCEPT ![p].request = Storing("consuming", tx[p].request.purpose, f)]
    BY <1>2 DEF StoreFile
  <2>2. ~At(tx[p].request, Outside) /\ UNCHANGED db
    BY <1>2 DEF StoreFile, InStage, At, Outside
  <2>3. ~At(Storing("consuming", tx[p].request.purpose, f), Outside)
    BY InertRequests
  <2>. QED
    BY <2>1, <2>2, <2>3, GoOnKeepsPool
<1>3. CASE ConsumeUpload(p)
  <2>. DEFINE r == [tx[p].request EXCEPT !.call = "attaching"]
  <2>1. tx[p].request = Storing("consuming", Purpose(p), InHand(p))
    BY <1>3, AvatarInHand DEF ConsumeUpload, InStage
  <2>2. r = Storing("attaching", Purpose(p), InHand(p))
    BY <2>1 DEF Storing
  <2>3. tx' = [tx EXCEPT ![p].request = r] /\ UNCHANGED db
    BY <1>3 DEF ConsumeUpload
  <2>4. ~At(tx[p].request, Outside) /\ ~At(r, Outside)
    BY <2>1, <2>2, InertRequests
  <2>. HIDE DEF r
  <2>. QED
    BY <2>3, <2>4, GoOnKeepsPool
<1>4. CASE FailAttach(p)
  <2>1. InStage(p, {"consuming", "attaching"}) /\ ~At(tx[p].request, Outside)
    BY <1>4 DEF FailAttach, InStage, At, Outside
  <2>. QED
    BY <1>4, <2>1, DiscardingIsInert, WaitKeepsPool DEF FailAttach
<1>. QED
  BY <1>1, <1>2, <1>3, <1>4, StartKeepsPool, CleanUpKeepsPool, InterruptKeepsPool
     DEF MediaStep

LEMMA CreatesWho ==
  ASSUME IInv, NEW p \in Session, NEW sub, Creates(tx[p].request, sub)
  PROVE  sub \in Subject
BY AccountInHand DEF Creates, At, InStage

(* An account the pool did not have before, in the hands of one request.   *)
LEMMA CreateInPoolKeepsPool ==
  ASSUME IInv, InStep(db, tx, pool), NEW p \in Session, NEW sub \in Subject,
         CreateInPool(p, sub)
  PROVE  PoolStays
<1>. DEFINE r == ForAccount("creating_in_pool", sub)
<1>1. /\ tx[p].request = NoRequest /\ ~tx[p].open
      /\ pool[sub] = "unissued" /\ UNCHANGED db
  BY DEF CreateInPool, Idle, Waiting
<1>2. \A o \in Subject : pool'[o] = IF o = sub THEN "temporary" ELSE pool[o]
  BY DEF CreateInPool, IInv, TypeOK
<1>3. /\ \A q \in Session : q # p => tx'[q] = tx[q]
      /\ tx'[p].request = r /\ ~tx'[p].open
  BY <1>1 DEF CreateInPool, IInv, TypeOK, TransactionOK
<1>4. /\ \A o : Creates(r, o) => o = sub
      /\ \A o \in Subject : ~Deletes(r, o)
  BY DEF Creates, Deletes, At, ForAccount
<1>5. \A o \in Subject : ~Deletes(tx[p].request, o)
  BY <1>1, InertRequests, InsideIsInert DEF Inert
<1>. HIDE DEF r
<1>6. \A q \in Session, o \in Subject :
        Deletes(tx'[q].request, o) <=> Deletes(tx[q].request, o)
  BY <1>3, <1>4, <1>5
<1>7. ASSUME NEW o \in Subject,
             db'[UserRow(o)] = Gone \/ (\E q \in Session : Deletes(tx'[q].request, o))
      PROVE  pool'[o] \in {"confirmed", "deleted"}
  BY <1>1, <1>2, <1>6, <1>7 DEF InStep
<1>8. ASSUME NEW q \in Session, NEW o, Creates(tx'[q].request, o)
      PROVE  /\ pool'[o] = "temporary"
             /\ \A i \in Session : Creates(tx'[i].request, o) => i = q
  <2>1. CASE q = p
    <3>1. o = sub
      BY <1>3, <1>4, <1>8, <2>1
    <3>. QED
      BY <1>1, <1>2, <1>3, <2>1, <3>1 DEF InStep
  <2>2. CASE q # p
    <3>1. Creates(tx[q].request, o) /\ pool[o] = "temporary"
      BY <1>3, <1>8, <2>2 DEF InStep
    <3>2. o # sub
      BY <1>1, <3>1
    <3>3. pool'[o] = "temporary"
      BY <1>2, <3>1, <3>2, CreatesWho
    <3>. QED
      BY <1>3, <1>4, <2>2, <3>1, <3>2, <3>3 DEF InStep
  <2>. QED
    BY <2>1, <2>2
<1>9. \A q \in Session : tx'[q].open => ~At(tx'[q].request, Outside)
  BY <1>3 DEF InStep
<1>10. ASSUME InBoth(db, tx, pool)
       PROVE  InBoth(db', tx', pool')
  BY <1>1, <1>2, <1>6, <1>10 DEF InBoth
<1>. QED
  BY <1>7, <1>8, <1>9, <1>10 DEF PoolStays, InStep

(* The password is set by the only request that has the account in hand.   *)
LEMMA SetPasswordKeepsPool ==
  ASSUME IInv, InStep(db, tx, pool), NEW p \in Session, SetPassword(p)
  PROVE  PoolStays
<1>. DEFINE sub == tx[p].request.by
<1>1. Creates(tx[p].request, sub) /\ sub \in Subject
  BY AccountInHand DEF SetPassword, InStage, Creates, At
<1>2. pool[sub] = "temporary" /\ UNCHANGED db
  BY <1>1 DEF InStep, SetPassword
<1>3. /\ \A q \in Session : q # p => tx'[q] = tx[q]
      /\ tx'[p].request \in {ForAccount("adding", sub), NoRequest} /\ ~tx'[p].open
  <2>1. ~tx[p].open
    BY <1>1 DEF InStep, Creates, At, Outside
  <2>. QED
    BY <2>1 DEF SetPassword, IInv, TypeOK, TransactionOK, Idle, Waiting
<1>4. ~At(tx'[p].request, Outside) /\ Inert(tx'[p].request)
  BY <1>3, InertRequests, InsideIsInert
<1>5. \A o \in Subject : o # sub => pool'[o] = pool[o]
  BY DEF SetPassword, IInv, TypeOK
<1>. HIDE DEF sub
<1>6. \A o \in Subject : ~Deletes(tx'[p].request, o)
  BY <1>4 DEF Inert
<1>7. ASSUME NEW o \in Subject,
             db'[UserRow(o)] = Gone \/ (\E q \in Session : Deletes(tx'[q].request, o))
      PROVE  pool'[o] \in {"confirmed", "deleted"}
  <2>1. db[UserRow(o)] = Gone \/ (\E q \in Session : Deletes(tx[q].request, o))
    BY <1>2, <1>3, <1>6, <1>7
  <2>2. pool[o] \in {"confirmed", "deleted"}
    BY <2>1 DEF InStep
  <2>. QED
    BY <1>2, <1>5, <2>2
<1>8. ASSUME NEW q \in Session, NEW o, Creates(tx'[q].request, o)
      PROVE  /\ pool'[o] = "temporary"
             /\ \A i \in Session : Creates(tx'[i].request, o) => i = q
  <2>1. ~Creates(tx'[p].request, o)
    BY <1>4 DEF Inert, Creates, At
  <2>2. q # p /\ Creates(tx[q].request, o)
    BY <1>3, <1>8, <2>1
  <2>3. o # sub
    BY <1>1, <2>2 DEF InStep
  <2>4. pool'[o] = pool[o]
    BY <2>2, <2>3, <1>5, CreatesWho
  <2>. QED
    BY <1>3, <2>1, <2>2, <2>4 DEF InStep
<1>9. \A q \in Session : tx'[q].open => ~At(tx'[q].request, Outside)
  BY <1>3 DEF InStep
<1>10. ASSUME InBoth(db, tx, pool)
       PROVE  InBoth(db', tx', pool')
  <2>1. ASSUME NEW o \in Subject, db'[UserRow(o)] = Gone, pool'[o] = "confirmed"
        PROVE  \E q \in Session : Deletes(tx'[q].request, o)
    <3>1. o # sub /\ pool[o] = "confirmed" /\ db[UserRow(o)] = Gone
      BY <1>2, <1>5, <2>1 DEF InStep
    <3>2. PICK q \in Session : Deletes(tx[q].request, o)
      BY <1>10, <3>1 DEF InBoth
    <3>3. q # p
      BY <1>1, <3>2 DEF Creates, Deletes, At, ForAccount
    <3>. QED
      BY <1>3, <3>2, <3>3
  <2>. QED
    BY <2>1 DEF InBoth
<1>. QED
  BY <1>7, <1>8, <1>9, <1>10 DEF PoolStays, InStep

(* The end of a deletion.                                                  *)
LEMMA DeleteInPoolKeepsPool ==
  ASSUME IInv, InStep(db, tx, pool), NEW p \in Session, DeleteInPool(p)
  PROVE  PoolStays
<1>. DEFINE sub == tx[p].request.by
<1>1. sub \in Subject /\ tx[p].request.call = "deleting_in_pool"
  BY AccountInHand DEF DeleteInPool, InStage
<1>2. tx[p].request = ForAccount("deleting_in_pool", sub)
  <2>1. tx[p].request \in Unfinished
    BY RequestInHand DEF DeleteInPool, InStage
  <2>. QED
    BY <1>1, <2>1 DEF Unfinished, ForAccounts, ForAccount, SettingAvatar, Storings, Cleanings
<1>3. /\ \A o : Deletes(tx[p].request, o) => o = sub
      /\ Deletes(tx[p].request, sub)
  BY <1>2 DEF Deletes, At, ForAccount
<1>4. /\ \A q \in Session : q # p => tx'[q] = tx[q]
      /\ tx'[p].request = NoRequest /\ ~tx'[p].open /\ UNCHANGED db
  BY DEF DeleteInPool, IInv, TypeOK, Idle, Waiting
<1>5. ~At(tx'[p].request, Outside) /\ Inert(tx'[p].request)
  BY <1>4, InertRequests, InsideIsInert
<1>6. /\ \A o \in Subject : o # sub => pool'[o] = pool[o]
      /\ pool'[sub] \in {pool[sub], "deleted"}
      /\ "pool" \notin Faults => pool'[sub] = "deleted"
  BY <1>1 DEF DeleteInPool, IInv, TypeOK
<1>. HIDE DEF sub
<1>7. \A o \in Subject : ~Deletes(tx'[p].request, o)
  BY <1>5 DEF Inert
<1>8. pool[sub] \in {"confirmed", "deleted"}
  BY <1>1, <1>3 DEF InStep
<1>9. ASSUME NEW o \in Subject,
             db'[UserRow(o)] = Gone \/ (\E q \in Session : Deletes(tx'[q].request, o))
      PROVE  pool'[o] \in {"confirmed", "deleted"}
  <2>1. db[UserRow(o)] = Gone \/ (\E q \in Session : Deletes(tx[q].request, o))
    BY <1>4, <1>7, <1>9
  <2>2. pool[o] \in {"confirmed", "deleted"}
    BY <2>1 DEF InStep
  <2>. QED
    BY <1>6, <2>2
<1>10. ASSUME NEW q \in Session, NEW o, Creates(tx'[q].request, o)
       PROVE  /\ pool'[o] = "temporary"
              /\ \A i \in Session : Creates(tx'[i].request, o) => i = q
  <2>1. ~Creates(tx'[p].request, o)
    BY <1>5 DEF Inert, Creates, At
  <2>2. q # p /\ Creates(tx[q].request, o) /\ pool[o] = "temporary"
    BY <1>4, <1>10, <2>1 DEF InStep
  <2>3. pool'[o] = pool[o]
    BY <1>6, <1>8, <2>2, CreatesWho
  <2>. QED
    BY <1>4, <2>1, <2>2, <2>3 DEF InStep
<1>11. \A q \in Session : tx'[q].open => ~At(tx'[q].request, Outside)
  BY <1>4 DEF InStep
<1>12. ASSUME DeletionsSucceed, InBoth(db, tx, pool)
       PROVE  InBoth(db', tx', pool')
  <2>1. ASSUME NEW o \in Subject, db'[UserRow(o)] = Gone, pool'[o] = "confirmed"
        PROVE  \E q \in Session : Deletes(tx'[q].request, o)
    <3>1. o # sub
      BY <1>6, <1>12, <2>1 DEF DeletionsSucceed
    <3>2. PICK q \in Session : Deletes(tx[q].request, o)
      BY <1>4, <1>6, <1>12, <2>1, <3>1 DEF InBoth
    <3>3. q # p
      BY <1>3, <3>1, <3>2
    <3>. QED
      BY <1>4, <3>2, <3>3
  <2>. QED
    BY <2>1 DEF InBoth
<1>. QED
  BY <1>9, <1>10, <1>11, <1>12 DEF PoolStays, InStep

LEMMA AddRowKeepsPool ==
  ASSUME IInv, InStep(db, tx, pool), NEW p \in Session, AddRow(p)
  PROVE  PoolStays
<1>1. PICK sub \in Subject :
        Attempt(p, ForAccount("adding", sub), {}, Added(View(p), sub))
  BY DEF AddRow
<1>. DEFINE s == tx[p].snapshot
            r == ForAccount("adding", sub)
            after == Added(s, sub)
<1>2. tx[p].open /\ UNCHANGED pool /\ AttemptThen(p, r, {}, after, NoRequest)
  BY <1>1 DEF AddRow, Attempt, View
<1>3. DatabaseOK(s)
  BY <1>2 DEF IInv, TypeOK, TransactionOK
<1>4. \A o \in Subject : after[UserRow(o)] = Gone => s[UserRow(o)] = Gone
  <2>1. [avatar |-> NoFile] # Gone
    BY NotRows DEF UserRecord
  <2>. QED
    BY <1>3, <2>1, RowsDiffer, RowsExist DEF Added, DatabaseOK
<1>5. ~At(r, Outside) /\ Inert(NoRequest)
  BY InertRequests, InsideIsInert
<1>. HIDE DEF after, r
<1>. QED
  BY <1>2, <1>4, <1>5, AttemptKeepsPool DEF Inert

LEMMA SetAvatarKeepsPool ==
  ASSUME IInv, NEW p \in Session, tx[p].open, NEW sub \in Subject,
         Exists(tx[p].snapshot, UserRow(sub)), NEW f \in File \cup {NoFile}
  PROVE  \A o \in Subject : WithAvatar(tx[p].snapshot, sub, f)[UserRow(o)] = Gone =>
           tx[p].snapshot[UserRow(o)] = Gone
<1>1. DatabaseOK(tx[p].snapshot)
  BY DEF IInv, TypeOK, TransactionOK
<1>2. [avatar |-> f] # Gone
  BY NotRows DEF UserRecord
<1>. DEFINE s == tx[p].snapshot
<1>3. \A o \in Subject : WithAvatar(s, sub, f)[UserRow(o)] =
        IF o = sub THEN [avatar |-> f] ELSE s[UserRow(o)]
  <2>. HIDE DEF s
  <2>. QED
    BY <1>1, WithAvatarRows DEF s
<1>. QED
  BY <1>2, <1>3

LEMMA CleaningIsInert ==
  ASSUME NEW fs \in SUBSET File
  PROVE  Inert(Cleaning(fs, NoRequest))
BY CleaningDeletes, UnfinishedRequests, MarkersAssumption DEF Inert

LEMMA RemoveAvatarKeepsPool ==
  ASSUME IInv, InStep(db, tx, pool), NEW p \in Session, NEW sub \in Subject,
         RemoveAvatar(p, sub)
  PROVE  PoolStays
<1>. DEFINE s == tx[p].snapshot
            r == SettingAvatar(sub, NoUpload)
            after == WithAvatar(s, sub, NoFile)
            next == Cleaning(Keys(Avatar(s, sub)), NoRequest)
<1>1. /\ tx[p].open /\ Exists(s, UserRow(sub)) /\ UNCHANGED pool
      /\ AttemptThen(p, r, {}, after, next)
  BY DEF RemoveAvatar, Serves, View, Replaced
<1>2. DatabaseOK(s)
  BY <1>1 DEF IInv, TypeOK, TransactionOK
<1>3. Inert(next)
  BY <1>1, <1>2, AvatarType, CleaningIsInert
<1>4. ~At(r, Outside)
  BY InertRequests
<1>5. \A o \in Subject : after[UserRow(o)] = Gone => s[UserRow(o)] = Gone
  BY <1>1, SetAvatarKeepsPool
<1>. HIDE DEF after, next, r
<1>. QED
  BY <1>1, <1>3, <1>4, <1>5, AttemptKeepsPool DEF Inert

LEMMA AttachAvatarKeepsPool ==
  ASSUME IInv, InStep(db, tx, pool), NEW p \in Session, AttachAvatar(p)
  PROVE  PoolStays
<1>. DEFINE s == tx[p].snapshot
            sub == Purpose(p).by
            after == WithAvatar(s, sub, InHand(p))
            next == Cleaning(Keys(Avatar(s, sub)), NoRequest)
            failed == Discarding(p)
<1>1. /\ tx[p].open /\ InStage(p, {"consuming", "attaching"}) /\ Exists(s, UserRow(sub))
      /\ Attach(p, {}, after, next) /\ UNCHANGED pool
  BY DEF AttachAvatar, InStage, View, Replaced
<1>2. sub \in Subject /\ InHand(p) \in File
  BY <1>1, AvatarInHand DEF InStage
<1>3. DatabaseOK(s)
  BY <1>1 DEF IInv, TypeOK, TransactionOK
<1>4. Inert(next) /\ Inert(failed)
  BY <1>1, <1>2, <1>3, AvatarType, CleaningIsInert, DiscardingIsInert
<1>5. \A o \in Subject : after[UserRow(o)] = Gone => s[UserRow(o)] = Gone
  BY <1>1, <1>2, SetAvatarKeepsPool
<1>6. Inert(tx[p].request)
  BY <1>1, InsideIsInert DEF InStep
<1>7. \/ Commit(p, {}, after, next)
      \/ Commit(p, {}, after, failed)
      \/ LoseRaceElse(p, tx[p].request, {}, after, failed)
  BY <1>1 DEF Attach
<1>. HIDE DEF after, next, failed
<1>8. \A n \in {next, failed} : Commit(p, {}, after, n) => PoolStays
  BY <1>1, <1>4, <1>5, CommitKeepsPool DEF Inert
<1>. QED
  BY <1>1, <1>4, <1>6, <1>7, <1>8, LoseRaceKeepsPool

(* The row goes, and the request goes on to the pool.                      *)
LEMMA DeleteAccountKeepsPool ==
  ASSUME IInv, InStep(db, tx, pool), NEW p \in Session, NEW sub \in Subject,
         DeleteAccount(p, sub)
  PROVE  PoolStays
<1>. DEFINE s == tx[p].snapshot
            r == ForAccount("delete", sub)
            after == [s EXCEPT ![UserRow(sub)] = Gone, ![EmailRow(EmailOf[sub])] = Absent]
            then == ForAccount("deleting_in_pool", sub)
            next == Cleaning(Keys(Avatar(s, sub)), then)
<1>1. /\ tx[p].open /\ Exists(s, UserRow(sub)) /\ UNCHANGED pool
      /\ SignedIn(sub) /\ AttemptThen(p, r, {}, after, next)
  BY DEF DeleteAccount, Serves, View, AfterDeletion
<1>2. DatabaseOK(s)
  BY <1>1 DEF IInv, TypeOK, TransactionOK
<1>3. /\ ~At(next, {"creating_in_pool"})
      /\ \A o \in Subject : Deletes(next, o) <=> o = sub
  <2>1. then \in ForAccounts({"deleting_in_pool"}) \cup {NoRequest}
    BY DEF ForAccount, ForAccounts
  <2>2. \A o \in Subject : then = ForAccount("deleting_in_pool", o) <=> o = sub
    BY DEF ForAccount
  <2>3. Keys(Avatar(s, sub)) \in SUBSET File
    BY <1>1, <1>2, AvatarType
  <2>. HIDE DEF then
  <2>. QED
    BY <2>1, <2>2, <2>3, CleaningDeletes
<1>4. ~At(r, Outside)
  BY InertRequests
<1>5. \A o \in Subject : after[UserRow(o)] = Gone => o = sub \/ s[UserRow(o)] = Gone
  BY <1>2, RowsDiffer, RowsExist DEF DatabaseOK
<1>. HIDE DEF after, next, r
<1>. QED
  BY <1>1, <1>3, <1>4, <1>5, AttemptKeepsPool

LEMMA NextKeepsPool ==
  ASSUME IInv, InStep(db, tx, pool), [Next]_vars
  PROVE  PoolStays
<1>1. ASSUME NEW p \in Session, NEW sub \in Subject,
             \/ EnsureAccount(p, sub) \/ RequestAvatarUpload(p, sub)
             \/ \E u \in Upload : ReadAvatar(p, sub, u)
      PROVE  PoolStays
  <2>1. ~At(tx[p].request, Outside)
    BY <1>1, InertRequests DEF EnsureAccount, RequestAvatarUpload, ReadAvatar, Asks, Serves
  <2>2. ~At(ForAccount("adding", sub), Outside)
    BY InertRequests
  <2>3. \A u : ~At(Storing("storing", SettingAvatar(sub, u), NoFile), Outside)
    BY InertRequests
  <2>. QED
    BY <1>1, <2>1, <2>2, <2>3, GoOnKeepsPool, IdleKeepsPool
       DEF EnsureAccount, RequestAvatarUpload, ReadAvatar, StartStoring, RefuseUpload
<1>2. CASE UNCHANGED vars
  BY <1>2 DEF vars, PoolStays
<1>3. CASE Next
  <2>1. PICK p \in Session :
          \/ MediaStep(p) /\ UNCHANGED pool
          \/ SetPassword(p) \/ AddRow(p) \/ AttachAvatar(p) \/ DeleteInPool(p)
          \/ \E sub \in Subject :
               \/ CreateInPool(p, sub) \/ EnsureAccount(p, sub) \/ DeleteAccount(p, sub)
               \/ RequestAvatarUpload(p, sub) \/ RemoveAvatar(p, sub)
               \/ \E u \in Upload : ReadAvatar(p, sub, u)
    BY <1>3 DEF Next
  <2>. QED
    BY <1>1, <2>1, MediaStepKeepsPool, SetPasswordKeepsPool, AddRowKeepsPool,
       AttachAvatarKeepsPool, DeleteInPoolKeepsPool, CreateInPoolKeepsPool,
       DeleteAccountKeepsPool, RemoveAvatarKeepsPool
<1>. QED
  BY <1>2, <1>3

-----------------------------------------------------------------------------
(*                        The pool: the theorems                           *)

LEMMA InitPool == Init => PoolInStep /\ DeletedInBoth
<1>. SUFFICES ASSUME Init PROVE InStep(db, tx, pool) /\ InBoth(db, tx, pool)
  BY InStepNow, InBothNow
<1>1. \A p \in Session : ~tx[p].open /\ tx[p].request = NoRequest
  BY DEF Init, MediaInit, Idle, Waiting
<1>2. ~At(NoRequest, Outside) /\ Inert(NoRequest)
  BY InertRequests, InsideIsInert
<1>3. \A sub \in Subject : db[UserRow(sub)] # Gone
  BY RowsExist, MarkersAssumption DEF Init
<1>. QED
  BY <1>1, <1>2, <1>3 DEF InStep, InBoth, Inert, Creates, At

(* Rows and pool accounts move in step, whoever dies and whatever fails: a *)
(* row is only ever deleted for an account the pool could sign in, and one *)
(* request alone sets its password.                                        *)
THEOREM PoolAndRowsInStep == Spec => []PoolInStep
<1>1. IInv /\ PoolInStep /\ [Next]_vars => PoolInStep'
  BY NextKeepsPool, InStepNow, InStepNext DEF PoolStays
<1>2. Init => PoolInStep
  BY InitPool
<1>. QED
  BY SnapshotsAgree, <1>1, <1>2, PTL DEF Spec

(* When nobody dies and the pool deletes what it is told to, an account    *)
(* that was deleted ends in both stores.                                   *)
THEOREM DeletionsReachThePool ==
  ASSUME DeletionsSucceed
  PROVE  Spec => []DeletedInBoth
<1>1. IInv /\ PoolInStep /\ DeletedInBoth /\ [Next]_vars => DeletedInBoth'
  BY NextKeepsPool, InStepNow, InBothNow, InBothNext DEF PoolStays
<1>2. Init => DeletedInBoth
  BY InitPool
<1>. QED
  BY SnapshotsAgree, PoolAndRowsInStep, <1>1, <1>2, PTL DEF Spec
==============================================================================
